---------------------------- MODULE TimerProofs ----------------------------
(***************************************************************************)
(* Proofs about Timer, for any width of the counter, clocks, values stored *)
(* and number of accesses: an update is always queued in time for the next *)
(* interrupt, and a cleared master flag has an event that sets it again.   *)
(*                                                                         *)
(* The ticks of an update and the cycles of an instruction are counted out *)
(* by recursive functions.  The first part is what that takes: that every  *)
(* nonempty set of naturals has a least element, from which induction for  *)
(* sets and the existence of iterated functions follow.                    *)
(*                                                                         *)
(* The last part is about Gpu, whose scanlines clock the timers: images    *)
(* are stored to and read from their place in video memory, textured       *)
(* rectangles show the texels that are stored, polygons are whole and      *)
(* lines straight.                                                         *)
(***************************************************************************)
EXTENDS Timer, Gpu, SequenceTheorems, FiniteSetTheorems, WellFoundedInduction, TLAPS

\* By the finite sets below the numbers, which are well-founded by inclusion.
LEMMA LeastNat ==
  ASSUME NEW T \in SUBSET Nat, T # {}
  PROVE  \E x \in T : \A y \in T : x <= y
<1> DEFINE R == StrictSubsetOrdering(Nat)
           Below == {1 .. n : n \in T}
<1>1. Below \subseteq FiniteSubsetsOf(Nat)
  BY FS_Interval DEF FiniteSubsetsOf
<1>2. Below # {}
  OBVIOUS
<1>3. IsWellFoundedOn(R, FiniteSubsetsOf(Nat))
  BY FS_StrictSubsetOrderingWellFounded
<1>4. \E b \in Below : \A c \in Below : ~ (<<c, b>> \in R)
  <2> HIDE DEF Below, R
  <2> QED
    BY <1>1, <1>2, <1>3, WFMin
<1>5. PICK x \in T : \A y \in T : ~ (<<1 .. y, 1 .. x>> \in R)
  BY <1>4
<1>6. ASSUME NEW y \in T PROVE x <= y
  <2>1. y < x => 1 .. y \subseteq 1 .. x /\ x \notin 1 .. y /\ x \in 1 .. x
    OBVIOUS
  <2>2. 1 .. y \in SUBSET Nat /\ 1 .. x \in SUBSET Nat
    OBVIOUS
  <2>3. 1 .. y \subseteq 1 .. x /\ 1 .. y # 1 .. x => <<1 .. y, 1 .. x>> \in R
    BY <2>2 DEF StrictSubsetOrdering
  <2> QED
    BY <1>5, <2>1, <2>3
<1> QED
  BY <1>6

LEMMA SetInduction ==
  ASSUME NEW T \in SUBSET Nat, 0 \in T, \A n \in T : n + 1 \in T
  PROVE  \A n \in Nat : n \in T
<1> SUFFICES ASSUME Nat \ T # {} PROVE FALSE
  OBVIOUS
<1>1. PICK x \in Nat \ T : \A y \in Nat \ T : x <= y
  <2>1. Nat \ T \in SUBSET Nat
    OBVIOUS
  <2> QED
    BY <2>1, LeastNat
<1>2. x # 0 /\ x - 1 \in Nat
  BY <1>1
<1>3. x - 1 \in T
  BY <1>1, <1>2
<1>4. (x - 1) + 1 = x
  BY <1>1
<1> QED
  BY <1>1, <1>3, <1>4

-----------------------------------------------------------------------------
\* A function of a set into itself can be iterated.
Upto(S, step, s, n) ==
  {g \in [0 .. n -> S] : g[0] = s /\ \A i \in 0 .. n - 1 : g[i + 1] = step[g[i]]}

LEMMA UptoExists ==
  ASSUME NEW S, NEW step \in [S -> S], NEW s \in S
  PROVE  \A n \in Nat : Upto(S, step, s, n) # {}
<1> DEFINE T == {n \in Nat : Upto(S, step, s, n) # {}}
<1>1. 0 \in T
  <2> DEFINE g == [i \in 0 .. 0 |-> s]
  <2>1. g \in Upto(S, step, s, 0)
    BY DEF Upto
  <2> QED
    BY <2>1
<1>2. ASSUME NEW n \in T PROVE n + 1 \in T
  <2>1. n \in Nat /\ n + 1 \in Nat
    OBVIOUS
  <2>2. PICK g : g \in Upto(S, step, s, n)
    OBVIOUS
  <2> DEFINE h == [i \in 0 .. n + 1 |-> IF i = n + 1 THEN step[g[n]] ELSE g[i]]
  <2>3. g \in [0 .. n -> S] /\ g[0] = s /\ \A i \in 0 .. n - 1 : g[i + 1] = step[g[i]]
    BY <2>2 DEF Upto
  <2>4. g[n] \in S /\ step[g[n]] \in S
    BY <2>1, <2>3
  <2>5. h \in [0 .. n + 1 -> S] /\ h[0] = s
    BY <2>1, <2>3, <2>4
  <2>6. ASSUME NEW i \in 0 .. (n + 1) - 1 PROVE h[i + 1] = step[h[i]]
    <3>1. h[i] = g[i] /\ i + 1 \in 0 .. n + 1
      BY <2>1
    <3>2. CASE i = n
      BY <2>1, <3>1, <3>2
    <3>3. CASE i # n
      <4>1. i \in 0 .. n - 1 /\ h[i + 1] = g[i + 1]
        BY <2>1, <3>3
      <4> QED
        BY <2>3, <3>1, <4>1
    <3> QED
      BY <3>2, <3>3
  <2> HIDE DEF h
  <2>7. h \in Upto(S, step, s, n + 1)
    BY <2>5, <2>6 DEF Upto
  <2> QED
    BY <2>1, <2>7
<1>3. T \in SUBSET Nat
  OBVIOUS
<1> HIDE DEF T
<1>4. \A n \in Nat : n \in T
  BY <1>1, <1>2, <1>3, SetInduction
<1> QED
  BY <1>4 DEF T

LEMMA UptoAgree ==
  ASSUME NEW S, NEW step \in [S -> S], NEW s \in S, NEW m \in Nat, NEW n \in Nat, m <= n,
         NEW g \in Upto(S, step, s, m), NEW h \in Upto(S, step, s, n)
  PROVE  g[m] = h[m]
<1> DEFINE T == {i \in Nat : i <= m => g[i] = h[i]}
<1>1. g[0] = s /\ h[0] = s /\ 0 \in T
  BY DEF Upto
<1>2. ASSUME NEW i \in T PROVE i + 1 \in T
  <2>1. CASE i + 1 <= m
    <3>1. i \in 0 .. m - 1 /\ i \in 0 .. n - 1 /\ g[i] = h[i]
      BY <2>1
    <3>2. g[i + 1] = step[g[i]] /\ h[i + 1] = step[h[i]]
      BY <3>1 DEF Upto
    <3> QED
      BY <3>1, <3>2
  <2>2. CASE ~(i + 1 <= m)
    BY <2>2
  <2> QED
    BY <2>1, <2>2
<1>3. T \in SUBSET Nat
  OBVIOUS
<1> HIDE DEF T
<1>4. m \in T
  BY <1>1, <1>2, <1>3, SetInduction
<1> QED
  BY <1>4 DEF T

Iterates(f, S, step, s) ==
  f \in [Nat -> S] /\ f[0] = s /\ \A n \in Nat : f[n + 1] = step[f[n]]

LEMMA Iterated ==
  ASSUME NEW S, NEW step \in [S -> S], NEW s \in S
  PROVE  \E f : Iterates(f, S, step, s)
<1> DEFINE g(n) == CHOOSE x : x \in Upto(S, step, s, n)
           f == [n \in Nat |-> g(n)[n]]
<1>1. ASSUME NEW n \in Nat PROVE g(n) \in Upto(S, step, s, n)
  BY UptoExists
<1> HIDE DEF g
<1>2. ASSUME NEW n \in Nat PROVE g(n) \in [0 .. n -> S] /\ g(n)[0] = s /\ g(n)[n] \in S
  <2>1. n \in 0 .. n
    OBVIOUS
  <2> QED
    BY <1>1, <2>1 DEF Upto
<1>3. f \in [Nat -> S] /\ f[0] = s
  BY <1>2
<1>4. ASSUME NEW n \in Nat PROVE f[n + 1] = step[f[n]]
  <2>1. n + 1 \in Nat /\ n <= n + 1 /\ n \in 0 .. (n + 1) - 1
    OBVIOUS
  <2>2. g(n) \in Upto(S, step, s, n) /\ g(n + 1) \in Upto(S, step, s, n + 1)
    BY <1>1, <2>1
  <2>3. g(n)[n] = g(n + 1)[n]
    BY <2>1, <2>2, UptoAgree
  <2>4. g(n + 1)[n + 1] = step[g(n + 1)[n]]
    BY <2>1, <2>2 DEF Upto
  <2> QED
    BY <2>1, <2>3, <2>4
<1> HIDE DEF f
<1>5. Iterates(f, S, step, s)
  BY <1>3, <1>4 DEF Iterates
<1> QED
  BY <1>5

-----------------------------------------------------------------------------
\* Time passing: the bag of an event's delays.
SomeIn(bag) == \E d \in DOMAIN bag : bag[d] > 0

Aged(b, D) ==
  [d \in D |-> IF d = 0 THEN b[0] + b[1] ELSE IF d + 1 \in D THEN b[d + 1] ELSE 0]

LEMMA AgedKeeps ==
  ASSUME NEW m \in Nat \ {0}, NEW b \in [0 .. m -> Nat]
  PROVE  Aged(b, 0 .. m) \in [0 .. m -> Nat] /\ (SomeIn(b) => SomeIn(Aged(b, 0 .. m)))
<1> DEFINE a == Aged(b, 0 .. m)
<1>1. 0 \in 0 .. m /\ 1 \in 0 .. m /\ b[0] \in Nat /\ b[1] \in Nat
  OBVIOUS
<1>2. ASSUME NEW d \in 0 .. m
      PROVE  (IF d = 0 THEN b[0] + b[1] ELSE IF d + 1 \in 0 .. m THEN b[d + 1] ELSE 0) \in Nat
  BY <1>1
<1>3. a \in [0 .. m -> Nat]
  BY <1>2 DEF Aged
<1>4. ASSUME SomeIn(b) PROVE SomeIn(a)
  <2>1. PICK d \in 0 .. m : b[d] > 0
    BY <1>4 DEF SomeIn
  <2>2. CASE d \in {0, 1}
    <3>1. a[0] = b[0] + b[1]
      BY <1>1 DEF Aged
    <3>2. a[0] > 0
      BY <1>1, <2>1, <2>2, <3>1
    <3> QED
      BY <1>1, <1>3, <3>2 DEF SomeIn
  <2>3. CASE d \notin {0, 1}
    <3>1. d - 1 \in 0 .. m /\ d - 1 # 0 /\ (d - 1) + 1 = d
      BY <2>3
    <3>2. a[d - 1] = b[d]
      BY <3>1 DEF Aged
    <3> QED
      BY <1>3, <2>1, <3>1, <3>2 DEF SomeIn
  <2> QED
    BY <2>2, <2>3
<1> QED
  BY <1>3, <1>4

LEMMA LaterKeeps ==
  ASSUME NEW m \in Nat \ {0}, NEW bag \in [0 .. m -> Nat], NEW k \in Nat
  PROVE  Later(bag, k) \in [0 .. m -> Nat] /\ (SomeIn(bag) => SomeIn(Later(bag, k)))
<1> DEFINE S == {b \in [0 .. m -> Nat] : SomeIn(bag) => SomeIn(b)}
           step == [b \in S |-> Aged(b, 0 .. m)]
           aged == CHOOSE f : f = [n \in Nat |-> IF n = 0 THEN bag ELSE Aged(f[n - 1], 0 .. m)]
<1>1. step \in [S -> S] /\ bag \in S
  BY AgedKeeps
<1>2. Later(bag, k) = aged[k]
  BY DEF Later, Aged
<1>3. aged = [n \in Nat |-> IF n = 0 THEN bag ELSE Aged(aged[n - 1], 0 .. m)]
  <2> HIDE DEF S
  <2>0. \A b \in S : step[b] = Aged(b, 0 .. m)
    OBVIOUS
  <2> HIDE DEF step
  <2>a. PICK f : Iterates(f, S, step, bag)
    BY <1>1, Iterated
  <2>1. f \in [Nat -> S] /\ f[0] = bag /\ \A n \in Nat : f[n + 1] = step[f[n]]
    BY <2>a DEF Iterates
  <2>2. ASSUME NEW n \in Nat PROVE f[n] = IF n = 0 THEN bag ELSE Aged(f[n - 1], 0 .. m)
    <3>1. CASE n # 0
      <4>1. n - 1 \in Nat /\ (n - 1) + 1 = n
        BY <3>1
      <4>2. f[n] = step[f[n - 1]] /\ f[n - 1] \in S
        BY <2>1, <4>1
      <4> QED
        BY <2>0, <3>1, <4>2
    <3> QED
      BY <2>1, <3>1
  <2>3. f = [n \in Nat |-> IF n = 0 THEN bag ELSE Aged(f[n - 1], 0 .. m)]
    BY <2>1, <2>2
  <2> QED
    BY <2>3, Zenon
<1> HIDE DEF aged
<1> DEFINE T == {n \in Nat : aged[n] \in S}
<1>4. 0 \in T
  BY <1>1, <1>3
<1>5. ASSUME NEW n \in T PROVE n + 1 \in T
  <2>1. n + 1 \in Nat /\ n + 1 # 0 /\ (n + 1) - 1 = n /\ aged[n] \in S
    OBVIOUS
  <2>2. aged[n + 1] = Aged(aged[n], 0 .. m)
    BY <1>3, <2>1
  <2>3. Aged(aged[n], 0 .. m) \in S
    BY <2>1, AgedKeeps
  <2> QED
    BY <2>1, <2>2, <2>3
<1>6. T \in SUBSET Nat
  OBVIOUS
<1>7. k \in T
  <2> HIDE DEF T
  <2> QED
    BY <1>4, <1>5, <1>6, SetInduction
<1> QED
  BY <1>2, <1>7

-----------------------------------------------------------------------------
\* The timer.  Fields of which only their being there matters are said to be
\* what they are.
TimerOK(s) ==
  s \in [id : {"tmr1", "tmr2"}, mode : SUBSET Bits, counter : 0 .. MAX, target : 0 .. MAX,
         has_triggered : BOOLEAN, since : Nat, next_update : Nat \cup {NoEvent}, stale : {s.stale},
         rearm : [0 .. REARM -> Nat], line : {s.line}, irq : BOOLEAN]

\* What MasterFlagReturns says, of a mode and the events on their way.
ReturnsIn(bits, rearm) ==
  ("on_target" \in bits \/ "on_overflow" \in bits) /\ "toggle" \notin bits /\ "master" \notin bits =>
    SomeIn(rearm)

Returns(s) == ReturnsIn(s.mode, s.rearm)

\* What is left of a timer by counting.
Counted(s) ==
  {t \in [id : {s.id}, mode : SUBSET Bits, counter : 0 .. MAX, target : {s.target},
          has_triggered : BOOLEAN, since : {s.since}, next_update : {s.next_update},
          stale : {s.stale}, rearm : [0 .. REARM -> Nat], line : {s.line}, irq : BOOLEAN] :
     Returns(t) /\ ("alt" \in t.mode <=> "alt" \in s.mode)}

LEMMA CountedFrom ==
  ASSUME NEW s, TimerOK(s), Returns(s)
  PROVE  s \in Counted(s)
BY DEF TimerOK, Counted

LEMMA CountedOK ==
  ASSUME NEW s, TimerOK(s), NEW t \in Counted(s)
  PROVE  TimerOK(t) /\ Returns(t) /\ t.since = s.since /\ t.id = s.id
         /\ ("alt" \in t.mode <=> "alt" \in s.mode)
BY DEF TimerOK, Counted

LEMMA SetFields ==
  ASSUME NEW s, NEW t \in Counted(s), NEW bits \in SUBSET Bits, NEW rearm \in [0 .. REARM -> Nat],
         NEW h \in BOOLEAN, NEW i \in BOOLEAN, ReturnsIn(bits, rearm),
         "alt" \in bits <=> "alt" \in t.mode
  PROVE  [t EXCEPT !.mode = bits, !.rearm = rearm, !.has_triggered = h, !.irq = i] \in Counted(s)
BY DEF Counted, Returns

LEMMA SetMode ==
  ASSUME NEW s, NEW t \in Counted(s), NEW bits \in SUBSET Bits, ReturnsIn(bits, t.rearm),
         "alt" \in bits <=> "alt" \in t.mode
  PROVE  [t EXCEPT !.mode = bits] \in Counted(s)
BY DEF Counted, Returns

LEMMA SetCounter ==
  ASSUME NEW s, NEW t \in Counted(s), NEW c \in 0 .. MAX
  PROVE  [t EXCEPT !.counter = c] \in Counted(s) /\ [t EXCEPT !.counter = c].mode = t.mode
         /\ [t EXCEPT !.counter = c].target = t.target
BY DEF Counted, Returns

LEMMA ReachedBits ==
  ASSUME NEW s, NEW t \in Counted(s), NEW bit \in {"target", "overflow"}
  PROVE  set(t, bit, TRUE) \in Counted(s)
<1> DEFINE m == t.mode \cup {bit}
<1>1. t.mode \in SUBSET Bits /\ ReturnsIn(t.mode, t.rearm)
  BY DEF Counted, Returns
<1>2. m \in SUBSET Bits /\ ("alt" \in m <=> "alt" \in t.mode)
  BY <1>1 DEF Bits
<1>3. ReturnsIn(m, t.rearm)
  BY <1>1 DEF ReturnsIn
<1>4. set(t, bit, TRUE) = [t EXCEPT !.mode = m]
  BY DEF set
<1> HIDE DEF m
<1> QED
  BY <1>2, <1>3, <1>4, SetMode

LEMMA TriggerKeeps ==
  ASSUME NEW s, NEW t \in Counted(s)
  PROVE  trigger_irq(t) \in Counted(s)
<1> DEFINE i == t.irq \/ has(t, "master")
           f == [t EXCEPT !.has_triggered = TRUE, !.irq = i]
<1>1. /\ t.mode \in SUBSET Bits /\ ReturnsIn(t.mode, t.rearm) /\ t.rearm \in [0 .. REARM -> Nat]
      /\ i \in BOOLEAN
  BY DEF Counted, Returns
<1>2. CASE ~has(t, "repeat") /\ t.has_triggered
  BY <1>2 DEF trigger_irq
<1>3. CASE ~(~has(t, "repeat") /\ t.has_triggered) /\ has(t, "toggle")
  <2> DEFINE m == IF has(t, "master") THEN t.mode \ {"master"} ELSE t.mode \cup {"master"}
             g == [t EXCEPT !.mode = m, !.rearm = t.rearm, !.has_triggered = TRUE, !.irq = i]
  <2>1. trigger_irq(t) = set(f, "master", ~has(t, "master"))
    BY <1>3 DEF trigger_irq
  <2>2. set(f, "master", ~has(t, "master")) = [f EXCEPT !.mode = m]
    <3> HIDE DEF i
    <3>1. f.mode = t.mode
      BY DEF Counted
    <3> QED
      BY <3>1 DEF set
  <2>3. m \in SUBSET Bits /\ "toggle" \in m /\ ("alt" \in m <=> "alt" \in t.mode)
    BY <1>1, <1>3 DEF Bits, has
  <2> HIDE DEF m, i
  <2>4. [f EXCEPT !.mode = m] = g
    BY DEF Counted
  <2>5. ReturnsIn(m, t.rearm)
    BY <2>3 DEF ReturnsIn
  <2>6. g \in Counted(s)
    BY <1>1, <2>3, <2>5, SetFields
  <2> QED
    BY <2>1, <2>2, <2>4, <2>6
<1>4. CASE ~(~has(t, "repeat") /\ t.has_triggered) /\ ~has(t, "toggle")
  <2> DEFINE m == t.mode \ {"master"}
             n == t.rearm[REARM] + 1
             r == [t.rearm EXCEPT ![REARM] = n]
             g == [t EXCEPT !.mode = m, !.rearm = r, !.has_triggered = TRUE, !.irq = i]
  <2>1. trigger_irq(t) = set([f EXCEPT !.rearm[REARM] = @ + 1], "master", FALSE)
    BY <1>4 DEF trigger_irq
  <2>2. REARM \in 0 .. REARM /\ n \in Nat /\ n > 0
    BY <1>1, TimerAssumption
  <2>3. r \in [0 .. REARM -> Nat] /\ SomeIn(r)
    <3> HIDE DEF n
    <3> QED
      BY <1>1, <2>2 DEF SomeIn
  <2>4. m \in SUBSET Bits /\ ("alt" \in m <=> "alt" \in t.mode)
    BY <1>1 DEF Bits
  <2>5. [f EXCEPT !.rearm[REARM] = @ + 1] = [f EXCEPT !.rearm = r]
    <3> HIDE DEF i
    <3> QED
      BY DEF Counted
  <2> HIDE DEF r, i
  <2>6. set([f EXCEPT !.rearm = r], "master", FALSE) = g
    <3>1. [f EXCEPT !.rearm = r].mode = t.mode
      BY DEF Counted
    <3>2. set([f EXCEPT !.rearm = r], "master", FALSE) = [[f EXCEPT !.rearm = r] EXCEPT !.mode = m]
      BY <3>1 DEF set
    <3> HIDE DEF m
    <3>3. [[f EXCEPT !.rearm = r] EXCEPT !.mode = m] = g
      BY DEF Counted
    <3> QED
      BY <3>2, <3>3
  <2>7. ReturnsIn(m, r)
    BY <2>3 DEF ReturnsIn
  <2> HIDE DEF m
  <2>8. g \in Counted(s)
    BY <1>1, <2>3, <2>4, <2>7, SetFields
  <2> QED
    BY <2>1, <2>5, <2>6, <2>8
<1> QED
  BY <1>2, <1>3, <1>4

LEMMA TargetKeeps ==
  ASSUME NEW s, NEW t \in Counted(s)
  PROVE  target_reached(t) \in Counted(s)
<1> DEFINE c == IF has(t, "reset") THEN 0 ELSE t.counter
           u == [t EXCEPT !.counter = c]
           r == set(u, "target", TRUE)
<1>1. c \in 0 .. MAX
  BY TimerAssumption DEF Counted
<1>2. target_reached(t) = IF has(t, "on_target") THEN trigger_irq(r) ELSE r
  BY DEF target_reached
<1> HIDE DEF c
<1>3. u \in Counted(s)
  BY <1>1, SetCounter
<1> HIDE DEF u
<1>4. r \in Counted(s)
  BY <1>3, ReachedBits
<1> HIDE DEF r
<1> QED
  BY <1>2, <1>4, TriggerKeeps

LEMMA AddKeeps ==
  ASSUME NEW s, NEW t \in Counted(s), NEW add \in Nat
  PROVE  add_to_counter(t, add) \in Counted(s)
<1> DEFINE v == (t.counter + add) % (MAX + 1)
           moved == [t EXCEPT !.counter = v]
           hit == IF t.target > t.counter THEN target_reached(moved) ELSE moved
           over == IF has(hit, "on_overflow") THEN trigger_irq(hit) ELSE hit
<1>1. v \in 0 .. MAX
  BY TimerAssumption DEF Counted
<1>2. add_to_counter(t, add) = IF t.counter + add > MAX THEN set(over, "overflow", TRUE)
                               ELSE IF v >= t.target THEN target_reached(moved) ELSE moved
  BY DEF add_to_counter
<1> HIDE DEF v
<1>3. moved \in Counted(s)
  BY <1>1, SetCounter
<1> HIDE DEF moved
<1>4. target_reached(moved) \in Counted(s)
  BY <1>3, TargetKeeps
<1>5. hit \in Counted(s)
  BY <1>3, <1>4
<1> HIDE DEF hit
<1>6. over \in Counted(s)
  BY <1>5, TriggerKeeps
<1> HIDE DEF over
<1>7. set(over, "overflow", TRUE) \in Counted(s)
  BY <1>6, ReachedBits
<1> QED
  BY <1>2, <1>3, <1>4, <1>7

\* `run` counts the ticks in portions.
LEMMA RunKeeps ==
  ASSUME NEW s, TimerOK(s), Returns(s), NEW ticks \in Nat
  PROVE  run(s, ticks) \in Counted(s)
<1> DEFINE S == Counted(s)
           step == [t \in S |-> add_to_counter(t, MAX)]
           part == CHOOSE f : f = [n \in Nat |-> IF n = 0 THEN s ELSE add_to_counter(f[n - 1], MAX)]
<1>0. MAX \in Nat /\ MAX # 0
  BY TimerAssumption
<1>1. step \in [S -> S] /\ s \in S
  BY <1>0, AddKeeps, CountedFrom
<1>2. run(s, ticks) = add_to_counter(part[ticks \div MAX], ticks % MAX)
  BY DEF run
<1>3. part = [n \in Nat |-> IF n = 0 THEN s ELSE add_to_counter(part[n - 1], MAX)]
  <2> HIDE DEF S
  <2>0. \A t \in S : step[t] = add_to_counter(t, MAX)
    OBVIOUS
  <2> HIDE DEF step
  <2>a. PICK f : Iterates(f, S, step, s)
    BY <1>1, Iterated
  <2>1. f \in [Nat -> S] /\ f[0] = s /\ \A n \in Nat : f[n + 1] = step[f[n]]
    BY <2>a DEF Iterates
  <2>2. ASSUME NEW n \in Nat PROVE f[n] = IF n = 0 THEN s ELSE add_to_counter(f[n - 1], MAX)
    <3>1. CASE n # 0
      <4>1. n - 1 \in Nat /\ (n - 1) + 1 = n
        BY <3>1
      <4>2. f[n] = step[f[n - 1]] /\ f[n - 1] \in S
        BY <2>1, <4>1
      <4> QED
        BY <2>0, <3>1, <4>2
    <3> QED
      BY <2>1, <3>1
  <2>3. f = [n \in Nat |-> IF n = 0 THEN s ELSE add_to_counter(f[n - 1], MAX)]
    BY <2>1, <2>2
  <2> QED
    BY <2>3, Zenon
<1> HIDE DEF part, S
<1> DEFINE T == {n \in Nat : part[n] \in S}
<1>4. 0 \in T
  BY <1>1, <1>3
<1>5. ASSUME NEW n \in T PROVE n + 1 \in T
  <2>1. n + 1 \in Nat /\ n + 1 # 0 /\ (n + 1) - 1 = n /\ part[n] \in S
    OBVIOUS
  <2>2. part[n + 1] = add_to_counter(part[n], MAX)
    BY <1>3, <2>1
  <2>3. add_to_counter(part[n], MAX) \in S
    BY <1>0, <2>1, AddKeeps DEF S
  <2> QED
    BY <2>1, <2>2, <2>3
<1>6. T \in SUBSET Nat
  OBVIOUS
<1>7. ticks \div MAX \in Nat /\ ticks % MAX \in Nat
  BY <1>0
<1>8. ticks \div MAX \in T
  <2> HIDE DEF T
  <2> QED
    BY <1>4, <1>5, <1>6, <1>7, SetInduction
<1>9. part[ticks \div MAX] \in S
  BY <1>8
<1> QED
  BY <1>2, <1>7, <1>9, AddKeeps DEF S

-----------------------------------------------------------------------------
\* An interrupt is predicted for no earlier than now.
LEMMA PredictType ==
  ASSUME NEW s, TimerOK(s)
  PROVE  predict_next_irq(s) \subseteq Nat /\ \A x, y \in predict_next_irq(s) : x = y
<1> DEFINE target == IF has(s, "on_target") /\ s.counter < s.target THEN s.target ELSE MAX
           ticks == target - s.counter
<1>1. s.counter \in 0 .. MAX /\ s.target \in 0 .. MAX /\ MAX \in Nat /\ DIV \in Nat
  BY TimerAssumption DEF TimerOK
<1>2. ticks \in Nat
  BY <1>1
<1>3. predict_next_irq(s) \subseteq {ticks_to_time(s, ticks)}
  BY DEF predict_next_irq
<1> HIDE DEF ticks
<1>4. ticks * DIV \in Nat
  BY <1>1, <1>2
<1>5. ticks_to_time(s, ticks) \in Nat
  BY <1>2, <1>4 DEF ticks_to_time
<1> QED
  BY <1>3, <1>5

\* The fields a prediction looks at.
SameCourse(s, t) ==
  /\ t.id = s.id /\ t.counter = s.counter /\ t.target = s.target /\ t.has_triggered = s.has_triggered
  /\ t.mode = s.mode \/ t.mode = s.mode \cup {"master"}

LEMMA SamePrediction ==
  ASSUME NEW s, NEW t, SameCourse(s, t)
  PROVE  predict_next_irq(t) = predict_next_irq(s)
<1>1. \A bit \in Bits \ {"master"} : has(t, bit) <=> has(s, bit)
  BY DEF SameCourse, has
<1>2. /\ has(t, "alt") <=> has(s, "alt")
      /\ has(t, "sync") <=> has(s, "sync")
      /\ has(t, "sync1") <=> has(s, "sync1")
      /\ has(t, "sync2") <=> has(s, "sync2")
      /\ has(t, "on_target") <=> has(s, "on_target")
      /\ has(t, "on_overflow") <=> has(s, "on_overflow")
      /\ has(t, "repeat") <=> has(s, "repeat")
  BY <1>1 DEF Bits
<1>3. t.id = s.id /\ t.counter = s.counter /\ t.target = s.target /\ t.has_triggered = s.has_triggered
  BY DEF SameCourse
<1> HIDE DEF has
<1>4. clock_source(t) = clock_source(s)
  BY <1>2, <1>3 DEF clock_source
<1>5. stopped(t) <=> stopped(s)
  BY <1>2, <1>3 DEF stopped
<1>6. \A n : ticks_to_time(t, n) = ticks_to_time(s, n)
  BY <1>4 DEF ticks_to_time
<1> HIDE DEF clock_source, stopped, ticks_to_time
<1> QED
  BY <1>2, <1>3, <1>4, <1>5, <1>6 DEF predict_next_irq

\* The update next_update names comes in time; those left over are not needed.
InTime(s) ==
  \A time \in predict_next_irq(s) :
    s.next_update # NoEvent /\ (s.next_update = 0 \/ s.next_update + s.since <= time)

Good(s) == TimerOK(s) /\ Returns(s) /\ InTime(s)

LEMMA ScheduleGood ==
  ASSUME NEW s, TimerOK(s), Returns(s), s.since = 0
  PROVE  Good(schedule_next_run(s))
<1> DEFINE due == predict_next_irq(s)
<1>1. due \subseteq Nat /\ \A x, y \in due : x = y
  BY PredictType
<1>2. CASE due # {}
  <2> DEFINE time == CHOOSE x \in due : TRUE
             t == [s EXCEPT !.next_update = time]
  <2>1. time \in due /\ time \in Nat
    BY <1>1, <1>2
  <2>2. schedule_next_run(s) = t
    BY <1>2 DEF schedule_next_run
  <2> HIDE DEF time, due
  <2>3. /\ TimerOK(t) /\ t.mode = s.mode /\ t.rearm = s.rearm /\ SameCourse(s, t)
        /\ t.next_update = time /\ t.since = 0
    BY <2>1 DEF TimerOK, SameCourse
  <2> HIDE DEF t
  <2>4. predict_next_irq(t) = due
    BY <2>3, SamePrediction DEF due
  <2>5. InTime(t)
    <3>1. ASSUME NEW x \in predict_next_irq(t)
          PROVE  t.next_update # NoEvent /\ t.next_update + t.since <= x
      <4>1. x = time
        BY <1>1, <2>1, <2>4
      <4> QED
        BY <2>1, <2>3, <4>1 DEF NoEvent
    <3> QED
      BY <3>1 DEF InTime
  <2>6. Returns(t)
    BY <2>3 DEF Returns
  <2> QED
    BY <2>2, <2>3, <2>5, <2>6 DEF Good
<1>3. CASE due = {} /\ s.next_update = NoEvent
  <2>1. schedule_next_run(s) = s
    BY <1>3 DEF schedule_next_run
  <2> QED
    BY <1>3, <2>1 DEF Good, InTime
<1>4. CASE due = {} /\ s.next_update # NoEvent
  <2> DEFINE b == [s.stale EXCEPT ![s.next_update] = @ + 1]
             t == [s EXCEPT !.stale = b, !.next_update = NoEvent]
  <2>1. schedule_next_run(s) = t
    <3>1. schedule_next_run(s) = [s EXCEPT !.stale[s.next_update] = @ + 1, !.next_update = NoEvent]
      BY <1>4 DEF schedule_next_run
    <3> QED
      BY <3>1 DEF TimerOK
  <2> HIDE DEF b, due
  <2>2. TimerOK(t) /\ t.mode = s.mode /\ t.rearm = s.rearm /\ SameCourse(s, t)
    BY DEF TimerOK, SameCourse, NoEvent
  <2> HIDE DEF t
  <2>3. predict_next_irq(t) = {}
    BY <1>4, <2>2, SamePrediction DEF due
  <2> QED
    BY <2>1, <2>2, <2>3 DEF Good, InTime, Returns
<1> QED
  BY <1>2, <1>3, <1>4

LEMMA UpdateGood ==
  ASSUME NEW s, TimerOK(s), Returns(s)
  PROVE  TimerOK(update_timer(s)) /\ Returns(update_timer(s)) /\ update_timer(s).since = 0
<1> DEFINE t == [s EXCEPT !.since = 0]
           n == time_to_ticks(s, s.since)
<1>1. TimerOK(t) /\ t.since = 0 /\ t.mode = s.mode /\ t.rearm = s.rearm
  BY DEF TimerOK
<1>2. update_timer(s) = IF clock_source(s) = "hblank" THEN t ELSE run(t, n)
  BY DEF update_timer
<1>3. n \in Nat
  <2>1. s.since \in Nat /\ DIV \in Nat /\ DIV > 0
    BY TimerAssumption DEF TimerOK
  <2>2. s.since \div DIV \in Nat
    BY <2>1
  <2>3. clock_source(s) \in {"system", "hblank", "div8"}
    BY DEF clock_source
  <2> QED
    BY <2>1, <2>2, <2>3 DEF time_to_ticks
<1> HIDE DEF t, n
<1>4. Returns(t)
  BY <1>1 DEF Returns
<1>5. run(t, n) \in Counted(t)
  BY <1>1, <1>3, <1>4, RunKeeps
<1> QED
  BY <1>1, <1>2, <1>4, <1>5, CountedOK

LEMMA RunTimerGood ==
  ASSUME NEW s, TimerOK(s), Returns(s)
  PROVE  Good(run_timer(s))
BY UpdateGood, ScheduleGood DEF run_timer

LEMMA PassGood ==
  ASSUME NEW s, TimerOK(s), Returns(s), NEW k \in Nat
  PROVE  /\ TimerOK(pass(s, k)) /\ Returns(pass(s, k))
         /\ InTime(s) => InTime(pass(s, k))
<1> DEFINE n == s.since + k
           u == left(s.next_update, k)
           l == left(s.line, k)
           o == Later(s.stale, k)
           r == Later(s.rearm, k)
           t == [s EXCEPT !.since = n, !.next_update = u, !.line = l, !.stale = o, !.rearm = r]
<1>1. pass(s, k) = t
  BY DEF pass, TimerOK
<1>2. /\ s.since \in Nat /\ s.next_update \in Nat \cup {NoEvent} /\ n \in Nat
      /\ s.rearm \in [0 .. REARM -> Nat]
  BY DEF TimerOK
<1>3. /\ u \in Nat \cup {NoEvent} /\ (s.next_update = NoEvent <=> u = NoEvent)
      /\ s.next_update # NoEvent /\ u # 0 => u = s.next_update - k
      /\ s.next_update = 0 => u = 0
  BY <1>2 DEF left, NoEvent
<1>4. r \in [0 .. REARM -> Nat] /\ (SomeIn(s.rearm) => SomeIn(r))
  <2>1. REARM \in Nat \ {0}
    BY TimerAssumption
  <2> QED
    BY <1>2, <2>1, LaterKeeps
<1>5. n = s.since + k
  OBVIOUS
<1> HIDE DEF n, u, l, o, r
<1>6. /\ TimerOK(t) /\ SameCourse(s, t) /\ t.mode = s.mode /\ t.rearm = r
      /\ t.next_update = u /\ t.since = n
  BY <1>2, <1>3, <1>4 DEF TimerOK, SameCourse
<1> HIDE DEF t
<1>7. Returns(t)
  BY <1>4, <1>6 DEF Returns, ReturnsIn
<1>8. ASSUME InTime(s) PROVE InTime(t)
  <2>1. predict_next_irq(t) = predict_next_irq(s) /\ predict_next_irq(s) \subseteq Nat
    BY <1>6, SamePrediction, PredictType
  <2>2. ASSUME NEW time \in predict_next_irq(s)
        PROVE  u # NoEvent /\ (u = 0 \/ u + n <= time)
    <3>1. s.next_update # NoEvent /\ (s.next_update = 0 \/ s.next_update + s.since <= time)
      BY <1>8 DEF InTime
    <3>2. time \in Nat
      BY <2>1
    <3> QED
      BY <1>2, <1>3, <1>5, <3>1, <3>2 DEF NoEvent
  <2> QED
    BY <1>6, <2>1, <2>2 DEF InTime
<1> QED
  BY <1>1, <1>6, <1>7, <1>8

-----------------------------------------------------------------------------
\* What a step starts from.
Begin(s) == [s EXCEPT !.irq = FALSE]

LEMMA BeginGood ==
  ASSUME NEW s, Good(s)
  PROVE  Good(Begin(s)) /\ SameCourse(s, Begin(s)) /\ Begin(s).rearm = s.rearm
         /\ Begin(s).mode = s.mode /\ Begin(s).stale = s.stale /\ Begin(s).since = s.since
         /\ Begin(s).next_update = s.next_update
<1> DEFINE t == Begin(s)
<1>1. TimerOK(s) /\ Returns(s) /\ InTime(s)
  BY DEF Good
<1>2. /\ TimerOK(t) /\ SameCourse(s, t) /\ t.mode = s.mode /\ t.rearm = s.rearm
      /\ t.next_update = s.next_update /\ t.since = s.since /\ t.stale = s.stale
  BY <1>1 DEF TimerOK, SameCourse, Begin
<1> HIDE DEF t
<1>3. predict_next_irq(t) = predict_next_irq(s)
  BY <1>2, SamePrediction
<1> QED
  BY <1>1, <1>2, <1>3 DEF Good, Returns, InTime, t

LEMMA InitGood == Init => Good(tmr)
<1> SUFFICES ASSUME NEW id \in Ids, tmr = new(id) PROVE Good(tmr)
  BY DEF Init
<1>1. id \in {"tmr1", "tmr2"}
  BY TimerAssumption
<1>2. tmr.mode = {} /\ tmr.next_update = NoEvent /\ tmr.since = 0
  BY DEF new
<1>3. TimerOK(tmr)
  BY <1>1, TimerAssumption DEF new, TimerOK
<1>4. predict_next_irq(tmr) = {}
  BY <1>2 DEF predict_next_irq, has
<1> QED
  BY <1>2, <1>3, <1>4 DEF Good, InTime, Returns, ReturnsIn

LEMMA RunTimerKeeps == Good(tmr) /\ RunTimer => Good(tmr')
<1> SUFFICES ASSUME Good(tmr), RunTimer PROVE Good(tmr')
  OBVIOUS
<1>0. TimerOK(start) /\ Returns(start)
  BY BeginGood DEF start, Begin, Good
<1>1. CASE tmr' = run_timer([start EXCEPT !.next_update = NoEvent])
  <2> DEFINE t == [start EXCEPT !.next_update = NoEvent]
  <2>1. TimerOK(t) /\ t.mode = start.mode /\ t.rearm = start.rearm
    <3> HIDE DEF start
    <3> QED
      BY <1>0 DEF TimerOK
  <2> HIDE DEF t
  <2> QED
    BY <1>0, <1>1, <2>1, RunTimerGood DEF Returns, t
<1>2. CASE tmr' = run_timer([start EXCEPT !.stale[0] = @ - 1])
  <2> DEFINE t == [start EXCEPT !.stale[0] = @ - 1]
  <2>1. TimerOK(t) /\ t.mode = start.mode /\ t.rearm = start.rearm
    <3> DEFINE b == [start.stale EXCEPT ![0] = @ - 1]
    <3> HIDE DEF start
    <3>1. t = [start EXCEPT !.stale = b]
      BY <1>0 DEF TimerOK
    <3> HIDE DEF b, t
    <3> QED
      BY <1>0, <3>1 DEF TimerOK
  <2> HIDE DEF t
  <2> QED
    BY <1>0, <1>2, <2>1, RunTimerGood DEF Returns, t
<1> QED
  BY <1>1, <1>2 DEF RunTimer

LEMMA EnableKeeps == Good(tmr) /\ EnableIrqMasterFlag => Good(tmr')
<1> SUFFICES ASSUME Good(tmr), EnableIrqMasterFlag PROVE Good(tmr')
  OBVIOUS
<1>0. Good(start) /\ start.rearm = tmr.rearm
  BY BeginGood DEF start, Begin
<1> DEFINE s == start
           n == s.rearm[0] - 1
           r == [s.rearm EXCEPT ![0] = n]
           m == s.mode \cup {"master"}
           t == [s EXCEPT !.rearm = r, !.mode = m]
<1>1. TimerOK(s) /\ InTime(s) /\ s.rearm[0] > 0
  BY <1>0 DEF Good, EnableIrqMasterFlag
<1> HIDE DEF s
<1>2. s.rearm \in [0 .. REARM -> Nat] /\ 0 \in 0 .. REARM /\ n \in Nat /\ s.mode \in SUBSET Bits
  BY <1>1, TimerAssumption DEF TimerOK
<1>3. tmr' = t
  <2> DEFINE f == [s EXCEPT !.rearm[0] = @ - 1]
  <2>1. tmr' = set(f, "master", TRUE)
    BY DEF EnableIrqMasterFlag, s
  <2>2. f = [s EXCEPT !.rearm = r] /\ f.mode = s.mode
    BY <1>1 DEF TimerOK
  <2> HIDE DEF f, r
  <2> QED
    BY <1>1, <2>1, <2>2 DEF set, TimerOK
<1>4. r \in [0 .. REARM -> Nat] /\ m \in SUBSET Bits /\ "master" \in m
  <2> HIDE DEF n
  <2> QED
    BY <1>2 DEF Bits
<1>5. m = s.mode \cup {"master"}
  OBVIOUS
<1> HIDE DEF n, r, m
<1>6. /\ TimerOK(t) /\ SameCourse(s, t) /\ t.mode = m /\ t.since = s.since
      /\ t.next_update = s.next_update
  BY <1>1, <1>4, <1>5 DEF TimerOK, SameCourse
<1> HIDE DEF t
<1>7. Returns(t)
  BY <1>4, <1>6 DEF Returns, ReturnsIn
<1>8. predict_next_irq(t) = predict_next_irq(s)
  BY <1>6, SamePrediction
<1> QED
  BY <1>1, <1>3, <1>6, <1>7, <1>8 DEF Good, InTime

LEMMA HblankKeeps == Good(tmr) /\ Hblank => Good(tmr')
<1> SUFFICES ASSUME Good(tmr), Hblank PROVE Good(tmr')
  OBVIOUS
<1> DEFINE b == start
           s == [b EXCEPT !.line = LINE]
<1>0. Good(b)
  BY BeginGood DEF start, Begin
<1>1. tmr' = IF clock_source(s) = "hblank" THEN run(s, 1) ELSE s
  BY DEF Hblank
<1> HIDE DEF b
<1>2. /\ TimerOK(s) /\ SameCourse(b, s) /\ s.mode = b.mode /\ s.since = b.since
      /\ s.rearm = b.rearm /\ s.next_update = b.next_update
  BY <1>0 DEF Good, TimerOK, SameCourse
<1> HIDE DEF s
<1>3. Returns(s) /\ predict_next_irq(s) = predict_next_irq(b)
  BY <1>0, <1>2, SamePrediction DEF Good, Returns
<1>4. CASE clock_source(s) = "hblank"
  <2>1. run(s, 1) \in Counted(s)
    BY <1>2, <1>3, RunKeeps
  <2>2. /\ TimerOK(run(s, 1)) /\ Returns(run(s, 1)) /\ run(s, 1).id = s.id
        /\ ("alt" \in run(s, 1).mode <=> "alt" \in s.mode)
    BY <1>2, <2>1, CountedOK
  <2>3. clock_source(run(s, 1)) = "hblank"
    BY <1>4, <2>2 DEF clock_source, has
  <2>4. predict_next_irq(run(s, 1)) = {}
    BY <2>3 DEF predict_next_irq
  <2> QED
    BY <1>1, <1>4, <2>2, <2>4 DEF Good, InTime
<1>5. CASE clock_source(s) # "hblank"
  BY <1>0, <1>1, <1>2, <1>3, <1>5 DEF Good, InTime
<1> QED
  BY <1>4, <1>5

LEMMA PassKeeps ==
  ASSUME NEW s, Good(s), NEW k \in Nat
  PROVE  Good(pass(s, k))
BY PassGood DEF Good

LEMMA LoadGood ==
  ASSUME NEW s, Good(s), NEW reg
  PROVE  Good(load(s, reg))
<1> DEFINE t == update_timer(s)
           m == (t.mode \ {"target"}) \ {"overflow"}
           u == [t EXCEPT !.mode = m]
           a == set(t, "target", FALSE)
           v == IF reg = "mode" THEN set(a, "overflow", FALSE) ELSE t
<1>1. TimerOK(t) /\ Returns(t) /\ t.since = 0
  BY UpdateGood DEF Good
<1>2. load(s, reg) = schedule_next_run(v)
  BY DEF load
<1> HIDE DEF t
<1>3. set(a, "overflow", FALSE) = u
  <2>1. a = [t EXCEPT !.mode = t.mode \ {"target"}]
    BY DEF set
  <2>2. a.mode = t.mode \ {"target"}
    BY <1>1, <2>1 DEF TimerOK
  <2>3. set(a, "overflow", FALSE) = [a EXCEPT !.mode = m]
    BY <2>2 DEF set
  <2> HIDE DEF m, a
  <2> QED
    BY <1>1, <2>1, <2>3 DEF TimerOK
<1>4. m \in SUBSET Bits /\ ReturnsIn(m, t.rearm)
  <2>1. t.mode \in SUBSET Bits /\ ReturnsIn(t.mode, t.rearm)
    BY <1>1 DEF TimerOK, Returns
  <2> QED
    BY <2>1 DEF ReturnsIn
<1> HIDE DEF m, a
<1>5. TimerOK(u) /\ Returns(u) /\ u.since = 0
  BY <1>1, <1>4 DEF TimerOK, Returns
<1> HIDE DEF u
<1> QED
  BY <1>1, <1>2, <1>3, <1>5, ScheduleGood

LEMMA StoreGood ==
  ASSUME NEW s, Good(s), NEW reg, NEW val,
         (reg \in {"counter", "target"} /\ val \in Values) \/ (reg = "mode" /\ val \in Modes)
  PROVE  Good(store(s, reg, val))
<1> DEFINE t == update_timer(s)
           c == [t EXCEPT !.counter = val, !.has_triggered = FALSE]
           g == [t EXCEPT !.target = val]
           m == (t.mode \cup val) \cup {"master"}
           f == [t EXCEPT !.counter = 0, !.has_triggered = FALSE, !.mode = @ \cup val]
           u == [t EXCEPT !.counter = 0, !.has_triggered = FALSE, !.mode = m]
<1>1. TimerOK(t) /\ Returns(t) /\ t.since = 0
  BY UpdateGood DEF Good
<1>2. /\ reg = "counter" => store(s, reg, val) = schedule_next_run(c)
      /\ reg = "target" => store(s, reg, val) = schedule_next_run(g)
      /\ reg = "mode" => store(s, reg, val) = schedule_next_run(set(f, "master", TRUE))
  BY DEF store
<1> HIDE DEF t
<1>3. CASE reg = "counter"
  <2>1. val \in 0 .. MAX
    BY <1>3, TimerAssumption
  <2>2. TimerOK(c) /\ Returns(c) /\ c.since = 0
    BY <1>1, <2>1 DEF TimerOK, Returns
  <2> HIDE DEF c
  <2> QED
    BY <1>2, <1>3, <2>2, ScheduleGood
<1>4. CASE reg = "target"
  <2>1. val \in 0 .. MAX
    BY <1>4, TimerAssumption
  <2>2. TimerOK(g) /\ Returns(g) /\ g.since = 0
    BY <1>1, <2>1 DEF TimerOK, Returns
  <2> HIDE DEF g
  <2> QED
    BY <1>2, <1>4, <2>2, ScheduleGood
<1>5. CASE reg = "mode"
  <2>1. m \in SUBSET Bits /\ "master" \in m
    <3>1. val \in SUBSET Bits
      BY <1>5, TimerAssumption
    <3> QED
      BY <1>1, <3>1 DEF TimerOK, Bits
  <2>2. set(f, "master", TRUE) = u
    <3> DEFINE w == t.mode \cup val
    <3>1. f = [t EXCEPT !.counter = 0, !.has_triggered = FALSE, !.mode = w] /\ m = w \cup {"master"}
      OBVIOUS
    <3> HIDE DEF w, m, f
    <3>2. f.mode = w
      BY <1>1, <3>1 DEF TimerOK
    <3>3. set(f, "master", TRUE) = [f EXCEPT !.mode = m]
      BY <3>1, <3>2 DEF set
    <3> QED
      BY <1>1, <3>1, <3>3 DEF TimerOK
  <2> HIDE DEF m, f
  <2>3. TimerOK(u) /\ u.mode = m /\ u.since = 0
    <3>1. 0 \in 0 .. MAX
      BY TimerAssumption
    <3> QED
      BY <1>1, <2>1, <3>1 DEF TimerOK
  <2> HIDE DEF u
  <2>4. Returns(u)
    BY <2>1, <2>3 DEF Returns, ReturnsIn
  <2> QED
    BY <1>2, <1>5, <2>2, <2>3, <2>4, ScheduleGood
<1> QED
  BY <1>3, <1>4, <1>5

\* One step per action of the loop.
LEMMA GoodStep == Good(tmr) /\ [Next]_vars => Good(tmr')
<1> SUFFICES ASSUME Good(tmr), [Next]_vars PROVE Good(tmr')
  OBVIOUS
<1>0. Good(start) /\ MaxCycles \in Nat
  BY BeginGood, TimerAssumption DEF start, Begin
<1>1. ASSUME NEW k \in 0 .. MaxCycles PROVE k \in Nat
  BY <1>0
<1>2. CASE RunTimer
  BY <1>2, RunTimerKeeps
<1>3. CASE EnableIrqMasterFlag
  BY <1>3, EnableKeeps
<1>4. CASE Hblank
  BY <1>4, HblankKeeps
<1>5. CASE Instruction
  <2>1. PICK k \in 1 .. MaxCycles : tmr' = pass(start, k)
    BY <1>5 DEF Instruction
  <2> QED
    BY <1>0, <2>1, PassKeeps
<1>6. CASE Load
  <2>1. PICK reg \in {"counter", "mode"}, j \in 0 .. MaxCycles, k \in 1 .. MaxCycles :
          tmr' = pass(load(pass(start, j), reg), k)
    BY <1>6 DEF Load
  <2>2. j \in Nat /\ k \in Nat
    BY <1>0
  <2>3. Good(pass(start, j))
    BY <1>0, <2>2, PassKeeps
  <2>4. Good(load(pass(start, j), reg))
    BY <2>3, LoadGood
  <2> QED
    BY <2>1, <2>2, <2>4, PassKeeps
<1>7. CASE Store
  <2>1. PICK j \in 0 .. MaxCycles, k \in 1 .. MaxCycles :
          \/ \E val \in Values, reg \in {"counter", "target"} :
               tmr' = pass(store(pass(start, j), reg, val), k)
          \/ \E val \in Modes : tmr' = pass(store(pass(start, j), "mode", val), k)
    BY <1>7 DEF Store
  <2>2. j \in Nat /\ k \in Nat
    BY <1>0
  <2>3. Good(pass(start, j))
    BY <1>0, <2>2, PassKeeps
  <2>4. ASSUME NEW val \in Values, NEW reg \in {"counter", "target"},
               tmr' = pass(store(pass(start, j), reg, val), k)
        PROVE  Good(tmr')
    <3>1. Good(store(pass(start, j), reg, val))
      BY <2>3, <2>4, StoreGood
    <3> QED
      BY <2>2, <2>4, <3>1, PassKeeps
  <2>5. ASSUME NEW val \in Modes, tmr' = pass(store(pass(start, j), "mode", val), k)
        PROVE  Good(tmr')
    BY <2>2, <2>3, <2>5, StoreGood, PassKeeps
  <2> QED
    BY <2>1, <2>4, <2>5
<1>8. CASE UNCHANGED vars
  BY <1>8 DEF vars
<1> QED
  BY <1>2, <1>3, <1>4, <1>5, <1>6, <1>7, <1>8 DEF Next

\* The inductive invariant.
TimerIsGood == Good(tmr)

LEMMA AlwaysGood == Spec => []TimerIsGood
<1>1. Init => TimerIsGood
  BY InitGood DEF TimerIsGood
<1>2. TimerIsGood /\ [Next]_vars => TimerIsGood'
  BY GoodStep DEF TimerIsGood
<1> QED
  BY <1>1, <1>2, PTL DEF Spec

-----------------------------------------------------------------------------
\* schedule_next_run after every access and every update event suffices: the
\* event queued for what predict_next_irq said at the last update is never
\* later than the interrupt that is due now, whatever was stored, loaded or
\* counted in between (timer.rs:386-427).
THEOREM UpdatesComeInTime == Spec => []UpdateInTime
<1>1. ASSUME TimerIsGood PROVE UpdateInTime
  <2>1. ASSUME NEW time \in predict_next_irq(tmr)
        PROVE  \E d \in Queued : d = 0 \/ d + tmr.since <= time
    <3>1. tmr.next_update # NoEvent
          /\ (tmr.next_update = 0 \/ tmr.next_update + tmr.since <= time)
      BY <1>1 DEF TimerIsGood, Good, InTime
    <3>2. tmr.next_update \in Queued
      BY <3>1 DEF Queued
    <3> QED
      BY <3>1, <3>2
  <2> QED
    BY <2>1 DEF UpdateInTime
<1> QED
  BY <1>1, AlwaysGood, PTL

\* trigger_irq clears the master flag and schedules enable_irq_master_flag in
\* the same breath, and no register access undoes that: in pulse mode a
\* cleared flag always has an event under way that sets it
\* (timer.rs:324-344).
THEOREM MasterFlagComesBack == Spec => []MasterFlagReturns
<1>1. ASSUME TimerIsGood PROVE MasterFlagReturns
  <2>1. tmr.rearm \in [0 .. REARM -> Nat] /\ ReturnsIn(tmr.mode, tmr.rearm)
    BY <1>1 DEF TimerIsGood, Good, TimerOK, Returns
  <2> QED
    BY <2>1 DEF ReturnsIn, SomeIn, MasterFlagReturns, CanInterrupt, has
<1> QED
  BY <1>1, AlwaysGood, PTL

-----------------------------------------------------------------------------
(***************************************************************************)
(* Images on their way to and from video memory (Gpu).                     *)
(***************************************************************************)
\* Rows and columns: a number is so many whole rows and a rest, in one way.
LEMMA WholeRows ==
  ASSUME NEW w \in Nat \ {0}, NEW k \in Nat, NEW q \in Int, NEW r \in 0 .. w - 1, k = q * w + r
  PROVE  q \in Nat
<1>1. q <= -1 => q * w <= -w
  OBVIOUS
<1>2. q * w \in Int
  OBVIOUS
<1> QED
  BY <1>1, <1>2

LEMMA InRows ==
  ASSUME NEW w \in Nat \ {0}, NEW k \in Nat
  PROVE  k \div w \in Nat /\ k % w \in 0 .. w - 1 /\ k = (k \div w) * w + (k % w)
<1>1. k \div w \in Int /\ k % w \in 0 .. w - 1 /\ k = (k \div w) * w + (k % w)
  OBVIOUS
<1>2. k \div w \in Nat
  BY <1>1, WholeRows, Zenon
<1> QED
  BY <1>1, <1>2, Zenon

LEMMA RowsUnique ==
  ASSUME NEW w \in Nat \ {0}, NEW q \in Int, NEW p \in Int, NEW r \in 0 .. w - 1, NEW s \in 0 .. w - 1,
         q * w + r = p * w + s
  PROVE  q = p /\ r = s
<1>1. q * w \in Int /\ p * w \in Int
  OBVIOUS
<1>2. ~(q >= p + 1)
  <2>1. q >= p + 1 => q * w >= (p + 1) * w
    OBVIOUS
  <2>2. (p + 1) * w = p * w + w
    OBVIOUS
  <2> QED
    BY <1>1, <2>1, <2>2
<1>3. ~(p >= q + 1)
  <2>1. p >= q + 1 => p * w >= (q + 1) * w
    OBVIOUS
  <2>2. (q + 1) * w = q * w + w
    OBVIOUS
  <2> QED
    BY <1>1, <2>1, <2>2
<1>4. q = p
  BY <1>2, <1>3
<1> QED
  BY <1>1, <1>4

LEMMA RowsAre ==
  ASSUME NEW w \in Nat \ {0}, NEW k \in Nat, NEW q \in Int, NEW r \in 0 .. w - 1, k = q * w + r
  PROVE  k \div w = q /\ k % w = r
<1> DEFINE d == k \div w
           m == k % w
<1>1. d \in Nat /\ m \in 0 .. w - 1 /\ k = d * w + m
  BY InRows
<1> HIDE DEF d, m
<1>2. d \in Int /\ d * w + m = q * w + r
  BY <1>1
<1>3. d = q /\ m = r
  BY <1>1, <1>2, RowsUnique
<1> QED
  BY <1>3 DEF d, m

LEMMA NextColumn ==
  ASSUME NEW w \in Nat \ {0}, NEW k \in Nat
  PROVE  IF k % w = w - 1 THEN (k + 1) % w = 0 /\ (k + 1) \div w = k \div w + 1
                          ELSE (k + 1) % w = (k % w) + 1 /\ (k + 1) \div w = k \div w
<1> DEFINE q == k \div w
           r == k % w
<1>1. q \in Nat /\ r \in 0 .. w - 1 /\ k = q * w + r
  BY InRows
<1> HIDE DEF q, r
<1>2. q * w \in Int /\ (q + 1) * w = q * w + w
  BY <1>1
<1>3. CASE r = w - 1
  <2>1. k + 1 = (q + 1) * w + 0 /\ 0 \in 0 .. w - 1 /\ q + 1 \in Int /\ k + 1 \in Nat
    BY <1>1, <1>2, <1>3
  <2>2. (k + 1) \div w = q + 1 /\ (k + 1) % w = 0
    BY <2>1, RowsAre
  <2> QED
    BY <1>3, <2>2 DEF q, r
<1>4. CASE r # w - 1
  <2>1. k + 1 = q * w + (r + 1) /\ r + 1 \in 0 .. w - 1 /\ k + 1 \in Nat
    BY <1>1, <1>2, <1>4
  <2>2. (k + 1) \div w = q /\ (k + 1) % w = r + 1
    BY <1>1, <2>1, RowsAre
  <2> QED
    BY <1>4, <2>2 DEF q, r
<1> QED
  BY <1>3, <1>4

LEMMA RowBelow ==
  ASSUME NEW w \in Nat \ {0}, NEW h \in Nat, NEW k \in Nat
  PROVE  w * h \in Nat /\ (k < w * h) = (k \div w < h)
<1> DEFINE q == k \div w
           r == k % w
<1>1. q \in Nat /\ r \in 0 .. w - 1 /\ k = q * w + r
  BY InRows
<1> HIDE DEF q, r
<1>2. q * w \in Int /\ w * h \in Nat /\ w * h = h * w /\ (q + 1) * w = q * w + w
  BY <1>1
<1>3. ASSUME q < h PROVE k < w * h
  <2>1. (q + 1) * w <= h * w
    BY <1>1, <1>3
  <2> QED
    BY <1>1, <1>2, <2>1
<1>4. ASSUME q >= h PROVE ~(k < w * h)
  <2>1. q * w >= h * w
    BY <1>1, <1>4
  <2> QED
    BY <1>1, <1>2, <2>1
<1>5. (k < w * h) = (q < h)
  BY <1>1, <1>3, <1>4
<1> QED
  BY <1>2, <1>5 DEF q

-----------------------------------------------------------------------------
\* Where an image goes.
Offsets == 0 .. WIDTH * HEIGHT - 1

IsImage(cmd) == cmd.cmd \in {"store", "load"} /\ {cmd.at.x, cmd.at.y, cmd.dim.x, cmd.dim.y} \subseteq Nat

Size(cmd) == cmd.dim.x * cmd.dim.y

Fits(cmd) ==
  /\ cmd.dim.x > 0 /\ cmd.dim.y > 0
  /\ cmd.at.x + cmd.dim.x <= WIDTH /\ cmd.at.y + cmd.dim.y <= HEIGHT
  /\ cmd.dim.x < WIDTH /\ cmd.dim.y < HEIGHT

Place(cmd, i) ==
  offset_16(cmd.at.x + ((i - 1) % cmd.dim.x), cmd.at.y + ((i - 1) \div cmd.dim.x))

Pad(cmd) == offset_16(cmd.at.x, cmd.at.y + cmd.dim.y)

Cursor(cmd, k) ==
  [x |-> cmd.at.x + (k % cmd.dim.x), y |-> cmd.at.y + (k \div cmd.dim.x), x_start |-> cmd.at.x,
   x_end |-> cmd.at.x + cmd.dim.x, y_end |-> cmd.at.y + cmd.dim.y]

Dimensions == WIDTH \in Nat \ {0} /\ HEIGHT \in Nat \ {0}

\* In video memory a halfword has one place.
LEMMA OffsetIs ==
  ASSUME Dimensions, NEW x \in 0 .. WIDTH - 1, NEW y \in 0 .. HEIGHT - 1
  PROVE  offset_16(x, y) = x + y * WIDTH /\ offset_16(x, y) \in Offsets
<1> DEFINE N == WIDTH * HEIGHT
           o == x + y * WIDTH
<1>1. y * WIDTH \in Nat /\ (y + 1) * WIDTH <= HEIGHT * WIDTH /\ HEIGHT * WIDTH = N /\ N \in Nat
      /\ (y + 1) * WIDTH = y * WIDTH + WIDTH
  BY DEF Dimensions
<1> HIDE DEF N
<1>2. o \in Nat /\ o < N /\ N \in Nat \ {0} /\ o = 0 * N + o /\ o \in 0 .. N - 1
  BY <1>1 DEF Dimensions
<1> HIDE DEF o
<1>3. o % N = o
  BY <1>2, RowsAre
<1> QED
  BY <1>2, <1>3 DEF offset_16, Offsets, N, o

LEMMA OffsetUnique ==
  ASSUME Dimensions, NEW x \in 0 .. WIDTH - 1, NEW y \in 0 .. HEIGHT - 1,
         NEW u \in 0 .. WIDTH - 1, NEW v \in 0 .. HEIGHT - 1, offset_16(x, y) = offset_16(u, v)
  PROVE  x = u /\ y = v
<1>1. offset_16(x, y) = x + y * WIDTH /\ offset_16(u, v) = u + v * WIDTH
  BY OffsetIs
<1>2. y * WIDTH + x = x + y * WIDTH /\ v * WIDTH + u = u + v * WIDTH
  BY DEF Dimensions
<1>3. y * WIDTH + x = v * WIDTH + u
  BY <1>1, <1>2, Zenon
<1>4. y \in Int /\ v \in Int /\ WIDTH \in Nat \ {0}
  BY DEF Dimensions
<1> QED
  BY <1>3, <1>4, RowsUnique

\* Halfword i of an image is in its rectangle.
LEMMA InRectangle ==
  ASSUME Dimensions, NEW cmd, IsImage(cmd), Fits(cmd), NEW i \in Nat \ {0}, i <= Size(cmd)
  PROVE  LET x == (i - 1) % cmd.dim.x
             y == (i - 1) \div cmd.dim.x
         IN  /\ x \in 0 .. cmd.dim.x - 1 /\ y \in 0 .. cmd.dim.y - 1
             /\ cmd.at.x + x \in 0 .. WIDTH - 1 /\ cmd.at.y + y \in 0 .. HEIGHT - 1
             /\ i - 1 = y * cmd.dim.x + x
             /\ Place(cmd, i) \in Offsets
<1> DEFINE w == cmd.dim.x
           h == cmd.dim.y
           a == cmd.at.x
           b == cmd.at.y
           k == i - 1
           x == k % w
           y == k \div w
<1>1. w \in Nat \ {0} /\ h \in Nat \ {0} /\ a \in Nat /\ b \in Nat /\ k \in Nat
      /\ a + w <= WIDTH /\ b + h <= HEIGHT
  BY DEF IsImage, Fits
<1>2. k < w * h
  <2>1. w * h \in Nat
    BY <1>1
  <2> QED
    BY <2>1 DEF Size
<1> HIDE DEF w, h, a, b, k
<1>3. x \in 0 .. w - 1 /\ y \in Nat /\ k = y * w + x
  <2>1. w \in Nat \ {0} /\ k \in Nat
    BY <1>1
  <2> QED
    BY <2>1, InRows, Zenon
<1>4. y < h
  BY <1>1, <1>2, RowBelow
<1> HIDE DEF x, y
<1>5. y \in 0 .. h - 1 /\ a + x \in 0 .. WIDTH - 1 /\ b + y \in 0 .. HEIGHT - 1
  BY <1>1, <1>3, <1>4 DEF Dimensions
<1>6. offset_16(a + x, b + y) \in Offsets
  BY <1>5, OffsetIs
<1> QED
  BY <1>3, <1>5, <1>6, Zenon DEF Place, w, h, a, b, k, x, y

LEMMA PlaceUnique ==
  ASSUME Dimensions, NEW cmd, IsImage(cmd), Fits(cmd),
         NEW i \in Nat \ {0}, i <= Size(cmd), NEW j \in Nat \ {0}, j <= Size(cmd), Place(cmd, i) = Place(cmd, j)
  PROVE  i = j
<1> DEFINE w == cmd.dim.x
           a == cmd.at.x
           b == cmd.at.y
           x == (i - 1) % w
           y == (i - 1) \div w
           u == (j - 1) % w
           v == (j - 1) \div w
<1>1. /\ x \in 0 .. w - 1 /\ u \in 0 .. w - 1 /\ y \in 0 .. cmd.dim.y - 1 /\ v \in 0 .. cmd.dim.y - 1
      /\ a + x \in 0 .. WIDTH - 1 /\ b + y \in 0 .. HEIGHT - 1
      /\ a + u \in 0 .. WIDTH - 1 /\ b + v \in 0 .. HEIGHT - 1
      /\ i - 1 = y * w + x /\ j - 1 = v * w + u
  BY InRectangle, Zenon
<1>2. offset_16(a + x, b + y) = offset_16(a + u, b + v)
  BY DEF Place
<1>3. a \in Nat /\ b \in Nat /\ w \in Nat
  BY DEF IsImage
<1> HIDE DEF w, a, b, x, y, u, v
<1>4. a + x = a + u /\ b + y = b + v
  BY <1>1, <1>2, OffsetUnique
<1>5. x = u /\ y = v
  BY <1>1, <1>3, <1>4
<1> QED
  BY <1>1, <1>5

\* The halfword that fills up the last word is beside the image.
LEMMA PadBeside ==
  ASSUME Dimensions, NEW cmd, IsImage(cmd), Fits(cmd)
  PROVE  /\ Pad(cmd) \in Offsets
         /\ \A i \in Nat \ {0} : i <= Size(cmd) => Place(cmd, i) # Pad(cmd)
<1> DEFINE a == cmd.at.x
           b == cmd.at.y
           w == cmd.dim.x
           h == cmd.dim.y
           t == IF b + h = HEIGHT THEN 0 ELSE b + h
<1>1. a \in Nat /\ b \in Nat /\ w \in Nat \ {0} /\ h \in Nat \ {0}
      /\ a + w <= WIDTH /\ b + h <= HEIGHT /\ h < HEIGHT
  BY DEF IsImage, Fits
<1>2. Pad(cmd) = offset_16(a, b + h)
  BY DEF Pad
<1> HIDE DEF a, b, w, h
<1>3. a \in 0 .. WIDTH - 1 /\ t \in 0 .. HEIGHT - 1
  BY <1>1 DEF Dimensions
<1>4. offset_16(a, b + h) = offset_16(a, t)
  <2>1. CASE b + h = HEIGHT
    <3> DEFINE N == WIDTH * HEIGHT
    <3>1. N \in Nat \ {0} /\ HEIGHT * WIDTH = N /\ a < N
      <4>1. WIDTH * HEIGHT >= WIDTH * 1
        BY DEF Dimensions
      <4> QED
        BY <1>1, <1>3, <4>1 DEF Dimensions
    <3>2. a + HEIGHT * WIDTH = 1 * N + a /\ a + 0 * WIDTH = 0 * N + a
      BY <1>1, <3>1 DEF Dimensions
    <3>3. a \in 0 .. N - 1 /\ a + HEIGHT * WIDTH \in Nat /\ a + 0 * WIDTH \in Nat
      BY <1>1, <3>1 DEF Dimensions
    <3> HIDE DEF N
    <3>4. (a + HEIGHT * WIDTH) % N = a
      <4>1. PICK q \in Int : q = 1
        OBVIOUS
      <4> QED
        BY <3>1, <3>2, <3>3, <4>1, RowsAre
    <3>5. (a + 0 * WIDTH) % N = a
      BY <3>1, <3>2, <3>3, RowsAre
    <3> QED
      BY <2>1, <3>4, <3>5 DEF offset_16, N
  <2>2. CASE b + h # HEIGHT
    BY <2>2
  <2> QED
    BY <2>1, <2>2
<1>5. Pad(cmd) \in Offsets
  BY <1>2, <1>3, <1>4, OffsetIs
<1>6. ASSUME NEW i \in Nat \ {0}, i <= Size(cmd), Place(cmd, i) = Pad(cmd) PROVE FALSE
  <2> DEFINE x == (i - 1) % w
             y == (i - 1) \div w
  <2>1. y \in 0 .. h - 1 /\ a + x \in 0 .. WIDTH - 1 /\ b + y \in 0 .. HEIGHT - 1
    BY <1>6, InRectangle, Zenon DEF a, b, w, h
  <2>2. offset_16(a + x, b + y) = offset_16(a, t)
    BY <1>2, <1>4, <1>6 DEF Place, a, b, w, h
  <2> HIDE DEF x, y
  <2>3. b + y = t
    BY <1>3, <2>1, <2>2, OffsetUnique
  <2> QED
    BY <1>1, <2>1, <2>3
<1> QED
  BY <1>5, <1>6

\* The cursor follows the places, to the one beside the image.
LEMMA CursorMoves ==
  ASSUME Dimensions, NEW cmd, IsImage(cmd), Fits(cmd), NEW k \in Nat
  PROVE  next(Cursor(cmd, k)) = Cursor(cmd, k + 1)
<1> DEFINE w == cmd.dim.x
           a == cmd.at.x
           b == cmd.at.y
           t == Cursor(cmd, k)
<1>1. a \in Nat /\ b \in Nat /\ w \in Nat \ {0}
  BY DEF IsImage, Fits
<1>2. k \div w \in Nat /\ k % w \in 0 .. w - 1
  BY <1>1, InRows
<1>3. t.x = a + (k % w) /\ t.y = b + (k \div w) /\ t.x_start = a /\ t.x_end = a + w
      /\ t = [x |-> t.x, y |-> t.y, x_start |-> t.x_start, x_end |-> t.x_end, y_end |-> t.y_end]
      /\ t.y_end = b + cmd.dim.y
  BY DEF Cursor
<1>4. Cursor(cmd, k + 1) = [x |-> a + ((k + 1) % w), y |-> b + ((k + 1) \div w), x_start |-> a,
                            x_end |-> a + w, y_end |-> b + cmd.dim.y]
  BY DEF Cursor
<1>5. CASE k % w = w - 1
  <2>1. (k + 1) % w = 0 /\ (k + 1) \div w = (k \div w) + 1
    BY <1>1, <1>5, NextColumn
  <2>2. t.x + 1 = t.x_end /\ a + 0 = a /\ t.y + 1 = b + ((k \div w) + 1)
    BY <1>1, <1>2, <1>3, <1>5
  <2>3. Cursor(cmd, k + 1) = [x |-> a, y |-> t.y + 1, x_start |-> a, x_end |-> a + w, y_end |-> b + cmd.dim.y]
    BY <1>4, <2>1, <2>2
  <2> HIDE DEF t, a, b, w
  <2>4. next(t) = [x |-> t.x_start, y |-> t.y + 1, x_start |-> t.x_start, x_end |-> t.x_end, y_end |-> t.y_end]
    BY <1>3, <2>2 DEF next
  <2> QED
    BY <1>3, <2>3, <2>4 DEF t
<1>6. CASE k % w # w - 1
  <2>1. (k + 1) % w = (k % w) + 1 /\ (k + 1) \div w = k \div w
    BY <1>1, <1>6, NextColumn
  <2>2. t.x + 1 # t.x_end /\ t.x + 1 = a + ((k % w) + 1)
    BY <1>1, <1>2, <1>3, <1>6
  <2> HIDE DEF t, a, b, w
  <2> QED
    BY <1>3, <1>4, <2>1, <2>2 DEF next, t
<1> QED
  BY <1>5, <1>6

LEMMA CursorDone ==
  ASSUME Dimensions, NEW cmd, IsImage(cmd), Fits(cmd), NEW k \in Nat
  PROVE  Size(cmd) \in Nat /\ is_done(Cursor(cmd, k)) = (k >= Size(cmd))
<1> DEFINE w == cmd.dim.x
           h == cmd.dim.y
           b == cmd.at.y
           y == k \div w
<1>1. b \in Nat /\ w \in Nat \ {0} /\ h \in Nat
  BY DEF IsImage, Fits
<1>2. Cursor(cmd, k).y = b + y /\ Cursor(cmd, k).y_end = b + h /\ Size(cmd) = w * h
  BY DEF Cursor, Size
<1> HIDE DEF w, h, b
<1>3. y \in Nat
  BY <1>1, InRows, Zenon
<1>4. w * h \in Nat /\ (k < w * h) = (y < h)
  BY <1>1, RowBelow
<1> HIDE DEF y
<1> QED
  BY <1>1, <1>2, <1>3, <1>4 DEF is_done

LEMMA CursorPlace ==
  ASSUME Dimensions, NEW cmd, IsImage(cmd), Fits(cmd), NEW k \in Nat
  PROVE  LET t == Cursor(cmd, k)
         IN  /\ offset_16(t.x, t.y) = Place(cmd, k + 1)
             /\ k = Size(cmd) => offset_16(t.x, t.y) = Pad(cmd)
<1> DEFINE w == cmd.dim.x
           h == cmd.dim.y
<1>1. (k + 1) - 1 = k
  OBVIOUS
<1>2. Place(cmd, k + 1) = offset_16(cmd.at.x + (k % w), cmd.at.y + (k \div w))
  BY <1>1 DEF Place
<1>3. Cursor(cmd, k).x = cmd.at.x + (k % w) /\ Cursor(cmd, k).y = cmd.at.y + (k \div w)
  BY DEF Cursor
<1>4. ASSUME k = Size(cmd) PROVE k % w = 0 /\ k \div w = h /\ cmd.at.x + 0 = cmd.at.x
  <2>1. w \in Nat \ {0} /\ h \in Nat /\ cmd.at.x \in Nat
    BY DEF IsImage, Fits
  <2>2. k = w * h
    BY <1>4 DEF Size
  <2> HIDE DEF w, h
  <2>3. k = h * w + 0 /\ 0 \in 0 .. w - 1
    BY <2>1, <2>2
  <2>4. k % w = 0 /\ k \div w = h
    BY <2>1, <2>3, RowsAre
  <2> QED
    BY <2>1, <2>4
<1> QED
  BY <1>2, <1>3, <1>4 DEF Pad

-----------------------------------------------------------------------------
\* The inductive invariant: video memory keeps its size; an image that fits is
\* done, or on its way with the cursor at its next halfword; the halfwords are
\* where they belong, and the rest is as it was.
CanvasFields == {"vram", "clut", "reg", "tran", "panicked"}
LogFields == {"cmd", "before", "drawn", "halfwords", "written", "draws"}

Canvas(c) ==
  /\ c = [x \in CanvasFields |-> c[x]]
  /\ c.vram = [o \in Offsets |-> c.vram[o]]

Log ==
  /\ log = [x \in LogFields |-> log[x]]
  /\ \E S : log.halfwords \in Seq(S)

Arrived(cmd, n) == {i \in 1 .. n : i <= Size(cmd)}

InPlace(c, cmd, vram, halfwords) ==
  /\ \A i \in Arrived(cmd, Len(halfwords)) : vram[Place(cmd, i)] = halfwords[i]
  /\ \A o \in Offsets : vram[o] # c.vram[o] =>
       \/ \E i \in Arrived(cmd, Len(halfwords)) : o = Place(cmd, i)
       \/ o = Pad(cmd) /\ Size(cmd) % 2 = 1

Cursors(cmd, n) == IF n >= Size(cmd) THEN NoTransfer ELSE [kind |-> cmd.cmd, pos |-> Cursor(cmd, n)]

OnItsWay(c) ==
  /\ \E j \in Nat : Len(log.halfwords) = 2 * j
  /\ canvas.tran = Cursors(log.cmd, Len(log.halfwords))
  /\ InPlace(c, log.cmd, canvas.vram, log.halfwords)

Images ==
  /\ Canvas(canvas) /\ Log
  /\ \A c \in log.before :
       /\ Canvas(c)
       /\ log.cmd.cmd \in {"store", "load"} => IsImage(log.cmd)
       /\ IsImage(log.cmd) /\ Fits(log.cmd) => OnItsWay(c)

LEMMA ImagesImply == ASSUME Dimensions, Images PROVE ImageInPlace
<1> SUFFICES ASSUME NEW c \in log.before, log.cmd.cmd \in {"store", "load"}, Fits(log.cmd)
             PROVE  LET at   == log.cmd.at
                        w    == log.cmd.dim.x
                        h    == log.cmd.dim.y
                        size == w * h
                        place(i) == offset_16(at.x + ((i - 1) % w), at.y + ((i - 1) \div w))
                        sent == {i \in DOMAIN log.halfwords : i <= size}
                        pad  == IF size % 2 = 1 THEN {offset_16(at.x, at.y + h)} ELSE {}
                    IN  /\ (canvas.tran = NoTransfer) = (Len(log.halfwords) >= size)
                        /\ \A i \in sent : canvas.vram[place(i)] = log.halfwords[i]
                        /\ \A o \in DOMAIN c.vram \ ({place(i) : i \in sent} \cup pad) : canvas.vram[o] = c.vram[o]
  BY DEF ImageInPlace, Fits
<1>1. IsImage(log.cmd) /\ OnItsWay(c) /\ Canvas(c) /\ Log
  BY DEF Images
<1> DEFINE n == Len(log.halfwords)
<1>2. n \in Nat /\ DOMAIN log.halfwords = 1 .. n
  BY <1>1 DEF Log
<1>3. (canvas.tran = NoTransfer) = (n >= Size(log.cmd))
  <2>1. canvas.tran = Cursors(log.cmd, n)
    BY <1>1 DEF OnItsWay
  <2>2. [kind |-> log.cmd.cmd, pos |-> Cursor(log.cmd, n)] # NoTransfer
    BY DEF NoTransfer
  <2> QED
    BY <2>1, <2>2 DEF Cursors
<1>4. DOMAIN c.vram = Offsets
  BY <1>1 DEF Canvas
<1>5. InPlace(c, log.cmd, canvas.vram, log.halfwords)
  BY <1>1 DEF OnItsWay
<1>6. Arrived(log.cmd, n) = {i \in DOMAIN log.halfwords : i <= Size(log.cmd)}
  BY <1>2 DEF Arrived
<1> QED
  BY <1>3, <1>4, <1>5, <1>6 DEF InPlace, Place, Pad, Size

-----------------------------------------------------------------------------
\* Drawing keeps the size of video memory.
LEMMA PaintKeeps ==
  ASSUME NEW c, Canvas(c), NEW pixels, NEW color
  PROVE  Canvas(paint(c, pixels, color))
<1> DEFINE at == {offset_16(p.x, p.y) : p \in pixels}
           V == [o \in DOMAIN c.vram |-> IF o \in at THEN color ELSE c.vram[o]]
<1>1. paint(c, pixels, color) = [c EXCEPT !.vram = V]
  BY DEF paint
<1>2. V = [o \in Offsets |-> V[o]]
  BY DEF Canvas
<1> HIDE DEF V
<1> QED
  BY <1>1, <1>2 DEF Canvas, CanvasFields

LEMMA ExecKeeps ==
  ASSUME NEW c, Canvas(c), NEW cmd, cmd.cmd \in Drawing
  PROVE  Canvas(gp0_exec(c, cmd).canvas)
<1>1. CASE cmd.cmd = "fill"
  <2>1. PICK pixels, color : gp0_fill_rect(c, cmd) = Covers(paint(c, pixels, color), <<pixels>>)
    BY Zenon DEF gp0_fill_rect
  <2> QED
    BY <1>1, <2>1, PaintKeeps DEF gp0_exec, Covers
<1>2. CASE cmd.cmd = "poly"
  <2>1. PICK reg, clut, pixels, color, drawn :
          gp0_poly(c, cmd) = Covers(paint([c EXCEPT !.reg = reg, !.clut = clut], pixels, color), drawn)
    BY Zenon DEF gp0_poly
  <2>2. Canvas([c EXCEPT !.reg = reg, !.clut = clut])
    BY DEF Canvas, CanvasFields
  <2> QED
    BY <1>2, <2>1, <2>2, PaintKeeps DEF gp0_exec, Covers
<1>3. CASE cmd.cmd = "line"
  <2>1. \/ gp0_line(c, cmd) = Covers([c EXCEPT !.panicked = TRUE], <<>>)
        \/ \E pixels, color, drawn : gp0_line(c, cmd) = Covers(paint(c, pixels, color), drawn)
    BY Zenon DEF gp0_line
  <2>2. Canvas([c EXCEPT !.panicked = TRUE])
    BY DEF Canvas, CanvasFields
  <2>3. gp0_exec(c, cmd) = gp0_line(c, cmd)
    BY <1>3 DEF gp0_exec
  <2>4. ASSUME NEW pixels, NEW color, NEW drawn, gp0_line(c, cmd) = Covers(paint(c, pixels, color), drawn)
        PROVE  Canvas(gp0_line(c, cmd).canvas)
    BY <2>4, PaintKeeps DEF Covers
  <2>5. CASE gp0_line(c, cmd) = Covers([c EXCEPT !.panicked = TRUE], <<>>)
    BY <2>2, <2>3, <2>5 DEF Covers
  <2>6. CASE \E pixels, color, drawn : gp0_line(c, cmd) = Covers(paint(c, pixels, color), drawn)
    BY <2>3, <2>4, <2>6, Zenon
  <2> QED
    BY <2>1, <2>5, <2>6
<1>4. CASE cmd.cmd = "rect"
  <2>1. PICK clut, stored, drawn :
          gp0_rect(c, cmd) = Covers([c EXCEPT !.clut = clut, !.vram = [o \in DOMAIN c.vram |-> stored[o]]], drawn)
    BY Zenon DEF gp0_rect
  <2>2. Canvas([c EXCEPT !.clut = clut, !.vram = [o \in DOMAIN c.vram |-> stored[o]]])
    <3> DEFINE V == [o \in DOMAIN c.vram |-> stored[o]]
    <3>1. V = [o \in Offsets |-> V[o]]
      BY DEF Canvas
    <3> HIDE DEF V
    <3>2. Canvas([c EXCEPT !.clut = clut, !.vram = V])
      BY <3>1 DEF Canvas, CanvasFields
    <3> QED
      BY <3>2 DEF V
  <2> QED
    BY <1>4, <2>1, <2>2 DEF gp0_exec, Covers
<1>5. CASE cmd.cmd \in {"store", "load"}
  <2>1. PICK T : gp0_copy_rect(c, cmd) = [c EXCEPT !.tran = T]
    BY Zenon DEF gp0_copy_rect
  <2>2. Canvas([c EXCEPT !.tran = T])
    BY DEF Canvas, CanvasFields
  <2> QED
    BY <1>5, <2>1, <2>2 DEF gp0_exec, Covers
<1> QED
  BY <1>1, <1>2, <1>3, <1>4, <1>5 DEF Drawing

LEMMA SetKeeps ==
  ASSUME NEW c, Canvas(c), NEW cmd, cmd.cmd \in Setting
  PROVE  Canvas(gp0_set(c, cmd))
<1>1. CASE cmd.cmd = "clear"
  BY <1>1 DEF gp0_set, Canvas, CanvasFields
<1>2. CASE cmd.cmd = "top_left"
  BY <1>2 DEF gp0_set, Canvas, CanvasFields
<1>3. CASE cmd.cmd = "bottom_right"
  BY <1>3 DEF gp0_set, Canvas, CanvasFields
<1>4. CASE cmd.cmd = "offset"
  BY <1>4 DEF gp0_set, Canvas, CanvasFields
<1>5. CASE cmd.cmd = "mode"
  BY <1>5 DEF gp0_set, Canvas, CanvasFields
<1> QED
  BY <1>1, <1>2, <1>3, <1>4, <1>5 DEF Setting

-----------------------------------------------------------------------------
LEMMA InitImages == ASSUME Parameters, GpuInit PROVE Images
<1>1. PICK vram \in FirstVram :
        canvas = [vram |-> vram, clut |-> EmptyClut, reg |-> ResetDraw, tran |-> NoTransfer, panicked |-> FALSE]
  BY DEF GpuInit
<1>2. vram = [o \in Offsets |-> vram[o]]
  BY DEF Parameters, Offsets
<1>3. Canvas(canvas)
  BY <1>1, <1>2 DEF Canvas, CanvasFields
<1>4. Log
  <2>1. log.halfwords \in Seq({})
    BY DEF GpuInit
  <2> QED
    BY <2>1 DEF GpuInit, Log, LogFields
<1>5. log.before = {}
  BY DEF GpuInit, None
<1> QED
  BY <1>3, <1>4, <1>5 DEF Images

LEMMA StartsImage ==
  ASSUME Dimensions, NEW c, NEW cmd, IsImage(cmd), Fits(cmd), c = [x \in CanvasFields |-> c[x]]
  PROVE  LET d == gp0_exec(c, cmd).canvas IN d.tran = Cursors(cmd, 0) /\ d.vram = c.vram
<1> DEFINE w == cmd.dim.x
           h == cmd.dim.y
           a == cmd.at.x
           b == cmd.at.y
           H == h % (IF cmd.cmd = "store" THEN HEIGHT ELSE 2 * HEIGHT)
<1>1. a \in Nat /\ b \in Nat /\ w \in Nat \ {0} /\ h \in Nat \ {0}
      /\ a + w <= WIDTH /\ b + h <= HEIGHT /\ w < WIDTH /\ h < HEIGHT
      /\ WIDTH \in Nat \ {0} /\ HEIGHT \in Nat \ {0} /\ 2 * HEIGHT \in Nat \ {0}
  BY DEF IsImage, Fits, Dimensions
<1>2. gp0_exec(c, cmd).canvas = [c EXCEPT !.tran = [kind |-> cmd.cmd,
         pos |-> MemTransfer(a % WIDTH, b % (2 * HEIGHT), w % WIDTH, H)]]
  BY DEF gp0_exec, gp0_copy_rect, Covers, IsImage
<1> HIDE DEF w, h, a, b
<1>3. ASSUME NEW x \in Nat, NEW y \in Nat \ {0}, x < y PROVE x % y = x
  <2>1. x = 0 * y + x /\ x \in 0 .. y - 1
    BY <1>3
  <2> QED
    BY <2>1, RowsAre
<1>4. a % WIDTH = a /\ b % (2 * HEIGHT) = b /\ w % WIDTH = w /\ H = h
  <2>1. b < 2 * HEIGHT /\ h < 2 * HEIGHT /\ a < WIDTH
    BY <1>1
  <2>2. a % WIDTH = a /\ w % WIDTH = w
    BY <1>1, <1>3, <2>1
  <2>3. b % (2 * HEIGHT) = b /\ h % (2 * HEIGHT) = h
    BY <1>1, <1>3, <2>1
  <2>4. h % HEIGHT = h
    BY <1>1, <1>3
  <2> QED
    BY <2>2, <2>3, <2>4
<1>5. 0 % w = 0 /\ 0 \div w = 0
  <2>1. 0 = 0 * w + 0 /\ 0 \in 0 .. w - 1
    BY <1>1
  <2> QED
    BY <1>1, <2>1, RowsAre
<1>6. MemTransfer(a, b, w, h) = Cursor(cmd, 0)
  <2>1. a + 0 = a /\ b + 0 = b
    BY <1>1
  <2> QED
    BY <1>5, <2>1 DEF MemTransfer, Cursor, w, h, a, b
<1>7. ~(0 >= Size(cmd))
  <2>1. w * h >= 1 * h /\ w * h \in Nat
    BY <1>1
  <2> QED
    BY <1>1, <2>1 DEF Size, w, h
<1> HIDE DEF H
<1> QED
  BY <1>2, <1>4, <1>6, <1>7 DEF Cursors, CanvasFields

LEMMA DrawStep == ASSUME Parameters, guest \in Guests, Images, Draw PROVE Images'
<1>1. PICK cmd \in Repertoire[guest] :
        /\ cmd.cmd \in Drawing
        /\ canvas' = gp0_exec(canvas, cmd).canvas
        /\ \E drawn, written, draws :
             log' = [cmd |-> cmd, before |-> Some(canvas), drawn |-> drawn, halfwords |-> <<>>,
                     written |-> written, draws |-> draws]
  BY Zenon DEF Draw
<1>2. Dimensions /\ (cmd.cmd \in {"store", "load"} => IsImage(cmd))
  BY DEF Parameters, IsCommand, Dimensions, IsImage
<1> PICK c : c = canvas
  OBVIOUS
<1>3. Canvas(c) /\ Canvas(canvas')
  BY <1>1, ExecKeeps DEF Images
<1>4. /\ log' = [x \in LogFields |-> log'[x]] /\ log'.cmd = cmd /\ log'.before = {c}
      /\ log'.halfwords = <<>>
  <2>1. PICK drawn, written, draws :
          log' = [cmd |-> cmd, before |-> {c}, drawn |-> drawn, halfwords |-> <<>>,
                  written |-> written, draws |-> draws]
    BY <1>1 DEF Some
  <2> QED
    BY <2>1 DEF LogFields
<1>5. Log'
  <2>1. <<>> \in Seq({})
    OBVIOUS
  <2> QED
    BY <1>4, <2>1 DEF Log
<1>6. ASSUME IsImage(cmd), Fits(cmd) PROVE OnItsWay(c)'
  <2>1. canvas'.tran = Cursors(cmd, 0) /\ canvas'.vram = c.vram
    BY <1>1, <1>2, <1>3, <1>6, StartsImage DEF Canvas
  <2>2. Len(log'.halfwords) = 0
    BY <1>4
  <2>3. \E j \in Nat : Len(log'.halfwords) = 2 * j
    BY <2>2
  <2>4. InPlace(c, cmd, canvas'.vram, log'.halfwords)
    BY <2>1, <2>2 DEF InPlace, Arrived
  <2> QED
    BY <1>4, <2>1, <2>2, <2>3, <2>4 DEF OnItsWay
<1> QED
  BY <1>2, <1>3, <1>4, <1>5, <1>6 DEF Images

\* Nothing is on its way after a command that sets a register.
LEMMA SetRegisterStep == ASSUME Parameters, guest \in Guests, Images, SetRegister PROVE Images'
<1>1. PICK cmd \in Repertoire[guest] :
        /\ cmd.cmd \notin Drawing
        /\ canvas' = gp0_set(canvas, cmd)
        /\ log' = [Forgotten EXCEPT !.written = IF cmd.cmd = "clear" THEN {} ELSE @]
  BY Zenon DEF SetRegister
<1>2. cmd.cmd \in Setting
  BY <1>1 DEF Parameters, IsCommand
<1>3. Canvas(canvas')
  BY <1>1, <1>2, SetKeeps DEF Images
<1>4. /\ log' = [x \in LogFields |-> log'[x]] /\ log'.before = {} /\ log'.halfwords = <<>>
  BY <1>1 DEF Forgotten, Images, Log, LogFields, None
<1>5. <<>> \in Seq({})
  OBVIOUS
<1> QED
  BY <1>3, <1>4, <1>5 DEF Images, Log

LEMMA ResetStep == ASSUME Images, Reset PROVE Images'
<1>1. /\ canvas' = [canvas EXCEPT !.clut = clear(@), !.reg = ResetDraw]
      /\ log' = IF canvas.tran = NoTransfer THEN [Forgotten EXCEPT !.written = {}]
                                            ELSE [log EXCEPT !.written = {}]
  BY DEF Reset
<1>2. Canvas(canvas') /\ canvas'.vram = canvas.vram /\ canvas'.tran = canvas.tran
  BY <1>1 DEF Images, Canvas, CanvasFields
<1>3. CASE canvas.tran = NoTransfer
  <2>1. /\ log' = [x \in LogFields |-> log'[x]] /\ log'.before = {} /\ log'.halfwords = <<>>
    BY <1>1, <1>3 DEF Forgotten, Images, Log, LogFields, None
  <2>2. <<>> \in Seq({})
    OBVIOUS
  <2> QED
    BY <1>2, <2>1, <2>2 DEF Images, Log
<1>4. CASE canvas.tran # NoTransfer
  <2>1. /\ log' = [x \in LogFields |-> log'[x]] /\ log'.before = log.before /\ log'.cmd = log.cmd
        /\ log'.halfwords = log.halfwords
    BY <1>1, <1>4 DEF Images, Log, LogFields
  <2>2. Log'
    BY <2>1 DEF Images, Log
  <2> QED
    BY <1>2, <2>1, <2>2 DEF Images, OnItsWay, InPlace
<1> QED
  BY <1>3, <1>4

LEMMA DisplayStep == ASSUME Images, Display \/ UNCHANGED gpu_vars PROVE Images'
<1>1. canvas' = canvas /\ log' = log
  BY DEF Display, gpu_vars
<1> QED
  BY <1>1 DEF Images, Log, OnItsWay

-----------------------------------------------------------------------------
\* Two more halfwords: where they go, and what is left to do.
LEMMA TwoMore ==
  ASSUME Dimensions, NEW cmd, IsImage(cmd), Fits(cmd), NEW n \in Nat, n < Size(cmd)
  PROVE  LET one == Cursor(cmd, n)
             two == next(one)
         IN  /\ offset_16(one.x, one.y) = Place(cmd, n + 1)
             /\ n + 2 <= Size(cmd) => offset_16(two.x, two.y) = Place(cmd, n + 2)
             /\ n + 1 = Size(cmd) => offset_16(two.x, two.y) = Pad(cmd)
             /\ is_done(next(two)) = (n + 2 >= Size(cmd))
             /\ next(two) = Cursor(cmd, n + 2)
             /\ Size(cmd) \in Nat
<1>1. next(Cursor(cmd, n)) = Cursor(cmd, n + 1)
  BY CursorMoves
<1>2. n + 1 \in Nat /\ (n + 1) + 1 = n + 2 /\ n + 2 \in Nat
  OBVIOUS
<1>3. next(Cursor(cmd, n + 1)) = Cursor(cmd, (n + 1) + 1)
  BY <1>2, CursorMoves
<1>4. offset_16(Cursor(cmd, n).x, Cursor(cmd, n).y) = Place(cmd, n + 1)
  BY CursorPlace
<1>5. /\ offset_16(Cursor(cmd, n + 1).x, Cursor(cmd, n + 1).y) = Place(cmd, (n + 1) + 1)
      /\ n + 1 = Size(cmd) => offset_16(Cursor(cmd, n + 1).x, Cursor(cmd, n + 1).y) = Pad(cmd)
  BY <1>2, CursorPlace
<1>6. Size(cmd) \in Nat /\ is_done(Cursor(cmd, n + 2)) = (n + 2 >= Size(cmd))
  BY <1>2, CursorDone
<1> QED
  BY <1>1, <1>2, <1>3, <1>4, <1>5, <1>6

\* g is the image h and the two halfwords low and high.
Longer(h, g, low, high) ==
  /\ Len(h) \in Nat /\ Len(g) = Len(h) + 2
  /\ \A i \in 1 .. Len(h) : g[i] = h[i]
  /\ g[Len(h) + 1] = low /\ g[Len(h) + 2] = high

LEMMA TwoAppended ==
  ASSUME NEW S, NEW h \in Seq(S), NEW low, NEW high, NEW g, g = h \o <<low, high>>
  PROVE  (\E T : g \in Seq(T)) /\ Longer(h, g, low, high)
<1> DEFINE T == S \cup {low, high}
<1>1. h \in Seq(T) /\ <<low, high>> \in Seq(T)
  OBVIOUS
<1>2. g \in Seq(T)
  BY <1>1
<1> QED
  BY <1>1, <1>2 DEF Longer

\* The transfer after a word of an image that fits.
LEMMA CursorStep ==
  ASSUME Dimensions, NEW cmd, IsImage(cmd), Fits(cmd), NEW n \in Nat, n < Size(cmd),
         canvas.tran = Cursors(cmd, n)
  PROVE  LET one == canvas.tran.pos
         IN  one = Cursor(cmd, n) /\ Transferred(next(next(one))) = Cursors(cmd, n + 2)
<1> DEFINE two == next(Cursor(cmd, n))
<1>1. Size(cmd) \in Nat /\ is_done(next(two)) = (n + 2 >= Size(cmd)) /\ next(two) = Cursor(cmd, n + 2)
  BY TwoMore
<1>2. canvas.tran = [kind |-> cmd.cmd, pos |-> Cursor(cmd, n)]
  BY <1>1 DEF Cursors
<1> HIDE DEF two
<1>3. Transferred(next(two)) = Cursors(cmd, n + 2)
  <2>1. [canvas.tran EXCEPT !.pos = next(two)] = [kind |-> cmd.cmd, pos |-> next(two)]
    BY <1>2
  <2>2. CASE n + 2 >= Size(cmd)
    BY <1>1, <2>2 DEF Transferred, Cursors
  <2>3. CASE ~(n + 2 >= Size(cmd))
    BY <1>1, <2>1, <2>3, Zenon DEF Transferred, Cursors
  <2> QED
    BY <2>2, <2>3
<1> QED
  BY <1>2, <1>3 DEF two

LEMMA StoredInPlace ==
  ASSUME Dimensions, NEW cmd, IsImage(cmd), Fits(cmd), NEW c, NEW h, NEW j \in Nat,
         Len(h) = 2 * j, Len(h) < Size(cmd), NEW vram, vram = [o \in Offsets |-> vram[o]],
         NEW low, NEW high, NEW g, Longer(h, g, low, high), InPlace(c, cmd, vram, h)
  PROVE  LET one == Cursor(cmd, Len(h))
             two == next(one)
         IN  InPlace(c, cmd, store_16(store_16(vram, one.x, one.y, low), two.x, two.y, high), g)
<1> DEFINE n == Len(h)
           one == Cursor(cmd, n)
           two == next(one)
           p == offset_16(one.x, one.y)
           q == offset_16(two.x, two.y)
           stored == store_16(store_16(vram, one.x, one.y, low), two.x, two.y, high)
<1>1. n \in Nat /\ n = 2 * j
  OBVIOUS
<1>2. /\ p = Place(cmd, n + 1) /\ Size(cmd) \in Nat
      /\ n + 2 <= Size(cmd) => q = Place(cmd, n + 2)
      /\ n + 1 = Size(cmd) => q = Pad(cmd)
  BY <1>1, TwoMore
<1>3. stored = [[vram EXCEPT ![p] = low] EXCEPT ![q] = high]
  BY DEF store_16
<1>4. Len(g) = n + 2 /\ (\A i \in 1 .. n : g[i] = h[i]) /\ g[n + 1] = low /\ g[n + 2] = high
  BY Zenon DEF Longer
<1> HIDE DEF n, one, two, p, q, stored
<1>5. p \in Offsets /\ q \in Offsets /\ p # q
  <2>1. p \in Offsets
    <3>1. n + 1 \in Nat \ {0} /\ n + 1 <= Size(cmd)
      BY <1>1, <1>2 DEF n
    <3> QED
      BY <1>2, <3>1, InRectangle, Zenon
  <2>2. CASE n + 2 <= Size(cmd)
    <3>1. q \in Offsets
      <4>1. n + 2 \in Nat \ {0}
        BY <1>1
      <4> QED
        BY <1>2, <2>2, <4>1, InRectangle, Zenon
    <3>2. n + 1 \in Nat \ {0} /\ n + 2 \in Nat \ {0} /\ n + 1 <= Size(cmd) /\ n + 1 # n + 2
      BY <1>1, <1>2, <2>2
    <3>3. p # q
      BY <1>2, <2>2, <3>2, PlaceUnique
    <3> QED
      BY <2>1, <3>1, <3>3
  <2>3. CASE n + 1 = Size(cmd)
    <3>1. n + 1 \in Nat \ {0}
      BY <1>1
    <3> QED
      BY <1>2, <2>1, <2>3, <3>1, PadBeside
  <2> QED
    BY <1>1, <1>2, <2>2, <2>3 DEF n
<1>6. /\ stored[p] = low /\ stored[q] = high
      /\ \A o \in Offsets \ {p, q} : stored[o] = vram[o]
  BY <1>3, <1>5
<1>7. ASSUME NEW i \in Arrived(cmd, n + 2) PROVE stored[Place(cmd, i)] = g[i]
  <2>1. i \in Nat \ {0} /\ i <= n + 2 /\ i <= Size(cmd)
    BY <1>1, <1>7 DEF Arrived
  <2>2. CASE i <= n
    <3>1. i \in Arrived(cmd, n) /\ i \in 1 .. n
      BY <1>1, <2>1, <2>2 DEF Arrived
    <3>2. vram[Place(cmd, i)] = h[i] /\ g[i] = h[i]
      BY <1>4, <3>1 DEF InPlace, n
    <3>3. Place(cmd, i) \in Offsets /\ Place(cmd, i) # Pad(cmd)
      BY <2>1, InRectangle, PadBeside
    <3>4. Place(cmd, i) # p
      <4>1. n + 1 \in Nat \ {0} /\ n + 1 <= Size(cmd) /\ i # n + 1
        BY <1>1, <1>2, <2>1, <2>2 DEF n
      <4> QED
        BY <1>2, <2>1, <4>1, PlaceUnique
    <3>5. Place(cmd, i) # q
      <4>1. CASE n + 2 <= Size(cmd)
        <5>1. n + 2 \in Nat \ {0} /\ i # n + 2
          BY <1>1, <2>1, <2>2
        <5> QED
          BY <1>2, <2>1, <4>1, <5>1, PlaceUnique
      <4>2. CASE n + 1 = Size(cmd)
        BY <1>2, <3>3, <4>2
      <4> QED
        BY <1>1, <1>2, <4>1, <4>2 DEF n
    <3> QED
      BY <1>6, <3>2, <3>3, <3>4, <3>5
  <2>3. CASE i = n + 1
    BY <1>2, <1>4, <1>6, <2>3
  <2>4. CASE i = n + 2
    BY <1>2, <1>4, <1>6, <2>1, <2>4
  <2> QED
    BY <1>1, <2>1, <2>2, <2>3, <2>4
<1>8. ASSUME NEW o \in Offsets, stored[o] # c.vram[o]
      PROVE  \/ \E i \in Arrived(cmd, n + 2) : o = Place(cmd, i)
             \/ o = Pad(cmd) /\ Size(cmd) % 2 = 1
  <2>1. CASE o = p
    <3>1. n + 1 \in Arrived(cmd, n + 2)
      BY <1>1, <1>2 DEF Arrived, n
    <3> QED
      BY <1>2, <2>1, <3>1
  <2>2. CASE o = q
    <3>1. CASE n + 2 <= Size(cmd)
      <4>1. n + 2 \in Arrived(cmd, n + 2)
        BY <1>1, <3>1 DEF Arrived
      <4> QED
        BY <1>2, <2>2, <3>1, <4>1
    <3>2. CASE n + 1 = Size(cmd)
      <4>1. Size(cmd) = 2 * j + 1
        BY <1>1, <3>2
      <4>2. Size(cmd) % 2 = 1
        BY <4>1
      <4> QED
        BY <1>2, <2>2, <3>2, <4>2
    <3> QED
      BY <1>1, <1>2, <3>1, <3>2 DEF n
  <2>3. CASE o \notin {p, q}
    <3>1. vram[o] # c.vram[o]
      BY <1>6, <1>8, <2>3
    <3>2. \/ \E i \in Arrived(cmd, n) : o = Place(cmd, i)
          \/ o = Pad(cmd) /\ Size(cmd) % 2 = 1
      BY <3>1 DEF InPlace, n
    <3>3. Arrived(cmd, n) \subseteq Arrived(cmd, n + 2)
      BY <1>1 DEF Arrived
    <3> QED
      BY <3>2, <3>3
  <2> QED
    BY <2>1, <2>2, <2>3
<1>9. InPlace(c, cmd, stored, g)
  BY <1>4, <1>7, <1>8 DEF InPlace
<1> QED
  BY <1>9 DEF stored, one, two, n

LEMMA LoadedInPlace ==
  ASSUME Dimensions, NEW cmd, IsImage(cmd), Fits(cmd), NEW c, NEW h, Len(h) < Size(cmd), NEW vram,
         NEW g, InPlace(c, cmd, vram, h),
         LET one == Cursor(cmd, Len(h))
             two == next(one)
         IN  Longer(h, g, load_16(vram, one.x, one.y), load_16(vram, two.x, two.y))
  PROVE  InPlace(c, cmd, vram, g)
<1> DEFINE n == Len(h)
           one == Cursor(cmd, n)
           two == next(one)
<1>1. n \in Nat
  BY DEF Longer
<1>2. /\ offset_16(one.x, one.y) = Place(cmd, n + 1) /\ Size(cmd) \in Nat
      /\ n + 2 <= Size(cmd) => offset_16(two.x, two.y) = Place(cmd, n + 2)
  BY <1>1, TwoMore
<1>3. /\ Len(g) = n + 2 /\ \A i \in 1 .. n : g[i] = h[i]
      /\ g[n + 1] = vram[offset_16(one.x, one.y)] /\ g[n + 2] = vram[offset_16(two.x, two.y)]
  BY Zenon DEF Longer, load_16
<1> HIDE DEF n, one, two
<1>4. ASSUME NEW i \in Arrived(cmd, n + 2) PROVE vram[Place(cmd, i)] = g[i]
  <2>1. i \in Nat \ {0} /\ i <= n + 2 /\ i <= Size(cmd)
    BY <1>1 DEF Arrived
  <2>2. CASE i <= n
    <3>1. i \in Arrived(cmd, n) /\ i \in 1 .. n
      BY <1>1, <2>1, <2>2 DEF Arrived
    <3> QED
      BY <1>3, <3>1 DEF InPlace, n
  <2>3. CASE i = n + 1
    BY <1>2, <1>3, <2>3
  <2>4. CASE i = n + 2
    BY <1>2, <1>3, <2>1, <2>4
  <2> QED
    BY <1>1, <2>1, <2>2, <2>3, <2>4
<1>5. Arrived(cmd, n) \subseteq Arrived(cmd, n + 2)
  BY <1>1 DEF Arrived
<1> QED
  BY <1>3, <1>4, <1>5 DEF InPlace, n

\* An image that fits and is being transferred.
LEMMA Transferring ==
  ASSUME Dimensions, Images, NEW c \in log.before, IsImage(log.cmd), Fits(log.cmd),
         canvas.tran.kind \in {"store", "load"}
  PROVE  LET n == Len(log.halfwords)
         IN  /\ n \in Nat /\ n < Size(log.cmd) /\ log.cmd.cmd = canvas.tran.kind
             /\ canvas.tran.pos = Cursor(log.cmd, n)
             /\ Transferred(next(next(canvas.tran.pos))) = Cursors(log.cmd, n + 2)
             /\ \E j \in Nat : n = 2 * j
             /\ InPlace(c, log.cmd, canvas.vram, log.halfwords)
<1> DEFINE n == Len(log.halfwords)
<1>1. OnItsWay(c) /\ n \in Nat
  <2>1. PICK S : log.halfwords \in Seq(S)
    BY DEF Images, Log
  <2>2. n \in Nat
    BY <2>1
  <2> QED
    BY <2>2 DEF Images
<1> HIDE DEF n
<1>2. canvas.tran = Cursors(log.cmd, n) /\ Size(log.cmd) \in Nat
  BY <1>1, CursorDone DEF OnItsWay, n
<1>3. n < Size(log.cmd)
  BY <1>1, <1>2 DEF Cursors, NoTransfer
<1>4. canvas.tran.kind = log.cmd.cmd
  BY <1>1, <1>2, <1>3 DEF Cursors
<1>5. canvas.tran.pos = Cursor(log.cmd, n) /\ Transferred(next(next(canvas.tran.pos))) = Cursors(log.cmd, n + 2)
  BY <1>1, <1>2, <1>3, CursorStep
<1> QED
  BY <1>1, <1>3, <1>4, <1>5 DEF OnItsWay, n

LEMMA StoreWordStep == ASSUME Parameters, Images, StoreWord PROVE Images'
<1> DEFINE one == canvas.tran.pos
           two == next(one)
           h == log.halfwords
           n == Len(h)
<1>1. PICK low \in Colors, high \in Colors :
        /\ canvas' = [canvas EXCEPT !.vram = store_16(store_16(@, one.x, one.y, low), two.x, two.y, high),
                                    !.tran = Transferred(next(two))]
        /\ log' = [log EXCEPT !.halfwords = @ \o <<low, high>>,
                              !.written = @ \cup {offset_16(one.x, one.y), offset_16(two.x, two.y)}]
  BY DEF StoreWord
<1>2. canvas.tran.kind = "store" /\ Dimensions
  BY DEF StoreWord, Parameters, Dimensions
<1> DEFINE V == store_16(store_16(canvas.vram, one.x, one.y, low), two.x, two.y, high)
<1>3. Canvas(canvas') /\ canvas'.vram = V /\ canvas'.tran = Transferred(next(two))
  <2>1. V = [o \in Offsets |-> V[o]]
    BY DEF Images, Canvas, store_16
  <2> HIDE DEF V
  <2> QED
    BY <1>1, <2>1 DEF Images, Canvas, CanvasFields, V
<1> DEFINE g == h \o <<low, high>>
<1>4. /\ log' = [x \in LogFields |-> log'[x]] /\ log'.before = log.before /\ log'.cmd = log.cmd
      /\ log'.halfwords = g
  BY <1>1 DEF Images, Log, LogFields
<1>5. PICK S : h \in Seq(S)
  BY DEF Images, Log
<1>6. (\E T : g \in Seq(T)) /\ Longer(h, g, low, high)
  <2>1. g = h \o <<low, high>>
    OBVIOUS
  <2> HIDE DEF g, h
  <2> QED
    BY <1>5, <2>1, TwoAppended
<1> HIDE DEF V, g
<1>7. Log'
  BY <1>4, <1>6 DEF Log
<1>8. ASSUME NEW c \in log.before, IsImage(log.cmd), Fits(log.cmd) PROVE OnItsWay(c)'
  <2>1. /\ n \in Nat /\ n < Size(log.cmd) /\ one = Cursor(log.cmd, n)
        /\ Transferred(next(two)) = Cursors(log.cmd, n + 2)
        /\ \E j \in Nat : n = 2 * j
        /\ InPlace(c, log.cmd, canvas.vram, h)
    BY <1>2, <1>8, Transferring
  <2>2. PICK j \in Nat : n = 2 * j
    BY <2>1
  <2>3. InPlace(c, log.cmd, V, g)
    BY <1>2, <1>6, <1>8, <2>1, <2>2, StoredInPlace DEF Images, Canvas, V
  <2>4. Len(g) = n + 2
    BY <1>6 DEF Longer
  <2>5. n + 2 = 2 * (j + 1) /\ j + 1 \in Nat
    BY <2>2
  <2> QED
    BY <1>3, <1>4, <2>1, <2>3, <2>4, <2>5 DEF OnItsWay
<1> QED
  BY <1>3, <1>4, <1>7, <1>8 DEF Images

LEMMA LoadWordStep == ASSUME Parameters, Images, LoadWord PROVE Images'
<1> DEFINE one == canvas.tran.pos
           two == next(one)
           h == log.halfwords
           n == Len(h)
           low == load_16(canvas.vram, one.x, one.y)
           high == load_16(canvas.vram, two.x, two.y)
           g == h \o <<low, high>>
<1>1. canvas.tran.kind = "load" /\ Dimensions
  BY DEF LoadWord, Parameters, Dimensions
<1>2. canvas' = [canvas EXCEPT !.tran = Transferred(next(two))]
  BY DEF LoadWord
<1>3. log' = [log EXCEPT !.halfwords = g]
  BY DEF LoadWord
<1>4. Canvas(canvas') /\ canvas'.vram = canvas.vram /\ canvas'.tran = Transferred(next(two))
  BY <1>2 DEF Images, Canvas, CanvasFields
<1>5. PICK S : h \in Seq(S)
  BY DEF Images, Log
<1>6. (\E T : g \in Seq(T)) /\ Longer(h, g, low, high)
  <2>1. g = h \o <<low, high>>
    OBVIOUS
  <2> HIDE DEF g, h, low, high
  <2> QED
    BY <1>5, <2>1, TwoAppended
<1> HIDE DEF g
<1>7. /\ log' = [x \in LogFields |-> log'[x]] /\ log'.before = log.before /\ log'.cmd = log.cmd
      /\ log'.halfwords = g
  BY <1>3 DEF Images, Log, LogFields
<1>8. Log'
  BY <1>6, <1>7 DEF Log
<1>9. ASSUME NEW c \in log.before, IsImage(log.cmd), Fits(log.cmd) PROVE OnItsWay(c)'
  <2>1. /\ n \in Nat /\ n < Size(log.cmd) /\ one = Cursor(log.cmd, n)
        /\ Transferred(next(two)) = Cursors(log.cmd, n + 2)
        /\ \E j \in Nat : n = 2 * j
        /\ InPlace(c, log.cmd, canvas.vram, h)
    BY <1>1, <1>9, Transferring
  <2>2. PICK j \in Nat : n = 2 * j
    BY <2>1
  <2>3. InPlace(c, log.cmd, canvas.vram, g)
    BY <1>1, <1>6, <1>9, <2>1, LoadedInPlace
  <2>4. Len(g) = n + 2
    BY <1>6 DEF Longer
  <2>5. n + 2 = 2 * (j + 1) /\ j + 1 \in Nat
    BY <2>2
  <2> QED
    BY <1>4, <1>7, <2>1, <2>3, <2>4, <2>5 DEF OnItsWay
<1> QED
  BY <1>4, <1>7, <1>8, <1>9 DEF Images

LEMMA AlwaysImages == GpuSpec => [](Images /\ guest \in Guests)
<1> USE GpuAssumption
<1> DEFINE Inv == Images /\ guest \in Guests
<1>1. GpuInit => Inv
  BY InitImages DEF GpuInit
<1>2. Inv /\ [GpuNext]_gpu_vars => Inv'
  <2> SUFFICES ASSUME Inv, [GpuNext]_gpu_vars PROVE Images' /\ guest' = guest
    OBVIOUS
  <2>1. guest' = guest
    BY DEF GpuNext, Draw, SetRegister, StoreWord, LoadWord, Reset, Display, gpu_vars
  <2>2. Images'
    BY DrawStep, SetRegisterStep, StoreWordStep, LoadWordStep, ResetStep, DisplayStep DEF GpuNext
  <2> QED
    BY <2>1, <2>2
<1> QED
  BY <1>1, <1>2, PTL DEF GpuSpec

\* ImageInPlace, for every size of video memory, any image and whatever was drawn
\* before it: `fifo_to_vram_store` and `gpu_read` move an image that lies within
\* video memory halfword by halfword to and from its rectangle, end with its last
\* word, and change nothing else but the halfword that fills up that word.
THEOREM ImagesInPlace == GpuSpec => []ImageInPlace
<1> USE GpuAssumption
<1>1. Images => ImageInPlace
  <2>1. Dimensions
    BY DEF Parameters, Dimensions
  <2> QED
    BY <2>1, ImagesImply
<1> QED
  BY <1>1, AlwaysImages, PTL

-----------------------------------------------------------------------------
(***************************************************************************)
(* Textured rectangles (Gpu).                                              *)
(***************************************************************************)
\* A function on 0 .. n that is defined from each number to the next exists.
Recursion(f, S, step, s, n) ==
  f \in [0 .. n -> S] /\ f[0] = s /\ \A i \in 1 .. n : f[i] = step[<<i, f[i - 1]>>]

LEMMA Recursed ==
  ASSUME NEW S, NEW s \in S, NEW n \in Nat, NEW step \in [(1 .. n) \X S -> S]
  PROVE  \E f : Recursion(f, S, step, s, n)
<1> DEFINE Goes(f, m) == f \in [0 .. m -> S] /\ f[0] = s /\ \A i \in 1 .. m : f[i] = step[<<i, f[i - 1]>>]
           T == {m \in Nat : m <= n => \E f : Goes(f, m)}
<1>1. 0 \in T
  <2> DEFINE f == [i \in 0 .. 0 |-> s]
  <2>1. f \in [0 .. 0 -> S] /\ f[0] = s
    OBVIOUS
  <2> HIDE DEF f
  <2>2. Goes(f, 0)
    BY <2>1
  <2> QED
    BY <2>2
<1>2. ASSUME NEW m \in T PROVE m + 1 \in T
  <2> SUFFICES ASSUME m + 1 <= n PROVE \E f : Goes(f, m + 1)
    OBVIOUS
  <2>1. m \in Nat /\ m + 1 \in Nat /\ m + 1 \in 1 .. n
    OBVIOUS
  <2>2. PICK f : Goes(f, m)
    BY <2>1
  <2> DEFINE next_ == step[<<m + 1, f[m]>>]
             g == [i \in 0 .. m + 1 |-> IF i = m + 1 THEN next_ ELSE f[i]]
  <2>3. f[m] \in S /\ next_ \in S
    BY <2>1, <2>2
  <2> HIDE DEF next_
  <2>4. g \in [0 .. m + 1 -> S]
    BY <2>1, <2>2, <2>3
  <2>5. g[0] = s
    BY <2>1, <2>2
  <2>6. ASSUME NEW i \in 1 .. m + 1 PROVE g[i] = step[<<i, g[i - 1]>>]
    <3>1. i - 1 \in 0 .. m /\ i - 1 # m + 1 /\ g[i - 1] = f[i - 1]
      BY <2>1
    <3>2. CASE i = m + 1
      <4>1. i - 1 = m /\ g[i] = next_ /\ g[i - 1] = f[m]
        BY <2>1, <3>1, <3>2
      <4> QED
        BY <3>2, <4>1 DEF next_
    <3>3. CASE i # m + 1
      <4>1. i \in 1 .. m /\ g[i] = f[i]
        BY <2>1, <3>3
      <4> QED
        BY <2>2, <3>1, <4>1
    <3> QED
      BY <3>2, <3>3
  <2> HIDE DEF g
  <2> QED
    BY <2>4, <2>5, <2>6
<1>3. T \in SUBSET Nat
  OBVIOUS
<1>4. n \in T
  <2> HIDE DEF T
  <2> QED
    BY <1>1, <1>2, <1>3, SetInduction
<1> QED
  BY <1>4 DEF Recursion

LEMMA MaxOfTwo ==
  ASSUME NEW a \in Int, NEW b \in Int
  PROVE  Max({a, b}) = IF a >= b THEN a ELSE b
<1> DEFINE m == IF a >= b THEN a ELSE b
<1>1. m \in {a, b} /\ \A y \in {a, b} : m >= y
  OBVIOUS
<1>2. \A x \in {a, b} : (\A y \in {a, b} : x >= y) => x = m
  OBVIOUS
<1> HIDE DEF m
<1>3. Max({a, b}) = m
  BY <1>1, <1>2 DEF Max
<1> QED
  BY <1>3 DEF m

LEMMA MinOfTwo ==
  ASSUME NEW a \in Int, NEW b \in Int
  PROVE  Min({a, b}) = IF a <= b THEN a ELSE b
<1> DEFINE m == IF a <= b THEN a ELSE b
<1>1. m \in {a, b} /\ \A y \in {a, b} : m <= y
  OBVIOUS
<1>2. \A x \in {a, b} : (\A y \in {a, b} : x <= y) => x = m
  OBVIOUS
<1> HIDE DEF m
<1>3. Min({a, b}) = m
  BY <1>1, <1>2 DEF Min
<1> QED
  BY <1>3 DEF m

LEMMA OffsetIn == ASSUME Dimensions, NEW x \in Int, NEW y \in Int PROVE offset_16(x, y) \in Offsets
<1> DEFINE N == WIDTH * HEIGHT
           o == x + y * WIDTH
<1>1. N \in Nat \ {0}
  <2>1. WIDTH * HEIGHT >= 1 * HEIGHT /\ WIDTH * HEIGHT \in Int
    BY DEF Dimensions
  <2> QED
    BY <2>1 DEF Dimensions
<1>2. o \in Int
  BY DEF Dimensions
<1> HIDE DEF N, o
<1>3. o % N \in 0 .. N - 1
  BY <1>1, <1>2
<1> QED
  BY <1>3 DEF offset_16, Offsets, N, o

LEMMA RestIs ==
  ASSUME NEW w \in Nat \ {0}, NEW k \in Int, NEW q \in Int, NEW r \in 0 .. w - 1, k = q * w + r
  PROVE  k % w = r
<1> DEFINE d == k \div w
           m == k % w
<1>1. d \in Int /\ m \in 0 .. w - 1 /\ k = d * w + m
  OBVIOUS
<1> HIDE DEF d, m
<1>2. d * w + m = q * w + r
  BY <1>1
<1>3. m = r
  BY <1>1, <1>2, RowsUnique
<1> QED
  BY <1>3 DEF m

\* What wraps can be wrapped before it is added to.
LEMMA WrapsOnce ==
  ASSUME NEW w \in Nat \ {0}, NEW a \in Int, NEW b \in Int
  PROVE  ((a % w) + b) % w = (a + b) % w
<1> DEFINE q == a \div w
           r == a % w
           d == (r + b) \div w
           m == (r + b) % w
<1>1. q \in Int /\ r \in 0 .. w - 1 /\ a = q * w + r
  OBVIOUS
<1>2. d \in Int /\ m \in 0 .. w - 1 /\ r + b = d * w + m
  BY <1>1
<1> HIDE DEF q, r, d, m
<1>3. a + b = (q + d) * w + m
  <2>1. (q + d) * w = q * w + d * w /\ q * w \in Int /\ d * w \in Int
    BY <1>1, <1>2
  <2> QED
    BY <1>1, <1>2, <2>1
<1>4. q + d \in Int /\ a + b \in Int
  BY <1>1, <1>2
<1>5. (a + b) % w = m
  BY <1>2, <1>3, <1>4, RestIs
<1> QED
  BY <1>5 DEF m, r

-----------------------------------------------------------------------------
\* The pixels of a rectangle are those of its box, each of them once.
InBox(box) == [x : box.x_min .. box.x_max, y : box.y_min .. box.y_max]

IsBox(box) == {box.x_min, box.x_max, box.y_min, box.y_max} \subseteq Int

LEMMA RectPixels ==
  ASSUME NEW box, IsBox(box)
  PROVE  LET pixels == rect_pixels(box)
         IN  /\ Len(pixels) \in Nat /\ DOMAIN pixels = 1 .. Len(pixels)
             /\ \A j \in DOMAIN pixels : pixels[j] \in InBox(box)
             /\ \A i, j \in DOMAIN pixels : pixels[i] = pixels[j] => i = j
             /\ \A p \in InBox(box) : \E j \in DOMAIN pixels : p = pixels[j]
<1> DEFINE w == box.x_max - box.x_min + 1
           h == box.y_max - box.y_min + 1
           a == box.x_min
           b == box.y_min
           pixels == rect_pixels(box)
<1>1. w \in Int /\ h \in Int /\ a \in Int /\ b \in Int
  BY DEF IsBox
<1>2. InBox(box) = [x : a .. a + w - 1, y : b .. b + h - 1]
  <2>1. a + w - 1 = box.x_max /\ b + h - 1 = box.y_max
    BY DEF IsBox
  <2> QED
    BY <2>1, Zenon DEF InBox
<1>3. pixels = IF w <= 0 \/ h <= 0 THEN <<>>
               ELSE [n \in 1 .. w * h |-> Point(a + ((n - 1) % w), b + ((n - 1) \div w))]
  BY DEF rect_pixels
<1> HIDE DEF w, h, a, b, pixels
<1>4. CASE w <= 0 \/ h <= 0
  <2>1. pixels = <<>>
    BY <1>3, <1>4
  <2>2. \A p \in InBox(box) : FALSE
    BY <1>1, <1>2, <1>4
  <2> QED
    BY <2>1, <2>2 DEF pixels
<1>5. CASE ~(w <= 0 \/ h <= 0)
  <2>1. w \in Nat \ {0} /\ h \in Nat \ {0} /\ w * h \in Nat
    BY <1>1, <1>5
  <2> DEFINE N == w * h
             x(n) == (n - 1) % w
             y(n) == (n - 1) \div w
  <2>2. pixels = [n \in 1 .. N |-> Point(a + x(n), b + y(n))]
    BY <1>3, <1>5
  <2>3. ASSUME NEW n \in 1 .. N
        PROVE  x(n) \in 0 .. w - 1 /\ y(n) \in 0 .. h - 1 /\ n - 1 = y(n) * w + x(n)
    <3>1. n - 1 \in Nat /\ n - 1 < N
      BY <2>1
    <3>2. x(n) \in 0 .. w - 1 /\ y(n) \in Nat /\ n - 1 = y(n) * w + x(n)
      BY <2>1, <3>1, InRows, Zenon
    <3>3. y(n) < h
      BY <2>1, <3>1, RowBelow
    <3> HIDE DEF x, y
    <3> QED
      BY <2>1, <3>2, <3>3
  <2>4. ASSUME NEW i \in 0 .. w - 1, NEW j \in 0 .. h - 1
        PROVE  j * w + i + 1 \in 1 .. N /\ x(j * w + i + 1) = i /\ y(j * w + i + 1) = j
    <3> DEFINE k == j * w + i
    <3>1. k \in Nat /\ (k + 1) - 1 = k /\ k + 1 \in Nat
      BY <2>1
    <3>2. k \div w = j /\ k % w = i
      BY <2>1, <3>1, RowsAre
    <3>3. k < N
      BY <2>1, <3>1, <3>2, RowBelow
    <3> HIDE DEF k
    <3>4. k + 1 \in 1 .. N /\ x(k + 1) = i /\ y(k + 1) = j
      BY <2>1, <3>1, <3>2, <3>3
    <3> QED
      BY <3>4 DEF k
  <2> HIDE DEF x, y, N
  <2>5. N \in Nat
    BY <2>1 DEF N
  <2>6. Len(pixels) = N /\ DOMAIN pixels = 1 .. N
    BY <2>2, <2>5
  <2>7. ASSUME NEW n \in 1 .. N PROVE pixels[n] \in InBox(box)
    <3>1. a + x(n) \in a .. a + w - 1 /\ b + y(n) \in b .. b + h - 1
      BY <1>1, <2>1, <2>3
    <3> QED
      BY <1>2, <2>2, <3>1 DEF Point
  <2>8. ASSUME NEW m \in 1 .. N, NEW n \in 1 .. N, pixels[m] = pixels[n] PROVE m = n
    <3>1. a + x(m) = a + x(n) /\ b + y(m) = b + y(n)
      BY <2>2, <2>8 DEF Point
    <3>2. x(m) = x(n) /\ y(m) = y(n)
      BY <1>1, <2>1, <2>3, <3>1
    <3> QED
      BY <2>3, <2>5, <3>2
  <2>9. ASSUME NEW p \in InBox(box) PROVE \E n \in 1 .. N : p = pixels[n]
    <3>1. p = Point(p.x, p.y) /\ p.x \in a .. a + w - 1 /\ p.y \in b .. b + h - 1
      BY <1>2 DEF Point
    <3>2. p.x - a \in 0 .. w - 1 /\ p.y - b \in 0 .. h - 1
          /\ a + (p.x - a) = p.x /\ b + (p.y - b) = p.y
      BY <1>1, <2>1, <3>1
    <3>3. PICK n \in 1 .. N : x(n) = p.x - a /\ y(n) = p.y - b
      BY <2>4, <3>2
    <3>4. pixels[n] = Point(p.x, p.y)
      BY <2>2, <3>2, <3>3
    <3> QED
      BY <3>1, <3>4
  <2> QED
    BY <2>5, <2>6, <2>7, <2>8, <2>9 DEF pixels
<1> QED
  BY <1>4, <1>5

\* The box of a rectangle is the part of it that lies in the draw area.
IsArea(da) == da \in [x_min : 0 .. WIDTH - 1, x_max : 0 .. WIDTH - 1,
                      y_min : 0 .. HEIGHT - 1, y_max : 0 .. HEIGHT - 1]

Shown(corner, dim, da) == {p \in fill_rect(corner, dim) : In(p, da)}

LEMMA ClippedIsShown ==
  ASSUME Dimensions, NEW corner \in Position, NEW dim \in Position, NEW da, IsArea(da)
  PROVE  LET box == clip_rect(corner, dim, da)
         IN  /\ IsBox(box) /\ InBox(box) = Shown(corner, dim, da) /\ InBox(box) \subseteq Screen
             /\ box.x_min = (IF corner.x < da.x_min THEN da.x_min ELSE corner.x)
             /\ box.y_min = (IF corner.y < da.y_min THEN da.y_min ELSE corner.y)
<1> DEFINE box == clip_rect(corner, dim, da)
<1>1. /\ corner.x \in Int /\ corner.y \in Int /\ dim.x \in Int /\ dim.y \in Int
      /\ da.x_min \in 0 .. WIDTH - 1 /\ da.x_max \in 0 .. WIDTH - 1
      /\ da.y_min \in 0 .. HEIGHT - 1 /\ da.y_max \in 0 .. HEIGHT - 1
      /\ WIDTH \in Nat /\ HEIGHT \in Nat
  BY DEF Position, IsArea, Dimensions
<1>2. /\ corner.x + dim.x \in Int /\ corner.y + dim.y \in Int /\ da.x_max + 1 \in Int /\ da.y_max + 1 \in Int
      /\ da.x_min \in Int /\ da.y_min \in Int
  BY <1>1
<1>3. /\ box.x_min = (IF corner.x >= da.x_min THEN corner.x ELSE da.x_min)
      /\ box.y_min = (IF corner.y >= da.y_min THEN corner.y ELSE da.y_min)
      /\ box.x_max = (IF corner.x + dim.x <= da.x_max + 1 THEN corner.x + dim.x ELSE da.x_max + 1) - 1
      /\ box.y_max = (IF corner.y + dim.y <= da.y_max + 1 THEN corner.y + dim.y ELSE da.y_max + 1) - 1
  BY <1>1, <1>2, MaxOfTwo, MinOfTwo DEF clip_rect
<1> HIDE DEF box
<1>4. IsBox(box)
  BY <1>1, <1>3 DEF IsBox
<1>5. ASSUME NEW x \in Int, NEW y \in Int
      PROVE  (x \in box.x_min .. box.x_max /\ y \in box.y_min .. box.y_max)
               <=> (/\ x - corner.x \in 0 .. dim.x - 1 /\ y - corner.y \in 0 .. dim.y - 1
                    /\ x \in da.x_min .. da.x_max /\ y \in da.y_min .. da.y_max)
  <2>1. x \in box.x_min .. box.x_max <=> x - corner.x \in 0 .. dim.x - 1 /\ x \in da.x_min .. da.x_max
    <3> DEFINE s == corner.x
               d == dim.x
               low == da.x_min
               high == da.x_max
    <3>1. s \in Int /\ d \in Int /\ low \in Int /\ high \in Int
          /\ box.x_min = (IF s >= low THEN s ELSE low)
          /\ box.x_max = (IF s + d <= high + 1 THEN s + d ELSE high + 1) - 1
      BY <1>1, <1>2, <1>3
    <3> HIDE DEF s, d, low, high
    <3>2. x \in box.x_min .. box.x_max <=> x - s \in 0 .. d - 1 /\ x \in low .. high
      BY <3>1
    <3> QED
      BY <3>2 DEF s, d, low, high
  <2>2. y \in box.y_min .. box.y_max <=> y - corner.y \in 0 .. dim.y - 1 /\ y \in da.y_min .. da.y_max
    <3> DEFINE s == corner.y
               d == dim.y
               low == da.y_min
               high == da.y_max
    <3>1. s \in Int /\ d \in Int /\ low \in Int /\ high \in Int
          /\ box.y_min = (IF s >= low THEN s ELSE low)
          /\ box.y_max = (IF s + d <= high + 1 THEN s + d ELSE high + 1) - 1
      BY <1>1, <1>2, <1>3
    <3> HIDE DEF s, d, low, high
    <3>2. y \in box.y_min .. box.y_max <=> y - s \in 0 .. d - 1 /\ y \in low .. high
      BY <3>1
    <3> QED
      BY <3>2 DEF s, d, low, high
  <2> QED
    BY <2>1, <2>2
<1>6. ASSUME NEW p \in InBox(box) PROVE p \in Shown(corner, dim, da) /\ p \in Screen
  <2>1. p = Point(p.x, p.y) /\ p.x \in Int /\ p.y \in Int
        /\ p.x \in box.x_min .. box.x_max /\ p.y \in box.y_min .. box.y_max
    BY <1>4 DEF InBox, IsBox, Point
  <2>2. /\ p.x - corner.x \in 0 .. dim.x - 1 /\ p.y - corner.y \in 0 .. dim.y - 1
        /\ p.x \in da.x_min .. da.x_max /\ p.y \in da.y_min .. da.y_max
    BY <1>5, <2>1
  <2>3. p = Point(corner.x + (p.x - corner.x), corner.y + (p.y - corner.y))
    <3>1. corner.x + (p.x - corner.x) = p.x /\ corner.y + (p.y - corner.y) = p.y
      BY <1>1, <2>1
    <3> QED
      BY <2>1, <3>1
  <2>4. p \in fill_rect(corner, dim)
    BY <2>2, <2>3 DEF fill_rect
  <2>5. In(p, da)
    BY <2>2 DEF In
  <2>6. p.x \in 0 .. WIDTH - 1 /\ p.y \in 0 .. HEIGHT - 1
    BY <1>1, <2>2
  <2>7. p \in Screen
    BY <2>1, <2>6 DEF Screen, Point
  <2> QED
    BY <2>4, <2>5, <2>7 DEF Shown
<1>7. ASSUME NEW p \in Shown(corner, dim, da) PROVE p \in InBox(box)
  <2>1. PICK x \in 0 .. dim.x - 1, y \in 0 .. dim.y - 1 : p = Point(corner.x + x, corner.y + y)
    BY DEF Shown, fill_rect
  <2>2. p.x = corner.x + x /\ p.y = corner.y + y
    BY <2>1 DEF Point
  <2>3. p.x \in Int /\ p.y \in Int /\ p.x - corner.x = x /\ p.y - corner.y = y
    BY <1>1, <2>2
  <2>4. p.x \in da.x_min .. da.x_max /\ p.y \in da.y_min .. da.y_max
    BY DEF Shown, In
  <2>5. p.x \in box.x_min .. box.x_max /\ p.y \in box.y_min .. box.y_max
    BY <1>5, <2>3, <2>4
  <2>6. p = Point(p.x, p.y)
    BY <2>1, <2>2
  <2> QED
    BY <2>5, <2>6 DEF InBox, Point
<1>8. /\ box.x_min = (IF corner.x < da.x_min THEN da.x_min ELSE corner.x)
      /\ box.y_min = (IF corner.y < da.y_min THEN da.y_min ELSE corner.y)
  BY <1>1, <1>3
<1> QED
  BY <1>4, <1>6, <1>7, <1>8 DEF box

-----------------------------------------------------------------------------
\* One place after the other is painted, in what is read from another place.
Canvases(f, O, C, n) == f \in [0 .. n -> [O -> C]]

Strokes(f, n, at, from, look, color) ==
  \A i \in 1 .. n : f[i] = LET t == look[<<i, f[i - 1][from[i]]>>]
                           IN  IF t = 0 THEN f[i - 1] ELSE [f[i - 1] EXCEPT ![at[i]] = color[t]]

AsPainted(mem, new_mem, O, n, at, from, look, color) ==
  /\ \A o \in O : (\A i \in 1 .. n : o # at[i]) => new_mem[o] = mem[o]
  /\ (\A i, j \in 1 .. n : from[i] # at[j])
       => \A i \in 1 .. n : LET t == look[<<i, mem[from[i]]>>]
                            IN  new_mem[at[i]] = IF t = 0 THEN mem[at[i]] ELSE color[t]

LEMMA Painted ==
  ASSUME NEW O, NEW C, NEW n \in Nat,
         NEW at \in [1 .. n -> O], NEW from \in [1 .. n -> O],
         NEW look \in [(1 .. n) \X C -> C], NEW color \in [C -> C],
         \A i, j \in 1 .. n : at[i] = at[j] => i = j,
         NEW f, Canvases(f, O, C, n), Strokes(f, n, at, from, look, color)
  PROVE  AsPainted(f[0], f[n], O, n, at, from, look, color)
<1> DEFINE mem == f[0]
<1>0. /\ f \in [0 .. n -> [O -> C]] /\ mem \in [O -> C]
      /\ \A i \in 1 .. n : f[i] = LET t == look[<<i, f[i - 1][from[i]]>>]
                                   IN  IF t = 0 THEN f[i - 1] ELSE [f[i - 1] EXCEPT ![at[i]] = color[t]]
  BY DEF Canvases, Strokes
<1> HIDE DEF mem
<1> DEFINE Apart == \A i, j \in 1 .. n : from[i] # at[j]
           texel(i) == look[<<i, mem[from[i]]>>]
           value(i) == IF texel(i) = 0 THEN mem[at[i]] ELSE color[texel(i)]
           Rest(k) == \A o \in O : (\A i \in 1 .. k : o # at[i]) => f[k][o] = mem[o]
           Done(k) == Apart => \A i \in 1 .. k : f[k][at[i]] = value(i)
           T == {k \in Nat : k <= n => Rest(k) /\ Done(k)}
<1>1. 0 \in T
  BY <1>0 DEF mem
<1>2. ASSUME NEW k \in Nat, k + 1 <= n, Rest(k), Done(k) PROVE Rest(k + 1) /\ Done(k + 1)
  <2>1. k + 1 \in 1 .. n /\ (k + 1) - 1 = k /\ k \in 0 .. n /\ k <= n
        /\ 1 .. k + 1 = (1 .. k) \cup {k + 1} /\ 1 .. k \subseteq 1 .. n /\ k + 1 \notin 1 .. k
    BY <1>2
  <2>2. Rest(k) /\ Done(k)
    BY <1>2
  <2> DEFINE t == look[<<k + 1, f[k][from[k + 1]]>>]
             a == at[k + 1]
             c == color[t]
  <2>3. f[k] \in [O -> C] /\ a \in O /\ f[k + 1] = IF t = 0 THEN f[k] ELSE [f[k] EXCEPT ![a] = c]
    BY <1>0, <2>1
  <2>4. \A i \in 1 .. k : at[i] # a
    BY <2>1
  <2>5. Apart => t = texel(k + 1)
    <3> SUFFICES ASSUME Apart PROVE f[k][from[k + 1]] = mem[from[k + 1]]
      OBVIOUS
    <3>1. from[k + 1] \in O /\ \A i \in 1 .. k : from[k + 1] # at[i]
      BY <2>1
    <3> QED
      BY <2>2, <3>1
  <2>6. f[k][a] = mem[a]
    BY <2>2, <2>3, <2>4
  <2>7. Apart => c = color[texel(k + 1)]
    BY <2>5
  <2> HIDE DEF t, c
  <2>8. Rest(k + 1)
    <3> SUFFICES ASSUME NEW o \in O, \A i \in 1 .. k + 1 : o # at[i] PROVE f[k + 1][o] = mem[o]
      OBVIOUS
    <3>1. o # a /\ f[k][o] = mem[o]
      BY <2>1, <2>2
    <3> QED
      BY <2>3, <3>1
  <2>9. Done(k + 1)
    <3> SUFFICES ASSUME Apart, NEW i \in 1 .. k + 1 PROVE f[k + 1][at[i]] = value(i)
      OBVIOUS
    <3>1. CASE i = k + 1
      <4>1. f[k + 1][a] = IF t = 0 THEN mem[a] ELSE c
        BY <2>3, <2>6
      <4> QED
        BY <2>5, <2>7, <3>1, <4>1
    <3>2. CASE i # k + 1
      <4>1. i \in 1 .. k
        BY <2>1, <3>2
      <4>2. f[k][at[i]] = value(i) /\ at[i] # a /\ at[i] \in O
        BY <2>1, <2>2, <2>4, <4>1
      <4> QED
        BY <2>3, <4>2
    <3> QED
      BY <3>1, <3>2
  <2> QED
    BY <2>8, <2>9
<1>3. T \in SUBSET Nat
  OBVIOUS
<1>4. ASSUME NEW k \in T PROVE k + 1 \in T
  <2> HIDE DEF Rest, Done
  <2>1. k \in Nat /\ k + 1 \in Nat /\ (k + 1 <= n => k <= n)
    OBVIOUS
  <2> QED
    BY <1>2, <2>1
<1>5. n \in T
  <2> HIDE DEF T
  <2> QED
    BY <1>1, <1>3, <1>4, SetInduction
<1> QED
  BY <1>5 DEF AsPainted, mem

-----------------------------------------------------------------------------
\* Halfwords of video memory, and the entries of the palette cache.
Halfwords == Nat \cup {Mixed}
Memory == [Offsets -> Halfwords]
Entries == [0 .. TEXEL * TEXEL - 1 -> Halfwords]

\* Which texel a halfword gives at a column of the texture.
TexelIn(clut, val, depth, u) ==
  IF depth = "B15" \/ val = Mixed THEN val ELSE clut.data[texel_index(val, depth, u)]

LEMMA ClutSize ==
  ASSUME NEW depth PROVE clut_size(depth) \in Nat \ {0} /\ clut_size(depth) <= TEXEL * TEXEL
<1>1. TEXEL * TEXEL >= 1 * TEXEL /\ TEXEL * TEXEL \in Nat
  BY VramAssumption
<1> QED
  BY <1>1, VramAssumption DEF clut_size

LEMMA IndexIn ==
  ASSUME NEW depth \in Depths \ {"B15"}, NEW val \in Nat, NEW u \in Int
  PROVE  texel_index(val, depth, u) \in 0 .. clut_size(depth) - 1
<1> DEFINE s == clut_size(depth)
           k == u % per_halfword(depth)
           p == s ^ k
<1>1. per_halfword(depth) \in {2, 4}
  BY DEF per_halfword, Depths
<1>2. k \in 0 .. 3
  BY <1>1
<1> HIDE DEF k
<1>3. p \in Nat \ {0}
  BY <1>2, TexelPowers DEF clut_size
<1>4. s \in Nat \ {0}
  BY ClutSize
<1> HIDE DEF s, p
<1>5. (val \div p) \in Int
  BY <1>3
<1> DEFINE q == val \div p
<1> HIDE DEF q
<1>6. q % s \in 0 .. s - 1
  BY <1>4, <1>5 DEF q
<1> QED
  BY <1>6 DEF texel_index, s, p, k, q

LEMMA TexelType ==
  ASSUME NEW clut, clut.data \in Entries, NEW depth \in Depths, NEW val \in Halfwords, NEW u \in Int
  PROVE  TexelIn(clut, val, depth, u) \in Halfwords
<1>1. CASE depth = "B15" \/ val = Mixed
  BY <1>1 DEF TexelIn
<1>2. CASE ~(depth = "B15" \/ val = Mixed)
  <2>1. val \in Nat /\ depth \in Depths \ {"B15"}
    BY <1>2 DEF Halfwords
  <2> DEFINE i == texel_index(val, depth, u)
  <2>2. i \in 0 .. clut_size(depth) - 1
    BY <2>1, IndexIn
  <2>3. i \in 0 .. TEXEL * TEXEL - 1
    <3>1. TEXEL * TEXEL \in Nat
      BY VramAssumption
    <3> HIDE DEF i
    <3> QED
      BY <2>2, <3>1, ClutSize
  <2> HIDE DEF i
  <2>4. clut.data[i] \in Halfwords
    BY <2>3 DEF Entries
  <2> QED
    BY <1>2, <2>4 DEF TexelIn, i
<1> QED
  BY <1>1, <1>2

LEMMA ColorType == ASSUME NEW texel \in Halfwords PROVE as_color(texel) \in Halfwords
<1>1. TEXEL ^ 4 \div 2 \in Nat \ {0}
  BY TexelPowers
<1> DEFINE m == TEXEL ^ 4 \div 2
<1> HIDE DEF m
<1>2. ASSUME NEW n \in Nat PROVE n % m \in Nat
  BY <1>1 DEF m
<1> QED
  BY <1>2 DEF as_color, Halfwords, m

LEMMA TexelOffset ==
  ASSUME Dimensions, NEW page \in Position, NEW depth \in Depths, NEW u \in Int, NEW v \in Int
  PROVE  texel_offset(page, depth, u, v) \in Offsets
<1>1. per_halfword(depth) \in {1, 2, 4}
  BY DEF per_halfword, Depths
<1>2. page.x + (u \div per_halfword(depth)) \in Int /\ page.y + v \in Int
  BY <1>1 DEF Position
<1> QED
  BY <1>2, OffsetIn DEF texel_offset

-----------------------------------------------------------------------------
\* The texture coordinate that the code steps to in column or row n of the box,
\* and the one that is as far from the first as n is from the corner.
Advance(flipped) == IF flipped THEN -1 ELSE 1

Coord(tc, flipped, corner, low, n) ==
  (clip_coord(tc, Advance(flipped), corner, low) + (n - low) * Advance(flipped)) % COORD

Along(tc, flipped, n) == (IF flipped THEN tc - n ELSE tc + n) % COORD

LEMMA CoordIs ==
  ASSUME NEW tc \in Int, NEW flipped, NEW corner \in Int, NEW low \in Int, corner <= low, NEW n \in Int
  PROVE  /\ Coord(tc, flipped, corner, low, n) = Along(tc, flipped, n - corner)
         /\ Along(tc, flipped, n - corner) \in Int
<1> DEFINE d == Advance(flipped)
           C == COORD
<1>1. C \in Nat \ {0}
  BY VramAssumption
<1>2. (flipped /\ d = -1) \/ (~flipped /\ d = 1)
  BY DEF Advance
<1>3. d \in {-1, 1}
  BY <1>2
<1> HIDE DEF d, C
<1>4. clip_coord(tc, d, corner, low) = (IF corner < low THEN (tc + (low - corner) * d) % C ELSE tc)
  BY DEF clip_coord, C
<1>5. tc + (low - corner) * d \in Int /\ (n - low) * d \in Int
  BY <1>3
<1>6. (tc + (low - corner) * d) + (n - low) * d = tc + (n - corner) * d
  <2>1. CASE d = 1
    BY <1>3, <2>1
  <2>2. CASE d = -1
    BY <1>3, <2>2
  <2> QED
    BY <1>3, <2>1, <2>2
<1>7. (clip_coord(tc, d, corner, low) + (n - low) * d) % C = (tc + (n - corner) * d) % C
  <2>1. CASE corner < low
    BY <1>1, <1>4, <1>5, <1>6, <2>1, WrapsOnce
  <2>2. CASE corner = low
    BY <1>4, <2>2
  <2> QED
    BY <2>1, <2>2
<1>8. tc + (n - corner) * d = IF flipped THEN tc - (n - corner) ELSE tc + (n - corner)
  BY <1>2
<1>9. Coord(tc, flipped, corner, low, n) = Along(tc, flipped, n - corner)
  BY <1>7, <1>8 DEF Coord, Along, C, d
<1>10. (tc + (n - corner) * d) % C \in Int
  BY <1>1, <1>3
<1> QED
  BY <1>8, <1>9, <1>10 DEF Along, C

\* Each pixel of a rectangle is drawn with its texel, and nothing else is.
At(p) == offset_16(p.x, p.y)

TexelsDrawn(vram, drawn, clut, page, depth, flip, corner, box, tc) ==
  LET U(p) == Coord(tc.x, flip.x, corner.x, box.x_min, p.x)
      V(p) == Coord(tc.y, flip.y, corner.y, box.y_min, p.y)
      texel(p) == load_texel(clut, vram, page, depth, U(p), V(p))
  IN  /\ \A o \in Offsets : (\A p \in InBox(box) : o # At(p)) => drawn[o] = vram[o]
      /\ (\A p, q \in InBox(box) : texel_offset(page, depth, U(p), V(p)) # At(q))
           => \A p \in InBox(box) :
                drawn[At(p)] = IF texel(p) = 0 THEN vram[At(p)] ELSE as_color(texel(p))

LEMMA DrawsEach ==
  ASSUME Dimensions, NEW vram \in Memory, NEW clut, clut.data \in Entries, NEW page \in Position,
         NEW depth \in Depths, NEW flip, NEW corner, NEW box, IsBox(box), InBox(box) \subseteq Screen, NEW tc,
         \A p \in InBox(box) : /\ Coord(tc.x, flip.x, corner.x, box.x_min, p.x) \in Int
                               /\ Coord(tc.y, flip.y, corner.y, box.y_min, p.y) \in Int
  PROVE  LET drawn == draw_rect(vram, clut, page, depth, flip, corner, box, tc)
         IN  drawn \in Memory /\ TexelsDrawn(vram, drawn, clut, page, depth, flip, corner, box, tc)
<1> DEFINE U(p) == Coord(tc.x, flip.x, corner.x, box.x_min, p.x)
           V(p) == Coord(tc.y, flip.y, corner.y, box.y_min, p.y)
           pixels == rect_pixels(box)
           N == Len(pixels)
           draw(mem, p) ==
             LET texel == load_texel(clut, mem, page, depth, U(p), V(p))
             IN  IF is_invisible(texel) THEN mem ELSE store_16(mem, p.x, p.y, as_color(texel))
           F == CHOOSE f : f = [n \in 0 .. N |-> IF n = 0 THEN vram ELSE draw(f[n - 1], pixels[n])]
           at == [i \in 1 .. N |-> At(pixels[i])]
           from == [i \in 1 .. N |-> texel_offset(page, depth, U(pixels[i]), V(pixels[i]))]
           look == [q \in (1 .. N) \X Halfwords |-> TexelIn(clut, q[2], depth, U(pixels[q[1]]))]
           color == [t \in Halfwords |-> as_color(t)]
           put(mem, i) == LET t == look[<<i, mem[from[i]]>>]
                          IN  IF t = 0 THEN mem ELSE [mem EXCEPT ![at[i]] = color[t]]
<1>1. draw_rect(vram, clut, page, depth, flip, corner, box, tc) = F[N]
  BY DEF draw_rect, Coord, Advance
<1> HIDE DEF U, V
<1>2. /\ N \in Nat /\ DOMAIN pixels = 1 .. N
      /\ \A i \in 1 .. N : pixels[i] \in InBox(box)
      /\ \A i, j \in 1 .. N : pixels[i] = pixels[j] => i = j
      /\ \A p \in InBox(box) : \E i \in 1 .. N : p = pixels[i]
  BY RectPixels
<1> HIDE DEF pixels, N
<1>3. ASSUME NEW p \in InBox(box)
      PROVE  /\ p = Point(p.x, p.y) /\ p.x \in 0 .. WIDTH - 1 /\ p.y \in 0 .. HEIGHT - 1
             /\ U(p) \in Int /\ V(p) \in Int /\ At(p) \in Offsets
             /\ texel_offset(page, depth, U(p), V(p)) \in Offsets
  <2>1. p = Point(p.x, p.y) /\ p.x \in 0 .. WIDTH - 1 /\ p.y \in 0 .. HEIGHT - 1
    BY DEF Screen, Point
  <2>2. U(p) \in Int /\ V(p) \in Int
    BY DEF U, V
  <2>3. At(p) \in Offsets
    BY <2>1, OffsetIs DEF At
  <2> QED
    BY <2>1, <2>2, <2>3, TexelOffset
<1>4. at \in [1 .. N -> Offsets] /\ from \in [1 .. N -> Offsets] /\ color \in [Halfwords -> Halfwords]
  BY <1>2, <1>3, ColorType
<1>5. look \in [(1 .. N) \X Halfwords -> Halfwords]
  BY <1>2, <1>3, TexelType
<1>6. \A i, j \in 1 .. N : at[i] = at[j] => i = j
  <2> SUFFICES ASSUME NEW i \in 1 .. N, NEW j \in 1 .. N, at[i] = at[j] PROVE i = j
    OBVIOUS
  <2>1. At(pixels[i]) = At(pixels[j]) /\ pixels[i] \in InBox(box) /\ pixels[j] \in InBox(box)
    BY <1>2
  <2>2. pixels[i].x = pixels[j].x /\ pixels[i].y = pixels[j].y
    BY <1>3, <2>1, OffsetUnique DEF At
  <2>3. pixels[i] = pixels[j]
    BY <1>3, <2>1, <2>2
  <2> QED
    BY <1>2, <2>3
<1>7. ASSUME NEW mem \in Memory, NEW i \in 1 .. N
      PROVE  draw(mem, pixels[i]) = put(mem, i) /\ put(mem, i) \in Memory
  <2>1. from[i] = texel_offset(page, depth, U(pixels[i]), V(pixels[i])) /\ from[i] \in Offsets
        /\ at[i] = At(pixels[i]) /\ at[i] \in Offsets
    BY <1>4
  <2>2. mem[from[i]] \in Halfwords
    BY <2>1 DEF Memory
  <2>3. look[<<i, mem[from[i]]>>] = load_texel(clut, mem, page, depth, U(pixels[i]), V(pixels[i]))
        /\ look[<<i, mem[from[i]]>>] \in Halfwords
    BY <1>5, <2>1, <2>2 DEF load_texel, TexelIn
  <2> DEFINE t == look[<<i, mem[from[i]]>>]
  <2>4. color[t] = as_color(t) /\ color[t] \in Halfwords
    BY <1>4, <2>3
  <2> HIDE DEF look, from, at, color
  <2>5. draw(mem, pixels[i]) = IF t = 0 THEN mem ELSE [mem EXCEPT ![at[i]] = color[t]]
    BY <2>1, <2>3, <2>4 DEF is_invisible, store_16, At
  <2> HIDE DEF t
  <2>6. [mem EXCEPT ![at[i]] = color[t]] \in Memory
    BY <2>1, <2>4 DEF Memory
  <2> QED
    BY <2>5, <2>6 DEF t
<1> HIDE DEF at, from, look, color, draw, put
<1>8. /\ F \in [0 .. N -> Memory] /\ F[0] = vram
      /\ \A i \in 1 .. N : F[i] = put(F[i - 1], i)
  <2> DEFINE step == [q \in (1 .. N) \X Memory |-> put(q[2], q[1])]
  <2>1. step \in [(1 .. N) \X Memory -> Memory]
    BY <1>7
  <2>2. \A i \in 1 .. N, mem \in Memory : step[<<i, mem>>] = put(mem, i)
    OBVIOUS
  <2> HIDE DEF step
  <2>a. PICK f : Recursion(f, Memory, step, vram, N)
    BY <1>2, <2>1, Recursed
  <2>3. f \in [0 .. N -> Memory] /\ f[0] = vram /\ \A i \in 1 .. N : f[i] = step[<<i, f[i - 1]>>]
    BY <2>a DEF Recursion
  <2>4. ASSUME NEW n \in 0 .. N PROVE f[n] = IF n = 0 THEN vram ELSE draw(f[n - 1], pixels[n])
    <3>1. CASE n # 0
      <4>1. n \in 1 .. N /\ n - 1 \in 0 .. N
        BY <1>2, <3>1
      <4>2. f[n] = step[<<n, f[n - 1]>>] /\ f[n - 1] \in Memory
        BY <2>3, <4>1
      <4> QED
        BY <1>7, <2>2, <3>1, <4>1, <4>2
    <3> QED
      BY <2>3, <3>1
  <2>5. f = [n \in 0 .. N |-> IF n = 0 THEN vram ELSE draw(f[n - 1], pixels[n])]
    BY <2>3, <2>4
  <2>6. F = [n \in 0 .. N |-> IF n = 0 THEN vram ELSE draw(F[n - 1], pixels[n])]
    BY <2>5, Zenon
  <2> HIDE DEF F
  <2>7. 0 \in 0 .. N /\ F[0] = vram
    BY <1>2, <2>6
  <2> DEFINE T == {n \in Nat : n <= N => F[n] \in Memory}
  <2>8. ASSUME NEW n \in 1 .. N, F[n - 1] \in Memory PROVE F[n] = put(F[n - 1], n) /\ F[n] \in Memory
    <3>1. n # 0 /\ n \in 0 .. N
      BY <1>2
    <3>2. F[n] = draw(F[n - 1], pixels[n])
      BY <2>6, <3>1
    <3> QED
      BY <1>7, <2>8, <3>2
  <2>9. 0 \in T
    BY <2>7
  <2>10. ASSUME NEW n \in T PROVE n + 1 \in T
    <3>1. n \in Nat /\ n + 1 \in Nat /\ (n + 1) - 1 = n /\ (n + 1 <= N => n <= N /\ n + 1 \in 1 .. N)
      BY <1>2
    <3> QED
      BY <2>8, <3>1
  <2>11. T \in SUBSET Nat
    OBVIOUS
  <2>12. \A n \in Nat : n \in T
    <3> HIDE DEF T
    <3> QED
      BY <2>9, <2>10, <2>11, SetInduction
  <2>13. \A n \in 0 .. N : F[n] \in Memory
    BY <1>2, <2>12
  <2>14. F \in [0 .. N -> Memory]
    <3>1. F = [n \in 0 .. N |-> F[n]]
      BY <2>6
    <3> QED
      BY <2>13, <3>1
  <2>15. \A n \in 1 .. N : F[n - 1] \in Memory
    BY <1>2, <2>13
  <2> QED
    BY <2>7, <2>8, <2>14, <2>15
<1> HIDE DEF F
<1>9. AsPainted(vram, F[N], Offsets, N, at, from, look, color)
  <2>1. Strokes(F, N, at, from, look, color)
    BY <1>8 DEF put, Strokes
  <2>2. Canvases(F, Offsets, Halfwords, N) /\ F[0] = vram
    BY <1>8 DEF Memory, Canvases
  <2> QED
    BY <1>2, <1>4, <1>5, <1>6, <2>1, <2>2, Painted
<1>10. \A i \in 1 .. N : at[i] = At(pixels[i]) /\ from[i] = texel_offset(page, depth, U(pixels[i]), V(pixels[i]))
  BY DEF at, from
<1>11. F[N] \in Memory
  BY <1>2, <1>8
<1>12. ASSUME NEW o \in Offsets, \A p \in InBox(box) : o # At(p) PROVE F[N][o] = vram[o]
  BY <1>2, <1>9, <1>10, <1>12 DEF AsPainted
<1>13. ASSUME \A p, q \in InBox(box) : texel_offset(page, depth, U(p), V(p)) # At(q), NEW p \in InBox(box)
       PROVE  LET texel == load_texel(clut, vram, page, depth, U(p), V(p))
              IN  F[N][At(p)] = IF texel = 0 THEN vram[At(p)] ELSE as_color(texel)
  <2>1. PICK i \in 1 .. N : p = pixels[i]
    BY <1>2
  <2>2. \A k, j \in 1 .. N : from[k] # at[j]
    BY <1>2, <1>10, <1>13
  <2> DEFINE t == look[<<i, vram[from[i]]>>]
  <2>3. F[N][at[i]] = IF t = 0 THEN vram[at[i]] ELSE color[t]
    BY <1>9, <2>2 DEF AsPainted
  <2>4. vram[from[i]] \in Halfwords
    BY <1>4 DEF Memory
  <2>5. t = load_texel(clut, vram, page, depth, U(p), V(p))
    BY <1>10, <2>1, <2>4 DEF look, load_texel, TexelIn
  <2>6. color[t] = as_color(t)
    BY <1>5, <2>4 DEF color
  <2> HIDE DEF t
  <2> QED
    BY <1>10, <2>1, <2>3, <2>5, <2>6
<1> QED
  BY <1>1, <1>11, <1>12, <1>13 DEF U, V, TexelsDrawn

-----------------------------------------------------------------------------
\* The palette cache holds what is in video memory, but for what was written
\* since the cache was cleared.
Current(data, pos, size, vram, written) ==
  \A i \in 0 .. size - 1 :
    offset_16(pos.x + i, pos.y) \notin written => data[i] = load_16(vram, pos.x + i, pos.y)

Cached(clut, vram, written) ==
  /\ clut = [x \in {"data", "status"} |-> clut[x]]
  /\ clut.data \in Entries
  /\ \A s \in clut.status : s.pos \in Position /\ Current(clut.data, s.pos, clut_size(s.depth), vram, written)

LEMMA CachedKept ==
  ASSUME Dimensions, NEW clut, NEW vram, NEW written, Cached(clut, vram, written),
         NEW later, NEW more, written \subseteq more,
         \A o \in Offsets : o \notin more => later[o] = vram[o]
  PROVE  Cached(clut, later, more)
<1> SUFFICES ASSUME NEW s \in clut.status, s.pos \in Position,
                    NEW i \in 0 .. clut_size(s.depth) - 1, offset_16(s.pos.x + i, s.pos.y) \notin more
             PROVE  clut.data[i] = load_16(later, s.pos.x + i, s.pos.y)
  BY DEF Cached, Current
<1>1. offset_16(s.pos.x + i, s.pos.y) \in Offsets
  <2>1. s.pos.x + i \in Int /\ s.pos.y \in Int
    BY DEF Position
  <2> QED
    BY <2>1, OffsetIn
<1>2. clut.data[i] = load_16(vram, s.pos.x + i, s.pos.y)
  BY DEF Cached, Current
<1> QED
  BY <1>1, <1>2 DEF load_16

LEMMA CachedCleared ==
  ASSUME NEW clut, NEW vram, NEW written, Cached(clut, vram, written), NEW later, NEW more
  PROVE  Cached(clear(clut), later, more)
<1>1. clear(clut).data = clut.data /\ clear(clut).status = {}
      /\ clear(clut) = [x \in {"data", "status"} |-> clear(clut)[x]]
  BY DEF Cached, clear, None
<1> QED
  BY <1>1 DEF Cached

LEMMA Fetched ==
  ASSUME Dimensions, NEW vram \in Memory, NEW clut, NEW written, Cached(clut, vram, written),
         NEW pos \in Position, NEW depth \in Depths
  PROVE  LET fetched == maybe_fetch(clut, pos, depth, vram)
         IN  /\ Cached(fetched, vram, written)
             /\ depth # "B15" => Current(fetched.data, pos, clut_size(depth), vram, written)
<1> DEFINE fetched == maybe_fetch(clut, pos, depth, vram)
           size == clut_size(depth)
<1>0. size \in Nat \ {0} /\ size <= TEXEL * TEXEL /\ TEXEL * TEXEL \in Nat
  BY ClutSize, VramAssumption
<1> HIDE DEF size
<1>1. CASE depth = "B15"
  BY <1>1 DEF maybe_fetch
<1>2. CASE depth # "B15" /\ clut_hit(clut, pos, depth)
  <2>1. fetched = clut
    BY <1>2 DEF maybe_fetch
  <2>2. PICK s \in clut.status : s.pos = pos /\ size <= clut_size(s.depth)
    BY <1>2 DEF clut_hit, size
  <2>3. Current(clut.data, pos, clut_size(s.depth), vram, written)
    BY <2>2 DEF Cached
  <2>4. 0 .. size - 1 \subseteq 0 .. clut_size(s.depth) - 1
    BY <1>0, <2>2, ClutSize
  <2>5. Current(clut.data, pos, size, vram, written)
    BY <2>3, <2>4 DEF Current
  <2> QED
    BY <2>1, <2>5 DEF size
<1>3. CASE depth # "B15" /\ ~clut_hit(clut, pos, depth)
  <2> DEFINE data == [i \in DOMAIN clut.data |->
                        IF i < size THEN load_16(vram, pos.x + i, pos.y) ELSE clut.data[i]]
  <2>1. fetched = [status |-> Some([pos |-> pos, depth |-> depth]), data |-> data]
    BY <1>3 DEF maybe_fetch, size
  <2>2. DOMAIN clut.data = 0 .. TEXEL * TEXEL - 1 /\ clut.data \in Entries
    BY DEF Cached, Entries
  <2>3. ASSUME NEW i \in Nat PROVE load_16(vram, pos.x + i, pos.y) \in Halfwords
    <3>1. pos.x + i \in Int /\ pos.y \in Int
      BY DEF Position
    <3>2. offset_16(pos.x + i, pos.y) \in Offsets
      BY <3>1, OffsetIn
    <3> QED
      BY <3>2 DEF load_16, Memory
  <2>4. data \in Entries
    <3>1. ASSUME NEW i \in 0 .. TEXEL * TEXEL - 1
          PROVE  (IF i < size THEN load_16(vram, pos.x + i, pos.y) ELSE clut.data[i]) \in Halfwords
      <4>1. i \in Nat /\ clut.data[i] \in Halfwords
        BY <1>0, <2>2 DEF Entries
      <4> QED
        BY <2>3, <4>1
    <3> QED
      BY <2>2, <3>1 DEF Entries
  <2>5. Current(data, pos, size, vram, written)
    <3> SUFFICES ASSUME NEW i \in 0 .. size - 1 PROVE data[i] = load_16(vram, pos.x + i, pos.y)
      BY DEF Current
    <3>1. i \in 0 .. TEXEL * TEXEL - 1 /\ i < size
      BY <1>0
    <3> QED
      BY <2>2, <3>1
  <2> HIDE DEF data
  <2>6. /\ fetched.data = data /\ fetched.status = {[pos |-> pos, depth |-> depth]}
        /\ fetched = [x \in {"data", "status"} |-> fetched[x]]
    BY <2>1 DEF Some
  <2> HIDE DEF fetched
  <2> QED
    BY <2>4, <2>5, <2>6 DEF Cached, size, fetched
<1> QED
  BY <1>1, <1>2, <1>3

-----------------------------------------------------------------------------
\* A canvas that rectangles can be drawn on.
RegisterFields == {"area", "offset", "page", "depth", "flip"}

Registers(reg) ==
  /\ reg = [x \in RegisterFields |-> reg[x]]
  /\ IsArea(reg.area) /\ reg.offset \in Position /\ reg.page \in Position /\ reg.depth \in Depths

Drawable(c, written) ==
  /\ Canvas(c) /\ c.vram \in Memory /\ Registers(c.reg)
  /\ Cached(c.clut, c.vram, written)

LEMMA OffsetsOfOne == ASSUME NEW S PROVE offsets(<<S>>) = {At(p) : p \in S}
<1>1. UNION Range(<<S>>) = S
  BY DEF Range
<1> QED
  BY <1>1 DEF offsets, At

LEMMA PaintDrawable ==
  ASSUME Dimensions, NEW c, NEW written, Drawable(c, written), NEW pixels, NEW color \in Halfwords
  PROVE  Drawable(paint(c, pixels, color), written \cup {At(p) : p \in pixels})
<1> DEFINE at == {At(p) : p \in pixels}
           V == [o \in DOMAIN c.vram |-> IF o \in at THEN color ELSE c.vram[o]]
           d == paint(c, pixels, color)
<1>1. d = [c EXCEPT !.vram = V]
  BY DEF paint, At
<1>2. c.vram \in Memory /\ DOMAIN c.vram = Offsets
  BY DEF Drawable, Memory
<1>3. V \in Memory /\ \A o \in Offsets : o \notin at => V[o] = c.vram[o]
  BY <1>2 DEF Memory
<1> HIDE DEF V, at
<1>4. Canvas(d)
  BY PaintKeeps DEF Drawable
<1>5. d.vram = V /\ d.clut = c.clut /\ d.reg = c.reg
  BY <1>1 DEF Drawable, Canvas, CanvasFields
<1> HIDE DEF d
<1>6. Cached(c.clut, V, written \cup at)
  BY <1>3, CachedKept DEF Drawable
<1> QED
  BY <1>3, <1>4, <1>5, <1>6 DEF Drawable, d, at

-----------------------------------------------------------------------------
\* A rectangle is drawn with the texels that are stored, through a palette that
\* was not changed since the cache was cleared.
PaletteAt(pos, size) == {offset_16(pos.x + i, pos.y) : i \in 0 .. size - 1}

PaletteReady(c, cmd, clut, written) ==
  c.reg.depth # "B15" =>
    /\ Current(clut.data, cmd.clut, clut_size(c.reg.depth), c.vram, written)
    /\ PaletteAt(cmd.clut, clut_size(c.reg.depth)) \cap written = {}

LEMMA StoredIsLoaded ==
  ASSUME NEW c, c.vram \in Memory, c.reg.depth \in Depths, NEW cmd, NEW clut, NEW written,
         PaletteReady(c, cmd, clut, written),
         NEW u \in Int, NEW v, texel_offset(c.reg.page, c.reg.depth, u, v) \in Offsets
  PROVE  load_texel(clut, c.vram, c.reg.page, c.reg.depth, u, v) = StoredTexel(c, cmd, u, v)
<1> DEFINE depth == c.reg.depth
           val == c.vram[texel_offset(c.reg.page, depth, u, v)]
           index == texel_index(val, depth, u)
<1>1. CASE depth = "B15" \/ val = Mixed
  BY <1>1 DEF load_texel, StoredTexel
<1>2. CASE ~(depth = "B15" \/ val = Mixed)
  <2>1. val \in Nat /\ depth \in Depths \ {"B15"}
    BY <1>2 DEF Memory, Halfwords
  <2>2. index \in 0 .. clut_size(depth) - 1
    BY <2>1, IndexIn
  <2>3. load_texel(clut, c.vram, c.reg.page, depth, u, v) = clut.data[index]
        /\ StoredTexel(c, cmd, u, v) = load_16(c.vram, cmd.clut.x + index, cmd.clut.y)
    BY <1>2 DEF load_texel, StoredTexel
  <2> HIDE DEF index
  <2>4. offset_16(cmd.clut.x + index, cmd.clut.y) \notin written
    BY <2>1, <2>2 DEF PaletteReady, PaletteAt
  <2>5. clut.data[index] = load_16(c.vram, cmd.clut.x + index, cmd.clut.y)
    BY <2>1, <2>2, <2>4 DEF PaletteReady, Current
  <2> QED
    BY <2>3, <2>5
<1> QED
  BY <1>1, <1>2

LEMMA RectDrawn ==
  ASSUME Dimensions, NEW c, NEW written, Drawable(c, written), NEW cmd, IsCommand(cmd), cmd.cmd = "rect"
  PROVE  LET done == gp0_rect(c, cmd)
             more == written \cup offsets(done.drawn)
         IN  /\ Drawable(done.canvas, more) /\ done.canvas.tran = c.tran
             /\ RectIsTextured(c, cmd, done.canvas.vram, more)
<1> DEFINE reg == c.reg
           corner == with_offset(cmd.at, reg.offset)
           box == clip_rect(corner, cmd.dim, reg.area)
           clut == maybe_fetch(c.clut, cmd.clut, reg.depth, c.vram)
           drawn == draw_rect(c.vram, clut, reg.page, reg.depth, reg.flip, corner, box, cmd.tc)
           done == gp0_rect(c, cmd)
           V == [o \in DOMAIN c.vram |-> drawn[o]]
           more == written \cup offsets(done.drawn)
           shown == InBox(box)
           u(p) == Along(cmd.tc.x, reg.flip.x, p.x - corner.x)
           v(p) == Along(cmd.tc.y, reg.flip.y, p.y - corner.y)
<1>1. /\ c.vram \in Memory /\ DOMAIN c.vram = Offsets /\ Canvas(c)
      /\ IsArea(reg.area) /\ reg.offset \in Position /\ reg.page \in Position /\ reg.depth \in Depths
      /\ Cached(c.clut, c.vram, written)
  BY DEF Drawable, Registers, Memory
<1>2. /\ cmd.at \in Position /\ cmd.dim \in Position /\ cmd.tc \in Position /\ cmd.clut \in Position
      /\ corner \in Position
  BY <1>1 DEF IsCommand, Position, with_offset, Point
<1>3. done.canvas = [c EXCEPT !.clut = clut, !.vram = V] /\ done.drawn = <<Range(rect_pixels(box))>>
  BY DEF gp0_rect, Covers
<1> HIDE DEF corner
<1>4. /\ IsBox(box) /\ shown = Shown(corner, cmd.dim, reg.area) /\ shown \subseteq Screen
      /\ box.x_min = (IF corner.x < reg.area.x_min THEN reg.area.x_min ELSE corner.x)
      /\ box.y_min = (IF corner.y < reg.area.y_min THEN reg.area.y_min ELSE corner.y)
  BY <1>1, <1>2, ClippedIsShown
<1>5. Cached(clut, c.vram, written)
      /\ (reg.depth # "B15" => Current(clut.data, cmd.clut, clut_size(reg.depth), c.vram, written))
  BY <1>1, <1>2, Fetched
<1>6. clut.data \in Entries
  BY <1>5 DEF Cached
<1>7. ASSUME NEW p \in shown
      PROVE  /\ Coord(cmd.tc.x, reg.flip.x, corner.x, box.x_min, p.x) = u(p) /\ u(p) \in Int
             /\ Coord(cmd.tc.y, reg.flip.y, corner.y, box.y_min, p.y) = v(p) /\ v(p) \in Int
  <2>1. p.x \in Int /\ p.y \in Int
    BY <1>4 DEF Screen
  <2>2. /\ cmd.tc.x \in Int /\ cmd.tc.y \in Int /\ corner.x \in Int /\ corner.y \in Int
        /\ reg.area.x_min \in Int /\ reg.area.y_min \in Int
    BY <1>1, <1>2 DEF Position, IsArea
  <2> HIDE DEF box
  <2>3. Coord(cmd.tc.x, reg.flip.x, corner.x, box.x_min, p.x) = u(p) /\ u(p) \in Int
    <3>1. box.x_min \in Int /\ corner.x <= box.x_min
      BY <1>4, <2>2
    <3> QED
      BY <2>1, <2>2, <3>1, CoordIs
  <2>4. Coord(cmd.tc.y, reg.flip.y, corner.y, box.y_min, p.y) = v(p) /\ v(p) \in Int
    <3>1. box.y_min \in Int /\ corner.y <= box.y_min
      BY <1>4, <2>2
    <3> QED
      BY <2>1, <2>2, <3>1, CoordIs
  <2> QED
    BY <2>3, <2>4
<1> HIDE DEF u, v, box, clut
<1> DEFINE U(p) == Coord(cmd.tc.x, reg.flip.x, corner.x, box.x_min, p.x)
           W(p) == Coord(cmd.tc.y, reg.flip.y, corner.y, box.y_min, p.y)
           texel(p) == load_texel(clut, c.vram, reg.page, reg.depth, U(p), W(p))
<1>8. drawn \in Memory
      /\ TexelsDrawn(c.vram, drawn, clut, reg.page, reg.depth, reg.flip, corner, box, cmd.tc)
  <2>1. \A p \in shown : U(p) \in Int /\ W(p) \in Int
    BY <1>7
  <2> QED
    BY <1>1, <1>4, <1>6, <2>1, DrawsEach
<1> HIDE DEF drawn
<1>a. /\ \A o \in Offsets : (\A p \in shown : o # At(p)) => drawn[o] = c.vram[o]
      /\ (\A p, q \in shown : texel_offset(reg.page, reg.depth, U(p), W(p)) # At(q))
           => \A p \in shown : drawn[At(p)] = IF texel(p) = 0 THEN c.vram[At(p)] ELSE as_color(texel(p))
  BY <1>8, Zenon DEF TexelsDrawn
<1>9. V = drawn
  BY <1>1, <1>8 DEF Memory
<1>10. done.canvas.vram = drawn /\ done.canvas.clut = clut /\ done.canvas.reg = reg
       /\ done.canvas.tran = c.tran /\ Canvas(done.canvas)
  <2> HIDE DEF V, done
  <2>1. drawn = [o \in Offsets |-> drawn[o]]
    BY <1>8 DEF Memory
  <2> QED
    BY <1>1, <1>3, <1>9, <2>1 DEF Canvas, CanvasFields
<1> HIDE DEF V, done
<1>11. offsets(done.drawn) = {At(p) : p \in shown}
  <2>1. Range(rect_pixels(box)) = shown
    BY <1>4, RectPixels DEF Range
  <2> QED
    BY <1>3, <2>1, OffsetsOfOne
<1>12. Drawable(done.canvas, more)
  <2>1. written \subseteq more /\ \A o \in Offsets : o \notin more => drawn[o] = c.vram[o]
    BY <1>a, <1>11
  <2>2. Cached(clut, drawn, more)
    BY <1>5, <2>1, CachedKept
  <2> QED
    BY <1>8, <1>10, <2>2 DEF Drawable
<1>13. RectIsTextured(c, cmd, drawn, more)
  <2> DEFINE palette == {offset_16(cmd.clut.x + i, cmd.clut.y) : i \in 0 .. clut_size(reg.depth) - 1}
             texture == {texel_offset(reg.page, reg.depth, u(p), v(p)) : p \in shown}
             stored(p) == StoredTexel(c, cmd, u(p), v(p))
  <2>1. ASSUME reg.depth = "B15" \/ palette \cap more = {}, texture \cap {At(p) : p \in shown} = {}
        PROVE  \A p \in shown : drawn[At(p)] = IF stored(p) = 0 THEN c.vram[At(p)] ELSE as_color(stored(p))
    <3>1. \A p, q \in shown : texel_offset(reg.page, reg.depth, U(p), W(p)) # At(q)
      BY <1>7, <2>1
    <3>2. ASSUME NEW p \in shown PROVE texel(p) = stored(p)
      <4>1. U(p) = u(p) /\ W(p) = v(p) /\ u(p) \in Int /\ v(p) \in Int
        BY <1>7
      <4>2. texel_offset(reg.page, reg.depth, u(p), v(p)) \in Offsets
        BY <1>1, <4>1, TexelOffset
      <4>3. PaletteReady(c, cmd, clut, written)
        BY <1>5, <2>1 DEF PaletteReady, PaletteAt
      <4> DEFINE x == u(p)
                 y == v(p)
      <4>4. x \in Int /\ texel_offset(reg.page, reg.depth, x, y) \in Offsets
        BY <4>1, <4>2
      <4> HIDE DEF x, y
      <4>5. load_texel(clut, c.vram, reg.page, reg.depth, x, y) = StoredTexel(c, cmd, x, y)
        BY <1>1, <4>3, <4>4, StoredIsLoaded
      <4> QED
        BY <4>1, <4>5 DEF x, y
    <3> HIDE DEF U, W, texel, stored
    <3> QED
      BY <1>a, <3>1, <3>2
  <2>2. \A o \in DOMAIN c.vram \ {At(p) : p \in shown} : drawn[o] = c.vram[o]
    BY <1>1, <1>a
  <2> HIDE DEF shown
  <2> QED
    BY <1>4, <2>1, <2>2, Zenon DEF RectIsTextured, Shown, At, Along, u, v, corner
<1> QED
  BY <1>10, <1>12, <1>13, Zenon DEF done, more

-----------------------------------------------------------------------------
\* Drawing and the commands that set registers leave a canvas that can be drawn on.
LEMMA PolyDrawn ==
  ASSUME Dimensions, NEW c, NEW written, Drawable(c, written), NEW cmd, IsCommand(cmd), cmd.cmd = "poly"
  PROVE  LET done == gp0_poly(c, cmd) IN Drawable(done.canvas, written \cup offsets(done.drawn))
<1> DEFINE reg == IF cmd.textured THEN [c.reg EXCEPT !.page = cmd.page, !.depth = cmd.depth] ELSE c.reg
           pos == IF cmd.textured THEN cmd.clut ELSE Point(0, 0)
           clut == maybe_fetch(c.clut, pos, reg.depth, c.vram)
           ready == [c EXCEPT !.reg = reg, !.clut = clut]
           color == IF cmd.textured \/ cmd.shaded THEN Mixed ELSE cmd.color
           done == gp0_poly(c, cmd)
<1>1. PICK drawn : done = Covers(paint(ready, UNION Range(drawn), color), drawn)
  BY Zenon DEF gp0_poly
<1>2. color \in Halfwords /\ pos \in Position
  BY DEF IsCommand, Halfwords, Position, Point
<1>3. Registers(reg)
  <2>1. CASE cmd.textured
    BY <2>1 DEF IsCommand, Drawable, Registers, RegisterFields
  <2>2. CASE ~cmd.textured
    BY <2>2 DEF Drawable
  <2> QED
    BY <2>1, <2>2
<1> HIDE DEF reg, pos, color
<1>4. Cached(clut, c.vram, written)
  BY <1>2, <1>3, Fetched DEF Drawable, Registers
<1> HIDE DEF clut
<1>5. Drawable(ready, written)
  BY <1>3, <1>4 DEF Drawable, Canvas, CanvasFields
<1> HIDE DEF ready
<1>6. done.canvas = paint(ready, UNION Range(drawn), color) /\ done.drawn = drawn
  BY <1>1 DEF Covers
<1>7. offsets(drawn) = {At(p) : p \in UNION Range(drawn)}
  BY DEF offsets, At
<1> HIDE DEF done
<1>8. Drawable(done.canvas, written \cup offsets(done.drawn))
  BY <1>2, <1>5, <1>6, <1>7, PaintDrawable
<1> QED
  BY <1>8 DEF done

LEMMA ExecDrawn ==
  ASSUME Dimensions, NEW c, NEW written, Drawable(c, written), NEW cmd, IsCommand(cmd), cmd.cmd \in Drawing
  PROVE  LET done == gp0_exec(c, cmd) IN Drawable(done.canvas, written \cup offsets(done.drawn))
<1> DEFINE done == gp0_exec(c, cmd)
           more == written \cup offsets(done.drawn)
<1>0. ASSUME NEW d, Canvas(d), d.vram = c.vram, d.reg = c.reg, d.clut = c.clut, NEW W, written \subseteq W
      PROVE  Drawable(d, W)
  <2>1. Cached(c.clut, c.vram, W)
    BY <1>0, CachedKept DEF Drawable
  <2> QED
    BY <1>0, <2>1 DEF Drawable
<1>1. CASE cmd.cmd = "fill"
  <2>1. PICK pixels : done = Covers(paint(c, pixels, cmd.color), <<pixels>>)
    BY <1>1, Zenon DEF gp0_exec, gp0_fill_rect
  <2>2. done.canvas = paint(c, pixels, cmd.color) /\ offsets(done.drawn) = {At(p) : p \in pixels}
    BY <2>1, OffsetsOfOne DEF Covers
  <2>3. cmd.color \in Halfwords
    BY <1>1 DEF IsCommand, Halfwords
  <2> QED
    BY <2>2, <2>3, PaintDrawable
<1>2. CASE cmd.cmd = "poly"
  BY <1>2, PolyDrawn DEF gp0_exec
<1>3. CASE cmd.cmd = "line"
  <2>1. \/ done = Covers([c EXCEPT !.panicked = TRUE], <<>>)
        \/ \E path : done = Covers(paint(c, Range(path), Mixed), [i \in DOMAIN path |-> {path[i]}])
    BY <1>3, Zenon DEF gp0_exec, gp0_line
  <2>2. CASE done = Covers([c EXCEPT !.panicked = TRUE], <<>>)
    <3> DEFINE d == [c EXCEPT !.panicked = TRUE]
    <3>1. Canvas(d) /\ d.vram = c.vram /\ d.reg = c.reg /\ d.clut = c.clut
      BY DEF Drawable, Canvas, CanvasFields
    <3>2. done.canvas = d
      BY <2>2 DEF Covers
    <3>3. written \subseteq more
      OBVIOUS
    <3> HIDE DEF done, d, more
    <3> QED
      BY <1>0, <3>1, <3>2, <3>3 DEF done, more
  <2>3. CASE \E path : done = Covers(paint(c, Range(path), Mixed), [i \in DOMAIN path |-> {path[i]}])
    <3>1. PICK path : done = Covers(paint(c, Range(path), Mixed), [i \in DOMAIN path |-> {path[i]}])
      BY <2>3
    <3>2. UNION Range([i \in DOMAIN path |-> {path[i]}]) = Range(path)
      BY DEF Range
    <3> DEFINE drawn == [i \in DOMAIN path |-> {path[i]}]
    <3>3. offsets(drawn) = {At(p) : p \in Range(path)}
      BY <3>2 DEF offsets, At
    <3>4. done.canvas = paint(c, Range(path), Mixed) /\ done.drawn = drawn
      BY <3>1 DEF Covers
    <3>5. Mixed \in Halfwords
      BY DEF Halfwords
    <3> HIDE DEF drawn
    <3>6. Drawable(paint(c, Range(path), Mixed), written \cup offsets(drawn))
      BY <3>3, <3>5, PaintDrawable
    <3> HIDE DEF done
    <3> QED
      BY <3>4, <3>6 DEF done
  <2> QED
    BY <2>1, <2>2, <2>3
<1>4. CASE cmd.cmd = "rect"
  BY <1>4, RectDrawn DEF gp0_exec
<1>5. CASE cmd.cmd \in {"store", "load"}
  <2>1. PICK T : gp0_copy_rect(c, cmd) = [c EXCEPT !.tran = T]
    BY Zenon DEF gp0_copy_rect
  <2> DEFINE d == [c EXCEPT !.tran = T]
  <2>2. Canvas(d) /\ d.vram = c.vram /\ d.reg = c.reg /\ d.clut = c.clut
    BY DEF Drawable, Canvas, CanvasFields
  <2>3. done.canvas = d
    BY <1>5, <2>1 DEF gp0_exec, Covers
  <2>4. written \subseteq more
    OBVIOUS
  <2> HIDE DEF done, d, more
  <2> QED
    BY <1>0, <2>2, <2>3, <2>4 DEF done, more
<1> QED
  BY <1>1, <1>2, <1>3, <1>4, <1>5 DEF Drawing

LEMMA SetDrawable ==
  ASSUME Dimensions, NEW c, NEW written, Drawable(c, written), NEW cmd, IsCommand(cmd), cmd.cmd \in Setting
  PROVE  Drawable(gp0_set(c, cmd), IF cmd.cmd = "clear" THEN {} ELSE written)
<1> DEFINE d == gp0_set(c, cmd)
<1>1. Canvas(d)
  BY SetKeeps DEF Drawable
<1>2. CASE cmd.cmd = "clear"
  <2>1. d.clut = clear(c.clut) /\ d.vram = c.vram /\ d.reg = c.reg
    BY <1>2 DEF gp0_set, Drawable, Canvas, CanvasFields
  <2> HIDE DEF d
  <2>2. Cached(d.clut, d.vram, {})
    BY <2>1, CachedCleared DEF Drawable
  <2> QED
    BY <1>1, <1>2, <2>1, <2>2 DEF Drawable, d
<1>3. CASE cmd.cmd # "clear"
  <2>1. d.clut = c.clut /\ d.vram = c.vram
    BY <1>3 DEF gp0_set, Drawable, Canvas, CanvasFields, Setting
  <2>2. CASE cmd.cmd = "top_left"
    <3> DEFINE da == [c.reg.area EXCEPT !.x_min = cmd.at.x, !.y_min = cmd.at.y]
    <3>1. d.reg = [c.reg EXCEPT !.area = da]
      BY <2>2 DEF gp0_set, Drawable, Canvas, CanvasFields, Registers, RegisterFields
    <3>2. IsArea(da)
      BY <2>2 DEF IsCommand, Drawable, Registers, IsArea, Screen
    <3> HIDE DEF da, d
    <3>3. Registers(d.reg)
      BY <3>1, <3>2 DEF Drawable, Registers, RegisterFields
    <3> QED
      BY <1>1, <1>3, <2>1, <3>3 DEF Drawable, d
  <2>3. CASE cmd.cmd = "bottom_right"
    <3> DEFINE da == [c.reg.area EXCEPT !.x_max = cmd.at.x, !.y_max = cmd.at.y]
    <3>1. d.reg = [c.reg EXCEPT !.area = da]
      BY <2>3 DEF gp0_set, Drawable, Canvas, CanvasFields, Registers, RegisterFields
    <3>2. IsArea(da)
      BY <2>3 DEF IsCommand, Drawable, Registers, IsArea, Screen
    <3> HIDE DEF da, d
    <3>3. Registers(d.reg)
      BY <3>1, <3>2 DEF Drawable, Registers, RegisterFields
    <3> QED
      BY <1>1, <1>3, <2>1, <3>3 DEF Drawable, d
  <2>4. CASE cmd.cmd = "offset"
    <3>1. d.reg = [c.reg EXCEPT !.offset = cmd.at] /\ cmd.at \in Position
      BY <2>4 DEF gp0_set, IsCommand, Drawable, Canvas, CanvasFields, Registers, RegisterFields
    <3> HIDE DEF d
    <3>2. Registers(d.reg)
      BY <3>1 DEF Drawable, Registers, RegisterFields
    <3> QED
      BY <1>1, <1>3, <2>1, <3>2 DEF Drawable, d
  <2>5. CASE cmd.cmd = "mode"
    <3>1. d.reg = [c.reg EXCEPT !.page = cmd.page, !.depth = cmd.depth, !.flip = cmd.flip]
          /\ cmd.page \in Position /\ cmd.depth \in Depths
      BY <2>5 DEF gp0_set, IsCommand, Drawable, Canvas, CanvasFields, Registers, RegisterFields
    <3> HIDE DEF d
    <3>2. Registers(d.reg)
      BY <3>1 DEF Drawable, Registers, RegisterFields
    <3> QED
      BY <1>1, <1>3, <2>1, <3>2 DEF Drawable, d
  <2> QED
    BY <1>3, <2>2, <2>3, <2>4, <2>5 DEF Setting
<1> QED
  BY <1>2, <1>3

-----------------------------------------------------------------------------
\* The inductive invariant: the palette cache is current, no transfer is under way
\* after a rectangle, and the last one is as it should be.
Textured ==
  /\ Drawable(canvas, log.written)
  /\ log.cmd.cmd = "rect" => canvas.tran = NoTransfer
  /\ TexturedAsStored

LEMMA InitTextured == ASSUME Parameters, GpuInit PROVE Textured
<1>1. PICK vram \in FirstVram :
        canvas = [vram |-> vram, clut |-> EmptyClut, reg |-> ResetDraw, tran |-> NoTransfer, panicked |-> FALSE]
  BY DEF GpuInit
<1>2. log.before = {} /\ log.cmd.cmd = "none"
  BY DEF GpuInit, None, NoCommand
<1>3. Dimensions
  BY DEF Parameters, Dimensions
<1>4. Canvas(canvas)
  BY InitImages DEF Images
<1>5. canvas.vram \in Memory
  <2>1. vram \in [Offsets -> Nat]
    BY DEF Parameters, Offsets
  <2>2. vram \in Memory
    BY <2>1 DEF Memory, Halfwords
  <2> QED
    BY <1>1, <2>2
<1>6. Registers(canvas.reg)
  <2>1. 0 \in 0 .. WIDTH - 1 /\ 0 \in 0 .. HEIGHT - 1
    BY <1>3 DEF Dimensions
  <2>2. Registers(ResetDraw)
    BY <2>1 DEF ResetDraw, Registers, RegisterFields, IsArea, Position, Point, Depths
  <2> QED
    BY <1>1, <2>2
<1>7. Cached(canvas.clut, canvas.vram, log.written)
  <2>1. EmptyClut = [x \in {"data", "status"} |-> EmptyClut[x]] /\ EmptyClut.status = {}
        /\ EmptyClut.data = [i \in 0 .. TEXEL * TEXEL - 1 |-> 0]
    BY DEF EmptyClut, None
  <2>2. EmptyClut.data \in Entries
    BY <2>1 DEF Entries, Halfwords
  <2>3. Cached(EmptyClut, canvas.vram, log.written)
    BY <2>1, <2>2 DEF Cached
  <2> QED
    BY <1>1, <2>3
<1> QED
  BY <1>2, <1>4, <1>5, <1>6, <1>7 DEF Textured, Drawable, TexturedAsStored

LEMMA DrawTextured == ASSUME Parameters, guest \in Guests, Textured, Draw PROVE Textured'
<1>1. PICK cmd \in Repertoire[guest] :
        /\ cmd.cmd \in Drawing
        /\ canvas' = gp0_exec(canvas, cmd).canvas
        /\ log' = [cmd |-> cmd, before |-> Some(canvas), drawn |-> gp0_exec(canvas, cmd).drawn, halfwords |-> <<>>,
                   written |-> log.written \cup offsets(gp0_exec(canvas, cmd).drawn), draws |-> log.draws + 1]
  BY Zenon DEF Draw
<1>2. Dimensions /\ IsCommand(cmd)
  BY DEF Parameters, Dimensions
<1> DEFINE done == gp0_exec(canvas, cmd)
           more == log.written \cup offsets(done.drawn)
<1>3. Drawable(done.canvas, more)
  BY <1>1, <1>2, ExecDrawn DEF Textured
<1>4. log'.cmd = cmd /\ log'.before = {canvas} /\ log'.written = more /\ canvas' = done.canvas
  BY <1>1 DEF Some
<1>5. ASSUME cmd.cmd = "rect"
      PROVE  canvas'.tran = NoTransfer /\ RectIsTextured(canvas, cmd, canvas'.vram, more)
  <2>1. done = gp0_rect(canvas, cmd)
    BY <1>5 DEF gp0_exec
  <2>2. done.canvas.tran = canvas.tran /\ RectIsTextured(canvas, cmd, done.canvas.vram, more)
    BY <1>2, <1>5, <2>1, RectDrawn DEF Textured
  <2>3. canvas.tran = NoTransfer
    BY DEF Draw, Ready
  <2> HIDE DEF done, more
  <2> QED
    BY <1>4, <2>2, <2>3
<1> HIDE DEF done, more
<1>6. TexturedAsStored'
  BY <1>4, <1>5 DEF TexturedAsStored
<1> QED
  BY <1>3, <1>4, <1>5, <1>6 DEF Textured

LEMMA SetTextured == ASSUME Parameters, guest \in Guests, Images, Textured, SetRegister PROVE Textured'
<1>1. PICK cmd \in Repertoire[guest] :
        /\ cmd.cmd \notin Drawing
        /\ canvas' = gp0_set(canvas, cmd)
        /\ log' = [Forgotten EXCEPT !.written = IF cmd.cmd = "clear" THEN {} ELSE @]
  BY Zenon DEF SetRegister
<1>2. Dimensions /\ IsCommand(cmd) /\ cmd.cmd \in Setting
  BY <1>1 DEF Parameters, Dimensions, IsCommand
<1>3. log'.written = (IF cmd.cmd = "clear" THEN {} ELSE log.written) /\ log'.cmd = NoCommand /\ log'.before = {}
  BY <1>1 DEF Forgotten, Images, Log, LogFields, None
<1>4. Drawable(canvas', log'.written)
  BY <1>1, <1>2, <1>3, SetDrawable DEF Textured
<1> QED
  BY <1>3, <1>4 DEF Textured, TexturedAsStored, NoCommand

LEMMA ResetTextured == ASSUME Dimensions, Images, Images', Textured, Reset PROVE Textured'
<1>1. /\ canvas' = [canvas EXCEPT !.clut = clear(@), !.reg = ResetDraw]
      /\ log' = IF canvas.tran = NoTransfer THEN [Forgotten EXCEPT !.written = {}]
                                            ELSE [log EXCEPT !.written = {}]
  BY DEF Reset
<1>2. canvas'.clut = clear(canvas.clut) /\ canvas'.vram = canvas.vram /\ canvas'.reg = ResetDraw
      /\ canvas'.tran = canvas.tran
  BY <1>1 DEF Images, Canvas, CanvasFields
<1>3. Registers(ResetDraw)
  <2>1. 0 \in 0 .. WIDTH - 1 /\ 0 \in 0 .. HEIGHT - 1
    BY DEF Dimensions
  <2> QED
    BY <2>1 DEF ResetDraw, Registers, RegisterFields, IsArea, Position, Point, Depths
<1>4. Cached(canvas'.clut, canvas'.vram, log'.written)
  BY <1>2, CachedCleared DEF Textured, Drawable
<1>5. Drawable(canvas', log'.written)
  BY <1>2, <1>3, <1>4 DEF Images, Textured, Drawable
<1>6. log'.cmd.cmd # "rect"
  <2>1. CASE canvas.tran = NoTransfer
    BY <1>1, <2>1 DEF Forgotten, Images, Log, LogFields, NoCommand
  <2>2. CASE canvas.tran # NoTransfer
    BY <1>1, <2>2 DEF Images, Log, LogFields, Textured
  <2> QED
    BY <2>1, <2>2
<1> QED
  BY <1>5, <1>6 DEF Textured, TexturedAsStored

\* No image is under way after a rectangle.
LEMMA TransferTextured ==
  ASSUME Parameters, Images, Images', Textured, StoreWord \/ LoadWord
  PROVE  Textured'
<1> DEFINE one == canvas.tran.pos
           two == next(one)
<1>1. canvas.tran # NoTransfer
  <2>1. canvas.tran.kind = "store" \/ canvas.tran.kind = "load"
    BY Zenon DEF StoreWord, LoadWord
  <2> QED
    BY <2>1 DEF NoTransfer
<1>2. log'.cmd = log.cmd
  BY DEF StoreWord, LoadWord, Images, Log, LogFields
<1>3. log.cmd.cmd # "rect"
  BY <1>1 DEF Textured
<1>4. Drawable(canvas', log'.written)
  <2>1. CASE StoreWord
    <3>1. PICK low \in Colors, high \in Colors :
            /\ canvas' = [canvas EXCEPT !.vram = store_16(store_16(@, one.x, one.y, low), two.x, two.y, high),
                                        !.tran = Transferred(next(two))]
            /\ log' = [log EXCEPT !.halfwords = @ \o <<low, high>>,
                                  !.written = @ \cup {offset_16(one.x, one.y), offset_16(two.x, two.y)}]
      BY <2>1 DEF StoreWord
    <3> DEFINE V == store_16(store_16(canvas.vram, one.x, one.y, low), two.x, two.y, high)
               more == log.written \cup {offset_16(one.x, one.y), offset_16(two.x, two.y)}
    <3>2. low \in Halfwords /\ high \in Halfwords /\ canvas.vram \in Memory
      BY DEF Parameters, Halfwords, Textured, Drawable
    <3>3. V \in Memory /\ \A o \in Offsets : o \notin more => V[o] = canvas.vram[o]
      BY <3>2 DEF store_16, Memory
    <3>4. canvas'.vram = V /\ canvas'.clut = canvas.clut /\ canvas'.reg = canvas.reg
      BY <3>1 DEF Images, Canvas, CanvasFields
    <3>5. log'.written = more
      BY <3>1 DEF Images, Log, LogFields
    <3> HIDE DEF V
    <3>6. Cached(canvas.clut, V, more)
      <4>1. Dimensions /\ log.written \subseteq more /\ Cached(canvas.clut, canvas.vram, log.written)
        BY DEF Parameters, Dimensions, Textured, Drawable
      <4> HIDE DEF more
      <4> QED
        BY <3>3, <4>1, CachedKept
    <3> HIDE DEF more
    <3> QED
      BY <3>3, <3>4, <3>5, <3>6 DEF Images, Textured, Drawable
  <2>2. CASE LoadWord
    <3>1. canvas'.vram = canvas.vram /\ canvas'.clut = canvas.clut /\ canvas'.reg = canvas.reg
      BY <2>2 DEF LoadWord, Images, Canvas, CanvasFields
    <3>2. log'.written = log.written
      BY <2>2 DEF LoadWord, Images, Log, LogFields
    <3> QED
      BY <3>1, <3>2 DEF Images, Textured, Drawable
  <2> QED
    BY <2>1, <2>2
<1> QED
  BY <1>2, <1>3, <1>4 DEF Textured, TexturedAsStored

LEMMA AlwaysTextured == GpuSpec => []Textured
<1> USE GpuAssumption
<1>0. Dimensions
  BY DEF Parameters, Dimensions
<1>1. GpuInit => Textured
  BY InitTextured
<1>2. Textured /\ (Images /\ guest \in Guests) /\ Images' /\ [GpuNext]_gpu_vars => Textured'
  <2> SUFFICES ASSUME Textured, Images, guest \in Guests, Images', [GpuNext]_gpu_vars PROVE Textured'
    OBVIOUS
  <2>1. CASE Display \/ UNCHANGED gpu_vars
    <3>1. canvas' = canvas /\ log' = log
      BY <2>1 DEF Display, gpu_vars
    <3> QED
      BY <3>1 DEF Textured, TexturedAsStored
  <2> QED
    BY <1>0, <2>1, DrawTextured, SetTextured, TransferTextured, ResetTextured DEF GpuNext
<1> QED
  BY <1>1, <1>2, AlwaysImages, PTL DEF GpuSpec

\* TexturedAsStored, for every size of video memory, any commands and halfwords in
\* them: `draw_rect` gives each pixel that the draw area leaves of a rectangle the
\* texel that belongs to it, through a cache (`maybe_fetch`) that is as old as the
\* last GP0(01), and changes no other halfword.
THEOREM RectanglesAreTextured == GpuSpec => []TexturedAsStored
<1>1. Textured => TexturedAsStored
  BY DEF Textured
<1> QED
  BY <1>1, AlwaysTextured, PTL

-----------------------------------------------------------------------------
(***************************************************************************)
(* Polygons and lines (Gpu).                                               *)
(***************************************************************************)
\* Which side of a line a point is on.
LEMMA EdgeInt ==
  ASSUME NEW a \in Position, NEW b \in Position, NEW q \in Position
  PROVE  edge_function(a, b, q) \in Int /\ edge_function(b, a, q) = -edge_function(a, b, q)
         /\ edge_function(a, b, a) = 0 /\ edge_function(a, b, b) = 0
  BY DEF Position, edge_function

LEMMA EdgesAround ==
  ASSUME NEW a \in Position, NEW b \in Position, NEW c \in Position, NEW q \in Position
  PROVE  edge_function(a, b, q) + edge_function(b, c, q) + edge_function(c, a, q) = edge_function(a, b, c)
         /\ edge_function(a, b, c) = edge_function(b, c, a)
  BY DEF Position, edge_function

\* x is the mean of three numbers with weights that make D together.
IsMean(x, D, u, v, w, x1, x2, x3) ==
  /\ D \in Nat /\ u \in Nat /\ v \in Nat /\ w \in Nat /\ D > 0 /\ D = u + v + w
  /\ x \in Int /\ x1 \in Int /\ x2 \in Int /\ x3 \in Int /\ D * x = u * x1 + v * x2 + w * x3

\* A point is as far between the corners of a triangle as it is from the sides.
LEMMA WeightsOf ==
  ASSUME NEW a \in Position, NEW b \in Position, NEW c \in Position, NEW q \in Position
  PROVE  LET u == edge_function(b, c, q)
             v == edge_function(c, a, q)
             w == edge_function(a, b, q)
         IN  /\ edge_function(a, b, c) * q.x = u * a.x + v * b.x + w * c.x
             /\ edge_function(a, b, c) * q.y = u * a.y + v * b.y + w * c.y
  BY DEF Position, edge_function

LEMMA Weights ==
  ASSUME NEW a \in Position, NEW b \in Position, NEW c \in Position, NEW q \in Position,
         edge_function(a, b, q) >= 0, edge_function(b, c, q) >= 0, edge_function(c, a, q) >= 0,
         edge_function(a, b, c) > 0
  PROVE  LET u == edge_function(b, c, q)
             v == edge_function(c, a, q)
             w == edge_function(a, b, q)
         IN  /\ IsMean(q.x, edge_function(a, b, c), u, v, w, a.x, b.x, c.x)
             /\ IsMean(q.y, edge_function(a, b, c), u, v, w, a.y, b.y, c.y)
<1> DEFINE u == edge_function(b, c, q)
           v == edge_function(c, a, q)
           w == edge_function(a, b, q)
           D == edge_function(a, b, c)
<1>1. u \in Nat /\ v \in Nat /\ w \in Nat /\ D \in Nat /\ D > 0 /\ D = u + v + w
  BY EdgeInt, EdgesAround
<1>2. D * q.x = u * a.x + v * b.x + w * c.x /\ D * q.y = u * a.y + v * b.y + w * c.y
  BY WeightsOf
<1>3. /\ a.x \in Int /\ b.x \in Int /\ c.x \in Int /\ q.x \in Int
      /\ a.y \in Int /\ b.y \in Int /\ c.y \in Int /\ q.y \in Int
  BY DEF Position
<1> HIDE DEF u, v, w, D
<1>4. IsMean(q.x, D, u, v, w, a.x, b.x, c.x) /\ IsMean(q.y, D, u, v, w, a.y, b.y, c.y)
  BY <1>1, <1>2, <1>3 DEF IsMean
<1> QED
  BY <1>4 DEF u, v, w, D

LEMMA EdgeCoefficients ==
  ASSUME NEW a \in Position, NEW b \in Position, NEW q \in Position
  PROVE  edge_function(a, b, q) = (a.y - b.y) * q.x + (b.x - a.x) * q.y + (a.x * b.y - a.y * b.x)
  BY DEF Position, edge_function

LEMMA MeanOfNat ==
  ASSUME NEW D, NEW u, NEW v, NEW w, NEW x, NEW x1, NEW x2, NEW x3,
         IsMean(x, D, u, v, w, x1, x2, x3), x1 >= 0, x2 >= 0, x3 >= 0
  PROVE  x >= 0
<1>1. u * x1 >= 0 /\ v * x2 >= 0 /\ w * x3 >= 0
  <2>1. ASSUME NEW i \in Nat, NEW j \in Nat PROVE i * j >= 0
    BY <2>1
  <2> QED
    BY <2>1 DEF IsMean
<1>2. D * x >= 0
  BY <1>1 DEF IsMean
<1>3. ASSUME x < 0 PROVE FALSE
  <2>1. -x \in Nat \ {0} /\ D \in Nat \ {0}
    BY <1>3 DEF IsMean
  <2>2. D * (-x) > 0
    BY <2>1
  <2>3. D * (-x) = -(D * x)
    BY DEF IsMean
  <2> QED
    BY <1>2, <2>2, <2>3 DEF IsMean
<1> QED
  BY <1>3 DEF IsMean

\* And so is not beyond them.
LEMMA MeanBounded ==
  ASSUME NEW D, NEW u, NEW v, NEW w, NEW x, NEW x1, NEW x2, NEW x3, IsMean(x, D, u, v, w, x1, x2, x3),
         NEW low \in Int, low <= x1, low <= x2, low <= x3
  PROVE  low <= x
<1> DEFINE y == x - low
           y1 == x1 - low
           y2 == x2 - low
           y3 == x3 - low
<1>1. y1 >= 0 /\ y2 >= 0 /\ y3 >= 0
  BY DEF IsMean
<1>2. IsMean(y, D, u, v, w, y1, y2, y3)
  <2>1. D * (x - low) = D * x - D * low /\ D * low = u * low + v * low + w * low
    BY DEF IsMean
  <2>2. u * (x1 - low) = u * x1 - u * low /\ v * (x2 - low) = v * x2 - v * low /\ w * (x3 - low) = w * x3 - w * low
    BY DEF IsMean
  <2> QED
    BY <2>1, <2>2 DEF IsMean
<1> HIDE DEF y, y1, y2, y3
<1>3. y >= 0
  BY <1>1, <1>2, MeanOfNat
<1> QED
  BY <1>3 DEF y, IsMean

\* What all three corners of a triangle are to the left of, every point in it is.
LEMMA LeftOfCorners ==
  ASSUME NEW a \in Position, NEW b \in Position, NEW c \in Position, NEW q \in Position,
         edge_function(a, b, q) >= 0, edge_function(b, c, q) >= 0, edge_function(c, a, q) >= 0,
         edge_function(a, b, c) > 0, NEW s \in Position, NEW t \in Position,
         edge_function(s, t, a) >= 0, edge_function(s, t, b) >= 0, edge_function(s, t, c) >= 0
  PROVE  edge_function(s, t, q) >= 0
<1> DEFINE u == edge_function(b, c, q)
           v == edge_function(c, a, q)
           w == edge_function(a, b, q)
           D == edge_function(a, b, c)
           k == s.y - t.y
           l == t.x - s.x
           m == s.x * t.y - s.y * t.x
           x == q.x
           x1 == a.x
           x2 == b.x
           x3 == c.x
           y == q.y
           y1 == a.y
           y2 == b.y
           y3 == c.y
           z == edge_function(s, t, q)
           z1 == edge_function(s, t, a)
           z2 == edge_function(s, t, b)
           z3 == edge_function(s, t, c)
<1>1. /\ u \in Nat /\ v \in Nat /\ w \in Nat /\ D \in Nat
      /\ k \in Int /\ l \in Int /\ m \in Int
      /\ x \in Int /\ x1 \in Int /\ x2 \in Int /\ x3 \in Int
      /\ y \in Int /\ y1 \in Int /\ y2 \in Int /\ y3 \in Int
      /\ z \in Int /\ z1 \in Nat /\ z2 \in Nat /\ z3 \in Nat
  BY EdgeInt DEF Position
<1>2. D = u + v + w /\ D > 0
  BY <1>1, EdgesAround
<1>3. IsMean(x, D, u, v, w, x1, x2, x3) /\ IsMean(y, D, u, v, w, y1, y2, y3)
  BY Weights
<1>4. z = k * x + l * y + m /\ z1 = k * x1 + l * y1 + m /\ z2 = k * x2 + l * y2 + m /\ z3 = k * x3 + l * y3 + m
  BY EdgeCoefficients
<1> HIDE DEF u, v, w, D, k, l, m, x, x1, x2, x3, y, y1, y2, y3, z, z1, z2, z3
<1>5. IsMean(z, D, u, v, w, z1, z2, z3)
  <2>1. D * x = u * x1 + v * x2 + w * x3 /\ D * y = u * y1 + v * y2 + w * y3
    BY <1>3 DEF IsMean
  <2>2. D * (k * x + l * y + m) = k * (D * x) + l * (D * y) + m * D
    BY <1>1
  <2>3. k * (D * x) = k * (u * x1 + v * x2 + w * x3) /\ l * (D * y) = l * (u * y1 + v * y2 + w * y3)
    BY <2>1
  <2>4. m * D = m * (u + v + w)
    BY <1>2
  <2>5. k * (u * x1 + v * x2 + w * x3) + l * (u * y1 + v * y2 + w * y3) + m * (u + v + w)
        = u * (k * x1 + l * y1 + m) + v * (k * x2 + l * y2 + m) + w * (k * x3 + l * y3 + m)
    BY <1>1
  <2> QED
    BY <1>1, <1>2, <1>4, <2>2, <2>3, <2>4, <2>5 DEF IsMean
<1>6. z >= 0
  BY <1>1, <1>2, <1>5, MeanOfNat
<1> QED
  BY <1>6 DEF z

-----------------------------------------------------------------------------
\* Inside of a triangle with the corners in this order, as far as the bias allows.
Inner(a, b, q) == edge_function(a, b, q) + bias(a, b) >= 0
Inside(a, b, c, q) == Inner(a, b, q) /\ Inner(b, c, q) /\ Inner(c, a, q)

\* A point is on one side of a line or the other, and never on both.
LEMMA EitherSide ==
  ASSUME NEW a \in Position, NEW b \in Position, NEW q \in Position
  PROVE  /\ Inner(a, b, q) => edge_function(a, b, q) >= 0
         /\ edge_function(a, b, q) > 0 => Inner(a, b, q)
         /\ a # b => (Inner(a, b, q) <=> ~Inner(b, a, q))
<1> DEFINE e == edge_function(a, b, q)
<1>1. e \in Int /\ edge_function(b, a, q) = -e
  BY EdgeInt
<1>2. bias(a, b) \in {0, -1} /\ bias(b, a) \in {0, -1}
  BY DEF bias
<1>3. ASSUME a # b PROVE bias(a, b) + bias(b, a) = -1
  <2>1. a.x # b.x \/ a.y # b.y
    BY <1>3 DEF Position
  <2> QED
    BY <2>1 DEF Position, bias, is_top_left
<1> HIDE DEF e
<1>4. (Inner(a, b, q) <=> e + bias(a, b) >= 0) /\ (Inner(b, a, q) <=> -e + bias(b, a) >= 0)
  BY <1>1 DEF Inner, e
<1>5. ASSUME a # b PROVE Inner(a, b, q) <=> ~Inner(b, a, q)
  BY <1>1, <1>2, <1>3, <1>4, <1>5
<1>6. (Inner(a, b, q) => e >= 0) /\ (e > 0 => Inner(a, b, q))
  BY <1>1, <1>2, <1>4
<1> QED
  BY <1>5, <1>6 DEF e

\* The top left edges of a triangle never go round it.
LEMMA InsideTurnsLeft ==
  ASSUME NEW a \in Position, NEW b \in Position, NEW c \in Position, NEW q \in Position, Inside(a, b, c, q)
  PROVE  /\ edge_function(a, b, q) >= 0 /\ edge_function(b, c, q) >= 0 /\ edge_function(c, a, q) >= 0
         /\ edge_function(a, b, c) > 0
<1> DEFINE u == edge_function(b, c, q)
           v == edge_function(c, a, q)
           w == edge_function(a, b, q)
<1>1. u \in Int /\ v \in Int /\ w \in Int /\ w + u + v = edge_function(a, b, c)
  BY EdgeInt, EdgesAround
<1>2. u >= 0 /\ v >= 0 /\ w >= 0
  BY EitherSide DEF Inside
<1>3. ASSUME u = 0, v = 0, w = 0 PROVE FALSE
  <2>1. 0 + bias(a, b) >= 0 /\ 0 + bias(b, c) >= 0 /\ 0 + bias(c, a) >= 0
    BY <1>3 DEF Inside, Inner
  <2>2. is_top_left(a, b) /\ is_top_left(b, c) /\ is_top_left(c, a)
    BY <2>1 DEF bias
  <2> QED
    BY <2>2 DEF is_top_left, Position
<1> QED
  BY <1>1, <1>2, <1>3

\* So that what is inside is within the bounding box.
LEMMA InsideBounds ==
  ASSUME NEW a \in Position, NEW b \in Position, NEW c \in Position, NEW q \in Position, Inside(a, b, c, q),
         NEW low \in Int, NEW high \in Int
  PROVE  /\ low <= a.x /\ low <= b.x /\ low <= c.x => low <= q.x
         /\ high >= a.x /\ high >= b.x /\ high >= c.x => high >= q.x
         /\ low <= a.y /\ low <= b.y /\ low <= c.y => low <= q.y
         /\ high >= a.y /\ high >= b.y /\ high >= c.y => high >= q.y
<1> DEFINE u == edge_function(b, c, q)
           v == edge_function(c, a, q)
           w == edge_function(a, b, q)
           D == edge_function(a, b, c)
<1>2. IsMean(q.x, D, u, v, w, a.x, b.x, c.x) /\ IsMean(q.y, D, u, v, w, a.y, b.y, c.y)
  BY InsideTurnsLeft, Weights
<1> HIDE DEF u, v, w, D
<1>3. ASSUME NEW x, NEW x1, NEW x2, NEW x3, IsMean(x, D, u, v, w, x1, x2, x3)
      PROVE  (low <= x1 /\ low <= x2 /\ low <= x3 => low <= x) /\ (high >= x1 /\ high >= x2 /\ high >= x3 => high >= x)
  <2>1. low <= x1 /\ low <= x2 /\ low <= x3 => low <= x
    BY <1>3, MeanBounded
  <2> DEFINE y == -x
             y1 == -x1
             y2 == -x2
             y3 == -x3
             top_ == -high
  <2>2. IsMean(y, D, u, v, w, y1, y2, y3)
    BY <1>3 DEF IsMean
  <2>3. top_ \in Int
    OBVIOUS
  <2> HIDE DEF y, y1, y2, y3, top_
  <2>4. top_ <= y1 /\ top_ <= y2 /\ top_ <= y3 => top_ <= y
    BY <2>2, <2>3, MeanBounded
  <2> QED
    BY <1>3, <2>1, <2>4 DEF y, y1, y2, y3, top_, IsMean
<1> QED
  BY <1>2, <1>3 DEF Position

-----------------------------------------------------------------------------
LEMMA BoundsOfThree ==
  ASSUME NEW a \in Int, NEW b \in Int, NEW c \in Int
  PROVE  LET S == {a, b, c}
         IN  /\ Min(S) \in S /\ Min(S) <= a /\ Min(S) <= b /\ Min(S) <= c
             /\ Max(S) \in S /\ Max(S) >= a /\ Max(S) >= b /\ Max(S) >= c
<1> DEFINE S == {a, b, c}
<1>1. \E x \in S : \A y \in S : x <= y
  OBVIOUS
<1>2. \E x \in S : \A y \in S : x >= y
  OBVIOUS
<1>3. Min(S) \in S /\ \A y \in S : Min(S) <= y
  <2> HIDE DEF S
  <2> QED
    BY <1>1 DEF Min
<1>4. Max(S) \in S /\ \A y \in S : Max(S) >= y
  <2> HIDE DEF S
  <2> QED
    BY <1>2 DEF Max
<1>5. a \in S /\ b \in S /\ c \in S
  OBVIOUS
<1> HIDE DEF S
<1>6. /\ Min(S) \in S /\ Min(S) <= a /\ Min(S) <= b /\ Min(S) <= c
      /\ Max(S) \in S /\ Max(S) >= a /\ Max(S) >= b /\ Max(S) >= c
  BY <1>3, <1>4, <1>5
<1> QED
  BY <1>6 DEF S

\* The barycentric coordinate that draw_triangle steps through is the edge
\* function of the pixel, with the bias.
LEMMA Barycentric ==
  ASSUME NEW a \in Position, NEW b \in Position, NEW q \in Position,
         NEW x \in Int, NEW y \in Int, NEW row \in Int, NEW step \in Int, NEW lane \in Int,
         q.x = x + LANES * step + lane, q.y = y + row
  PROVE  LET e == setup(a, b)
         IN  (e.x * (x + lane) + e.y * y + e.base) + row * e.y + step * (e.x * LANES) >= 0 <=> Inner(a, b, q)
<1> DEFINE k == a.y - b.y
           l == b.x - a.x
           m == a.x * b.y - a.y * b.x
           n == bias(a, b)
<1>1. k \in Int /\ l \in Int /\ m \in Int /\ n \in Int
  BY DEF Position, bias
<1>2. setup(a, b) = [x |-> k, y |-> l, base |-> m + n]
  BY DEF setup
<1>3. edge_function(a, b, q) = k * q.x + l * q.y + m
  BY EdgeCoefficients
<1> HIDE DEF k, l, m, n
<1>4. k * (x + LANES * step + lane) = k * (x + lane) + step * (k * LANES)
  BY <1>1 DEF LANES
<1>5. l * (y + row) = l * y + row * l
  BY <1>1
<1>6. (k * (x + lane) + l * y + (m + n)) + row * l + step * (k * LANES) = edge_function(a, b, q) + n
  BY <1>1, <1>3, <1>4, <1>5 DEF LANES
<1> QED
  BY <1>2, <1>6 DEF Inner, n

LEMMA BoundingBox ==
  ASSUME Dimensions, NEW a \in Position, NEW b \in Position, NEW c \in Position, NEW da, IsArea(da)
  PROVE  LET box == bounding_box(<<a, b, c>>, da)
         IN  /\ box.x_min \in Nat /\ box.y_min \in Nat /\ box.x_max \in Int /\ box.y_max \in Int
             /\ box.x_min >= da.x_min /\ box.x_max <= da.x_max + LANES - 1
             /\ box.y_min >= da.y_min /\ box.y_max <= da.y_max
             /\ \A q \in Position : Inside(a, b, c, q) /\ In(q, da) =>
                  q.x >= box.x_min /\ q.x <= box.x_max /\ q.y >= box.y_min /\ q.y <= box.y_max
<1> DEFINE t == <<a, b, c>>
           xs == {a.x, b.x, c.x}
           ys == {a.y, b.y, c.y}
           right == Min({Max(xs), da.x_max})
           box == bounding_box(t, da)
<1>1. a.x \in Int /\ b.x \in Int /\ c.x \in Int /\ a.y \in Int /\ b.y \in Int /\ c.y \in Int
  BY DEF Position
<1>2. da.x_min \in Nat /\ da.x_max \in Nat /\ da.y_min \in Nat /\ da.y_max \in Nat
  BY DEF IsArea, Dimensions
<1>3. {t[i].x : i \in 1 .. 3} = xs /\ {t[i].y : i \in 1 .. 3} = ys
  <2>1. 1 .. 3 = {1, 2, 3}
    OBVIOUS
  <2> QED
    BY <2>1
<1>4. /\ box.x_min = Max({Min(xs), da.x_min}) /\ box.y_min = Max({Min(ys), da.y_min})
      /\ box.x_max = next_multiple_of_lanes(right) /\ box.y_max = Min({Max(ys), da.y_max})
  BY <1>3 DEF bounding_box
<1>5. /\ Min(xs) \in Int /\ Min(xs) <= a.x /\ Min(xs) <= b.x /\ Min(xs) <= c.x
      /\ Max(xs) \in Int /\ Max(xs) >= a.x /\ Max(xs) >= b.x /\ Max(xs) >= c.x
      /\ Min(ys) \in Int /\ Min(ys) <= a.y /\ Min(ys) <= b.y /\ Min(ys) <= c.y
      /\ Max(ys) \in Int /\ Max(ys) >= a.y /\ Max(ys) >= b.y /\ Max(ys) >= c.y
  <2>1. Min(xs) \in xs /\ Max(xs) \in xs /\ Min(ys) \in ys /\ Max(ys) \in ys
    BY <1>1, BoundsOfThree
  <2>2. xs \subseteq Int /\ ys \subseteq Int
    BY <1>1
  <2>3. /\ Min(xs) <= a.x /\ Min(xs) <= b.x /\ Min(xs) <= c.x
        /\ Max(xs) >= a.x /\ Max(xs) >= b.x /\ Max(xs) >= c.x
    BY <1>1, BoundsOfThree
  <2>4. /\ Min(ys) <= a.y /\ Min(ys) <= b.y /\ Min(ys) <= c.y
        /\ Max(ys) >= a.y /\ Max(ys) >= b.y /\ Max(ys) >= c.y
    BY <1>1, BoundsOfThree
  <2> HIDE DEF xs, ys
  <2> QED
    BY <2>1, <2>2, <2>3, <2>4
<1>6. ASSUME NEW q \in Position, Inside(a, b, c, q), In(q, da)
      PROVE  /\ Min(xs) <= q.x /\ q.x <= Max(xs) /\ Min(ys) <= q.y /\ q.y <= Max(ys)
             /\ q.x \in da.x_min .. da.x_max /\ q.y \in da.y_min .. da.y_max
  <2>1. Min(xs) <= q.x /\ q.x <= Max(xs)
    <3> HIDE DEF xs, ys
    <3> QED
      BY <1>5, <1>6, InsideBounds
  <2>2. Min(ys) <= q.y /\ q.y <= Max(ys)
    <3> HIDE DEF xs, ys
    <3> QED
      BY <1>5, <1>6, InsideBounds
  <2> QED
    BY <1>6, <2>1, <2>2 DEF In
<1> HIDE DEF xs, ys
<1>7. right = IF Max(xs) <= da.x_max THEN Max(xs) ELSE da.x_max
  BY <1>2, <1>5, MinOfTwo
<1>8. next_multiple_of_lanes(right) \in Int /\ right <= next_multiple_of_lanes(right)
      /\ next_multiple_of_lanes(right) <= right + LANES - 1
  <2>1. right \in Int
    BY <1>2, <1>5, <1>7
  <2> HIDE DEF right
  <2> QED
    BY <2>1 DEF next_multiple_of_lanes, LANES
<1>9. /\ box.x_min = IF Min(xs) >= da.x_min THEN Min(xs) ELSE da.x_min
      /\ box.y_min = IF Min(ys) >= da.y_min THEN Min(ys) ELSE da.y_min
      /\ box.y_max = IF Max(ys) <= da.y_max THEN Max(ys) ELSE da.y_max
  BY <1>2, <1>4, <1>5, MaxOfTwo, MinOfTwo
<1>10. box.x_max \in Int /\ right <= box.x_max /\ box.x_max <= da.x_max + LANES - 1
  BY <1>2, <1>4, <1>5, <1>7, <1>8 DEF LANES
<1> HIDE DEF box, right
<1>11. /\ box.x_min \in Nat /\ box.y_min \in Nat /\ box.x_max \in Int /\ box.y_max \in Int
       /\ box.x_min >= da.x_min /\ box.x_max <= da.x_max + LANES - 1
       /\ box.y_min >= da.y_min /\ box.y_max <= da.y_max
  BY <1>2, <1>5, <1>9, <1>10
<1>12. ASSUME NEW q \in Position, Inside(a, b, c, q), In(q, da)
       PROVE  q.x >= box.x_min /\ q.x <= box.x_max /\ q.y >= box.y_min /\ q.y <= box.y_max
  <2>1. q.x \in Int /\ q.y \in Int
    BY DEF Position
  <2>2. Min(xs) <= q.x /\ q.x <= Max(xs) /\ Min(ys) <= q.y /\ q.y <= Max(ys)
        /\ q.x \in da.x_min .. da.x_max /\ q.y \in da.y_min .. da.y_max
    BY <1>6, <1>12
  <2> QED
    BY <1>2, <1>5, <1>7, <1>9, <1>10, <2>1, <2>2
<1> QED
  BY <1>11, <1>12 DEF box

IsWound(points, a, b, c) == wound(points) = <<a, b, c>>

\* A triangle has the pixels of the draw area that are inside of it, and of
\* others only some that fill up a lane.
LEMMA TrianglePixels ==
  ASSUME Dimensions, NEW points, NEW a \in Position, NEW b \in Position, NEW c \in Position,
         IsWound(points, a, b, c), NEW da, IsArea(da)
  PROVE  LET drawn == draw_triangle(points, da)
         IN  /\ \A q \in Position : In(q, da) => (q \in drawn <=> Inside(a, b, c, q))
             /\ \A q \in drawn : q \in Position /\ In(q, [da EXCEPT !.x_max = @ + 2 * (LANES - 1)])
<1> DEFINE p == wound(points)
           edges == {setup(p[2], p[3]), setup(p[3], p[1]), setup(p[1], p[2])}
           box == bounding_box(p, da)
           origin(e, lane) == e.x * (box.x_min + lane) + e.y * box.y_min + e.base
           bary(e, row, step, lane) == origin(e, lane) + row * e.y + step * (e.x * LANES)
           rows == 0 .. box.y_max - box.y_min
           steps == {s \in 0 .. box.x_max : box.x_min + LANES * s <= box.x_max}
           inner(i) == \A e \in edges : bary(e, i[1], i[2], i[3]) >= 0
           pixel(i) == Point(box.x_min + LANES * i[2] + i[3], box.y_min + i[1])
           drawn == draw_triangle(points, da)
<1>1. drawn = {pixel(i) : i \in {i \in rows \X steps \X (0 .. LANES - 1) : inner(i)}}
  BY DEF draw_triangle
<1>2. /\ box.x_min \in Nat /\ box.y_min \in Nat /\ box.x_max \in Int /\ box.y_max \in Int
      /\ box.x_min >= da.x_min /\ box.x_max <= da.x_max + LANES - 1
      /\ box.y_min >= da.y_min /\ box.y_max <= da.y_max
      /\ \A q \in Position : Inside(a, b, c, q) /\ In(q, da) =>
           q.x >= box.x_min /\ q.x <= box.x_max /\ q.y >= box.y_min /\ q.y <= box.y_max
  BY BoundingBox DEF IsWound
<1>3. edges = {setup(b, c), setup(c, a), setup(a, b)}
  BY DEF IsWound
<1> HIDE DEF box
<1>4. ASSUME NEW row \in rows, NEW step \in steps, NEW lane \in 0 .. LANES - 1
      PROVE  LET q == pixel(<<row, step, lane>>)
             IN  /\ q \in Position /\ (inner(<<row, step, lane>>) <=> Inside(a, b, c, q))
                 /\ In(q, [da EXCEPT !.x_max = @ + 2 * (LANES - 1)])
  <2> DEFINE x == box.x_min
             y == box.y_min
             q == pixel(<<row, step, lane>>)
  <2>1. x \in Nat /\ y \in Nat /\ row \in Nat /\ step \in Nat /\ lane \in Nat
        /\ x + LANES * step <= box.x_max /\ lane <= LANES - 1 /\ y + row <= box.y_max
    BY <1>2 DEF LANES
  <2>2. q.x = x + LANES * step + lane /\ q.y = y + row /\ q \in Position
    BY <2>1 DEF Point, Position, LANES
  <2>3. inner(<<row, step, lane>>) <=> \A e \in edges : bary(e, row, step, lane) >= 0
    OBVIOUS
  <2>4. /\ bary(setup(b, c), row, step, lane) >= 0 <=> Inner(b, c, q)
        /\ bary(setup(c, a), row, step, lane) >= 0 <=> Inner(c, a, q)
        /\ bary(setup(a, b), row, step, lane) >= 0 <=> Inner(a, b, q)
    <3> HIDE DEF q, x, y
    <3> QED
      BY <2>1, <2>2, Barycentric DEF x, y
  <2> HIDE DEF inner, bary, q
  <2>5. inner(<<row, step, lane>>) <=> Inside(a, b, c, q)
    <3> HIDE DEF edges
    <3> QED
      BY <1>3, <2>3, <2>4, Zenon DEF Inside
  <2>6. In(q, [da EXCEPT !.x_max = @ + 2 * (LANES - 1)])
    BY <1>2, <2>1, <2>2 DEF In, IsArea, Dimensions, LANES
  <2> QED
    BY <2>2, <2>5, <2>6 DEF q
<1>5. ASSUME NEW q \in drawn
      PROVE  q \in Position /\ Inside(a, b, c, q) /\ In(q, [da EXCEPT !.x_max = @ + 2 * (LANES - 1)])
  <2>1. PICK row \in rows, step \in steps, lane \in 0 .. LANES - 1 :
          inner(<<row, step, lane>>) /\ q = pixel(<<row, step, lane>>)
    <3>1. PICK i \in rows \X steps \X (0 .. LANES - 1) : inner(i) /\ q = pixel(i)
      BY <1>1
    <3>2. i = <<i[1], i[2], i[3]>> /\ i[1] \in rows /\ i[2] \in steps /\ i[3] \in 0 .. LANES - 1
      OBVIOUS
    <3> HIDE DEF rows, steps, inner, pixel
    <3> QED
      BY <3>1, <3>2
  <2> HIDE DEF rows, steps, inner, pixel, drawn
  <2> QED
    BY <1>4, <2>1
<1>6. ASSUME NEW q \in Position, In(q, da), Inside(a, b, c, q) PROVE q \in drawn
  <2>1. q.x >= box.x_min /\ q.x <= box.x_max /\ q.y >= box.y_min /\ q.y <= box.y_max
    BY <1>2, <1>6
  <2> DEFINE n == q.x - box.x_min
             row == q.y - box.y_min
             step == n \div LANES
             lane == n % LANES
  <2>2. q = Point(q.x, q.y) /\ q.x \in Int /\ q.y \in Int
    BY DEF Position, Point
  <2>3. n \in Nat
    BY <1>2, <2>1, <2>2
  <2>4. step \in Nat /\ lane \in 0 .. LANES - 1 /\ n = LANES * step + lane
    <3> HIDE DEF n
    <3> QED
      BY <2>3 DEF LANES
  <2> HIDE DEF step, lane
  <2>5. row \in rows /\ step \in steps
    BY <1>2, <2>1, <2>2, <2>3, <2>4 DEF LANES
  <2>6. pixel(<<row, step, lane>>) = q
    <3>1. box.x_min + LANES * step + lane = q.x
      BY <1>2, <2>2, <2>4 DEF LANES
    <3>0. box.y_min + row = q.y
      BY <1>2, <2>2
    <3>2. pixel(<<row, step, lane>>) = Point(box.x_min + LANES * step + lane, box.y_min + row)
      OBVIOUS
    <3> QED
      BY <2>2, <3>0, <3>1, <3>2
  <2> HIDE DEF pixel, inner, row, rows, steps
  <2>7. inner(<<row, step, lane>>)
    BY <1>4, <1>6, <2>4, <2>5, <2>6
  <2> QED
    BY <1>1, <2>4, <2>5, <2>6, <2>7
<1> HIDE DEF drawn
<1> QED
  BY <1>5, <1>6 DEF drawn

-----------------------------------------------------------------------------
\* A quad that turns left at each corner, and its halves.
TurnsLeft(a, b, c, d) ==
  /\ edge_function(a, b, c) > 0 /\ edge_function(a, b, d) > 0 /\ edge_function(b, c, d) > 0
  /\ edge_function(b, c, a) > 0 /\ edge_function(c, d, a) > 0 /\ edge_function(c, d, b) > 0
  /\ edge_function(d, a, b) > 0 /\ edge_function(d, a, c) > 0

Sides(a, b, c, d, q) ==
  {edge_function(a, b, q), edge_function(b, c, q), edge_function(c, d, q), edge_function(d, a, q)}

LEMMA Halves ==
  ASSUME NEW a \in Position, NEW b \in Position, NEW c \in Position, NEW d \in Position, NEW q \in Position,
         TurnsLeft(a, b, c, d)
  PROVE  LET one == Inside(a, b, d, q)
             two == Inside(b, c, d, q)
         IN  /\ ~(one /\ two)
             /\ (\A s \in Sides(a, b, c, d, q) : s > 0) => one \/ two
             /\ (\E s \in Sides(a, b, c, d, q) : s < 0) => ~one /\ ~two
             /\ \E s \in Sides(a, b, c, d, q) : s > 0
<1> DEFINE one == Inside(a, b, d, q)
           two == Inside(b, c, d, q)
           s1 == edge_function(a, b, q)
           s2 == edge_function(b, c, q)
           s3 == edge_function(c, d, q)
           s4 == edge_function(d, a, q)
<1>1. s1 \in Int /\ s2 \in Int /\ s3 \in Int /\ s4 \in Int
  BY EdgeInt
<1>2. b # d
  BY EdgeInt DEF TurnsLeft
<1>3. Inner(b, d, q) <=> ~Inner(d, b, q)
  BY <1>2, EitherSide
<1>4. s1 > 0 /\ s2 > 0 /\ s3 > 0 /\ s4 > 0 => one \/ two
  BY <1>3, EitherSide DEF Inside
<1>5. ASSUME one PROVE s1 >= 0 /\ s2 >= 0 /\ s3 >= 0 /\ s4 >= 0
  <2>1. /\ s1 >= 0 /\ edge_function(b, d, q) >= 0 /\ s4 >= 0 /\ edge_function(a, b, d) > 0
    BY <1>5, InsideTurnsLeft
  <2>2. /\ edge_function(b, c, a) >= 0 /\ edge_function(b, c, b) >= 0 /\ edge_function(b, c, d) >= 0
        /\ edge_function(c, d, a) >= 0 /\ edge_function(c, d, b) >= 0 /\ edge_function(c, d, d) >= 0
    BY EdgeInt DEF TurnsLeft
  <2> QED
    BY <2>1, <2>2, LeftOfCorners
<1>6. ASSUME two PROVE s1 >= 0 /\ s2 >= 0 /\ s3 >= 0 /\ s4 >= 0
  <2>1. /\ s2 >= 0 /\ s3 >= 0 /\ edge_function(d, b, q) >= 0 /\ edge_function(b, c, d) > 0
    BY <1>6, InsideTurnsLeft
  <2>2. /\ edge_function(a, b, b) >= 0 /\ edge_function(a, b, c) >= 0 /\ edge_function(a, b, d) >= 0
        /\ edge_function(d, a, b) >= 0 /\ edge_function(d, a, c) >= 0 /\ edge_function(d, a, d) >= 0
    BY EdgeInt DEF TurnsLeft
  <2> QED
    BY <2>1, <2>2, LeftOfCorners
<1>7. s1 > 0 \/ s2 > 0 \/ s3 > 0 \/ s4 > 0
  <2> DEFINE e == edge_function(b, d, q)
             f == edge_function(a, b, d)
             g == edge_function(b, c, d)
  <2>1. e \in Int /\ edge_function(d, b, q) = -e /\ f \in Int /\ g \in Int
    BY EdgeInt
  <2>2. s1 + e + s4 = f /\ s2 + s3 + edge_function(d, b, q) = g /\ f > 0 /\ g > 0
    BY EdgesAround DEF TurnsLeft
  <2> HIDE DEF s1, s2, s3, s4, e, f, g
  <2> QED
    BY <1>1, <2>1, <2>2
<1>8. ~(one /\ two)
  BY <1>3 DEF Inside
<1>9. Sides(a, b, c, d, q) = {s1, s2, s3, s4}
  BY DEF Sides
<1> HIDE DEF s1, s2, s3, s4, one, two
<1>10. (\A s \in Sides(a, b, c, d, q) : s > 0) => one \/ two
  BY <1>4, <1>9
<1>11. (\E s \in Sides(a, b, c, d, q) : s < 0) => ~one /\ ~two
  <2> SUFFICES ASSUME NEW s \in {s1, s2, s3, s4}, s < 0 PROVE ~one /\ ~two
    BY <1>9
  <2>1. s \in Int /\ ~(s >= 0)
    BY <1>1
  <2> QED
    BY <1>5, <1>6, <2>1
<1>12. \E s \in Sides(a, b, c, d, q) : s > 0
  BY <1>7, <1>9
<1> QED
  BY <1>8, <1>10, <1>11, <1>12 DEF one, two

-----------------------------------------------------------------------------
\* What PolygonIsWhole says of a pixel.
WholeAt(q, outline, drawn) ==
  CASE DOMAIN outline \in {LeftOf(q, outline), RightOf(q, outline)} -> Times_drawn(q, drawn) = 1
    [] LeftOf(q, outline) # {} /\ RightOf(q, outline) # {}          -> Times_drawn(q, drawn) = 0
    [] OTHER                                                        -> Times_drawn(q, drawn) <= 1

LEMMA WholeIf ==
  ASSUME NEW q, NEW outline, NEW drawn, DOMAIN outline # {}, Times_drawn(q, drawn) \in {0, 1},
         DOMAIN outline \in {LeftOf(q, outline), RightOf(q, outline)} => Times_drawn(q, drawn) = 1,
         LeftOf(q, outline) # {} /\ RightOf(q, outline) # {} => Times_drawn(q, drawn) = 0
  PROVE  WholeAt(q, outline, drawn)
<1> DEFINE n == Times_drawn(q, drawn)
           l == LeftOf(q, outline)
           r == RightOf(q, outline)
<1>1. n = 0 \/ n = 1
  OBVIOUS
<1>2. n <= 1
  BY <1>1
<1> HIDE DEF n, l, r
<1> QED
  BY <1>2 DEF WholeAt, n, l, r

LEMMA TimesOfOne ==
  ASSUME NEW q, NEW drawn, DOMAIN drawn = {1}
  PROVE  Times_drawn(q, drawn) = IF q \in drawn[1] THEN 1 ELSE 0
<1> DEFINE S == {i \in DOMAIN drawn : q \in drawn[i]}
<1>1. S = IF q \in drawn[1] THEN {1} ELSE {}
  OBVIOUS
<1>2. Cardinality({1}) = 1 /\ Cardinality({}) = 0
  BY FS_Singleton, FS_EmptySet
<1> QED
  BY <1>1, <1>2 DEF Times_drawn

LEMMA TimesOfTwo ==
  ASSUME NEW q, NEW drawn, DOMAIN drawn = {1, 2}, ~(q \in drawn[1] /\ q \in drawn[2])
  PROVE  Times_drawn(q, drawn) = IF q \in drawn[1] \/ q \in drawn[2] THEN 1 ELSE 0
<1> DEFINE S == {i \in DOMAIN drawn : q \in drawn[i]}
<1>1. S \in {{}, {1}, {2}} /\ (S = {} <=> ~(q \in drawn[1] \/ q \in drawn[2]))
  OBVIOUS
<1>2. Cardinality({1}) = 1 /\ Cardinality({2}) = 1 /\ Cardinality({}) = 0
  BY FS_Singleton, FS_EmptySet
<1> HIDE DEF S
<1>3. Cardinality(S) = IF q \in drawn[1] \/ q \in drawn[2] THEN 1 ELSE 0
  BY <1>1, <1>2
<1> QED
  BY <1>3 DEF Times_drawn, S

\* The sides of an outline of three and of four points.
LEMMA ThreeSides ==
  ASSUME NEW a \in Position, NEW b \in Position, NEW c \in Position, NEW q \in Position
  PROVE  LET o == <<a, b, c>>
             u == edge_function(a, b, q)
             v == edge_function(b, c, q)
             w == edge_function(c, a, q)
         IN  /\ DOMAIN o # {}
             /\ DOMAIN o = LeftOf(q, o) => u > 0 /\ v > 0 /\ w > 0
             /\ DOMAIN o = RightOf(q, o) => u < 0 /\ v < 0 /\ w < 0
             /\ LeftOf(q, o) # {} => u > 0 \/ v > 0 \/ w > 0
             /\ RightOf(q, o) # {} => u < 0 \/ v < 0 \/ w < 0
<1> DEFINE o == <<a, b, c>>
           e(i) == edge_function(o[i], o[(i % Len(o)) + 1], q)
<1>1. DOMAIN o = 1 .. 3 /\ 1 .. 3 = {1, 2, 3} /\ Len(o) = 3
  OBVIOUS
<1>2. (1 % 3) + 1 = 2 /\ (2 % 3) + 1 = 3 /\ (3 % 3) + 1 = 1
  OBVIOUS
<1>3. e(1) = edge_function(a, b, q) /\ e(2) = edge_function(b, c, q) /\ e(3) = edge_function(c, a, q)
  BY <1>1, <1>2
<1>4. LeftOf(q, o) = {i \in {1, 2, 3} : e(i) > 0} /\ RightOf(q, o) = {i \in {1, 2, 3} : e(i) < 0}
  BY <1>1 DEF LeftOf, RightOf
<1> HIDE DEF e, o
<1> QED
  BY <1>1, <1>3, <1>4 DEF o

LEMMA FourSides ==
  ASSUME NEW a \in Position, NEW b \in Position, NEW c \in Position, NEW d \in Position, NEW q \in Position
  PROVE  LET o == <<a, b, c, d>>
             S == Sides(a, b, c, d, q)
         IN  /\ DOMAIN o # {}
             /\ DOMAIN o = LeftOf(q, o) <=> \A s \in S : s > 0
             /\ DOMAIN o = RightOf(q, o) <=> \A s \in S : s < 0
             /\ LeftOf(q, o) # {} <=> \E s \in S : s > 0
             /\ RightOf(q, o) # {} <=> \E s \in S : s < 0
<1> DEFINE o == <<a, b, c, d>>
           e(i) == edge_function(o[i], o[(i % Len(o)) + 1], q)
<1>1. DOMAIN o = 1 .. 4 /\ 1 .. 4 = {1, 2, 3, 4} /\ Len(o) = 4
  OBVIOUS
<1>2. (1 % 4) + 1 = 2 /\ (2 % 4) + 1 = 3 /\ (3 % 4) + 1 = 4 /\ (4 % 4) + 1 = 1
  OBVIOUS
<1>3. /\ e(1) = edge_function(a, b, q) /\ e(2) = edge_function(b, c, q)
      /\ e(3) = edge_function(c, d, q) /\ e(4) = edge_function(d, a, q)
  BY <1>1, <1>2
<1>4. LeftOf(q, o) = {i \in {1, 2, 3, 4} : e(i) > 0} /\ RightOf(q, o) = {i \in {1, 2, 3, 4} : e(i) < 0}
  BY <1>1 DEF LeftOf, RightOf
<1>5. Sides(a, b, c, d, q) = {e(1), e(2), e(3), e(4)}
  BY <1>3 DEF Sides
<1> HIDE DEF e, o
<1> QED
  BY <1>1, <1>4, <1>5 DEF o

LEMMA ConvexTurns ==
  ASSUME NEW a \in Position, NEW b \in Position, NEW c \in Position, NEW d \in Position, Convex(<<a, b, c, d>>)
  PROVE  TurnsLeft(a, b, c, d) \/ TurnsLeft(a, d, c, b)
<1> DEFINE o == <<a, b, c, d>>
           e(i, q) == edge_function(o[i], o[(i % Len(o)) + 1], q)
<1>1. DOMAIN o = 1 .. 4 /\ 1 .. 4 = {1, 2, 3, 4} /\ Len(o) = 4
  OBVIOUS
<1>2. (1 % 4) + 1 = 2 /\ (2 % 4) + 1 = 3 /\ (3 % 4) + 1 = 4 /\ (4 % 4) + 1 = 1
  OBVIOUS
<1>3. \A q : /\ e(1, q) = edge_function(a, b, q) /\ e(2, q) = edge_function(b, c, q)
             /\ e(3, q) = edge_function(c, d, q) /\ e(4, q) = edge_function(d, a, q)
  BY <1>1, <1>2
<1>4. \A q : LeftOf(q, o) = {i \in {1, 2, 3, 4} : e(i, q) > 0} /\ RightOf(q, o) = {i \in {1, 2, 3, 4} : e(i, q) < 0}
  BY <1>1 DEF LeftOf, RightOf
<1> DEFINE away(k) == {i \in DOMAIN o : k \notin {i, (i % Len(o)) + 1}}
<1>5. (\A k \in DOMAIN o : LeftOf(o[k], o) = away(k)) \/ (\A k \in DOMAIN o : RightOf(o[k], o) = away(k))
  BY DEF Convex
<1>6. away(1) = {2, 3} /\ away(2) = {3, 4} /\ away(3) = {4, 1} /\ away(4) = {1, 2}
  BY <1>1, <1>2
<1>7. o[1] = a /\ o[2] = b /\ o[3] = c /\ o[4] = d
  OBVIOUS
<1> HIDE DEF e, o, away
<1>8. CASE \A k \in DOMAIN o : LeftOf(o[k], o) = away(k)
  <2>1. /\ e(2, a) > 0 /\ e(3, a) > 0 /\ e(3, b) > 0 /\ e(4, b) > 0
        /\ e(4, c) > 0 /\ e(1, c) > 0 /\ e(1, d) > 0 /\ e(2, d) > 0
    BY <1>1, <1>4, <1>6, <1>7, <1>8
  <2> QED
    BY <1>3, <2>1 DEF TurnsLeft
<1>9. CASE \A k \in DOMAIN o : RightOf(o[k], o) = away(k)
  <2>1. /\ e(2, a) < 0 /\ e(3, a) < 0 /\ e(3, b) < 0 /\ e(4, b) < 0
        /\ e(4, c) < 0 /\ e(1, c) < 0 /\ e(1, d) < 0 /\ e(2, d) < 0
    BY <1>1, <1>4, <1>6, <1>7, <1>9
  <2>2. ASSUME NEW s \in Position, NEW t \in Position, NEW q \in Position, edge_function(s, t, q) < 0
        PROVE  edge_function(t, s, q) > 0
    BY <2>2, EdgeInt
  <2> QED
    BY <1>3, <2>1, <2>2 DEF TurnsLeft
<1> QED
  BY <1>5, <1>8, <1>9

LEMMA TriangleHas ==
  ASSUME Dimensions, NEW points, NEW a \in Position, NEW b \in Position, NEW c \in Position,
         IsWound(points, a, b, c), NEW da, IsArea(da), NEW q \in Position, In(q, da)
  PROVE  q \in draw_triangle(points, da) <=> Inside(a, b, c, q)
<1>1. \A p \in Position : In(p, da) => (p \in draw_triangle(points, da) <=> Inside(a, b, c, p))
  BY TrianglePixels
<1> QED
  BY <1>1

LEMMA TriangleIsWhole ==
  ASSUME Dimensions, NEW a \in Position, NEW b \in Position, NEW c \in Position, NEW da, IsArea(da),
         NEW drawn, DOMAIN drawn = {1}, drawn[1] = draw_triangle(<<a, b, c>>, da), NEW q \in Position, In(q, da)
  PROVE  WholeAt(q, <<a, b, c>>, drawn)
<1> DEFINE o == <<a, b, c>>
           u == edge_function(a, b, q)
           v == edge_function(b, c, q)
           w == edge_function(c, a, q)
<1>1. /\ DOMAIN o # {}
      /\ DOMAIN o = LeftOf(q, o) => u > 0 /\ v > 0 /\ w > 0
      /\ DOMAIN o = RightOf(q, o) => u < 0 /\ v < 0 /\ w < 0
      /\ LeftOf(q, o) # {} => u > 0 \/ v > 0 \/ w > 0
      /\ RightOf(q, o) # {} => u < 0 \/ v < 0 \/ w < 0
  BY ThreeSides
<1>2. /\ u \in Int /\ v \in Int /\ w \in Int /\ u + v + w = edge_function(a, b, c)
      /\ edge_function(b, a, q) = -u /\ edge_function(c, b, q) = -v /\ edge_function(a, c, q) = -w
  BY EdgeInt, EdgesAround
<1>3. CASE edge_function(a, b, c) < 0
  <2>1. IsWound(o, a, c, b)
    BY <1>3 DEF wound, IsWound
  <2>2. q \in drawn[1] <=> Inside(a, c, b, q)
    BY <2>1, TriangleHas
  <2>3. /\ -u > 0 /\ -v > 0 /\ -w > 0 => Inside(a, c, b, q)
        /\ -u < 0 \/ -v < 0 \/ -w < 0 => ~Inside(a, c, b, q)
    <3>1. -u > 0 /\ -v > 0 /\ -w > 0 => Inside(a, c, b, q)
      BY <1>2, EitherSide DEF Inside
    <3>2. Inside(a, c, b, q) => -u >= 0 /\ -v >= 0 /\ -w >= 0
      BY <1>2, EitherSide DEF Inside
    <3> HIDE DEF u, v, w
    <3> QED
      BY <1>2, <3>1, <3>2
  <2> HIDE DEF u, v, w, o
  <2>4. u < 0 /\ v < 0 /\ w < 0 => q \in drawn[1]
    BY <1>2, <2>2, <2>3
  <2>5. u > 0 \/ v > 0 \/ w > 0 => q \notin drawn[1]
    BY <1>2, <2>2, <2>3
  <2>6. ~(u > 0 /\ v > 0 /\ w > 0)
    BY <1>2, <1>3
  <2>7. WholeAt(q, o, drawn)
    BY <1>1, <2>4, <2>5, <2>6, TimesOfOne, WholeIf
  <2> QED
    BY <2>7 DEF o
<1>4. CASE ~(edge_function(a, b, c) < 0)
  <2>1. IsWound(o, a, b, c)
    BY <1>4 DEF wound, IsWound
  <2>2. q \in drawn[1] <=> Inside(a, b, c, q)
    BY <2>1, TriangleHas
  <2>3. u > 0 /\ v > 0 /\ w > 0 => Inside(a, b, c, q)
    BY EitherSide DEF Inside
  <2>4. Inside(a, b, c, q) => u >= 0 /\ v >= 0 /\ w >= 0
    BY EitherSide DEF Inside
  <2> HIDE DEF u, v, w, o
  <2>5. u < 0 \/ v < 0 \/ w < 0 => q \notin drawn[1]
    BY <1>2, <2>2, <2>4
  <2>6. ~(u < 0 /\ v < 0 /\ w < 0)
    BY <1>2, <1>4
  <2>7. WholeAt(q, o, drawn)
    BY <1>1, <2>2, <2>3, <2>5, <2>6, TimesOfOne, WholeIf
  <2> QED
    BY <2>7 DEF o
<1> QED
  BY <1>3, <1>4

LEMMA QuadIsWhole ==
  ASSUME Dimensions, NEW a \in Position, NEW b \in Position, NEW c \in Position, NEW d \in Position,
         Convex(<<a, b, c, d>>), NEW da, IsArea(da), NEW drawn, DOMAIN drawn = {1, 2},
         drawn[1] = draw_triangle(<<a, b, d>>, da), drawn[2] = draw_triangle(<<b, d, c>>, da),
         NEW q \in Position, In(q, da)
  PROVE  WholeAt(q, <<a, b, c, d>>, drawn)
<1> DEFINE o == <<a, b, c, d>>
           S == Sides(a, b, c, d, q)
           back == Sides(a, d, c, b, q)
<1>1. /\ DOMAIN o # {}
      /\ DOMAIN o = LeftOf(q, o) <=> \A s \in S : s > 0
      /\ DOMAIN o = RightOf(q, o) <=> \A s \in S : s < 0
      /\ LeftOf(q, o) # {} <=> \E s \in S : s > 0
      /\ RightOf(q, o) # {} <=> \E s \in S : s < 0
  BY FourSides
<1>2. /\ S \subseteq Int /\ back \subseteq Int
      /\ \A s \in S : -s \in back
      /\ \A s \in back : -s \in S
  <2> DEFINE s1 == edge_function(a, b, q)
             s2 == edge_function(b, c, q)
             s3 == edge_function(c, d, q)
             s4 == edge_function(d, a, q)
  <2>1. /\ s1 \in Int /\ s2 \in Int /\ s3 \in Int /\ s4 \in Int
        /\ edge_function(b, a, q) = -s1 /\ edge_function(c, b, q) = -s2
        /\ edge_function(d, c, q) = -s3 /\ edge_function(a, d, q) = -s4
    BY EdgeInt
  <2>2. S = {s1, s2, s3, s4} /\ back = {-s1, -s2, -s3, -s4}
    BY <2>1 DEF Sides
  <2> HIDE DEF S, back, s1, s2, s3, s4
  <2> QED
    BY <2>1, <2>2
<1>3. edge_function(b, d, c) = edge_function(d, c, b) /\ edge_function(b, d, c) = -edge_function(b, c, d)
      /\ edge_function(a, b, d) = -edge_function(a, d, b)
  BY DEF Position, edge_function
<1>4. /\ edge_function(a, b, d) \in Int /\ edge_function(b, c, d) \in Int /\ edge_function(d, c, b) \in Int
      /\ edge_function(a, d, b) \in Int
  BY EdgeInt
<1> HIDE DEF S, back
<1>5. CASE TurnsLeft(a, b, c, d)
  <2>1. IsWound(<<a, b, d>>, a, b, d) /\ IsWound(<<b, d, c>>, b, c, d)
    BY <1>3, <1>4, <1>5 DEF TurnsLeft, wound, IsWound
  <2>2. (q \in drawn[1] <=> Inside(a, b, d, q)) /\ (q \in drawn[2] <=> Inside(b, c, d, q))
    BY <2>1, TriangleHas
  <2>3. /\ ~(q \in drawn[1] /\ q \in drawn[2])
        /\ (\A s \in S : s > 0) => q \in drawn[1] \/ q \in drawn[2]
        /\ (\E s \in S : s < 0) => ~(q \in drawn[1]) /\ ~(q \in drawn[2])
        /\ \E s \in S : s > 0
    BY <1>5, <2>2, Halves DEF S
  <2>4. ~ \A s \in S : s < 0
    BY <1>2, <2>3
  <2> HIDE DEF o
  <2>5. WholeAt(q, o, drawn)
    BY <1>1, <2>3, <2>4, TimesOfTwo, WholeIf
  <2> QED
    BY <2>5 DEF o
<1>6. CASE TurnsLeft(a, d, c, b)
  <2>1. IsWound(<<a, b, d>>, a, d, b) /\ IsWound(<<b, d, c>>, b, d, c)
    BY <1>3, <1>4, <1>6 DEF TurnsLeft, wound, IsWound
  <2>2. (q \in drawn[1] <=> Inside(a, d, b, q)) /\ (q \in drawn[2] <=> Inside(b, d, c, q))
    BY <2>1, TriangleHas
  <2>3. Inside(b, d, c, q) <=> Inside(d, c, b, q)
    BY DEF Inside
  <2>4. /\ ~(q \in drawn[1] /\ q \in drawn[2])
        /\ (\A s \in back : s > 0) => q \in drawn[1] \/ q \in drawn[2]
        /\ (\E s \in back : s < 0) => ~(q \in drawn[1]) /\ ~(q \in drawn[2])
        /\ \E s \in back : s > 0
    BY <1>6, <2>2, <2>3, Halves DEF back
  <2>5. /\ (\A s \in S : s < 0) => q \in drawn[1] \/ q \in drawn[2]
        /\ (\E s \in S : s > 0) => ~(q \in drawn[1]) /\ ~(q \in drawn[2])
        /\ \E s \in S : s < 0
    BY <1>2, <2>4
  <2>6. ~ \A s \in S : s > 0
    BY <1>2, <2>5
  <2> HIDE DEF o
  <2>7. WholeAt(q, o, drawn)
    BY <1>1, <2>4, <2>5, <2>6, TimesOfTwo, WholeIf
  <2> QED
    BY <2>7 DEF o
<1> QED
  BY <1>5, <1>6, ConvexTurns

\* The points of a polygon as a tuple, and its triangles.
LEMMA PointsAre ==
  ASSUME NEW n \in {3, 4}, NEW p \in [1 .. n -> Position]
  PROVE  /\ Len(p) = n
         /\ n = 3 => p = <<p[1], p[2], p[3]>>
         /\ n = 4 => <<p[1], p[2], p[4], p[3]>>[3] = p[4]
         /\ \A i \in 1 .. n - 2 : SubSeq(p, i, i + 2) = <<p[i], p[i + 1], p[i + 2]>>
<1>1. p \in Seq(Position)
  <2>1. n \in Nat
    OBVIOUS
  <2> QED
    BY <2>1, SeqDef
<1>2. Len(p) = n
  BY <1>1, LenProperties
<1>3. ASSUME NEW i \in 1 .. n - 2 PROVE SubSeq(p, i, i + 2) = <<p[i], p[i + 1], p[i + 2]>>
  <2>1. i \in Nat /\ i + 2 <= n /\ (i + 2) - i + 1 = 3
    OBVIOUS
  <2> DEFINE s == SubSeq(p, i, i + 2)
  <2>2. s = [j \in 1 .. 3 |-> p[i + j - 1]]
    <3>1. s = [j \in 1 .. (i + 2) - i + 1 |-> p[i + j - 1]]
      BY <1>1, <1>2, <2>1, SubSeqProperties
    <3> HIDE DEF s
    <3> QED
      BY <2>1, <3>1
  <2>3. i + 1 - 1 = i /\ i + 2 - 1 = i + 1 /\ i + 3 - 1 = i + 2
    OBVIOUS
  <2> HIDE DEF s
  <2>4. s = <<p[i], p[i + 1], p[i + 2]>>
    BY <2>2, <2>3
  <2> QED
    BY <2>4 DEF s
<1> QED
  BY <1>2, <1>3

LEMMA Triangles ==
  ASSUME Dimensions, NEW n \in {3, 4}, NEW p \in [1 .. n -> Position], NEW da, IsArea(da), NEW drawn,
         drawn = [i \in 1 .. n - 2 |-> draw_triangle(SubSeq(p, i, i + 2), da)]
  PROVE  /\ \A i \in 1 .. n - 2 : drawn[i] = draw_triangle(<<p[i], p[i + 1], p[i + 2]>>, da)
         /\ \A q \in UNION Range(drawn) : In(q, [da EXCEPT !.x_max = @ + 2 * (LANES - 1)])
<1>1. ASSUME NEW i \in 1 .. n - 2 PROVE drawn[i] = draw_triangle(<<p[i], p[i + 1], p[i + 2]>>, da)
  BY PointsAre
<1>2. ASSUME NEW q \in UNION Range(drawn) PROVE In(q, [da EXCEPT !.x_max = @ + 2 * (LANES - 1)])
  <2>1. PICK i \in 1 .. n - 2 : q \in drawn[i]
    BY DEF Range
  <2> DEFINE a == p[i]
             b == p[i + 1]
             c == p[i + 2]
             t == <<a, b, c>>
  <2>2. a \in Position /\ b \in Position /\ c \in Position
    OBVIOUS
  <2>3. IsWound(t, a, b, c) \/ IsWound(t, a, c, b)
    BY DEF IsWound, wound
  <2>4. drawn[i] = draw_triangle(t, da)
    BY <1>1
  <2> HIDE DEF a, b, c, t
  <2>5. \A r \in draw_triangle(t, da) : In(r, [da EXCEPT !.x_max = @ + 2 * (LANES - 1)])
    <3>1. CASE IsWound(t, a, b, c)
      BY <2>2, <3>1, TrianglePixels
    <3>2. CASE IsWound(t, a, c, b)
      BY <2>2, <3>2, TrianglePixels
    <3> QED
      BY <2>3, <3>1, <3>2
  <2> QED
    BY <2>1, <2>4, <2>5
<1> QED
  BY <1>1, <1>2

\* Each polygon is whole.
LEMMA PolyIsWhole ==
  ASSUME Dimensions, NEW c, NEW written, Drawable(c, written), NEW cmd, IsCommand(cmd), cmd.cmd = "poly"
  PROVE  PolygonIsWhole(c, cmd, gp0_poly(c, cmd).drawn)
<1> DEFINE reg == IF cmd.textured THEN [c.reg EXCEPT !.page = cmd.page, !.depth = cmd.depth] ELSE c.reg
           off == c.reg.offset
           da == c.reg.area
           p == [i \in DOMAIN cmd.points |-> with_offset(cmd.points[i], off)]
           drawn == gp0_poly(c, cmd).drawn
           o == Outline(cmd, off)
<1>1. IsArea(da) /\ off \in Position
  BY DEF Drawable, Registers
<1>2. reg.area = da /\ reg.offset = off
  BY DEF Drawable, Registers, RegisterFields
<1>3. drawn = [i \in 1 .. Len(p) - 2 |-> draw_triangle(SubSeq(p, i, i + 2), da)]
  <2>1. drawn = [i \in 1 .. Len([i_1 \in DOMAIN cmd.points |-> with_offset(cmd.points[i_1], reg.offset)]) - 2 |->
                   draw_triangle(SubSeq([i_1 \in DOMAIN cmd.points |-> with_offset(cmd.points[i_1], reg.offset)], i, i + 2),
                                 reg.area)]
    BY Zenon DEF gp0_poly, Covers
  <2> QED
    BY <1>2, <2>1
<1>4. PICK n \in {3, 4} : cmd.points \in [1 .. n -> Position]
  BY DEF IsCommand
<1>5. p \in [1 .. n -> Position]
  <2>1. \A q \in Position : with_offset(q, off) \in Position
    BY <1>1 DEF with_offset, Point, Position
  <2>2. p = [i \in 1 .. n |-> with_offset(cmd.points[i], off)]
    BY <1>4
  <2> HIDE DEF off, p
  <2> QED
    BY <1>4, <2>1, <2>2
<1>6. o = IF Len(p) = 3 THEN p ELSE <<p[1], p[2], p[4], p[3]>>
  BY DEF Outline
<1> HIDE DEF p, drawn, da, o
<1>7. Len(p) = n
  BY <1>5, PointsAre
<1>8. drawn = [i \in 1 .. n - 2 |-> draw_triangle(SubSeq(p, i, i + 2), da)]
  BY <1>3, <1>7
<1>9. /\ \A i \in 1 .. n - 2 : drawn[i] = draw_triangle(<<p[i], p[i + 1], p[i + 2]>>, da)
      /\ \A q \in UNION Range(drawn) : In(q, [da EXCEPT !.x_max = @ + 2 * (LANES - 1)])
  BY <1>1, <1>5, <1>8, Triangles
<1>10. ASSUME Convex(o), NEW q \in Position, In(q, da) PROVE WholeAt(q, o, drawn)
  <2>1. CASE n = 3
    <3>1. o = <<p[1], p[2], p[3]>>
      BY <1>5, <1>6, <1>7, <2>1, PointsAre
    <3>2. DOMAIN drawn = {1} /\ drawn[1] = draw_triangle(<<p[1], p[2], p[3]>>, da)
      BY <1>8, <1>9, <2>1
    <3>3. p[1] \in Position /\ p[2] \in Position /\ p[3] \in Position
      BY <1>5, <2>1
    <3> QED
      BY <1>1, <1>10, <3>1, <3>2, <3>3, TriangleIsWhole
  <2>2. CASE n = 4
    <3>1. o = <<p[1], p[2], p[4], p[3]>>
      BY <1>6, <1>7, <2>2
    <3>2. /\ DOMAIN drawn = {1, 2} /\ drawn[1] = draw_triangle(<<p[1], p[2], p[3]>>, da)
          /\ drawn[2] = draw_triangle(<<p[2], p[3], p[4]>>, da)
      BY <1>8, <1>9, <2>2
    <3>3. p[1] \in Position /\ p[2] \in Position /\ p[3] \in Position /\ p[4] \in Position
      BY <1>5, <2>2
    <3> QED
      BY <1>1, <1>10, <3>1, <3>2, <3>3, QuadIsWhole
  <2> QED
    BY <2>1, <2>2
<1>11. ASSUME Convex(o), NEW x \in da.x_min .. da.x_max, NEW y \in da.y_min .. da.y_max
       PROVE  WholeAt(Point(x, y), o, drawn)
  <2>1. Point(x, y) \in Position /\ In(Point(x, y), da)
    BY <1>1 DEF IsArea, Dimensions, Point, Position, In
  <2> QED
    BY <1>10, <1>11, <2>1
<1> QED
  BY <1>9, <1>11, Zenon DEF PolygonIsWhole, WholeAt, o, da, drawn

-----------------------------------------------------------------------------
\* The pen of a line after n steps along it and k aside: the decision variable
\* is the distance between them and the line, which it keeps in bounds.
Decision(long, short, n, k) == 2 * short * (n + 1) - long - 2 * long * k

OnLine(long, short, n, k) ==
  /\ k \in Nat
  /\ 2 * short - 2 * long <= Decision(long, short, n, k)
  /\ long > 0 => Decision(long, short, n, k) < 2 * short
  /\ long = 0 => k = 0

LEMMA DecisionSteps ==
  ASSUME NEW long \in Nat, NEW short \in Nat, short <= long, NEW n \in Nat, n < long, NEW k,
         OnLine(long, short, n, k)
  PROVE  LET d == Decision(long, short, n, k)
         IN  /\ d \in Int
             /\ side_step(d, long, short) = Decision(long, short, n + 1, IF d < 0 THEN k ELSE k + 1)
             /\ OnLine(long, short, n + 1, IF d < 0 THEN k ELSE k + 1)
<1> DEFINE d == Decision(long, short, n, k)
<1>1. k \in Nat /\ d \in Int /\ 2 * short - 2 * long <= d /\ d < 2 * short
  BY DEF OnLine, Decision
<1>2. Decision(long, short, n + 1, k) = d + 2 * short
  BY <1>1 DEF Decision
<1>3. Decision(long, short, n + 1, k + 1) = d + 2 * short - 2 * long
  BY <1>1 DEF Decision
<1> HIDE DEF d
<1>4. CASE d < 0
  BY <1>1, <1>2, <1>4 DEF OnLine, side_step, d
<1>5. CASE ~(d < 0)
  BY <1>1, <1>3, <1>5 DEF OnLine, side_step, d
<1> QED
  BY <1>1, <1>4, <1>5 DEF d

LEMMA DecisionBounds ==
  ASSUME NEW long \in Nat, NEW short \in Nat, short <= long, NEW n \in 0 .. long, NEW k,
         OnLine(long, short, n, k)
  PROVE  /\ k \in 0 .. short /\ (n = long => k = short)
         /\ 2 * (long * k - short * n) <= long /\ -long <= 2 * (long * k - short * n)
<1>1. CASE long = 0
  BY <1>1 DEF OnLine
<1>2. CASE long > 0
  <2>1. k \in Nat /\ 2 * short - 2 * long <= Decision(long, short, n, k) /\ Decision(long, short, n, k) < 2 * short
    BY <1>2 DEF OnLine
  <2>2. Decision(long, short, n, k) = 2 * (short * n) + 2 * short - long - 2 * (long * k)
    BY <2>1 DEF Decision
  <2> DEFINE i == short * n
             j == long * k
             m == long * short
  <2>3. i \in Nat /\ j \in Nat /\ m \in Nat
    BY <2>1
  <2>4. i <= m /\ (n = long => i = m)
    <3>1. m - i = short * (long - n)
      BY <2>1
    <3>2. short * (long - n) >= 0
      BY <2>1
    <3> QED
      BY <2>3, <3>1, <3>2
  <2>5. (k > short => j >= m + long) /\ (k < short => j <= m - long)
    <3>1. ASSUME k > short PROVE j >= m + long
      <4>1. k - short - 1 \in Nat
        BY <2>1, <3>1
      <4>2. long * (k - short - 1) \in Nat
        BY <4>1
      <4>3. long * (k - short - 1) = j - m - long
        BY <2>1
      <4> QED
        BY <2>3, <4>2, <4>3
    <3>2. ASSUME k < short PROVE j <= m - long
      <4>1. short - k - 1 \in Nat
        BY <2>1, <3>2
      <4>2. long * (short - k - 1) \in Nat
        BY <4>1
      <4>3. long * (short - k - 1) = m - j - long
        BY <2>1
      <4> QED
        BY <2>3, <4>2, <4>3
    <3> QED
      BY <3>1, <3>2
  <2> HIDE DEF i, j, m
  <2>6. 2 * short - 2 * long <= 2 * i + 2 * short - long - 2 * j /\ 2 * i + 2 * short - long - 2 * j < 2 * short
    BY <2>1, <2>2 DEF i, j
  <2>7. ~(k > short)
    BY <1>2, <2>3, <2>4, <2>5, <2>6
  <2>8. n = long => ~(k < short)
    BY <1>2, <2>3, <2>4, <2>5, <2>6
  <2>9. 2 * (j - i) <= long /\ -long <= 2 * (j - i)
    BY <2>3, <2>6
  <2> QED
    BY <2>1, <2>7, <2>8, <2>9 DEF i, j
<1> QED
  BY <1>1, <1>2

\* Where the pen is after n steps along a line and k aside.
PenAt(a, flat, sx, sy, n, k) ==
  Point(a.x + sx * (IF flat THEN n ELSE k), a.y + sy * (IF flat THEN k ELSE n))

Pens == [at : Position, d : Int]

\* A step of the pen, as in draw_line.
PenStep(prev, flat, sx, sy, long, short) ==
  [at |-> Point(IF flat \/ prev.d >= 0 THEN prev.at.x + sx ELSE prev.at.x,
                IF ~flat \/ prev.d >= 0 THEN prev.at.y + sy ELSE prev.at.y),
   d  |-> side_step(prev.d, long, short)]

Held(pen, a, flat, sx, sy, long, short, n, k) ==
  /\ OnLine(long, short, n, k)
  /\ pen = [at |-> PenAt(a, flat, sx, sy, n, k), d |-> Decision(long, short, n, k)]

LEMMA PenSteps ==
  ASSUME NEW a \in Position, NEW flat \in BOOLEAN, NEW sx \in Int, NEW sy \in Int, NEW long \in Nat,
         NEW short \in Nat, short <= long, NEW n \in Nat, n < long, NEW k, NEW pen,
         Held(pen, a, flat, sx, sy, long, short, n, k)
  PROVE  \E m \in {k, k + 1} : Held(PenStep(pen, flat, sx, sy, long, short), a, flat, sx, sy, long, short, n + 1, m)
<1> DEFINE d == Decision(long, short, n, k)
           m == IF d < 0 THEN k ELSE k + 1
           step == PenStep(pen, flat, sx, sy, long, short)
<1>1. d \in Int /\ side_step(d, long, short) = Decision(long, short, n + 1, m) /\ OnLine(long, short, n + 1, m)
  BY DecisionSteps DEF Held
<1>2. k \in Nat /\ pen.d = d /\ pen.at = PenAt(a, flat, sx, sy, n, k)
  BY DEF Held, OnLine
<1> HIDE DEF d
<1>3. a.x \in Int /\ a.y \in Int
  BY DEF Position
<1>4. a.x + sx * n + sx = a.x + sx * (n + 1) /\ a.y + sy * n + sy = a.y + sy * (n + 1)
      /\ a.x + sx * k + sx = a.x + sx * (k + 1) /\ a.y + sy * k + sy = a.y + sy * (k + 1)
  BY <1>2, <1>3
<1>5. step.at = PenAt(a, flat, sx, sy, n + 1, m)
  BY <1>1, <1>2, <1>4 DEF PenStep, PenAt, Point
<1>6. step = [at |-> PenAt(a, flat, sx, sy, n + 1, m), d |-> Decision(long, short, n + 1, m)]
  BY <1>1, <1>2, <1>5 DEF PenStep
<1> QED
  BY <1>1, <1>6 DEF Held

\* draw_line is defined: the pen of each pixel follows from the one before.
Drawn(pen, a, flat, sx, sy, long, short) ==
  pen = [n \in 0 .. long |-> IF n = 0 THEN [at |-> a, d |-> 2 * short - long]
                             ELSE PenStep(pen[n - 1], flat, sx, sy, long, short)]

LEMMA PenIsDrawn ==
  ASSUME NEW a \in Position, NEW flat \in BOOLEAN, NEW sx \in Int, NEW sy \in Int, NEW long \in Nat,
         NEW short \in Nat
  PROVE  \E pen : Drawn(pen, a, flat, sx, sy, long, short)
<1> DEFINE start_ == [at |-> a, d |-> 2 * short - long]
           go(prev) == PenStep(prev, flat, sx, sy, long, short)
           step == [q \in (1 .. long) \X Pens |-> go(q[2])]
<1>1. start_ \in Pens
  BY DEF Pens
<1>2. ASSUME NEW prev \in Pens PROVE go(prev) \in Pens
  BY DEF Pens, PenStep, Position, Point, side_step
<1>3. step \in [(1 .. long) \X Pens -> Pens]
  BY <1>2
<1>4. \A i \in 1 .. long, prev \in Pens : step[<<i, prev>>] = go(prev)
  OBVIOUS
<1> HIDE DEF step, start_
<1>5. PICK f : Recursion(f, Pens, step, start_, long)
  BY <1>1, <1>3, Recursed
<1>6. f \in [0 .. long -> Pens] /\ f[0] = start_ /\ \A i \in 1 .. long : f[i] = step[<<i, f[i - 1]>>]
  BY <1>5 DEF Recursion
<1>7. ASSUME NEW n \in 0 .. long PROVE f[n] = IF n = 0 THEN start_ ELSE go(f[n - 1])
  <2>1. CASE n # 0
    <3>1. n \in 1 .. long /\ n - 1 \in 0 .. long
      BY <2>1
    <3> QED
      BY <1>4, <1>6, <2>1, <3>1
  <2> QED
    BY <1>6, <2>1
<1>8. f = [n \in 0 .. long |-> IF n = 0 THEN start_ ELSE go(f[n - 1])]
  BY <1>6, <1>7
<1> QED
  BY <1>8 DEF Drawn, start_

\* It starts at the end of the line and stays beside it, a pixel after the other.
Follows(pen, a, flat, sx, sy, long, short) ==
  /\ pen[0].at = a
  /\ \A n \in 0 .. long : \E k : Held(pen[n], a, flat, sx, sy, long, short, n, k)
  /\ \A n \in 0 .. long - 1 :
       \E k \in Nat : \E m \in {k, k + 1} :
         pen[n].at = PenAt(a, flat, sx, sy, n, k) /\ pen[n + 1].at = PenAt(a, flat, sx, sy, n + 1, m)

LEMMA PenIsHeld ==
  ASSUME NEW a \in Position, NEW flat \in BOOLEAN, NEW sx \in Int, NEW sy \in Int, NEW long \in Nat,
         NEW short \in Nat, short <= long, NEW pen, Drawn(pen, a, flat, sx, sy, long, short)
  PROVE  Follows(pen, a, flat, sx, sy, long, short)
<1> DEFINE held(n, k) == Held(pen[n], a, flat, sx, sy, long, short, n, k)
           T == {n \in Nat : n <= long => \E k : held(n, k)}
<1>1. pen[0] = [at |-> a, d |-> 2 * short - long]
  BY DEF Drawn
<1>2. held(0, 0)
  <2>1. Decision(long, short, 0, 0) = 2 * short - long
    BY DEF Decision
  <2>2. OnLine(long, short, 0, 0)
    BY <2>1 DEF OnLine
  <2>3. PenAt(a, flat, sx, sy, 0, 0) = a
    BY DEF PenAt, Position, Point
  <2> QED
    BY <1>1, <2>1, <2>2, <2>3 DEF Held
<1>3. ASSUME NEW n \in Nat, n < long, NEW k, held(n, k) PROVE \E m \in {k, k + 1} : held(n + 1, m)
  <2>1. n + 1 \in 0 .. long /\ n + 1 # 0 /\ (n + 1) - 1 = n
    BY <1>3
  <2>2. pen[n + 1] = PenStep(pen[n], flat, sx, sy, long, short)
    BY <2>1 DEF Drawn
  <2> QED
    BY <1>3, <2>2, PenSteps
<1> HIDE DEF held
<1>4. 0 \in T
  BY <1>2
<1>5. ASSUME NEW n \in T PROVE n + 1 \in T
  <2>1. n \in Nat /\ n + 1 \in Nat /\ (n + 1 <= long => n < long /\ n <= long)
    OBVIOUS
  <2> QED
    BY <1>3, <2>1
<1>6. \A n \in Nat : n \in T
  <2>1. T \in SUBSET Nat
    OBVIOUS
  <2> HIDE DEF T
  <2> QED
    BY <1>4, <1>5, <2>1, SetInduction
<1>7. \A n \in 0 .. long : \E k : held(n, k)
  BY <1>6
<1>8. ASSUME NEW n \in 0 .. long - 1
      PROVE  \E k \in Nat : \E m \in {k, k + 1} :
               pen[n].at = PenAt(a, flat, sx, sy, n, k) /\ pen[n + 1].at = PenAt(a, flat, sx, sy, n + 1, m)
  <2>1. n \in Nat /\ n < long /\ n \in 0 .. long
    OBVIOUS
  <2>2. PICK k : held(n, k)
    BY <1>7, <2>1
  <2>3. PICK m \in {k, k + 1} : held(n + 1, m)
    BY <1>3, <2>1, <2>2
  <2>4. k \in Nat
    BY <2>2 DEF held, Held, OnLine
  <2>5. pen[n].at = PenAt(a, flat, sx, sy, n, k) /\ pen[n + 1].at = PenAt(a, flat, sx, sy, n + 1, m)
    BY <2>2, <2>3 DEF held, Held
  <2> QED
    BY <2>4, <2>5
<1> QED
  BY <1>1, <1>7, <1>8 DEF held, Follows

\* The parts of a line, as in draw_line.
Flat(a, b) == Abs(b.x - a.x) > Abs(b.y - a.y)
Long(a, b) == IF Flat(a, b) THEN Abs(b.x - a.x) ELSE Abs(b.y - a.y)
Short(a, b) == IF Flat(a, b) THEN Abs(b.y - a.y) ELSE Abs(b.x - a.x)
Mark(a, b, n, k) == PenAt(a, Flat(a, b), sign(b.x - a.x), sign(b.y - a.y), n, k)

LEMMA LongAndShort ==
  ASSUME NEW a \in Position, NEW b \in Position
  PROVE  /\ Flat(a, b) \in BOOLEAN /\ Long(a, b) \in Nat /\ Short(a, b) \in Nat /\ Short(a, b) <= Long(a, b)
         /\ sign(b.x - a.x) \in {1, -1} /\ sign(b.y - a.y) \in {1, -1}
         /\ Long(a, b) = Max({Abs(b.x - a.x), Abs(b.y - a.y)})
         /\ b.x - a.x = sign(b.x - a.x) * (IF Flat(a, b) THEN Long(a, b) ELSE Short(a, b))
         /\ b.y - a.y = sign(b.y - a.y) * (IF Flat(a, b) THEN Short(a, b) ELSE Long(a, b))
<1> DEFINE dx == b.x - a.x
           dy == b.y - a.y
<1>1. dx \in Int /\ dy \in Int
  BY DEF Position
<1> HIDE DEF dx, dy
<1>2. Abs(dx) \in Nat /\ Abs(dy) \in Nat /\ sign(dx) \in {1, -1} /\ sign(dy) \in {1, -1}
      /\ dx = sign(dx) * Abs(dx) /\ dy = sign(dy) * Abs(dy)
  BY <1>1 DEF Abs, sign
<1>3. Max({Abs(dx), Abs(dy)}) = IF Abs(dx) >= Abs(dy) THEN Abs(dx) ELSE Abs(dy)
  BY <1>2, MaxOfTwo
<1>4. Flat(a, b) <=> Abs(dx) > Abs(dy)
  BY DEF Flat, dx, dy
<1>5. Long(a, b) = (IF Flat(a, b) THEN Abs(dx) ELSE Abs(dy)) /\ Short(a, b) = (IF Flat(a, b) THEN Abs(dy) ELSE Abs(dx))
  BY DEF Long, Short, dx, dy
<1>6. Flat(a, b) \in BOOLEAN
  BY DEF Flat
<1>7. /\ Long(a, b) \in Nat /\ Short(a, b) \in Nat /\ Short(a, b) <= Long(a, b)
      /\ Long(a, b) = Max({Abs(dx), Abs(dy)})
      /\ dx = sign(dx) * (IF Flat(a, b) THEN Long(a, b) ELSE Short(a, b))
      /\ dy = sign(dy) * (IF Flat(a, b) THEN Short(a, b) ELSE Long(a, b))
  BY <1>2, <1>3, <1>4, <1>5
<1> QED
  BY <1>2, <1>6, <1>7 DEF dx, dy

LEMMA MarkIsStraight ==
  ASSUME NEW a \in Position, NEW b \in Position, NEW n \in 0 .. Long(a, b), NEW k,
         OnLine(Long(a, b), Short(a, b), n, k)
  PROVE  LET q == Mark(a, b, n, k)
         IN  /\ q \in Position /\ 2 * Abs(edge_function(a, b, q)) <= Long(a, b)
             /\ n = Long(a, b) => q = b
             /\ \A da : IsArea(da) /\ In(a, da) /\ In(b, da) => In(q, da)
<1> DEFINE q == Mark(a, b, n, k)
           flat == Flat(a, b)
           long == Long(a, b)
           short == Short(a, b)
           sx == sign(b.x - a.x)
           sy == sign(b.y - a.y)
<1>1. /\ flat \in BOOLEAN /\ long \in Nat /\ short \in Nat /\ short <= long
      /\ sx \in {1, -1} /\ sy \in {1, -1}
      /\ b.x - a.x = sx * (IF flat THEN long ELSE short)
      /\ b.y - a.y = sy * (IF flat THEN short ELSE long)
  BY LongAndShort
<1>2. q = Point(a.x + sx * (IF flat THEN n ELSE k), a.y + sy * (IF flat THEN k ELSE n))
  BY DEF Mark, PenAt
<1>3. /\ a.x \in Int /\ a.y \in Int /\ b.x \in Int /\ b.y \in Int
      /\ a = Point(a.x, a.y) /\ b = Point(b.x, b.y)
  BY DEF Position, Point
<1> HIDE DEF q, flat, long, short, sx, sy
<1>4. /\ k \in 0 .. short /\ (n = long => k = short)
      /\ 2 * (long * k - short * n) <= long /\ -long <= 2 * (long * k - short * n)
  <2>1. n \in 0 .. long /\ OnLine(long, short, n, k)
    BY DEF long, short
  <2> QED
    BY <1>1, <2>1, DecisionBounds
<1>5. n \in 0 .. long
  BY DEF long
<1> DEFINE i == IF flat THEN n ELSE k
           j == IF flat THEN k ELSE n
           w == IF flat THEN long ELSE short
           h == IF flat THEN short ELSE long
<1>6. i \in 0 .. w /\ j \in 0 .. h /\ (n = long => i = w /\ j = h) /\ w \in Nat /\ h \in Nat
  <2>1. k \in 0 .. short /\ (n = long => k = short)
    BY <1>4
  <2> QED
    BY <1>1, <1>5, <2>1
<1>7. q.x = a.x + sx * i /\ q.y = a.y + sy * j /\ b.x - a.x = sx * w /\ b.y - a.y = sy * h /\ q = Point(q.x, q.y)
  BY <1>1, <1>2 DEF Point
<1>8. w * j - h * i \in {long * k - short * n, -(long * k - short * n)}
  <2>1. k \in Nat /\ n \in Nat
    BY <1>1, <1>4, <1>5
  <2>2. CASE flat
    BY <2>2
  <2>3. CASE ~flat
    <3>1. w * j - h * i = short * n - long * k
      BY <2>3
    <3>2. short * n - long * k = -(long * k - short * n)
      BY <1>1, <2>1
    <3> QED
      BY <3>1, <3>2
  <2> QED
    BY <1>1, <2>2, <2>3
<1> HIDE DEF i, j, w, h
<1>9. q.x \in Int /\ q.y \in Int /\ q \in Position
  BY <1>1, <1>3, <1>6, <1>7 DEF Position, Point
<1>10. edge_function(a, b, q) \in {w * j - h * i, -(w * j - h * i)}
  <2>1. q.x - a.x = sx * i /\ q.y - a.y = sy * j
    BY <1>1, <1>3, <1>6, <1>7
  <2>2. edge_function(a, b, q) = (sx * w) * (sy * j) - (sy * h) * (sx * i)
    BY <1>7, <2>1 DEF edge_function
  <2> QED
    BY <1>1, <1>6, <2>2
<1>11. 2 * Abs(edge_function(a, b, q)) <= long
  <2> DEFINE t == long * k - short * n
             e == edge_function(a, b, q)
  <2>0. k \in Nat /\ n \in Nat
    BY <1>1, <1>4, <1>5
  <2>1. t \in Int /\ 2 * t <= long /\ -long <= 2 * t
    BY <1>1, <1>4, <2>0
  <2>2. e \in {t, -t}
    <3> DEFINE r == w * j - h * i
    <3>1. r \in {t, -t} /\ e \in {r, -r}
      BY <1>8, <1>10
    <3> HIDE DEF r, t, e
    <3> QED
      BY <2>1, <3>1
  <2> HIDE DEF t, e
  <2>3. 2 * Abs(e) <= long
    BY <1>1, <2>1, <2>2 DEF Abs
  <2> QED
    BY <2>3 DEF e
<1>12. ASSUME n = long PROVE q = b
  <2>1. q.x = b.x /\ q.y = b.y
    BY <1>1, <1>3, <1>6, <1>7, <1>12
  <2> QED
    BY <1>3, <1>7, <2>1
<1>13. ASSUME NEW da, IsArea(da), In(a, da), In(b, da) PROVE In(q, da)
  <2>1. (a.x <= q.x /\ q.x <= b.x) \/ (b.x <= q.x /\ q.x <= a.x)
    BY <1>1, <1>3, <1>6, <1>7
  <2>2. (a.y <= q.y /\ q.y <= b.y) \/ (b.y <= q.y /\ q.y <= a.y)
    BY <1>1, <1>3, <1>6, <1>7
  <2>3. da.x_min \in Int /\ da.x_max \in Int /\ da.y_min \in Int /\ da.y_max \in Int
    BY <1>13 DEF IsArea
  <2> QED
    BY <1>3, <1>9, <1>13, <2>1, <2>2, <2>3 DEF In
<1> QED
  BY <1>9, <1>11, <1>12, <1>13 DEF q, long

LEMMA MarksAreAdjacent ==
  ASSUME NEW a \in Position, NEW b \in Position, NEW n \in Nat, NEW k \in Nat, NEW m \in {k, k + 1}
  PROVE  LET p == Mark(a, b, n, k)
             q == Mark(a, b, n + 1, m)
         IN  p # q /\ Abs(p.x - q.x) <= 1 /\ Abs(p.y - q.y) <= 1
<1> DEFINE flat == Flat(a, b)
           sx == sign(b.x - a.x)
           sy == sign(b.y - a.y)
           p == Mark(a, b, n, k)
           q == Mark(a, b, n + 1, m)
<1>1. flat \in BOOLEAN /\ sx \in {1, -1} /\ sy \in {1, -1} /\ a.x \in Int /\ a.y \in Int
  BY LongAndShort DEF Position
<1>2. /\ p.x = a.x + sx * (IF flat THEN n ELSE k) /\ p.y = a.y + sy * (IF flat THEN k ELSE n)
      /\ q.x = a.x + sx * (IF flat THEN n + 1 ELSE m) /\ q.y = a.y + sy * (IF flat THEN m ELSE n + 1)
  BY DEF Mark, PenAt, Point
<1> HIDE DEF flat, sx, sy, p, q
<1> DEFINE i == IF flat THEN n ELSE k
           j == IF flat THEN k ELSE n
           i1 == IF flat THEN n + 1 ELSE m
           j1 == IF flat THEN m ELSE n + 1
<1>3. i \in Int /\ j \in Int /\ i1 - i \in {0, 1} /\ j1 - j \in {0, 1} /\ (i1 - i = 1 \/ j1 - j = 1)
      /\ i1 \in Int /\ j1 \in Int
  BY <1>1
<1>4. p.x = a.x + sx * i /\ p.y = a.y + sy * j /\ q.x = a.x + sx * i1 /\ q.y = a.y + sy * j1
  BY <1>2
<1> HIDE DEF i, j, i1, j1
<1>a. ASSUME NEW s \in {1, -1}, NEW u \in Int, NEW v \in Int, NEW w \in Int, v - u \in {0, 1}
      PROVE  (w + s * u) - (w + s * v) \in {0, 1, -1} /\ (v - u = 1 => w + s * u # w + s * v)
  <2>1. v = u \/ v = u + 1
    BY <1>a
  <2> QED
    BY <2>1
<1>5. p.x - q.x \in {0, 1, -1} /\ (i1 - i = 1 => p.x # q.x)
  <2>1. (a.x + sx * i) - (a.x + sx * i1) \in {0, 1, -1} /\ (i1 - i = 1 => a.x + sx * i # a.x + sx * i1)
    BY <1>1, <1>3, <1>a
  <2> QED
    BY <1>4, <2>1
<1>6. p.y - q.y \in {0, 1, -1} /\ (j1 - j = 1 => p.y # q.y)
  <2>1. (a.y + sy * j) - (a.y + sy * j1) \in {0, 1, -1} /\ (j1 - j = 1 => a.y + sy * j # a.y + sy * j1)
    BY <1>1, <1>3, <1>a
  <2> QED
    BY <1>4, <2>1
<1> QED
  BY <1>3, <1>5, <1>6 DEF Abs, p, q

LEMMA LinePath ==
  ASSUME NEW a \in Position, NEW b \in Position
  PROVE  LET path == draw_line(a, b)
             long == Long(a, b)
         IN  /\ path = [i \in 1 .. long + 1 |-> path[i]] /\ path[1] = a /\ path[long + 1] = b
             /\ \A i \in 1 .. long + 1 :
                  /\ path[i] \in Position /\ 2 * Abs(edge_function(a, b, path[i])) <= long
                  /\ \A da : IsArea(da) /\ In(a, da) /\ In(b, da) => In(path[i], da)
             /\ \A i \in 1 .. long :
                  /\ path[i] # path[i + 1]
                  /\ Abs(path[i].x - path[i + 1].x) <= 1 /\ Abs(path[i].y - path[i + 1].y) <= 1
<1> DEFINE path == draw_line(a, b)
           flat == Flat(a, b)
           long == Long(a, b)
           short == Short(a, b)
           sx == sign(b.x - a.x)
           sy == sign(b.y - a.y)
           F == CHOOSE pen : Drawn(pen, a, flat, sx, sy, long, short)
<1>1. path = [n \in 1 .. long + 1 |-> F[n - 1].at]
  BY DEF draw_line, Drawn, PenStep, Flat, Long, Short
<1>2. flat \in BOOLEAN /\ long \in Nat /\ short \in Nat /\ short <= long /\ sx \in Int /\ sy \in Int
  <2>1. /\ Flat(a, b) \in BOOLEAN /\ Long(a, b) \in Nat /\ Short(a, b) \in Nat /\ Short(a, b) <= Long(a, b)
        /\ sign(b.x - a.x) \in {1, -1} /\ sign(b.y - a.y) \in {1, -1}
    BY LongAndShort
  <2> QED
    BY <2>1
<1> HIDE DEF path, flat, long, short, sx, sy
<1>3. Drawn(F, a, flat, sx, sy, long, short)
  <2>1. \E pen : Drawn(pen, a, flat, sx, sy, long, short)
    BY <1>2, PenIsDrawn
  <2> QED
    BY <2>1
<1> HIDE DEF F
<1>4. /\ F[0].at = a
      /\ \A n \in 0 .. long : \E k : Held(F[n], a, flat, sx, sy, long, short, n, k)
      /\ \A n \in 0 .. long - 1 :
           \E k \in Nat : \E m \in {k, k + 1} :
             F[n].at = PenAt(a, flat, sx, sy, n, k) /\ F[n + 1].at = PenAt(a, flat, sx, sy, n + 1, m)
  <2>1. Follows(F, a, flat, sx, sy, long, short)
    BY <1>2, <1>3, PenIsHeld
  <2> QED
    BY <2>1 DEF Follows
<1>5. \A n, k : PenAt(a, flat, sx, sy, n, k) = Mark(a, b, n, k)
  BY DEF Mark, flat, sx, sy
<1>6. ASSUME NEW n \in 0 .. long
      PROVE  /\ F[n].at \in Position /\ 2 * Abs(edge_function(a, b, F[n].at)) <= long
             /\ n = long => F[n].at = b
             /\ \A da : IsArea(da) /\ In(a, da) /\ In(b, da) => In(F[n].at, da)
  <2>1. PICK k : Held(F[n], a, flat, sx, sy, long, short, n, k)
    BY <1>4
  <2>2. OnLine(long, short, n, k) /\ F[n].at = Mark(a, b, n, k)
    BY <1>5, <2>1 DEF Held
  <2>3. n \in 0 .. Long(a, b) /\ OnLine(Long(a, b), Short(a, b), n, k)
    BY <2>2 DEF long, short
  <2> QED
    BY <2>2, <2>3, MarkIsStraight DEF long
<1>7. ASSUME NEW i \in 1 .. long + 1
      PROVE  /\ path[i] \in Position /\ 2 * Abs(edge_function(a, b, path[i])) <= long
             /\ i = long + 1 => path[i] = b
             /\ \A da : IsArea(da) /\ In(a, da) /\ In(b, da) => In(path[i], da)
  <2>1. i - 1 \in 0 .. long /\ path[i] = F[i - 1].at /\ (i = long + 1 => i - 1 = long)
    BY <1>1, <1>2
  <2> QED
    BY <1>6, <2>1
<1>8. ASSUME NEW i \in 1 .. long
      PROVE  /\ path[i] # path[i + 1]
             /\ Abs(path[i].x - path[i + 1].x) <= 1 /\ Abs(path[i].y - path[i + 1].y) <= 1
  <2> DEFINE n == i - 1
  <2>1. n \in Nat /\ n \in 0 .. long - 1 /\ path[i] = F[n].at /\ path[i + 1] = F[n + 1].at
    BY <1>1, <1>2
  <2> HIDE DEF n
  <2>2. PICK k \in Nat :
          \E m \in {k, k + 1} : path[i] = Mark(a, b, n, k) /\ path[i + 1] = Mark(a, b, n + 1, m)
    BY <1>4, <1>5, <2>1
  <2>3. PICK m \in {k, k + 1} : path[i] = Mark(a, b, n, k) /\ path[i + 1] = Mark(a, b, n + 1, m)
    BY <2>2
  <2> QED
    BY <2>1, <2>3, MarksAreAdjacent
<1>9. path = [i \in 1 .. long + 1 |-> path[i]] /\ path[1] = a /\ path[long + 1] = b
  <2>1. 1 \in 1 .. long + 1 /\ 1 - 1 = 0 /\ long + 1 \in 1 .. long + 1
    BY <1>2
  <2>2. path[1] = a
    BY <1>1, <1>4, <2>1
  <2>3. path = [i \in 1 .. long + 1 |-> path[i]]
    BY <1>1
  <2> QED
    BY <1>7, <2>1, <2>2, <2>3
<1> QED
  BY <1>7, <1>8, <1>9 DEF path, long

LEMMA Clamped ==
  ASSUME NEW da, IsArea(da), da.x_min <= da.x_max, da.y_min <= da.y_max, NEW p \in Position
  PROVE  clamp_to_da(p, da) \in Position /\ In(clamp_to_da(p, da), da)
  BY DEF clamp_to_da, clamp, Position, Point, In, IsArea

\* Each line is straight, or the program ends.
LEMMA LineDrawnStraight ==
  ASSUME Dimensions, NEW c, NEW written, Drawable(c, written), NEW cmd, IsCommand(cmd), cmd.cmd = "line",
         ~gp0_line(c, cmd).canvas.panicked
  PROVE  LineIsStraight(c, cmd, gp0_line(c, cmd).drawn)
<1> DEFINE da == c.reg.area
           a == clamp_to_da(with_offset(cmd.points[1], c.reg.offset), da)
           b == clamp_to_da(with_offset(cmd.points[2], c.reg.offset), da)
           path == draw_line(a, b)
           long == Long(a, b)
           drawn == gp0_line(c, cmd).drawn
           empty == da.x_min > da.x_max \/ da.y_min > da.y_max
                      \/ (cmd.shaded /\ line_divides_by_zero(a, b))
<1>1. gp0_line(c, cmd) = IF empty THEN Covers([c EXCEPT !.panicked = TRUE], <<>>)
                         ELSE Covers(paint(c, Range(path), Mixed), [i \in DOMAIN path |-> {path[i]}])
  BY Zenon DEF gp0_line
<1>2. ~empty
  <2>1. [c EXCEPT !.panicked = TRUE].panicked = TRUE
    BY DEF Drawable, Canvas, CanvasFields
  <2> HIDE DEF empty
  <2> QED
    BY <1>1, <2>1 DEF Covers
<1>3. drawn = [i \in DOMAIN path |-> {path[i]}]
  <2> HIDE DEF empty, path
  <2> QED
    BY <1>1, <1>2 DEF Covers
<1>4. IsArea(da) /\ da.x_min <= da.x_max /\ da.y_min <= da.y_max
  BY <1>2 DEF Drawable, Registers, IsArea
<1>5. a \in Position /\ b \in Position /\ In(a, da) /\ In(b, da)
  <2>1. cmd.points[1] \in Position /\ cmd.points[2] \in Position /\ c.reg.offset \in Position
    BY DEF IsCommand, Drawable, Registers
  <2>2. with_offset(cmd.points[1], c.reg.offset) \in Position /\ with_offset(cmd.points[2], c.reg.offset) \in Position
    BY <2>1 DEF with_offset, Point, Position
  <2> QED
    BY <1>4, <2>2, Clamped
<1> HIDE DEF a, b, da, drawn, empty
<1>6. /\ path = [i \in 1 .. long + 1 |-> path[i]] /\ path[1] = a /\ path[long + 1] = b
      /\ \A i \in 1 .. long + 1 :
           /\ path[i] \in Position /\ 2 * Abs(edge_function(a, b, path[i])) <= long
           /\ In(path[i], da)
      /\ \A i \in 1 .. long :
           /\ path[i] # path[i + 1]
           /\ Abs(path[i].x - path[i + 1].x) <= 1 /\ Abs(path[i].y - path[i + 1].y) <= 1
  BY <1>4, <1>5, LinePath
<1>7. long \in Nat /\ long = Max({Abs(b.x - a.x), Abs(b.y - a.y)})
  BY <1>5, LongAndShort
<1> HIDE DEF path, long
<1>8. DOMAIN path = 1 .. long + 1
  BY <1>6
<1>9. ASSUME NEW i \in 1 .. long + 1 PROVE The(drawn[i]) = path[i]
  <2>1. drawn[i] = {path[i]}
    BY <1>3, <1>8
  <2> QED
    BY <2>1 DEF The
<1>10. Len(drawn) = long + 1
  <2>1. drawn \in Seq({{path[i]} : i \in DOMAIN path})
    <3>1. drawn \in [1 .. long + 1 -> {{path[i]} : i \in DOMAIN path}] /\ long + 1 \in Nat
      <4>1. drawn = [i \in 1 .. long + 1 |-> {path[i]}] /\ long + 1 \in Nat
        BY <1>3, <1>7, <1>8
      <4> QED
        BY <1>8, <4>1
    <3> QED
      BY <3>1, SeqDef
  <2>2. DOMAIN drawn = 1 .. long + 1
    BY <1>3, <1>8
  <2>3. Len(drawn) \in Nat /\ DOMAIN drawn = 1 .. Len(drawn)
    BY <2>1, LenProperties
  <2> QED
    BY <1>7, <2>2, <2>3
<1>11. 1 \in 1 .. long + 1 /\ long + 1 \in 1 .. long + 1
       /\ \A i \in 1 .. long : i \in 1 .. long + 1 /\ i + 1 \in 1 .. long + 1
  <2>1. long \in Nat
    BY <1>7
  <2> QED
    BY <2>1
<1>12. /\ Len(drawn) = long + 1 /\ The(drawn[1]) = a /\ The(drawn[long + 1]) = b
       /\ \A i \in 1 .. long + 1 :
            In(The(drawn[i]), da) /\ 2 * Abs(edge_function(a, b, The(drawn[i]))) <= long
       /\ \A i \in 1 .. long :
            /\ The(drawn[i]) # The(drawn[i + 1])
            /\ Abs(The(drawn[i]).x - The(drawn[i + 1]).x) <= 1 /\ Abs(The(drawn[i]).y - The(drawn[i + 1]).y) <= 1
  BY <1>6, <1>9, <1>10, <1>11
<1> QED
  BY <1>7, <1>12, Zenon DEF LineIsStraight, a, b, da, drawn

-----------------------------------------------------------------------------
\* Every command leaves what it drew in the log; later steps do not touch it.
LEMMA DrawShape ==
  ASSUME Parameters, guest \in Guests, Textured, Draw
  PROVE  DrawnIsTheShape'
<1>1. PICK cmd \in Repertoire[guest] :
        /\ cmd.cmd \in Drawing
        /\ canvas' = gp0_exec(canvas, cmd).canvas
        /\ log' = [cmd |-> cmd, before |-> Some(canvas), drawn |-> gp0_exec(canvas, cmd).drawn, halfwords |-> <<>>,
                   written |-> log.written \cup offsets(gp0_exec(canvas, cmd).drawn), draws |-> log.draws + 1]
  BY Zenon DEF Draw
<1>2. Dimensions /\ IsCommand(cmd) /\ Drawable(canvas, log.written)
  BY DEF Parameters, Dimensions, Textured
<1> DEFINE done == gp0_exec(canvas, cmd)
<1>3. log'.cmd = cmd /\ log'.before = {canvas} /\ log'.drawn = done.drawn /\ canvas' = done.canvas
  BY <1>1 DEF Some
<1>4. cmd.cmd = "poly" => PolygonIsWhole(canvas, cmd, done.drawn)
  <2> SUFFICES ASSUME cmd.cmd = "poly" PROVE PolygonIsWhole(canvas, cmd, done.drawn)
    OBVIOUS
  <2>1. done = gp0_poly(canvas, cmd)
    BY DEF gp0_exec
  <2> HIDE DEF done
  <2> QED
    BY <1>2, <2>1, PolyIsWhole
<1>5. cmd.cmd = "line" /\ ~done.canvas.panicked => LineIsStraight(canvas, cmd, done.drawn)
  <2> SUFFICES ASSUME cmd.cmd = "line", ~done.canvas.panicked PROVE LineIsStraight(canvas, cmd, done.drawn)
    OBVIOUS
  <2>1. done = gp0_line(canvas, cmd)
    BY DEF gp0_exec
  <2> HIDE DEF done
  <2> QED
    BY <1>2, <2>1, LineDrawnStraight
<1> HIDE DEF done
<1> QED
  BY <1>3, <1>4, <1>5 DEF DrawnIsTheShape

LEMMA ShapeKept ==
  ASSUME DrawnIsTheShape, canvas'.panicked = canvas.panicked, log'.cmd = log.cmd, log'.before = log.before,
         log'.drawn = log.drawn
  PROVE  DrawnIsTheShape'
  BY DEF DrawnIsTheShape

\* DrawnIsTheShape, for any points, offsets and draw areas: `draw_triangle`, with its
\* bias and its lanes, gives each pixel inside of a convex polygon to exactly one
\* of its halves, and `draw_line` stays within half a pixel of the line.
THEOREM ShapesAreWhole == GpuSpec => []DrawnIsTheShape
<1> USE GpuAssumption
<1>1. GpuInit => DrawnIsTheShape
  BY DEF GpuInit, DrawnIsTheShape, None
<1>2. DrawnIsTheShape /\ Textured /\ (Images /\ guest \in Guests) /\ [GpuNext]_gpu_vars => DrawnIsTheShape'
  <2> SUFFICES ASSUME DrawnIsTheShape, Textured, Images, guest \in Guests, [GpuNext]_gpu_vars
               PROVE  DrawnIsTheShape'
    OBVIOUS
  <2>1. CASE Draw
    BY <2>1, DrawShape
  <2>2. CASE SetRegister
    <3>1. log'.before = {}
      BY <2>2 DEF SetRegister, Forgotten, Images, Log, LogFields, None
    <3> QED
      BY <3>1 DEF DrawnIsTheShape
  <2>3. CASE StoreWord \/ LoadWord
    <3>1. canvas'.panicked = canvas.panicked
      BY <2>3 DEF StoreWord, LoadWord, Images, Canvas, CanvasFields
    <3>2. log'.cmd = log.cmd /\ log'.before = log.before /\ log'.drawn = log.drawn
      BY <2>3 DEF StoreWord, LoadWord, Images, Log, LogFields
    <3> QED
      BY <3>1, <3>2, ShapeKept
  <2>4. CASE Reset
    <3>1. canvas'.panicked = canvas.panicked
      BY <2>4 DEF Reset, Images, Canvas, CanvasFields
    <3>2. CASE canvas.tran = NoTransfer
      <4>1. log'.before = {}
        BY <2>4, <3>2 DEF Reset, Forgotten, Images, Log, LogFields, None
      <4> QED
        BY <4>1 DEF DrawnIsTheShape
    <3>3. CASE canvas.tran # NoTransfer
      <4>1. log'.cmd = log.cmd /\ log'.before = log.before /\ log'.drawn = log.drawn
        BY <2>4, <3>3 DEF Reset, Images, Log, LogFields
      <4> QED
        BY <3>1, <4>1, ShapeKept
    <3> QED
      BY <3>2, <3>3
  <2>5. CASE Display \/ UNCHANGED gpu_vars
    <3>1. canvas' = canvas /\ log' = log
      BY <2>5 DEF Display, gpu_vars
    <3> QED
      BY <3>1, ShapeKept
  <2> QED
    BY <2>1, <2>2, <2>3, <2>4, <2>5 DEF GpuNext
<1> QED
  BY <1>1, <1>2, AlwaysImages, AlwaysTextured, PTL DEF GpuSpec

==============================================================================
