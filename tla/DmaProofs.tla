----------------------------- MODULE DmaProofs -----------------------------
(***************************************************************************)
(* Proofs about Dma, for any ports, sizes of memory and register values:   *)
(* the master interrupt flag follows the others, a transfer moves the      *)
(* words it was set up for, each once and in order, and a finished         *)
(* ordering table is a list.  And about GpuPort, the port the GPU's        *)
(* channel sends its blocks to: it executes the commands it was sent.      *)
(***************************************************************************)
EXTENDS Dma, GpuPort, SequenceTheorems, TLAPS

-----------------------------------------------------------------------------
Address == 0 .. ADDR - 1
Tran == [cursor : Address, size : Nat, inc : {1, -1}]
Chan == [base : 0 .. ADDR, size : Nat, count : Nat, transfer : SUBSET Tran, ctrl : Ctrl]
ChanOK(c) == c \in Chan /\ \A s, t \in c.transfer : s = t
Header == [link : 0 .. ADDR, size : Nat]
Plan == [want : Int, moved : Nat, from : Address]

RunType(r) ==
  r \in [ports : Seq(Ports), left : {r.left}, manual_done : BOOLEAN, inner : BOOLEAN]

RunOK ==
  /\ RunType(run)
  /\ run.inner => run.ports # <<>> /\ chan[Head(run.ports)].transfer # None

TypeOK ==
  /\ chan \in [Ports -> Chan] /\ \A p \in Ports : ChanOK(chan[p])
  /\ ram \in [0 .. RAM - 1 -> Header]
  /\ plan \in [Ports -> Plan]
  /\ RunOK

\* This run has begun the manual transfer of the port.
AgainOf(r, p) == r.ports # <<>> /\ Head(r.ports) = p /\ r.manual_done
Again(p) == AgainOf(run, p)

Where(c, q) == (q.from + c.ctrl.step * q.moved) % ADDR

Rem(c, again) ==
  LET begun == IF c.transfer = None THEN 0 ELSE The(c.transfer).size
  IN  CASE c.ctrl.enabled /\ c.ctrl.mode = "request" -> begun + c.count * c.size
        [] c.ctrl.enabled /\ c.ctrl.mode = "manual"  -> IF c.transfer # None THEN begun
                                                        ELSE IF again THEN 0 ELSE c.size
        [] OTHER -> 0

\* A transfer goes on where its plan says it has come to, and a manual one that
\* is pending was begun in this run.
Accounted(c, q, again) ==
  q.want >= 0 =>
    /\ q.moved + Rem(c, again) = q.want
    /\ \A t \in c.transfer : t.cursor = Where(c, q) /\ t.inc = c.ctrl.step
    /\ c.transfer # None => c.ctrl.enabled
    /\ c.ctrl.enabled =>
         /\ c.ctrl.mode # "list"
         /\ c.transfer = None /\ ~(c.ctrl.mode = "manual" /\ again) => word(c.base) = Where(c, q)
         /\ c.ctrl.mode = "manual" /\ c.transfer # None => again

Inv ==
  /\ TypeOK
  /\ \A p \in Ports : AtOnce(p, chan[p].ctrl)
  /\ \A p \in Ports : Accounted(chan[p], plan[p], Again(p))

-----------------------------------------------------------------------------
\* The interrupt register.
IsIrq(i) ==
  i \in [force : {i.force}, channels : {i.channels}, enabled : {i.enabled}, flags : {i.flags},
         master : {i.master}]

LEMMA MasterFollows ==
  ASSUME NEW i, IsIrq(i), update_master_irq_flag(i)
  PROVE  IsIrq(irq') /\ irq'.master = result(irq')
<1> DEFINE m == result(i)
           j == [i EXCEPT !.master = m]
<1>1. irq' = j
  BY DEF update_master_irq_flag
<1> HIDE DEF m
<1>2. IsIrq(j) /\ j.master = m /\ j.force = i.force /\ j.enabled = i.enabled /\ j.flags = i.flags
  BY DEF IsIrq
<1> HIDE DEF j
<1>3. result(j) = m
  BY <1>2 DEF result, m
<1> QED
  BY <1>1, <1>2, <1>3

MasterInv == IsIrq(irq) /\ MasterFlagCurrent

LEMMA MasterStep == MasterInv /\ [Next]_vars => MasterInv'
<1> SUFFICES ASSUME MasterInv, [Next]_vars PROVE MasterInv'
  OBVIOUS
<1>1. CASE irq' = irq
  BY <1>1 DEF MasterInv, IsIrq, MasterFlagCurrent, result
<1>2. CASE Finish
  <2> DEFINE f == IF port \in irq.channels THEN irq.flags \cup {port} ELSE irq.flags
             i == [irq EXCEPT !.flags = f]
  <2>1. update_master_irq_flag(i)
    BY <1>2 DEF Finish, channel_done
  <2> HIDE DEF f
  <2>2. IsIrq(i)
    BY DEF IsIrq, MasterInv
  <2> HIDE DEF i
  <2> QED
    BY <2>1, <2>2, MasterFollows DEF MasterInv, MasterFlagCurrent, IsIrq
<1>3. CASE StoreIrq
  <2>1. PICK val \in Irqs :
          update_master_irq_flag([irq EXCEPT !.force = val.force, !.channels = val.channels,
                                             !.enabled = val.enabled, !.flags = @ \ val.flags])
    BY <1>3 DEF StoreIrq
  <2> DEFINE f == irq.flags \ val.flags
             i == [irq EXCEPT !.force = val.force, !.channels = val.channels,
                              !.enabled = val.enabled, !.flags = f]
  <2>2. update_master_irq_flag(i)
    BY <2>1
  <2> HIDE DEF f
  <2>3. IsIrq(i)
    BY DEF IsIrq, MasterInv
  <2> HIDE DEF i
  <2> QED
    BY <2>2, <2>3, MasterFollows DEF MasterInv, MasterFlagCurrent, IsIrq
<1>4. irq' = irq \/ Finish \/ StoreIrq
  BY DEF Next, RunChan, vars, LeaveChan, Resume, StartManual, StartRequest, FollowList, Word, EndBlock,
         Chop, Load, StoreChan, RunDmaChan, GpuStore, Quiet
<1> QED
  BY <1>1, <1>2, <1>3, <1>4

(* The master flag is on exactly if a forced or an enabled interrupt waits, *)
(* after any mix of stores and completions of any ports (dma.rs:657).       *)
THEOREM MasterFlagFollows == Spec => []MasterFlagCurrent
<1>1. Init => MasterInv
  <2>1. Init => IsIrq(irq) /\ irq.master = FALSE /\ irq.force = FALSE /\ irq.enabled = FALSE
    BY DEF Init, IsIrq
  <2>2. irq.force = FALSE /\ irq.enabled = FALSE => result(irq) = FALSE
    BY DEF result
  <2> QED
    BY <2>1, <2>2 DEF MasterInv, MasterFlagCurrent
<1>2. MasterInv => MasterFlagCurrent
  BY DEF MasterInv
<1> QED
  BY <1>1, <1>2, MasterStep, PTL DEF Spec

-----------------------------------------------------------------------------
\* One step along addresses that wrap.
LEMMA DivUnique ==
  ASSUME NEW x \in Int, NEW q \in Int, NEW r \in Int, 0 <= r, r < ADDR, x = q * ADDR + r
  PROVE  x % ADDR = r
<1> DEFINE d == x \div ADDR
           m == x % ADDR
<1>1. ADDR \in Nat /\ ADDR > 0
  BY DmaAssumption
<1>2. d \in Int /\ m \in Int /\ 0 <= m /\ m < ADDR /\ x = d * ADDR + m
  BY <1>1
<1> HIDE DEF d, m
<1>3. d * ADDR \in Int /\ q * ADDR \in Int
  BY <1>1, <1>2
<1>4. ~(d >= q + 1)
  <2>1. d >= q + 1 => d * ADDR >= (q + 1) * ADDR
    BY <1>1, <1>2
  <2>2. (q + 1) * ADDR = q * ADDR + ADDR
    BY <1>1
  <2> QED
    BY <1>1, <1>2, <1>3, <2>1, <2>2
<1>5. ~(d + 1 <= q)
  <2>1. d + 1 <= q => (d + 1) * ADDR <= q * ADDR
    BY <1>1, <1>2
  <2>2. (d + 1) * ADDR = d * ADDR + ADDR
    BY <1>1, <1>2
  <2> QED
    BY <1>1, <1>2, <1>3, <2>1, <2>2
<1>6. d = q
  BY <1>2, <1>4, <1>5
<1>7. m = r
  BY <1>1, <1>2, <1>3, <1>6
<1> QED
  BY <1>7 DEF m

LEMMA StepWraps ==
  ASSUME NEW x \in Int, NEW i \in {1, -1}
  PROVE  ((x % ADDR) + i) % ADDR = (x + i) % ADDR
<1> DEFINE q == x \div ADDR
           m == x % ADDR
           y == m + i
           n == IF y >= ADDR THEN 1 ELSE IF y < 0 THEN -1 ELSE 0
           r == y - n * ADDR
<1>1. ADDR \in Nat /\ ADDR > 0 /\ i \in Int
  BY DmaAssumption
<1>2. q \in Int /\ m \in Int /\ 0 <= m /\ m < ADDR /\ x = q * ADDR + m
  BY <1>1
<1> HIDE DEF q, m
<1>3. y \in Int /\ n \in Int /\ r \in Int /\ 0 <= r /\ r < ADDR /\ y = n * ADDR + r
  BY <1>1, <1>2
<1>4. x + i = (q + n) * ADDR + r
  <2>1. (q + n) * ADDR = q * ADDR + n * ADDR
    BY <1>1, <1>2
  <2> QED
    BY <1>1, <1>2, <1>3, <2>1
<1> HIDE DEF y, n, r
<1>5. y % ADDR = r
  BY <1>3, DivUnique
<1>6. (x + i) % ADDR = r
  <2>1. q + n \in Int /\ x + i \in Int
    BY <1>1, <1>2, <1>3
  <2> QED
    BY <1>3, <1>4, <2>1, DivUnique
<1> QED
  BY <1>5, <1>6 DEF y, m

LEMMA InRange ==
  ASSUME NEW x \in Address PROVE x % ADDR = x
<1>1. x \in Int /\ 0 <= x /\ x < ADDR /\ x = 0 * ADDR + x
  BY DmaAssumption DEF Address
<1> QED
  BY <1>1, DivUnique

LEMMA WordType ==
  ASSUME NEW a \in 0 .. ADDR PROVE word(a) \in Address
BY DmaAssumption DEF word, Address, END

-----------------------------------------------------------------------------
\* What is left of a transfer, by its mode.
LEMMA RemCases ==
  ASSUME NEW c, ChanOK(c), NEW again
  PROVE  /\ ~c.ctrl.enabled => Rem(c, again) = 0
         /\ c.ctrl.enabled /\ c.ctrl.mode = "request" /\ c.transfer = None =>
              Rem(c, again) = c.count * c.size
         /\ c.ctrl.enabled /\ c.ctrl.mode = "request" =>
              \A t \in c.transfer : Rem(c, again) = t.size + c.count * c.size
         /\ c.ctrl.enabled /\ c.ctrl.mode = "manual" /\ c.transfer = None =>
              Rem(c, again) = IF again THEN 0 ELSE c.size
         /\ c.ctrl.enabled /\ c.ctrl.mode = "manual" => \A t \in c.transfer : Rem(c, again) = t.size
<1> DEFINE n == c.count * c.size
           u == The(c.transfer).size
<1>1. n \in Nat
  BY DEF ChanOK, Chan
<1>2. ASSUME NEW t \in c.transfer PROVE u = t.size /\ c.transfer # None
  BY DEF The, None, ChanOK
<1> HIDE DEF u
<1>3. c.ctrl.enabled \in BOOLEAN
  BY DEF ChanOK, Chan, Ctrl
<1>4. ~c.ctrl.enabled => Rem(c, again) = 0
  BY DEF Rem
<1>5. c.ctrl.enabled /\ c.ctrl.mode = "request" => Rem(c, again) = (IF c.transfer = None THEN 0 ELSE u) + n
  BY DEF Rem, u
<1>6. c.ctrl.enabled /\ c.ctrl.mode = "manual" =>
        Rem(c, again) = IF c.transfer # None THEN u ELSE IF again THEN 0 ELSE c.size
  BY DEF Rem, u
<1> HIDE DEF n
<1>7. c.ctrl.enabled /\ c.ctrl.mode = "request" /\ c.transfer = None => Rem(c, again) = n
  BY <1>1, <1>5
<1>8. c.ctrl.enabled /\ c.ctrl.mode = "request" => \A t \in c.transfer : Rem(c, again) = t.size + n
  BY <1>2, <1>5
<1>9. c.ctrl.enabled /\ c.ctrl.mode = "manual" => \A t \in c.transfer : Rem(c, again) = t.size
  BY <1>2, <1>6
<1> QED
  BY <1>4, <1>6, <1>7, <1>8, <1>9 DEF n

\* Only a manual transfer depends on whether this run has begun it.
LEMMA NotManual ==
  ASSUME NEW c, NEW q, NEW a, NEW b, Accounted(c, q, a), ~c.ctrl.enabled \/ c.ctrl.mode # "manual"
  PROVE  Accounted(c, q, b)
<1>1. Rem(c, a) = Rem(c, b)
  BY DEF Rem
<1> HIDE DEF Rem
<1> QED
  BY <1>1 DEF Accounted

\* Moves from one state of a channel to another, by what they change.
LEMMA BeginManual ==
  ASSUME NEW c, ChanOK(c), NEW d, ChanOK(d), NEW q \in Plan, NEW t,
         Accounted(c, q, FALSE), c.ctrl.enabled, c.ctrl.mode = "manual", c.transfer = None,
         d.ctrl = c.ctrl, d.transfer = {t},
         t.cursor = word(c.base), t.size = c.size, t.inc = c.ctrl.step
  PROVE  Accounted(d, q, TRUE)
<1>1. Rem(c, FALSE) = c.size
  BY RemCases
<1>2. Rem(d, TRUE) = t.size
  BY RemCases
<1>3. Where(d, q) = Where(c, q)
  BY DEF Where
<1> QED
  BY <1>1, <1>2, <1>3 DEF Accounted

LEMMA BeginRequest ==
  ASSUME NEW c, ChanOK(c), NEW d, ChanOK(d), NEW q \in Plan, NEW t, NEW a, NEW b,
         Accounted(c, q, a), c.ctrl.enabled, c.ctrl.mode = "request", c.transfer = None, c.count > 0,
         d.ctrl = c.ctrl, d.transfer = {t}, d.count = c.count - 1, d.size = c.size,
         t.cursor = word(c.base), t.size = c.size, t.inc = c.ctrl.step
  PROVE  Accounted(d, q, b)
<1>1. Rem(c, a) = c.count * c.size
  BY RemCases
<1>2. Rem(d, b) = t.size + d.count * d.size
  BY RemCases
<1>3. c.size + (c.count - 1) * c.size = c.count * c.size
  BY DEF ChanOK, Chan
<1>4. Rem(d, b) = Rem(c, a)
  BY <1>1, <1>2, <1>3
<1>5. Where(d, q) = Where(c, q)
  BY DEF Where
<1> QED
  BY <1>4, <1>5 DEF Accounted, None

LEMMA EndOfBlock ==
  ASSUME NEW c, ChanOK(c), NEW d, ChanOK(d), NEW q \in Plan, NEW t \in c.transfer, NEW a \in BOOLEAN,
         Accounted(c, q, a), t.size = 0, d.ctrl = c.ctrl, d.transfer = None,
         d.count = c.count, d.size = c.size, c.ctrl.mode = "request" => d.base = t.cursor
  PROVE  Accounted(d, q, a)
<1> SUFFICES ASSUME q.want >= 0 PROVE Accounted(d, q, a)
  BY DEF Accounted
<1>1. c.ctrl.enabled /\ c.ctrl.mode \in {"manual", "request"} /\ t.cursor = Where(c, q) /\ (c.ctrl.mode = "manual" => a)
  BY DEF Accounted, None, ChanOK, Chan, Ctrl, Modes
<1>2. Rem(d, a) = Rem(c, a)
  <2>1. c.count * c.size \in Nat
    BY DEF ChanOK, Chan
  <2>2. CASE c.ctrl.mode = "request"
    <3>1. Rem(c, a) = t.size + c.count * c.size /\ Rem(d, a) = d.count * d.size
      BY <1>1, <2>2, RemCases
    <3> QED
      BY <2>1, <3>1
  <2>3. CASE c.ctrl.mode = "manual"
    BY <1>1, <2>3, RemCases
  <2> QED
    BY <1>1, <2>2, <2>3
<1>3. Where(d, q) = Where(c, q)
  BY DEF Where
<1>4. c.ctrl.mode = "request" => word(d.base) = t.cursor
  <2>1. t.cursor \in Address
    BY DEF ChanOK, Chan, Tran
  <2>2. t.cursor # END
    BY <2>1, DmaAssumption DEF Address, END
  <2> QED
    BY <2>2 DEF word
<1> QED
  BY <1>1, <1>2, <1>3, <1>4 DEF Accounted, None

LEMMA OneWord ==
  ASSUME NEW c, ChanOK(c), NEW d, ChanOK(d), NEW q \in Plan, NEW r \in Plan,
         NEW t \in c.transfer, NEW u, NEW a \in BOOLEAN,
         Accounted(c, q, a), t.size > 0, d.ctrl = c.ctrl, d.transfer = {u},
         d.count = c.count, d.size = c.size, d.base = c.base,
         u.cursor = (t.cursor + t.inc) % ADDR, u.size = t.size - 1, u.inc = t.inc,
         r.want = q.want, r.from = q.from, r.moved = IF q.want >= 0 THEN q.moved + 1 ELSE q.moved
  PROVE  Accounted(d, r, a)
<1> SUFFICES ASSUME q.want >= 0 PROVE Accounted(d, r, a)
  BY DEF Accounted
<1>1. /\ c.ctrl.enabled /\ c.ctrl.mode \in {"manual", "request"}
      /\ t.cursor = Where(c, q) /\ t.inc = c.ctrl.step /\ (c.ctrl.mode = "manual" => a)
      /\ q.moved + Rem(c, a) = q.want
  BY DEF Accounted, None, ChanOK, Chan, Ctrl, Modes
<1>2. t.size \in Nat /\ t.inc \in {1, -1} /\ q.moved \in Nat /\ q.from \in Int /\ r.moved = q.moved + 1
  BY DEF ChanOK, Chan, Tran, Plan, Address
<1>3. Rem(c, a) = Rem(d, a) + 1 /\ Rem(d, a) \in Int
  <2>1. c.count * c.size \in Nat
    BY DEF ChanOK, Chan
  <2>2. CASE c.ctrl.mode = "request"
    <3>1. Rem(c, a) = t.size + c.count * c.size /\ Rem(d, a) = u.size + d.count * d.size
      BY <1>1, <2>2, RemCases
    <3> QED
      BY <1>2, <2>1, <3>1
  <2>3. CASE c.ctrl.mode = "manual"
    <3>0. c.ctrl.enabled = TRUE /\ u \in d.transfer
      BY <1>1 DEF ChanOK, Chan, Ctrl
    <3>1. Rem(c, a) = t.size
      BY <2>3, <3>0, RemCases
    <3>2. Rem(d, a) = u.size
      BY <2>3, <3>0, RemCases
    <3> QED
      BY <1>2, <3>1, <3>2
  <2> QED
    BY <1>1, <2>2, <2>3
<1>4. r.moved + Rem(d, a) = r.want
  BY <1>1, <1>2, <1>3
<1>5. u.cursor = Where(d, r)
  <2> DEFINE x == q.from + t.inc * q.moved
  <2>1. x \in Int /\ x + t.inc = q.from + t.inc * r.moved
    BY <1>2
  <2>2. t.cursor = x % ADDR
    BY <1>1 DEF Where
  <2>3. Where(d, r) = (x + t.inc) % ADDR
    BY <1>1, <2>1 DEF Where
  <2> HIDE DEF x
  <2>4. ((x % ADDR) + t.inc) % ADDR = (x + t.inc) % ADDR
    BY <1>2, <2>1, StepWraps
  <2> QED
    BY <2>2, <2>3, <2>4
<1>6. d.transfer # None
  BY DEF None
<1> QED
  BY <1>1, <1>4, <1>5, <1>6 DEF Accounted

-----------------------------------------------------------------------------
\* A step of one channel.
LEMMA ChannelStep ==
  ASSUME Inv, NEW p \in Ports, NEW d, NEW q \in Plan,
         chan' = [chan EXCEPT ![p] = d], plan' = [plan EXCEPT ![p] = q],
         ram' \in [0 .. RAM - 1 -> Header], RunOK',
         ChanOK(d), AtOnce(p, d.ctrl), Accounted(d, q, AgainOf(run', p)),
         \A x \in Ports \ {p} : ~AgainOf(run, x) /\ ~AgainOf(run', x)
  PROVE  Inv'
<1>1. /\ chan \in [Ports -> Chan] /\ plan \in [Ports -> Plan]
      /\ \A x \in Ports : ChanOK(chan[x]) /\ AtOnce(x, chan[x].ctrl)
      /\ \A x \in Ports : Accounted(chan[x], plan[x], AgainOf(run, x))
  BY DEF Inv, TypeOK, Again
<1>2. d \in Chan
  BY DEF ChanOK
<1>3. /\ chan' \in [Ports -> Chan] /\ plan' \in [Ports -> Plan]
      /\ chan'[p] = d /\ plan'[p] = q
      /\ \A x \in Ports \ {p} : chan'[x] = chan[x] /\ plan'[x] = plan[x]
  BY <1>1, <1>2
<1>4. \A x \in Ports : ChanOK(chan'[x]) /\ AtOnce(x, chan'[x].ctrl)
  BY <1>1, <1>3
<1>5. ASSUME NEW x \in Ports PROVE Accounted(chan'[x], plan'[x], AgainOf(run', x))
  <2>1. CASE x = p
    BY <1>3, <2>1
  <2>2. CASE x # p
    <3>1. AgainOf(run, x) = FALSE /\ AgainOf(run', x) = FALSE
      BY <2>2 DEF AgainOf
    <3> QED
      BY <1>1, <1>3, <2>2, <3>1
  <2> QED
    BY <2>1, <2>2
<1>6. TypeOK'
  BY <1>3, <1>4 DEF TypeOK, ChanOK
<1> QED
  BY <1>4, <1>5, <1>6 DEF Inv, Again, AgainOf, Accounted, Where, Rem, AtOnce

\* Channels and plans as they were.
LEMMA SameChannels ==
  ASSUME Inv, chan' = chan, plan' = plan, ram' = ram, RunOK',
         \A x \in Ports : Accounted(chan[x], plan[x], AgainOf(run, x)) => Accounted(chan[x], plan[x], AgainOf(run', x))
  PROVE  Inv'
<1>1. TypeOK'
  BY DEF Inv, TypeOK, ChanOK
<1>2. \A x \in Ports : Accounted(chan'[x], plan'[x], AgainOf(run', x))
  BY DEF Inv, Again
<1> QED
  BY <1>1, <1>2 DEF Inv, Again, AgainOf, Accounted, Where, Rem, AtOnce

\* The port whose channel runs.
LEMMA PortFacts ==
  ASSUME Inv, run.ports # <<>>
  PROVE  /\ port \in Ports /\ stat = chan[port] /\ ChanOK(stat) /\ AtOnce(port, stat.ctrl)
         /\ plan[port] \in Plan /\ plan = [plan EXCEPT ![port] = plan[port]]
         /\ Accounted(stat, plan[port], AgainOf(run, port))
         /\ AgainOf(run, port) = run.manual_done /\ run.manual_done \in BOOLEAN
         /\ \A x \in Ports \ {port} : ~AgainOf(run, x)
         /\ Tail(run.ports) \in Seq(Ports)
<1>1. run.ports \in Seq(Ports) /\ run.manual_done \in BOOLEAN
  BY DEF Inv, TypeOK, RunOK, RunType
<1>2. port \in Ports /\ Tail(run.ports) \in Seq(Ports)
  BY <1>1, HeadTailProperties DEF port
<1>3. AgainOf(run, port) = run.manual_done /\ \A x \in Ports \ {port} : ~AgainOf(run, x)
  BY <1>1 DEF AgainOf, port
<1> QED
  BY <1>1, <1>2, <1>3 DEF Inv, TypeOK, stat, Again

\* The run goes on with other ports, or ends.
LEMMA EnterFacts ==
  ASSUME NEW ports \in Seq(Ports)
  PROVE  /\ RunType(enter(ports)) /\ enter(ports).inner = FALSE /\ enter(ports).manual_done = FALSE
         /\ enter(ports).ports = ports /\ \A x : AgainOf(enter(ports), x) = FALSE
<1> DEFINE n == chan[Head(ports)].ctrl.dma_chop
           i == [Idle EXCEPT !.ports = ports, !.left = n]
<1>1. enter(ports) = IF ports = <<>> THEN Idle ELSE i
  BY DEF enter
<1> HIDE DEF n
<1>2. RunType(i) /\ i.inner = FALSE /\ i.manual_done = FALSE /\ i.ports = ports
  BY DEF RunType, Idle
<1>3. RunType(Idle) /\ Idle.inner = FALSE /\ Idle.manual_done = FALSE /\ Idle.ports = <<>>
  BY DEF RunType, Idle
<1> HIDE DEF i
<1> QED
  BY <1>1, <1>2, <1>3 DEF AgainOf

LEMMA Entered ==
  ASSUME NEW ports \in Seq(Ports), run' = enter(ports)
  PROVE  RunOK' /\ run'.manual_done = FALSE /\ \A x : AgainOf(run', x) = FALSE
BY EnterFacts DEF RunOK, RunType

\* The run goes on with this channel.
LEMMA InnerSet ==
  ASSUME Inv, NEW b \in BOOLEAN, NEW m \in BOOLEAN, run.ports # <<>>,
         run' = [run EXCEPT !.inner = b, !.manual_done = m],
         b => chan'[port].transfer # None
  PROVE  RunOK' /\ AgainOf(run', port) = m /\ \A x \in Ports \ {port} : ~AgainOf(run', x)
<1>1. RunType(run)
  BY DEF Inv, TypeOK, RunOK
<1>2. RunType(run') /\ run'.inner = b /\ run'.manual_done = m /\ run'.ports = run.ports
  BY <1>1 DEF RunType
<1>3. RunOK'
  BY <1>2 DEF RunOK, RunType, port
<1>4. AgainOf(run', port) = m /\ \A x \in Ports \ {port} : ~AgainOf(run', x)
  BY <1>2 DEF AgainOf, port
<1> QED
  BY <1>3, <1>4

-----------------------------------------------------------------------------
LEMMA LeaveChanInv == Inv /\ LeaveChan => Inv'
<1> SUFFICES ASSUME Inv, LeaveChan PROVE Inv'
  OBVIOUS
<1>1. run.ports # <<>>
  BY DEF LeaveChan, AtRest
<1>2. /\ port \in Ports /\ stat = chan[port] /\ ChanOK(stat) /\ AtOnce(port, stat.ctrl)
      /\ \A x \in Ports \ {port} : ~AgainOf(run, x)
      /\ Tail(run.ports) \in Seq(Ports)
  BY <1>1, PortFacts
<1>3. RunOK' /\ \A x : AgainOf(run', x) = FALSE
  BY <1>2, Entered DEF LeaveChan
<1>4. ~stat.ctrl.enabled \/ stat.ctrl.mode # "manual"
  BY <1>2 DEF LeaveChan, AtOnce, InTime, dma_ready
<1>5. ASSUME NEW x \in Ports, Accounted(chan[x], plan[x], AgainOf(run, x))
      PROVE  Accounted(chan[x], plan[x], AgainOf(run', x))
  <2>1. CASE x = port
    BY <1>2, <1>4, <1>5, <2>1, NotManual
  <2>2. CASE x # port
    <3>1. AgainOf(run, x) = FALSE
      BY <1>2, <2>2 DEF AgainOf
    <3> QED
      BY <1>3, <1>5, <3>1
  <2> QED
    BY <2>1, <2>2
<1> QED
  BY <1>3, <1>5, SameChannels DEF LeaveChan, KeepRest

LEMMA ResumeInv == Inv /\ Resume => Inv'
<1> SUFFICES ASSUME Inv, Resume PROVE Inv'
  OBVIOUS
<1>1. run.ports # <<>> /\ chan' = chan /\ stat.transfer # None
  BY DEF Resume, AtHead, AtRest
<1>2. RunType(run) /\ stat = chan[port]
  BY DEF Inv, TypeOK, RunOK, stat
<1>3. RunType(run') /\ run'.ports = run.ports /\ run'.manual_done = run.manual_done
  BY <1>2 DEF Resume, RunType
<1>4. RunOK'
  BY <1>1, <1>2, <1>3 DEF RunOK, RunType, port
<1>5. \A x : AgainOf(run', x) = AgainOf(run, x)
  BY <1>3 DEF AgainOf
<1> QED
  BY <1>4, <1>5, SameChannels DEF Resume, KeepRest

\* A transfer begun at the channel's base.
LEMMA TransferType ==
  ASSUME ChanOK(stat), NEW a \in 0 .. ADDR, NEW n \in Nat
  PROVE  LET t == [cursor |-> word(a), size |-> n, inc |-> stat.ctrl.step]
         IN  /\ transfer(a, n) = {t} /\ t \in Tran /\ transfer(a, n) # None
             /\ t.cursor = word(a) /\ t.size = n /\ t.inc = stat.ctrl.step
<1>1. word(a) \in Address
  BY WordType
<1>2. stat.ctrl.step \in {1, -1}
  BY DEF ChanOK, Chan, Ctrl
<1> QED
  BY <1>1, <1>2 DEF transfer, Some, None, Tran

LEMMA StartManualInv == Inv /\ StartManual => Inv'
<1> SUFFICES ASSUME Inv, StartManual PROVE Inv'
  OBVIOUS
<1>1. /\ run.ports # <<>> /\ stat.ctrl.mode = "manual" /\ run.manual_done = FALSE
      /\ stat.ctrl.enabled /\ stat.transfer = None
  BY DEF StartManual, NextBlock, AtHead, AtRest, Inv, TypeOK, RunOK, RunType
<1>2. /\ port \in Ports /\ stat = chan[port] /\ ChanOK(stat) /\ AtOnce(port, stat.ctrl)
      /\ plan[port] \in Plan /\ plan = [plan EXCEPT ![port] = plan[port]]
      /\ Accounted(stat, plan[port], FALSE)
      /\ \A x \in Ports \ {port} : ~AgainOf(run, x)
      /\ Tail(run.ports) \in Seq(Ports)
  BY <1>1, PortFacts
<1>3. plan' = plan /\ ram' = ram /\ ram \in [0 .. RAM - 1 -> Header] /\ chan \in [Ports -> Chan]
  BY DEF StartManual, KeepRest, Inv, TypeOK
<1>4. CASE stat.ctrl.start
  <2> DEFINE t == [cursor |-> word(stat.base), size |-> stat.size, inc |-> stat.ctrl.step]
             d == [stat EXCEPT !.transfer = {t}]
  <2>1. stat.base \in 0 .. ADDR /\ stat.size \in Nat /\ stat \in Chan
    BY <1>2 DEF ChanOK, Chan
  <2>2. /\ transfer(stat.base, stat.size) = {t} /\ t \in Tran
        /\ t.cursor = word(stat.base) /\ t.size = stat.size /\ t.inc = stat.ctrl.step
    BY <1>2, <2>1, TransferType
  <2>3. chan' = [chan EXCEPT ![port].transfer = transfer(stat.base, stat.size)]
    BY <1>4 DEF StartManual
  <2> HIDE DEF t
  <2>4. chan' = [chan EXCEPT ![port] = d]
    BY <1>2, <2>2, <2>3
  <2>5. d \in Chan /\ d.transfer = {t} /\ d.ctrl = stat.ctrl
    BY <2>1, <2>2 DEF Chan
  <2> HIDE DEF d
  <2>6. ChanOK(d)
    BY <2>5 DEF ChanOK
  <2>7. Accounted(d, plan[port], TRUE)
    BY <1>1, <1>2, <2>2, <2>5, <2>6, BeginManual
  <2>8. chan'[port].transfer # None
    BY <1>2, <1>3, <2>4, <2>5 DEF None
  <2>9. run' = [run EXCEPT !.inner = TRUE, !.manual_done = TRUE]
    BY <1>4 DEF StartManual
  <2>10. RunOK' /\ AgainOf(run', port) = TRUE /\ \A x \in Ports \ {port} : ~AgainOf(run', x)
    BY <1>1, <2>8, <2>9, InnerSet
  <2> QED
    BY <1>2, <1>3, <2>4, <2>5, <2>6, <2>7, <2>10, ChannelStep
<1>5. CASE ~stat.ctrl.start
  <2>1. RunOK' /\ \A x : AgainOf(run', x) = FALSE
    BY <1>2, <1>5, Entered DEF StartManual
  <2>2. \A x \in Ports : AgainOf(run, x) = FALSE
    BY <1>1 DEF AgainOf
  <2> QED
    BY <1>3, <1>5, <2>1, <2>2, SameChannels DEF StartManual
<1> QED
  BY <1>4, <1>5

LEMMA InnerOnly ==
  ASSUME Inv, NEW b \in BOOLEAN, run.ports # <<>>, run' = [run EXCEPT !.inner = b],
         b => chan'[port].transfer # None
  PROVE  RunOK' /\ AgainOf(run', port) = run.manual_done /\ \A x \in Ports \ {port} : ~AgainOf(run', x)
<1>1. RunType(run) /\ run.manual_done \in BOOLEAN
  BY DEF Inv, TypeOK, RunOK, RunType
<1>2. run' = [run EXCEPT !.inner = b, !.manual_done = run.manual_done]
  BY <1>1 DEF RunType
<1> QED
  BY <1>1, <1>2, InnerSet

LEMMA StartRequestInv == Inv /\ StartRequest => Inv'
<1> SUFFICES ASSUME Inv, StartRequest PROVE Inv'
  OBVIOUS
<1> DEFINE t == [cursor |-> word(stat.base), size |-> stat.size, inc |-> stat.ctrl.step]
           n == stat.count - 1
           d == [stat EXCEPT !.transfer = {t}, !.count = n]
<1>1. /\ run.ports # <<>> /\ stat.ctrl.mode = "request" /\ stat.count > 0
      /\ stat.ctrl.enabled /\ stat.transfer = None
  BY DEF StartRequest, NextBlock, AtHead, AtRest
<1>2. /\ port \in Ports /\ stat = chan[port] /\ ChanOK(stat) /\ AtOnce(port, stat.ctrl)
      /\ plan[port] \in Plan /\ plan = [plan EXCEPT ![port] = plan[port]]
      /\ Accounted(stat, plan[port], run.manual_done)
      /\ \A x \in Ports \ {port} : ~AgainOf(run, x)
  BY <1>1, PortFacts
<1>3. plan' = plan /\ ram' = ram /\ ram \in [0 .. RAM - 1 -> Header] /\ chan \in [Ports -> Chan]
  BY DEF StartRequest, KeepRest, Inv, TypeOK
<1>4. stat.base \in 0 .. ADDR /\ stat.size \in Nat /\ stat \in Chan /\ stat.count \in Nat
  BY <1>2 DEF ChanOK, Chan
<1>5. /\ transfer(stat.base, stat.size) = {t} /\ t \in Tran
      /\ t.cursor = word(stat.base) /\ t.size = stat.size /\ t.inc = stat.ctrl.step
  BY <1>2, <1>4, TransferType
<1>6. n \in Nat
  BY <1>1, <1>4
<1>7. chan' = [chan EXCEPT ![port] = [chan[port] EXCEPT !.transfer = {t}, !.count = chan[port].count - 1]]
  <2>1. chan' = [chan EXCEPT ![port].transfer = transfer(stat.base, stat.size), ![port].count = @ - 1]
    BY DEF StartRequest
  <2> HIDE DEF t
  <2> QED
    BY <1>2, <1>3, <1>5, <2>1 DEF Chan
<1> HIDE DEF t
<1>8. chan' = [chan EXCEPT ![port] = d]
  BY <1>2, <1>7
<1>9. n = stat.count - 1
  OBVIOUS
<1> HIDE DEF n
<1>10. d \in Chan /\ d.transfer = {t} /\ d.ctrl = stat.ctrl /\ d.count = n /\ d.size = stat.size
  BY <1>4, <1>5, <1>6 DEF Chan
<1> HIDE DEF d
<1>11. ChanOK(d)
  BY <1>10 DEF ChanOK
<1>12. Accounted(d, plan[port], run.manual_done)
  BY <1>1, <1>2, <1>5, <1>9, <1>10, <1>11, BeginRequest
<1>13. chan'[port].transfer # None
  BY <1>2, <1>3, <1>8, <1>10 DEF None
<1>14. RunOK' /\ AgainOf(run', port) = run.manual_done /\ \A x \in Ports \ {port} : ~AgainOf(run', x)
  BY <1>1, <1>13, InnerOnly DEF StartRequest
<1> QED
  BY <1>2, <1>3, <1>8, <1>10, <1>11, <1>12, <1>14, ChannelStep

LEMMA FollowListInv == Inv /\ FollowList => Inv'
<1> SUFFICES ASSUME Inv, FollowList PROVE Inv'
  OBVIOUS
<1> DEFINE header == ram[stat.base % RAM]
           a == (stat.base + 1) % ADDR
           tr == IF header.size = 0 THEN None ELSE transfer(a, header.size)
           l == header.link
           d == [stat EXCEPT !.base = l, !.transfer = tr]
<1>1. run.ports # <<>> /\ stat.ctrl.mode = "list" /\ stat.ctrl.enabled
  BY DEF FollowList, NextBlock, AtHead, AtRest
<1>2. /\ port \in Ports /\ stat = chan[port] /\ ChanOK(stat) /\ AtOnce(port, stat.ctrl)
      /\ plan[port] \in Plan /\ plan = [plan EXCEPT ![port] = plan[port]]
      /\ Accounted(stat, plan[port], run.manual_done)
      /\ \A x \in Ports \ {port} : ~AgainOf(run, x)
  BY <1>1, PortFacts
<1>3. plan' = plan /\ ram' = ram /\ ram \in [0 .. RAM - 1 -> Header] /\ chan \in [Ports -> Chan]
  BY DEF FollowList, KeepRest, Inv, TypeOK
<1>4. stat.base \in Nat /\ stat \in Chan
  BY <1>2 DEF ChanOK, Chan
<1>5. header \in Header /\ a \in 0 .. ADDR
  <2>1. stat.base % RAM \in 0 .. RAM - 1
    BY <1>4, DmaAssumption
  <2>2. a \in 0 .. ADDR
    BY <1>4, DmaAssumption
  <2> QED
    BY <1>3, <2>1, <2>2
<1>6. chan' = [chan EXCEPT ![port] = [chan[port] EXCEPT !.base = l, !.transfer = tr]]
  <2>1. chan' = [chan EXCEPT ![port].base = l, ![port].transfer = tr]
    BY DEF FollowList
  <2> HIDE DEF l, tr
  <2> QED
    BY <1>2, <1>3, <2>1 DEF Chan
<1>7. chan' = [chan EXCEPT ![port] = d]
  BY <1>2, <1>6
<1>8. run' = [run EXCEPT !.inner = ~(header.size = 0)]
  BY DEF FollowList
<1> HIDE DEF header, a
<1>9. l \in 0 .. ADDR /\ header.size \in Nat
  BY <1>5 DEF Header
<1>10. /\ tr \subseteq Tran /\ (\A x, y \in tr : x = y)
       /\ ~(header.size = 0) => tr # None
  <2>1. CASE header.size = 0
    BY <2>1 DEF None
  <2>2. CASE header.size # 0
    <3> DEFINE n == header.size
               t == [cursor |-> word(a), size |-> n, inc |-> stat.ctrl.step]
    <3>0. n \in Nat
      BY <1>9
    <3> HIDE DEF n
    <3>1. t \in Tran /\ transfer(a, n) = {t}
      BY <1>2, <1>5, <3>0, TransferType
    <3> HIDE DEF t
    <3>2. tr = {t}
      BY <2>2, <3>1 DEF n
    <3> QED
      BY <3>1, <3>2 DEF None
  <2> QED
    BY <2>1, <2>2
<1> HIDE DEF tr, l
<1>11. d \in Chan /\ d.transfer = tr /\ d.ctrl = stat.ctrl
  BY <1>4, <1>9, <1>10 DEF Chan
<1> HIDE DEF d
<1>12. ChanOK(d)
  BY <1>10, <1>11 DEF ChanOK
<1>13. Accounted(d, plan[port], run.manual_done)
  <2>1. ~(plan[port].want >= 0)
    BY <1>1, <1>2 DEF Accounted
  <2> QED
    BY <2>1 DEF Accounted
<1>14. ~(header.size = 0) => chan'[port].transfer # None
  BY <1>2, <1>3, <1>7, <1>10, <1>11
<1>15. RunOK' /\ AgainOf(run', port) = run.manual_done /\ \A x \in Ports \ {port} : ~AgainOf(run', x)
  <2> DEFINE b == ~(header.size = 0)
  <2>1. b \in BOOLEAN /\ run' = [run EXCEPT !.inner = b] /\ (b => chan'[port].transfer # None)
    BY <1>8, <1>14
  <2> HIDE DEF b
  <2> QED
    BY <1>1, <2>1, InnerOnly
<1> QED
  BY <1>2, <1>3, <1>7, <1>11, <1>12, <1>13, <1>15, ChannelStep

LEMMA FinishInv == Inv /\ Finish => Inv'
<1> SUFFICES ASSUME Inv, Finish PROVE Inv'
  OBVIOUS
<1> DEFINE k == [stat.ctrl EXCEPT !.enabled = FALSE, !.start = FALSE]
           d == [stat EXCEPT !.ctrl = k]
           q == plan[port]
<1>1. run.ports # <<>> /\ stat.ctrl.enabled /\ stat.transfer = None
  BY DEF Finish, NextBlock, AtHead, AtRest
<1>2. /\ port \in Ports /\ stat = chan[port] /\ ChanOK(stat) /\ AtOnce(port, stat.ctrl)
      /\ q \in Plan /\ plan = [plan EXCEPT ![port] = q]
      /\ Accounted(stat, q, run.manual_done)
      /\ (\A x \in Ports \ {port} : ~AgainOf(run, x))
      /\ Tail(run.ports) \in Seq(Ports)
  BY <1>1, PortFacts
<1>3. plan' = plan /\ ram' = ram /\ ram \in [0 .. RAM - 1 -> Header] /\ chan \in [Ports -> Chan]
  BY DEF Finish, KeepRest, Inv, TypeOK
<1>4. stat \in Chan /\ stat.ctrl \in Ctrl /\ stat.count \in Nat /\ stat.size \in Nat
  BY <1>2 DEF ChanOK, Chan
<1>5. chan' = [chan EXCEPT ![port] = d]
  <2>1. chan' = [chan EXCEPT ![port].ctrl.enabled = FALSE, ![port].ctrl.start = FALSE]
    BY DEF Finish, channel_done
  <2> QED
    BY <1>2, <1>3, <1>4, <2>1 DEF Chan, Ctrl
<1>6. /\ k \in Ctrl /\ k.enabled = FALSE
      /\ k.mode = stat.ctrl.mode /\ k.chop = stat.ctrl.chop /\ k.dir = stat.ctrl.dir
  BY <1>4 DEF Ctrl
<1> HIDE DEF k
<1>7. d \in Chan /\ d.transfer = None /\ d.ctrl = k
  BY <1>1, <1>4, <1>6 DEF Chan
<1> HIDE DEF d
<1>8. ChanOK(d) /\ AtOnce(port, d.ctrl)
  BY <1>2, <1>6, <1>7 DEF ChanOK, None, AtOnce
<1>9. q.want >= 0 => q.moved = q.want
  <2> SUFFICES ASSUME q.want >= 0 PROVE q.moved = q.want
    OBVIOUS
  <2>1. q.moved + Rem(stat, run.manual_done) = q.want /\ stat.ctrl.mode # "list"
    BY <1>1, <1>2 DEF Accounted
  <2>2. Rem(stat, run.manual_done) = 0
    <3>1. CASE stat.ctrl.mode = "manual" /\ run.manual_done
      BY <1>1, <1>2, <3>1, RemCases
    <3>2. CASE stat.ctrl.mode = "request" /\ stat.count = 0
      <4>1. Rem(stat, run.manual_done) = stat.count * stat.size
        BY <1>1, <1>2, <3>2, RemCases
      <4> QED
        BY <1>4, <3>2, <4>1
    <3> QED
      BY <2>1, <3>1, <3>2 DEF Finish
  <2> QED
    BY <1>2, <2>1, <2>2 DEF Plan
<1>10. Accounted(d, q, FALSE)
  <2>1. Rem(d, FALSE) = 0
    BY <1>6, <1>7, <1>8, RemCases
  <2> QED
    <3> SUFFICES ASSUME q.want >= 0 PROVE Accounted(d, q, FALSE)
      BY DEF Accounted
    <3>0. q.moved \in Nat /\ q.moved = q.want
      BY <1>2, <1>9 DEF Plan
    <3>1. q.moved + Rem(d, FALSE) = q.want
      <4> DEFINE z == Rem(d, FALSE)
      <4>1. z = 0
        BY <2>1
      <4> HIDE DEF z
      <4>2. q.moved + z = q.want
        BY <3>0, <4>1
      <4> QED
        BY <4>2 DEF z
    <3>2. d.transfer = {} /\ d.ctrl.enabled = FALSE
      BY <1>6, <1>7 DEF None
    <3> HIDE DEF q
    <3> QED
      BY <3>1, <3>2 DEF Accounted, None
<1>11. RunOK' /\ \A x : AgainOf(run', x) = FALSE
  BY <1>2, Entered DEF Finish
<1> QED
  BY <1>2, <1>3, <1>5, <1>8, <1>10, <1>11, ChannelStep

\* A block is being moved.
LEMMA BlockFacts ==
  ASSUME Inv, InBlock
  PROVE  /\ run.ports # <<>> /\ tran \in stat.transfer /\ tran \in Tran
         /\ stat \in Chan /\ chan \in [Ports -> Chan]
         /\ \A x \in stat.transfer : x = tran
<1>1. run.ports # <<>> /\ stat.transfer # None
  BY DEF InBlock, AtRest, Inv, TypeOK, RunOK, stat, port
<1>2. ChanOK(stat) /\ chan \in [Ports -> Chan]
  BY <1>1, PortFacts DEF Inv, TypeOK
<1>3. tran \in stat.transfer
  BY <1>1 DEF tran, The, None
<1> QED
  BY <1>1, <1>2, <1>3 DEF ChanOK, Chan

LEMMA WordInv == Inv /\ Word => Inv'
<1> SUFFICES ASSUME Inv, Word PROVE Inv'
  OBVIOUS
<1> DEFINE cur == (tran.cursor + tran.inc) % ADDR
           n == tran.size - 1
           u == [tran EXCEPT !.cursor = cur, !.size = n]
           d == [stat EXCEPT !.transfer = {u}]
           q == plan[port]
           m == IF q.want >= 0 THEN q.moved + 1 ELSE q.moved
           r == [q EXCEPT !.moved = m]
<1>1. /\ run.ports # <<>> /\ tran \in stat.transfer /\ tran \in Tran /\ tran.size > 0
      /\ stat \in Chan /\ chan \in [Ports -> Chan]
  BY BlockFacts DEF Word
<1>2. /\ port \in Ports /\ stat = chan[port] /\ ChanOK(stat) /\ AtOnce(port, stat.ctrl)
      /\ q \in Plan /\ Accounted(stat, q, run.manual_done) /\ run.manual_done \in BOOLEAN
      /\ \A x \in Ports \ {port} : ~AgainOf(run, x)
  BY <1>1, PortFacts
<1>3. cur \in Address /\ n \in Nat
  <2>1. tran.cursor \in Int /\ tran.inc \in Int /\ tran.size \in Nat
    BY <1>1 DEF Tran, Address
  <2>2. n \in Nat
    BY <1>1, <2>1
  <2> QED
    BY <2>1, <2>2, DmaAssumption DEF Address
<1>4. chan' = [chan EXCEPT ![port] = d]
  <2>1. chan' = [chan EXCEPT ![port].transfer = {[tran EXCEPT !.cursor = (@ + tran.inc) % ADDR, !.size = @ - 1]}]
    BY DEF Word, Some
  <2>2. [tran EXCEPT !.cursor = (@ + tran.inc) % ADDR, !.size = @ - 1] = u
    BY <1>1 DEF Tran
  <2> HIDE DEF u
  <2> QED
    BY <1>1, <1>2, <2>1, <2>2
<1>5. cur = (tran.cursor + tran.inc) % ADDR /\ n = tran.size - 1
  OBVIOUS
<1> HIDE DEF cur, n
<1>6. u \in Tran /\ u.cursor = cur /\ u.size = n /\ u.inc = tran.inc
  BY <1>1, <1>3 DEF Tran
<1> HIDE DEF u
<1>7. /\ d \in Chan /\ d.transfer = {u} /\ d.ctrl = stat.ctrl /\ d.count = stat.count
      /\ d.size = stat.size /\ d.base = stat.base
  BY <1>1, <1>6 DEF Chan
<1> HIDE DEF d
<1>8. ChanOK(d)
  BY <1>7 DEF ChanOK
<1>9. m \in Nat /\ q.want \in Int
  BY <1>2 DEF Plan
<1>10. plan \in [Ports -> Plan]
  BY DEF Inv, TypeOK
<1>11. plan' = [plan EXCEPT ![port] = r]
  <2>1. plan' = [plan EXCEPT ![port].moved = IF plan[port].want >= 0 THEN @ + 1 ELSE @]
    BY DEF Word
  <2> QED
    BY <1>2, <1>10, <2>1 DEF Plan
<1>12. m = IF q.want >= 0 THEN q.moved + 1 ELSE q.moved
  OBVIOUS
<1> HIDE DEF m
<1>13. r \in Plan /\ r.want = q.want /\ r.from = q.from /\ r.moved = m
  BY <1>2, <1>9 DEF Plan
<1> HIDE DEF r, q
<1>14. Accounted(d, r, run.manual_done)
  BY <1>1, <1>2, <1>5, <1>6, <1>7, <1>8, <1>12, <1>13, OneWord
<1>15. ram' \in [0 .. RAM - 1 -> Header]
  <2>1. ram \in [0 .. RAM - 1 -> Header] /\ tran.cursor \in Nat
    BY <1>1 DEF Inv, TypeOK, Tran, Address
  <2>2. (tran.cursor - 1) % RAM \in 0 .. ADDR /\ tran.cursor % RAM \in 0 .. RAM - 1
    BY <2>1, DmaAssumption
  <2>3. dma_load \in Header
    BY <2>2, DmaAssumption DEF dma_load, Header, END
  <2> HIDE DEF dma_load
  <2> QED
    BY <2>1, <2>2, <2>3 DEF Word
<1>16. /\ RunOK' /\ AgainOf(run', port) = run.manual_done
       /\ \A x \in Ports \ {port} : ~AgainOf(run', x)
  <2> DEFINE l == IF stat.ctrl.chop THEN run.left - 1 ELSE run.left
  <2>1. run' = [run EXCEPT !.left = l] /\ run.inner = TRUE /\ RunType(run)
    BY DEF Word, InBlock, Inv, TypeOK, RunOK, RunType
  <2> HIDE DEF l
  <2>2. RunType(run') /\ run'.ports = run.ports /\ run'.manual_done = run.manual_done
    BY <2>1 DEF RunType
  <2>3. chan'[port].transfer # None
    BY <1>1, <1>2, <1>4, <1>7 DEF None
  <2>4. RunOK'
    BY <1>1, <2>2, <2>3 DEF RunOK, RunType, port
  <2>5. AgainOf(run', port) = run.manual_done /\ \A x \in Ports \ {port} : ~AgainOf(run', x)
    BY <1>1, <1>2, <2>2 DEF AgainOf, port
  <2> QED
    BY <2>4, <2>5
<1> QED
  BY <1>2, <1>4, <1>7, <1>8, <1>11, <1>13, <1>14, <1>15, <1>16, ChannelStep

LEMMA EndBlockInv == Inv /\ EndBlock => Inv'
<1> SUFFICES ASSUME Inv, EndBlock PROVE Inv'
  OBVIOUS
<1> DEFINE up == (stat.ctrl.chop /\ stat.ctrl.mode = "manual") \/ stat.ctrl.mode = "request"
           b == IF up THEN tran.cursor ELSE stat.base
           d == [stat EXCEPT !.base = b, !.transfer = None]
           q == plan[port]
<1>1. /\ run.ports # <<>> /\ tran \in stat.transfer /\ tran \in Tran /\ tran.size = 0
      /\ stat \in Chan /\ chan \in [Ports -> Chan]
  BY BlockFacts DEF EndBlock
<1>2. /\ port \in Ports /\ stat = chan[port] /\ ChanOK(stat) /\ AtOnce(port, stat.ctrl)
      /\ q \in Plan /\ plan = [plan EXCEPT ![port] = q]
      /\ Accounted(stat, q, run.manual_done) /\ run.manual_done \in BOOLEAN
      /\ \A x \in Ports \ {port} : ~AgainOf(run, x)
  BY <1>1, PortFacts
<1>3. plan' = plan /\ ram' = ram /\ ram \in [0 .. RAM - 1 -> Header]
  BY DEF EndBlock, KeepRest, Inv, TypeOK
<1>4. b \in 0 .. ADDR /\ (stat.ctrl.mode = "request" => b = tran.cursor)
  <2>1. stat.base \in 0 .. ADDR /\ tran.cursor \in 0 .. ADDR
    BY <1>1, DmaAssumption DEF Chan, Tran, Address
  <2> QED
    BY <2>1
<1>5. chan' = [chan EXCEPT ![port] = d]
  <2>1. chan' = [chan EXCEPT ![port].base = b, ![port].transfer = None]
    <3>1. chan' = [chan EXCEPT ![port].base = IF up THEN tran.cursor ELSE @, ![port].transfer = None]
      BY DEF EndBlock
    <3> QED
      BY <1>2, <3>1
  <2> HIDE DEF b
  <2> QED
    BY <1>1, <1>2, <2>1 DEF Chan
<1> HIDE DEF b
<1>6. d \in Chan /\ d.transfer = None /\ d.ctrl = stat.ctrl /\ d.count = stat.count /\ d.size = stat.size /\ d.base = b
  BY <1>1, <1>4 DEF Chan, None
<1> HIDE DEF d, q
<1>7. ChanOK(d)
  BY <1>6 DEF ChanOK, None
<1>8. Accounted(d, q, run.manual_done)
  BY <1>1, <1>2, <1>4, <1>6, <1>7, EndOfBlock
<1>9. RunOK' /\ AgainOf(run', port) = run.manual_done /\ \A x \in Ports \ {port} : ~AgainOf(run', x)
  BY <1>1, InnerOnly DEF EndBlock
<1> QED
  BY <1>2, <1>3, <1>5, <1>6, <1>7, <1>8, <1>9, ChannelStep

\* What is chopped is not manual, and stays as it is.
LEMMA ChopInv == Inv /\ Chop => Inv'
<1> SUFFICES ASSUME Inv, Chop PROVE Inv'
  OBVIOUS
<1>1. run.ports # <<>> /\ stat \in Chan /\ chan \in [Ports -> Chan]
  BY BlockFacts DEF Chop
<1>2. port \in Ports /\ stat = chan[port] /\ AtOnce(port, stat.ctrl)
  BY <1>1, PortFacts
<1>3. stat.ctrl.mode # "manual"
  BY <1>2 DEF Chop, OutOfTime, AtOnce
<1>4. chan' = chan
  <2>1. chan' = [chan EXCEPT ![port].base = IF stat.ctrl.mode = "manual" THEN tran.cursor ELSE @]
    BY DEF Chop
  <2>2. chan' = [chan EXCEPT ![port].base = chan[port].base]
    BY <1>3, <2>1
  <2> QED
    BY <1>1, <1>2, <2>2 DEF Chan
<1>5. RunType(run) /\ run' = [run EXCEPT !.inner = FALSE]
  BY DEF Inv, TypeOK, RunOK, Chop
<1>6. RunType(run') /\ run'.inner = FALSE /\ run'.ports = run.ports /\ run'.manual_done = run.manual_done
  BY <1>5 DEF RunType
<1>7. RunOK' /\ \A x : AgainOf(run', x) = AgainOf(run, x)
  BY <1>6 DEF RunOK, RunType, AgainOf
<1> QED
  BY <1>4, <1>7, SameChannels DEF Chop

-----------------------------------------------------------------------------
\* Between runs.
LEMMA Rested ==
  ASSUME AtRest PROVE \A x : AgainOf(run, x) = FALSE
BY DEF AtRest, AgainOf

LEMMA RunDma ==
  ASSUME NEW c, run_dma(c)
  PROVE  RunOK' /\ \A x : AgainOf(run', x) = FALSE
<1> DEFINE n == c[Head(Order)].ctrl.dma_chop
<1>1. run' = [Idle EXCEPT !.ports = Order, !.left = n]
  BY DEF run_dma
<1> HIDE DEF n
<1>2. Order \in Seq(Ports)
  <2>1. Order \in [1 .. Len(Order) -> {"gpu", "cdrom", "otc", "spu"}] /\ Len(Order) \in Nat
    BY DmaAssumption
  <2>2. Order \in [1 .. Len(Order) -> Ports]
    BY <2>1 DEF Ports
  <2> QED
    BY <2>1, <2>2
<1>3. RunType(run') /\ run'.inner = FALSE /\ run'.manual_done = FALSE
  BY <1>1, <1>2 DEF RunType, Idle
<1> QED
  BY <1>3 DEF RunOK, RunType, AgainOf

LEMMA PlannedFacts ==
  ASSUME NEW c, ChanOK(c)
  PROVE  planned(c) \in Plan /\ Accounted(c, planned(c), FALSE)
<1> DEFINE known == c.ctrl.enabled /\ c.transfer = None /\ c.ctrl.mode # "list"
           w == IF c.ctrl.mode = "manual" THEN c.size ELSE c.count * c.size
           q == [want |-> w, moved |-> 0, from |-> word(c.base)]
<1>1. /\ c \in Chan /\ c.base \in 0 .. ADDR /\ c.size \in Nat /\ c.count * c.size \in Nat
      /\ c.ctrl.enabled \in BOOLEAN /\ c.ctrl.mode \in Modes /\ c.ctrl.step \in {1, -1}
  BY DEF ChanOK, Chan, Ctrl
<1>2. word(c.base) \in Address
  BY <1>1, WordType
<1>3. CASE ~known
  <2>1. planned(c) = NoPlan
    BY <1>3 DEF planned
  <2>2. NoPlan \in Plan /\ ~(NoPlan.want >= 0)
    BY DmaAssumption DEF NoPlan, Plan, Address
  <2> QED
    BY <2>1, <2>2 DEF Accounted
<1>4. CASE known
  <2>1. planned(c) = q
    BY <1>1, <1>4 DEF planned
  <2>2. w \in Nat
    BY <1>1
  <2>3. Rem(c, FALSE) = w
    <3>1. CASE c.ctrl.mode = "manual"
      BY <1>4, <3>1, RemCases
    <3>2. CASE c.ctrl.mode = "request"
      BY <1>4, <3>2, RemCases
    <3> QED
      BY <1>1, <1>4, <3>1, <3>2 DEF Modes
  <2> HIDE DEF w
  <2>4. q \in Plan /\ q.want = w /\ q.moved = 0 /\ q.from = word(c.base)
    BY <1>2, <2>2 DEF Plan
  <2> HIDE DEF q
  <2>5. Where(c, q) = word(c.base)
    <3>1. q.from + c.ctrl.step * q.moved = word(c.base)
      BY <1>1, <1>2, <2>4 DEF Address
    <3>2. word(c.base) % ADDR = word(c.base)
      BY <1>2, InRange
    <3> QED
      BY <3>1, <3>2 DEF Where
  <2>6. q.moved + Rem(c, FALSE) = q.want
    <3> DEFINE z == Rem(c, FALSE)
    <3>1. z = w
      BY <2>3
    <3> HIDE DEF z
    <3>2. q.moved + z = q.want
      BY <2>2, <2>4, <3>1
    <3> QED
      BY <3>2 DEF z
  <2>7. Accounted(c, q, FALSE)
    BY <1>4, <2>5, <2>6 DEF Accounted, None
  <2> QED
    BY <2>1, <2>4, <2>7
<1> QED
  BY <1>3, <1>4

LEMMA StoreChanInv ==
  ASSUME ManualAtOnce, Inv, StoreChan PROVE Inv'
<1>1. PICK p \in Ports :
        /\ \/ \E val \in Bases : chan' = [chan EXCEPT ![p].base = val]
           \/ \E val \in Blocks : chan' = [chan EXCEPT ![p].size = val[1], ![p].count = val[2]]
           \/ \E val \in Ctrls[p] : chan' = [chan EXCEPT ![p].ctrl = val]
        /\ plan' = [plan EXCEPT ![p] = planned(chan'[p])]
  BY DEF StoreChan
<1> DEFINE c == chan[p]
<1>2. chan \in [Ports -> Chan] /\ ChanOK(c) /\ c \in Chan /\ AtOnce(p, c.ctrl)
  BY DEF Inv, TypeOK, ChanOK
<1>3. \E d : chan' = [chan EXCEPT ![p] = d] /\ ChanOK(d) /\ AtOnce(p, d.ctrl)
  <2>1. CASE \E val \in Bases : chan' = [chan EXCEPT ![p].base = val]
    <3>1. PICK val \in Bases : chan' = [chan EXCEPT ![p].base = val]
      BY <2>1
    <3> DEFINE d == [c EXCEPT !.base = val]
    <3>2. val \in 0 .. ADDR
      BY DmaAssumption
    <3>3. d \in Chan /\ d.transfer = c.transfer /\ d.ctrl = c.ctrl
      BY <1>2, <3>2 DEF Chan
    <3>4. chan' = [chan EXCEPT ![p] = d]
      BY <1>2, <3>1
    <3> HIDE DEF d
    <3>5. ChanOK(d) /\ AtOnce(p, d.ctrl)
      BY <1>2, <3>3 DEF ChanOK
    <3> QED
      BY <3>4, <3>5
  <2>2. CASE \E val \in Blocks : chan' = [chan EXCEPT ![p].size = val[1], ![p].count = val[2]]
    <3>1. PICK val \in Blocks : chan' = [chan EXCEPT ![p].size = val[1], ![p].count = val[2]]
      BY <2>2
    <3> DEFINE m == val[1]
               n == val[2]
               d == [c EXCEPT !.size = m, !.count = n]
    <3>2. m \in Nat /\ n \in Nat
      BY DmaAssumption
    <3> HIDE DEF m, n
    <3>3. d \in Chan /\ d.transfer = c.transfer /\ d.ctrl = c.ctrl
      BY <1>2, <3>2 DEF Chan
    <3>4. chan' = [chan EXCEPT ![p] = d]
      BY <1>2, <3>1 DEF Chan, m, n
    <3> HIDE DEF d
    <3>5. ChanOK(d) /\ AtOnce(p, d.ctrl)
      BY <1>2, <3>3 DEF ChanOK
    <3> QED
      BY <3>4, <3>5
  <2>3. CASE \E val \in Ctrls[p] : chan' = [chan EXCEPT ![p].ctrl = val]
    <3>1. PICK val \in Ctrls[p] : chan' = [chan EXCEPT ![p].ctrl = val]
      BY <2>3
    <3> DEFINE d == [c EXCEPT !.ctrl = val]
    <3>2. val \in Ctrl /\ AtOnce(p, val)
      BY DmaAssumption DEF ManualAtOnce
    <3>3. d \in Chan /\ d.transfer = c.transfer /\ d.ctrl = val
      BY <1>2, <3>2 DEF Chan
    <3>4. chan' = [chan EXCEPT ![p] = d]
      BY <1>2, <3>1
    <3> HIDE DEF d
    <3>5. ChanOK(d) /\ AtOnce(p, d.ctrl)
      BY <1>2, <3>2, <3>3 DEF ChanOK
    <3> QED
      BY <3>4, <3>5
  <2> QED
    BY <1>1, <2>1, <2>2, <2>3
<1>4. PICK d : chan' = [chan EXCEPT ![p] = d] /\ ChanOK(d) /\ AtOnce(p, d.ctrl)
  BY <1>3
<1>5. chan'[p] = d
  BY <1>2, <1>4
<1>6. planned(d) \in Plan /\ Accounted(d, planned(d), FALSE)
  BY <1>4, PlannedFacts
<1>7. plan' = [plan EXCEPT ![p] = planned(d)]
  BY <1>1, <1>5
<1>8. RunOK' /\ \A x : AgainOf(run', x) = FALSE
  BY RunDma DEF StoreChan
<1>9. \A x : AgainOf(run, x) = FALSE
  BY Rested DEF StoreChan
<1>10. ram' \in [0 .. RAM - 1 -> Header]
  BY DEF StoreChan, Inv, TypeOK
<1> QED
  BY <1>4, <1>6, <1>7, <1>8, <1>9, <1>10, ChannelStep

LEMMA BetweenRuns ==
  ASSUME Inv, Load \/ StoreIrq \/ RunDmaChan \/ GpuStore PROVE Inv'
<1>1. \A x : AgainOf(run, x) = FALSE
  BY Rested DEF Load, StoreIrq, RunDmaChan, GpuStore
<1>2. chan' = chan /\ plan' = plan /\ ram' = ram
  BY DEF Load, StoreIrq, RunDmaChan, GpuStore, KeepRest
<1>3. RunOK' /\ \A x : AgainOf(run', x) = FALSE
  <2>1. CASE Load \/ StoreIrq
    BY <2>1, RunDma DEF Load, StoreIrq
  <2>2. CASE RunDmaChan
    <3>1. PICK p \in Ports : run' = enter(<<p>>)
      BY <2>2 DEF RunDmaChan
    <3>2. <<p>> \in Seq(Ports)
      OBVIOUS
    <3> QED
      BY <3>1, <3>2, Entered
  <2>3. CASE GpuStore
    <3>1. run' = run /\ RunOK
      BY <2>3 DEF GpuStore, Inv, TypeOK
    <3> QED
      BY <1>1, <1>2, <3>1 DEF RunOK, RunType
  <2> QED
    BY <2>1, <2>2, <2>3
<1> QED
  BY <1>1, <1>2, <1>3, SameChannels

LEMMA InitInv == Init => Inv
<1> SUFFICES ASSUME Init PROVE Inv
  OBVIOUS
<1> DEFINE k == [dir |-> "ram", step |-> 1, mode |-> "manual", chop |-> FALSE,
                 dma_chop |-> 0, cpu_chop |-> 0, enabled |-> FALSE, start |-> FALSE]
           c == [base |-> 0, size |-> 0, count |-> 0, transfer |-> None, ctrl |-> k]
<1>1. chan = [p \in Ports |-> c] /\ plan = [p \in Ports |-> NoPlan] /\ run = Idle
  BY DEF Init
<1>2. k \in Ctrl /\ k.chop = FALSE /\ k.dir = "ram"
  BY DEF Ctrl, Modes
<1> HIDE DEF k
<1>3. c \in Chan /\ c.transfer = {} /\ c.ctrl = k
  BY <1>2, DmaAssumption DEF Chan, None
<1> HIDE DEF c
<1>4. NoPlan \in Plan /\ ~(NoPlan.want >= 0)
  BY DmaAssumption DEF NoPlan, Plan, Address
<1>5. ChanOK(c) /\ \A p \in Ports : AtOnce(p, c.ctrl)
  BY <1>2, <1>3 DEF ChanOK, AtOnce
<1>6. RunOK
  BY <1>1 DEF RunOK, RunType, Idle
<1>7. ram \in [0 .. RAM - 1 -> Header]
  BY DmaAssumption DEF Init, Header, END
<1>8. TypeOK
  BY <1>1, <1>3, <1>4, <1>5, <1>6, <1>7 DEF TypeOK
<1> QED
  BY <1>1, <1>4, <1>5, <1>8 DEF Inv, Accounted

(* The inductive invariant of the transfers holds in every state, for a     *)
(* guest whose manual transfers are not interrupted (run_chan, dma.rs).     *)
THEOREM Invariance == ASSUME ManualAtOnce PROVE Spec => []Inv
<1>1. Inv /\ [Next]_vars => Inv'
  <2> SUFFICES ASSUME Inv, [Next]_vars PROVE Inv'
    OBVIOUS
  <2>1. CASE RunChan
    BY <2>1, LeaveChanInv, ResumeInv, StartManualInv, StartRequestInv, FollowListInv, FinishInv,
       WordInv, EndBlockInv, ChopInv DEF RunChan
  <2>2. CASE StoreChan
    BY <2>2, StoreChanInv
  <2>3. CASE Load \/ StoreIrq \/ RunDmaChan \/ GpuStore
    BY <2>3, BetweenRuns
  <2>4. CASE UNCHANGED vars
    <3>1. chan' = chan /\ plan' = plan /\ ram' = ram /\ run' = run
      BY <2>4 DEF vars
    <3>2. RunOK'
      BY <3>1 DEF Inv, TypeOK, RunOK, RunType
    <3> QED
      BY <3>1, <3>2, SameChannels
  <2> QED
    BY <2>1, <2>2, <2>3, <2>4 DEF Next
<1> QED
  BY <1>1, InitInv, PTL DEF Spec

(* A transfer that was set up moves each of its words once and in address   *)
(* order, over any number of blocks, chops and waits for the device, for    *)
(* any sizes of memory and blocks (run_chan, dma.rs:100-104).               *)
THEOREM EveryWordOnce == ASSUME ManualAtOnce PROVE Spec => []WordsAccounted
<1>1. Inv => WordsAccounted
  <2> SUFFICES ASSUME Inv, NEW p \in Ports, plan[p].want >= 0
               PROVE  /\ plan[p].moved + Remaining(p) = plan[p].want
                      /\ \A t \in chan[p].transfer : t.cursor = (plan[p].from + t.inc * plan[p].moved) % ADDR
    BY DEF WordsAccounted
  <2>1. Accounted(chan[p], plan[p], Again(p))
    BY DEF Inv
  <2>2. Remaining(p) = Rem(chan[p], Again(p))
    BY DEF Remaining, Rem, Again, AgainOf, port
  <2> QED
    BY <2>1, <2>2 DEF Accounted, Where
<1> QED
  BY <1>1, Invariance, PTL

-----------------------------------------------------------------------------
\* Ordering tables.  Addresses that wrap after ADDR words wrap in RAM as well.
LEMMA Congruent ==
  ASSUME NEW x \in Int, NEW y \in Int, NEW k \in Int, x = y + k * RAM
  PROVE  x % RAM = y % RAM
<1> DEFINE a == x \div RAM
           b == y \div RAM
           m == x % RAM
           n == y % RAM
           z == a - b - k
<1>1. RAM \in Nat /\ RAM > 0
  BY DmaAssumption
<1>2. /\ a \in Int /\ m \in Int /\ 0 <= m /\ m < RAM /\ x = a * RAM + m
      /\ b \in Int /\ n \in Int /\ 0 <= n /\ n < RAM /\ y = b * RAM + n
  BY <1>1
<1> HIDE DEF a, b, m, n
<1>3. z * RAM = a * RAM - b * RAM - k * RAM /\ z \in Int
  BY <1>1, <1>2
<1> HIDE DEF z
<1>4. /\ z * RAM \in Int /\ a * RAM \in Int /\ b * RAM \in Int /\ k * RAM \in Int
  BY <1>1, <1>2, <1>3
<1>5. n - m = z * RAM
  BY <1>1, <1>2, <1>3, <1>4
<1>6. z >= 1 => z * RAM >= RAM
  BY <1>1, <1>3
<1>7. z <= -1 => z * RAM <= -RAM
  BY <1>1, <1>3
<1>8. z = 0
  BY <1>1, <1>2, <1>3, <1>5, <1>6, <1>7
<1>9. n = m
  BY <1>1, <1>2, <1>5, <1>8
<1> QED
  BY <1>9 DEF m, n

LEMMA Mirrors == \E k \in Int : ADDR = k * RAM
<1> DEFINE k == ADDR \div RAM
           m == ADDR % RAM
<1>1. RAM \in Nat /\ RAM > 0 /\ ADDR \in Nat
  BY DmaAssumption
<1>2. k \in Int /\ ADDR = k * RAM + m /\ m \in Int
  BY <1>1
<1>3. m = 0
  BY MirrorAssumption
<1> HIDE DEF k, m
<1>4. ADDR = k * RAM
  BY <1>1, <1>2, <1>3
<1> QED
  BY <1>2, <1>4

LEMMA Mirrored ==
  ASSUME NEW x \in Int, NEW i \in Int
  PROVE  ((x % ADDR) + i) % RAM = (x + i) % RAM
<1> DEFINE q == x \div ADDR
           m == x % ADDR
<1>1. RAM \in Nat /\ RAM > 0 /\ ADDR \in Nat /\ ADDR > 0
  BY DmaAssumption
<1>2. q \in Int /\ m \in Int /\ x = q * ADDR + m
  BY <1>1
<1> HIDE DEF q, m
<1>3. PICK k \in Int : ADDR = k * RAM
  BY Mirrors
<1>4. q * ADDR = (q * k) * RAM /\ q * k \in Int /\ q * ADDR \in Int
  BY <1>1, <1>2, <1>3
<1>5. x + i \in Int /\ m + i \in Int /\ x + i = (m + i) + (q * k) * RAM
  BY <1>2, <1>4
<1>6. (x + i) % RAM = (m + i) % RAM
  BY <1>4, <1>5, Congruent
<1> QED
  BY <1>6 DEF m

\* Words less than RAM apart are different words.
LEMMA Apart ==
  ASSUME NEW b \in Int, NEW i \in Int, NEW j \in Int, i < j, j - i < RAM
  PROVE  (b - i) % RAM # (b - j) % RAM
<1> DEFINE x == b - i
           y == b - j
           p == x \div RAM
           q == y \div RAM
           m == x % RAM
           n == y % RAM
           z == p - q
<1>1. RAM \in Nat /\ RAM > 0
  BY DmaAssumption
<1>2. /\ p \in Int /\ m \in Int /\ x = p * RAM + m
      /\ q \in Int /\ n \in Int /\ y = q * RAM + n
  BY <1>1
<1>3. x - y = j - i
  OBVIOUS
<1> HIDE DEF p, q, m, n, x, y
<1>4. z * RAM = p * RAM - q * RAM /\ z \in Int
  BY <1>1, <1>2
<1> HIDE DEF z
<1>5. p * RAM \in Int /\ q * RAM \in Int /\ z * RAM \in Int
  BY <1>1, <1>2, <1>4
<1>6. m = n => z * RAM = j - i
  BY <1>2, <1>3, <1>4, <1>5
<1>7. z >= 1 => z * RAM >= RAM
  BY <1>1, <1>4
<1>8. z <= 0 => z * RAM <= 0
  BY <1>1, <1>4
<1>9. m # n
  BY <1>1, <1>4, <1>5, <1>6, <1>7, <1>8
<1> QED
  BY <1>9 DEF m, n, x, y

Entry(q, i) == [link |-> IF i = q.want - 1 THEN END ELSE (q.from - i - 1) % RAM, size |-> 0]

\* The entries moved so far are in their places.
Built(q, mem) == \A i \in 0 .. q.moved - 1 : mem[(q.from - i) % RAM] = Entry(q, i)

\* A channel that has moved anything moves it as TablesOnly says.
Shape(p, c, q) == (c.transfer = None /\ ~c.ctrl.enabled /\ q.want < 0) \/ Building(p, c.ctrl)

Table(c, q, mem) == c.size <= RAM /\ q.want <= RAM /\ (q.want >= 0 => Built(q, mem))

Tables == \A p \in Ports : /\ Shape(p, chan[p], plan[p])
                           /\ p = "otc" => Table(chan[p], plan[p], ram)

\* What the steps of a run leave of a channel.
Kept(c, d) ==
  /\ d.size = c.size /\ d.ctrl.dir = c.ctrl.dir /\ d.ctrl.step = c.ctrl.step /\ d.ctrl.mode = c.ctrl.mode
  /\ d.ctrl.enabled => c.ctrl.enabled
  /\ d.transfer # None => c.transfer # None \/ c.ctrl.enabled

LEMMA KeptShape ==
  ASSUME NEW p, NEW c, NEW d, NEW q, NEW r, Shape(p, c, q), Kept(c, d), r.want = q.want
  PROVE  Shape(p, d, r)
BY DEF Shape, Kept, Building

LEMMA KeptTables ==
  ASSUME Tables, plan' = plan, ram' = ram, \A p \in Ports : Kept(chan[p], chan'[p])
  PROVE  Tables'
<1>1. ASSUME NEW p \in Ports PROVE Shape(p, chan'[p], plan'[p])
  BY KeptShape DEF Tables
<1>2. ASSUME NEW p \in Ports, p = "otc" PROVE Table(chan'[p], plan'[p], ram')
  <2>1. Table(chan[p], plan[p], ram) /\ chan'[p].size = chan[p].size
    BY <1>2 DEF Tables, Kept
  <2> QED
    BY <2>1 DEF Table
<1> QED
  BY <1>1, <1>2 DEF Tables

\* A step that changes only the channel of the port.
LEMMA OneKept ==
  ASSUME chan \in [Ports -> Chan], NEW d, chan' = [chan EXCEPT ![port] = d],
         port \in Ports => Kept(chan[port], d)
  PROVE  \A p \in Ports : Kept(chan[p], chan'[p])
<1> TAKE p \in Ports
<1>1. CASE p = port
  BY <1>1
<1>2. CASE p # port
  BY <1>2 DEF Kept
<1> QED
  BY <1>1, <1>2

LEMMA RunKeeps ==
  ASSUME Inv, RunChan, ~Word
  PROVE  \A p \in Ports : Kept(chan[p], chan'[p])
<1>0. chan \in [Ports -> Chan]
  BY DEF Inv, TypeOK
<1>1. CASE chan' = chan
  BY <1>1 DEF Kept
<1>2. CASE StartManual /\ chan' # chan
  <2> DEFINE t == transfer(stat.base, stat.size)
  <2>1. chan' = [chan EXCEPT ![port].transfer = t] /\ stat.ctrl.enabled
    BY <1>2 DEF StartManual, NextBlock, AtHead
  <2> HIDE DEF t
  <2>2. chan' = [chan EXCEPT ![port] = [chan[port] EXCEPT !.transfer = t]]
    BY <1>0, <2>1
  <2>3. port \in Ports => Kept(chan[port], [chan[port] EXCEPT !.transfer = t])
    BY <1>0, <2>1 DEF Kept, stat, Chan
  <2> QED
    BY <1>0, <2>2, <2>3, OneKept
<1>3. CASE StartRequest
  <2> DEFINE t == transfer(stat.base, stat.size)
             n == chan[port].count - 1
             d == [chan[port] EXCEPT !.transfer = t, !.count = n]
  <2>1. chan' = [chan EXCEPT ![port].transfer = t, ![port].count = @ - 1] /\ stat.ctrl.enabled
    BY <1>3 DEF StartRequest, NextBlock, AtHead
  <2> HIDE DEF t
  <2>2. chan' = [chan EXCEPT ![port] = d]
    BY <1>0, <2>1 DEF Chan
  <2> HIDE DEF n
  <2>3. port \in Ports => Kept(chan[port], d)
    BY <1>0, <2>1 DEF Kept, stat, Chan
  <2> HIDE DEF d
  <2> QED
    BY <1>0, <2>2, <2>3, OneKept
<1>4. CASE FollowList
  <2>1. \E l, t : chan' = [chan EXCEPT ![port].base = l, ![port].transfer = t]
    BY <1>4 DEF FollowList
  <2>2. PICK l, t : chan' = [chan EXCEPT ![port].base = l, ![port].transfer = t]
    BY <2>1
  <2> DEFINE d == [chan[port] EXCEPT !.base = l, !.transfer = t]
  <2>3. chan' = [chan EXCEPT ![port] = d] /\ stat.ctrl.enabled
    BY <1>0, <1>4, <2>2 DEF FollowList, NextBlock, AtHead
  <2>4. port \in Ports => Kept(chan[port], d)
    BY <1>0, <2>3 DEF Kept, stat, Chan
  <2> HIDE DEF d
  <2> QED
    BY <1>0, <2>3, <2>4, OneKept
<1>5. CASE Finish
  <2> DEFINE k == [chan[port].ctrl EXCEPT !.enabled = FALSE, !.start = FALSE]
             d == [chan[port] EXCEPT !.ctrl = k]
  <2>1. chan' = [chan EXCEPT ![port].ctrl.enabled = FALSE, ![port].ctrl.start = FALSE]
    BY <1>5 DEF Finish, channel_done
  <2>2. chan' = [chan EXCEPT ![port] = d]
    BY <1>0, <2>1 DEF Chan
  <2>3. port \in Ports => /\ k.dir = chan[port].ctrl.dir /\ k.step = chan[port].ctrl.step
                          /\ k.mode = chan[port].ctrl.mode /\ ~k.enabled
    BY <1>0 DEF Chan, Ctrl
  <2> HIDE DEF k
  <2>4. port \in Ports => Kept(chan[port], d)
    BY <1>0, <2>3 DEF Kept, Chan
  <2> HIDE DEF d
  <2> QED
    BY <1>0, <2>2, <2>4, OneKept
<1>6. CASE EndBlock
  <2>1. \E b : chan' = [chan EXCEPT ![port].base = b, ![port].transfer = None]
    BY <1>6 DEF EndBlock
  <2>2. PICK b : chan' = [chan EXCEPT ![port].base = b, ![port].transfer = None]
    BY <2>1
  <2> DEFINE d == [chan[port] EXCEPT !.base = b, !.transfer = None]
  <2>3. chan' = [chan EXCEPT ![port] = d]
    BY <1>0, <2>2
  <2>4. port \in Ports => Kept(chan[port], d)
    BY <1>0 DEF Kept, Chan
  <2> HIDE DEF d
  <2> QED
    BY <1>0, <2>3, <2>4, OneKept
<1>7. CASE Chop
  <2>1. \E b : chan' = [chan EXCEPT ![port].base = b]
    BY <1>7 DEF Chop
  <2>2. PICK b : chan' = [chan EXCEPT ![port].base = b]
    BY <2>1
  <2> DEFINE d == [chan[port] EXCEPT !.base = b]
  <2>3. chan' = [chan EXCEPT ![port] = d]
    BY <1>0, <2>2
  <2>4. port \in Ports => Kept(chan[port], d)
    BY <1>0 DEF Kept, Chan
  <2> HIDE DEF d
  <2> QED
    BY <1>0, <2>3, <2>4, OneKept
<1>8. LeaveChan \/ Resume => chan' = chan
  BY DEF LeaveChan, Resume
<1> QED
  BY <1>1, <1>2, <1>3, <1>4, <1>5, <1>6, <1>7, <1>8 DEF RunChan

\* One more entry.
LEMMA BuiltOn ==
  ASSUME NEW q \in Plan, NEW r \in Plan, NEW mem \in [0 .. RAM - 1 -> Header], NEW cur, NEW next,
         Built(q, mem), q.moved < q.want, q.want <= RAM, cur = (q.from - q.moved) % ADDR,
         r.want = q.want, r.from = q.from, r.moved = q.moved + 1,
         next = [mem EXCEPT ![cur % RAM] = Entry(q, q.moved)]
  PROVE  Built(r, next)
<1> DEFINE f == q.from
           m == q.moved
<1>1. f \in Int /\ m \in Nat /\ q.want \in Int /\ RAM \in Nat /\ RAM > 0
  BY DmaAssumption DEF Plan, Address
<1>2. cur % RAM = (f - m) % RAM
  <2> DEFINE x == f - m
  <2>1. x \in Int
    BY <1>1
  <2> HIDE DEF x
  <2>2. ((x % ADDR) + 0) % RAM = (x + 0) % RAM
    BY <2>1, Mirrored
  <2>3. x % ADDR \in Int /\ x + 0 = x
    BY <2>1, DmaAssumption
  <2>4. (x % ADDR) + 0 = x % ADDR
    BY <2>3
  <2>5. (x % ADDR) % RAM = x % RAM
    BY <2>2, <2>3, <2>4
  <2>6. cur = x % ADDR
    BY DEF x
  <2> QED
    BY <2>5, <2>6 DEF x
<1>3. \A i \in Int : (f - i) % RAM \in 0 .. RAM - 1
  BY <1>1
<1>4. \A i : Entry(r, i) = Entry(q, i)
  BY DEF Entry
<1>5. ASSUME NEW i \in 0 .. r.moved - 1 PROVE next[(r.from - i) % RAM] = Entry(r, i)
  <2>1. CASE i = m
    <3>1. (f - m) % RAM \in 0 .. RAM - 1
      BY <1>1
    <3>2. next[(f - m) % RAM] = Entry(q, m)
      BY <1>2, <3>1
    <3> QED
      BY <1>4, <2>1, <3>2
  <2>2. CASE i # m
    <3>1. i \in 0 .. m - 1 /\ i \in Int /\ m \in Int /\ i < m /\ m - i < RAM
      BY <1>1, <2>2
    <3>2. (f - i) % RAM # (f - m) % RAM
      BY <1>1, <3>1, Apart
    <3>3. (f - i) % RAM \in 0 .. RAM - 1
      BY <1>3, <3>1
    <3>4. next[(f - i) % RAM] = mem[(f - i) % RAM]
      BY <1>2, <3>2, <3>3
    <3>5. mem[(f - i) % RAM] = Entry(q, i)
      BY <3>1 DEF Built
    <3> QED
      BY <1>4, <3>4, <3>5
  <2> QED
    BY <2>1, <2>2
<1> QED
  BY <1>5 DEF Built

LEMMA WordTables ==
  ASSUME Inv, Tables, Word PROVE Tables'
<1> DEFINE u == [tran EXCEPT !.cursor = (@ + tran.inc) % ADDR, !.size = @ - 1]
           q == plan[port]
           m == IF q.want >= 0 THEN q.moved + 1 ELSE q.moved
           r == [q EXCEPT !.moved = m]
<1>1. /\ run.ports # <<>> /\ tran \in stat.transfer /\ tran \in Tran /\ tran.size > 0
      /\ stat \in Chan /\ chan \in [Ports -> Chan]
  BY BlockFacts DEF Word
<1>2. /\ port \in Ports /\ stat = chan[port] /\ ChanOK(stat)
      /\ q \in Plan /\ Accounted(stat, q, run.manual_done)
  BY <1>1, PortFacts
<1>3. plan \in [Ports -> Plan] /\ ram \in [0 .. RAM - 1 -> Header]
  BY DEF Inv, TypeOK
<1>4. \A p \in Ports : Kept(chan[p], chan'[p])
  <2>1. chan' = [chan EXCEPT ![port].transfer = {u}]
    BY DEF Word, Some
  <2> HIDE DEF u
  <2> DEFINE d == [chan[port] EXCEPT !.transfer = {u}]
  <2>2. chan' = [chan EXCEPT ![port] = d]
    BY <1>1, <2>1
  <2>3. Kept(chan[port], d)
    BY <1>1, <1>2 DEF Kept, Chan, None
  <2> HIDE DEF d
  <2> QED
    BY <1>1, <2>2, <2>3, OneKept
<1>5. plan' = [plan EXCEPT ![port] = r]
  <2>1. plan' = [plan EXCEPT ![port].moved = IF plan[port].want >= 0 THEN @ + 1 ELSE @]
    BY DEF Word
  <2> QED
    BY <1>2, <1>3, <2>1 DEF Plan
<1>6. m \in Nat /\ q.want \in Int /\ m = IF q.want >= 0 THEN q.moved + 1 ELSE q.moved
  BY <1>2 DEF Plan
<1> HIDE DEF m
<1>7. r \in Plan /\ r.want = q.want /\ r.from = q.from /\ r.moved = m
  BY <1>2, <1>6 DEF Plan
<1> HIDE DEF r, u
<1>8. plan'[port] = r /\ \A p \in Ports \ {port} : plan'[p] = plan[p]
  BY <1>2, <1>3, <1>5
<1>9. ASSUME NEW p \in Ports PROVE Shape(p, chan'[p], plan'[p])
  <2>1. plan'[p].want = plan[p].want
    BY <1>7, <1>8
  <2> QED
    BY <1>4, <2>1, KeptShape DEF Tables
<1>10. Building(port, stat.ctrl)
  BY <1>1, <1>2 DEF Tables, Shape, None
<1>11. ASSUME NEW p \in Ports, p = "otc" PROVE Table(chan'[p], plan'[p], ram')
  <2>1. Table(chan[p], plan[p], ram) /\ chan'[p].size = chan[p].size
    BY <1>4, <1>11 DEF Tables, Kept
  <2>2. CASE port # p
    <3>1. stat.ctrl.dir = "port"
      BY <1>10, <1>11, <2>2 DEF Building
    <3>2. ram' = ram
      BY <3>1 DEF Word
    <3> QED
      BY <1>8, <2>1, <2>2, <3>2 DEF Table
  <2>3. CASE port = p /\ q.want < 0
    <3>1. plan'[p].want < 0 /\ plan'[p].want <= RAM
      BY <1>6, <1>7, <1>8, <2>3, DmaAssumption
    <3> QED
      BY <1>6, <1>7, <1>8, <2>1, <2>3, <3>1 DEF Table
  <2>4. CASE port = p /\ q.want >= 0
    <3>1. stat.ctrl.dir = "ram" /\ stat.ctrl.step = -1 /\ stat.ctrl.mode = "manual"
      BY <1>10, <1>11, <2>4 DEF Building
    <3>2. /\ q.moved + Rem(stat, run.manual_done) = q.want /\ stat.ctrl.enabled
          /\ tran.cursor = Where(stat, q)
      BY <1>1, <1>2, <2>4 DEF Accounted, None
    <3>3. Rem(stat, run.manual_done) = tran.size
      BY <1>1, <1>2, <3>1, <3>2, RemCases
    <3>4. q.moved + tran.size = q.want /\ q.moved \in Nat /\ tran.size \in Nat /\ q.from \in Int
      BY <1>1, <1>2, <3>2, <3>3 DEF Plan, Tran, Address
    <3>5. tran.cursor = (q.from - q.moved) % ADDR
      <4>1. q.from + stat.ctrl.step * q.moved = q.from - q.moved
        BY <3>1, <3>4
      <4> QED
        BY <3>2, <4>1 DEF Where
    <3>6. dma_load = Entry(q, q.moved)
      <4> DEFINE x == q.from - q.moved
      <4>1. x \in Int /\ -1 \in Int /\ x % ADDR \in Int
        BY <3>4, DmaAssumption
      <4> HIDE DEF x
      <4>2. ((x % ADDR) + (-1)) % RAM = (x + (-1)) % RAM
        BY <4>1, Mirrored
      <4>3. (x % ADDR) + (-1) = (x % ADDR) - 1 /\ x + (-1) = x - 1
        BY <4>1
      <4>4. ((x % ADDR) - 1) % RAM = (x - 1) % RAM
        BY <4>2, <4>3
      <4>5. (tran.cursor - 1) % RAM = (q.from - q.moved - 1) % RAM
        BY <3>5, <4>4 DEF x
      <4>6. tran.size = 1 <=> q.moved = q.want - 1
        BY <1>6, <3>4
      <4> QED
        BY <1>11, <2>4, <4>5, <4>6 DEF dma_load, Entry
    <3>7. ram' = [ram EXCEPT ![tran.cursor % RAM] = Entry(q, q.moved)]
      BY <3>1, <3>6 DEF Word
    <3>8. Built(q, ram) /\ q.want <= RAM /\ q.moved < q.want /\ r.moved = q.moved + 1
      BY <1>1, <1>6, <1>7, <2>1, <2>4, <3>4 DEF Table
    <3>9. Built(r, ram')
      <4> DEFINE cur == tran.cursor
                 next == ram'
      <4>1. cur = (q.from - q.moved) % ADDR /\ next = [ram EXCEPT ![cur % RAM] = Entry(q, q.moved)]
        BY <3>5, <3>7
      <4> HIDE DEF cur, next
      <4>2. Built(r, next)
        BY <1>2, <1>3, <1>7, <3>8, <4>1, BuiltOn
      <4> QED
        BY <4>2 DEF next
    <3> QED
      BY <1>7, <1>8, <2>1, <2>4, <3>8, <3>9 DEF Table
  <2> QED
    BY <1>6, <2>2, <2>3, <2>4
<1> QED
  BY <1>9, <1>11 DEF Tables

LEMMA StoreTables ==
  ASSUME TablesOnly, Inv, Tables, StoreChan PROVE Tables'
<1>1. PICK p \in Ports :
        /\ \/ \E val \in Bases : chan' = [chan EXCEPT ![p].base = val]
           \/ \E val \in Blocks : chan' = [chan EXCEPT ![p].size = val[1], ![p].count = val[2]]
           \/ \E val \in Ctrls[p] : chan' = [chan EXCEPT ![p].ctrl = val]
        /\ plan' = [plan EXCEPT ![p] = planned(chan'[p])]
  BY DEF StoreChan
<1> DEFINE d == chan'[p]
<1>2. /\ chan \in [Ports -> Chan] /\ plan \in [Ports -> Plan] /\ chan[p] \in Chan /\ ram' = ram
      /\ Shape(p, chan[p], plan[p])
  BY DEF Inv, TypeOK, Tables, StoreChan
<1>3. \A x \in Ports \ {p} : chan'[x] = chan[x] /\ plan'[x] = plan[x]
  BY <1>1, <1>2
<1>4. /\ d.transfer = chan[p].transfer
      /\ (~d.ctrl.enabled /\ d.transfer = None) \/ Building(p, d.ctrl)
      /\ d.size = chan[p].size \/ d.size <= RAM
  <2>1. CASE \E val \in Bases : chan' = [chan EXCEPT ![p].base = val]
    <3>1. PICK val \in Bases : chan' = [chan EXCEPT ![p].base = val]
      BY <2>1
    <3>2. d.transfer = chan[p].transfer /\ d.size = chan[p].size /\ d.ctrl = chan[p].ctrl
      BY <1>2, <3>1 DEF Chan
    <3> QED
      BY <1>2, <3>2 DEF Shape
  <2>2. CASE \E val \in Blocks : chan' = [chan EXCEPT ![p].size = val[1], ![p].count = val[2]]
    <3>1. PICK val \in Blocks : chan' = [chan EXCEPT ![p].size = val[1], ![p].count = val[2]]
      BY <2>2
    <3> DEFINE m == val[1]
               n == val[2]
    <3>2. chan' = [chan EXCEPT ![p].size = m, ![p].count = n] /\ m <= RAM
      BY <3>1 DEF TablesOnly
    <3> HIDE DEF m, n
    <3>3. d.transfer = chan[p].transfer /\ d.size = m /\ d.ctrl = chan[p].ctrl
      BY <1>2, <3>2 DEF Chan
    <3> QED
      BY <1>2, <3>2, <3>3 DEF Shape
  <2>3. CASE \E val \in Ctrls[p] : chan' = [chan EXCEPT ![p].ctrl = val]
    <3>1. PICK val \in Ctrls[p] : chan' = [chan EXCEPT ![p].ctrl = val]
      BY <2>3
    <3>2. d.transfer = chan[p].transfer /\ d.size = chan[p].size /\ d.ctrl = val
      BY <1>2, <3>1 DEF Chan
    <3> QED
      BY <3>2 DEF TablesOnly
  <2> QED
    BY <1>1, <2>1, <2>2, <2>3
<1>5. plan'[p] = planned(d)
  BY <1>1, <1>2
<1> HIDE DEF d
<1> DEFINE known == d.ctrl.enabled /\ d.transfer = None /\ d.ctrl.mode # "list"
<1>6. /\ known => Building(p, d.ctrl)
      /\ ~known => planned(d) = NoPlan
      /\ known => planned(d) = [want |-> IF d.ctrl.mode = "manual" THEN d.size ELSE d.count * d.size,
                               moved |-> 0, from |-> word(d.base)]
  BY <1>4 DEF planned
<1>7. Shape(p, d, planned(d))
  <2>1. NoPlan.want < 0
    BY DEF NoPlan
  <2> QED
    BY <1>4, <1>6, <2>1 DEF Shape
<1>8. ASSUME p = "otc" PROVE Table(d, planned(d), ram)
  <2>1. d.size <= RAM
    BY <1>2, <1>4, <1>8 DEF Tables, Table
  <2>2. CASE known
    <3>1. d.ctrl.mode = "manual"
      BY <1>6, <1>8, <2>2 DEF Building
    <3>2. planned(d) = [want |-> d.size, moved |-> 0, from |-> word(d.base)]
      BY <1>6, <2>2, <3>1
    <3>3. planned(d).want = d.size /\ planned(d).moved = 0
      BY <3>2
    <3>4. 0 .. planned(d).moved - 1 = {}
      BY <3>3
    <3> QED
      BY <2>1, <3>3, <3>4 DEF Table, Built
  <2>3. CASE ~known
    <3>1. planned(d).want = -1
      BY <1>6, <2>3 DEF NoPlan
    <3> QED
      BY <2>1, <3>1, DmaAssumption DEF Table
  <2> QED
    BY <2>2, <2>3
<1>9. ASSUME NEW x \in Ports
      PROVE  Shape(x, chan'[x], plan'[x]) /\ (x = "otc" => Table(chan'[x], plan'[x], ram'))
  <2>1. CASE x = p
    BY <1>2, <1>5, <1>7, <1>8, <2>1 DEF d
  <2>2. CASE x # p
    BY <1>2, <1>3, <2>2 DEF Tables
  <2> QED
    BY <2>1, <2>2
<1> QED
  BY <1>9 DEF Tables

LEMMA InitTables == Init => Tables
<1> SUFFICES ASSUME Init PROVE Tables
  OBVIOUS
<1>1. ASSUME NEW p \in Ports
      PROVE  /\ chan[p].transfer = None /\ chan[p].ctrl.enabled = FALSE /\ chan[p].size = 0
             /\ plan[p] = NoPlan
  BY DEF Init
<1>2. NoPlan.want = -1
  BY DEF NoPlan
<1>3. RAM \in Nat
  BY DmaAssumption
<1>4. ASSUME NEW p \in Ports PROVE Shape(p, chan[p], plan[p]) /\ Table(chan[p], plan[p], ram)
  <2>1. plan[p].want = -1
    BY <1>1, <1>2
  <2>2. plan[p].want < 0 /\ plan[p].want <= RAM /\ ~(plan[p].want >= 0)
    BY <1>3, <2>1
  <2>3. Shape(p, chan[p], plan[p])
    BY <1>1, <2>2 DEF Shape
  <2>4. chan[p].size <= RAM
    <3>1. chan[p].size = 0
      BY <1>1
    <3> QED
      BY <1>3, <3>1
  <2> QED
    BY <2>2, <2>3, <2>4 DEF Table
<1> QED
  BY <1>4 DEF Tables

(* A table the ordering-table channel has finished is a list through all of *)
(* its entries, of any length that fits in RAM and wherever it wraps, as    *)
(* long as the guest sets it up as the hardware does and no device writes   *)
(* to RAM (dma.rs:714-716).                                                 *)
THEOREM TablesAreChains == ASSUME ManualAtOnce, TablesOnly PROVE Spec => []TableIsChain
<1>1. Inv /\ Tables /\ [Next]_vars => Tables'
  <2> SUFFICES ASSUME Inv, Tables, [Next]_vars PROVE Tables'
    OBVIOUS
  <2>1. CASE Word
    BY <2>1, WordTables
  <2>2. CASE StoreChan
    BY <2>2, StoreTables
  <2>3. CASE RunChan /\ ~Word
    <3>1. plan' = plan /\ ram' = ram
      BY <2>3 DEF RunChan, LeaveChan, Resume, StartManual, StartRequest, FollowList, Finish, EndBlock,
                  Chop, KeepRest
    <3> QED
      BY <2>3, <3>1, RunKeeps, KeptTables
  <2>4. CASE Load \/ StoreIrq \/ RunDmaChan \/ GpuStore \/ UNCHANGED vars
    <3>1. chan' = chan /\ plan' = plan /\ ram' = ram
      BY <2>4 DEF Load, StoreIrq, RunDmaChan, GpuStore, KeepRest, vars
    <3> QED
      BY <3>1, KeptTables DEF Kept
  <2> QED
    BY <2>1, <2>2, <2>3, <2>4 DEF Next
<1>2. Inv /\ Tables => TableIsChain
  <2> SUFFICES ASSUME Inv, Tables, "otc" \in Ports, TableDone("otc"),
                      NEW i \in 0 .. plan["otc"].want - 1
               PROVE  ram[(plan["otc"].from - i) % RAM] =
                        [link |-> IF i = plan["otc"].want - 1 THEN END
                                  ELSE (plan["otc"].from - i - 1) % RAM, size |-> 0]
    BY DEF TableIsChain
  <2>1. plan["otc"] \in Plan /\ Table(chan["otc"], plan["otc"], ram)
    BY DEF Inv, TypeOK, Tables
  <2>2. plan["otc"].want > 0 /\ plan["otc"].want = plan["otc"].moved /\ plan["otc"].want \in Int
    BY <2>1 DEF TableDone, Plan
  <2>3. Built(plan["otc"], ram) /\ i \in 0 .. plan["otc"].moved - 1
    BY <2>1, <2>2 DEF Table
  <2> QED
    BY <2>3 DEF Built, Entry
<1> QED
  BY <1>1, <1>2, InitTables, Invariance, PTL DEF Spec

-----------------------------------------------------------------------------
(* The port that takes the blocks of the GPU's channel, by itself: the     *)
(* commands executed are those sent, with all their words.                 *)
PWord == [cmd : Cmds, dim : Nat]

\* The FIFO holds the commands sent, one after the other from pos[i] on, but for
\* the last a words of the last one.
Frames(fifo, sent, a, pos) ==
  /\ pos[1] = 1 /\ pos[Len(sent) + 1] = Len(fifo) + 1 + a
  /\ \A i \in 1 .. Len(sent) : /\ pos[i + 1] = pos[i] + Len_[sent[i]]
                               /\ pos[i] <= Len(fifo) /\ fifo[pos[i]].cmd = sent[i]
  /\ \A i, j \in 1 .. Len(sent) + 1 : i <= j => pos[i] <= pos[j]

Framed(fifo, sent, a) == \E pos \in [1 .. Len(sent) + 1 -> Nat] : Frames(fifo, sent, a, pos)

LEMMA LenType == ASSUME Parameters, NEW c \in Cmds PROVE Len_[c] \in Nat /\ Len_[c] >= 1 /\ Len_[c] <= SIZE
BY DEF Parameters

LEMMA FrameNone ==
  ASSUME NEW fifo \in Seq(PWord), NEW a \in Nat
  PROVE  Framed(fifo, <<>>, a) <=> fifo = <<>> /\ a = 0
<1>1. ASSUME Framed(fifo, <<>>, a) PROVE fifo = <<>> /\ a = 0
  <2>1. PICK pos \in [1 .. 1 -> Nat] : Frames(fifo, <<>>, a, pos)
    BY <1>1 DEF Framed
  <2>2. Len(fifo) \in Nat /\ 1 = Len(fifo) + 1 + a
    BY <2>1 DEF Frames
  <2> QED
    BY <2>2, EmptySeq
<1>2. ASSUME fifo = <<>>, a = 0 PROVE Framed(fifo, <<>>, a)
  <2> DEFINE pos == [i \in 1 .. 1 |-> 1]
  <2>1. pos \in [1 .. Len(<<>>) + 1 -> Nat] /\ Frames(fifo, <<>>, a, pos)
    BY <1>2 DEF Frames
  <2> QED
    BY <2>1 DEF Framed
<1> QED
  BY <1>1, <1>2

LEMMA FrameBegin ==
  ASSUME Parameters, NEW fifo \in Seq(PWord), NEW sent \in Seq(Cmds), NEW w \in PWord,
         Framed(fifo, sent, 0)
  PROVE  Framed(Append(fifo, w), Append(sent, w.cmd), Len_[w.cmd] - 1)
<1> DEFINE n == Len(sent)
           f == Append(fifo, w)
           s == Append(sent, w.cmd)
           l == Len_[w.cmd]
<1>1. PICK pos \in [1 .. n + 1 -> Nat] : Frames(fifo, sent, 0, pos)
  BY DEF Framed
<1>2. w.cmd \in Cmds /\ l \in Nat /\ l >= 1 /\ n \in Nat
  BY LenType DEF PWord
<1>3. /\ Len(f) = Len(fifo) + 1 /\ Len(s) = n + 1 /\ Len(fifo) \in Nat
      /\ \A i \in 1 .. Len(fifo) : f[i] = fifo[i]
      /\ f[Len(fifo) + 1] = w
      /\ \A i \in 1 .. n : s[i] = sent[i]
      /\ s[n + 1] = w.cmd
  BY <1>2, AppendProperties
<1> DEFINE q == [i \in 1 .. n + 2 |-> IF i <= n + 1 THEN pos[i] ELSE pos[n + 1] + l]
<1>4. pos[1] = 1 /\ pos[n + 1] = Len(fifo) + 1
  BY <1>1, <1>3 DEF Frames
<1>5. /\ \A i \in 1 .. n : /\ pos[i + 1] = pos[i] + Len_[sent[i]]
                           /\ pos[i] <= Len(fifo) /\ fifo[pos[i]].cmd = sent[i]
      /\ \A i, j \in 1 .. n + 1 : i <= j => pos[i] <= pos[j]
  BY <1>1 DEF Frames
<1> HIDE DEF n, f, s, l
<1>6. /\ q \in [1 .. n + 2 -> Nat] /\ q[n + 2] = pos[n + 1] + l
      /\ \A i \in 1 .. n + 1 : q[i] = pos[i]
  BY <1>2, <1>4, <1>3
<1> HIDE DEF q
<1>7. ASSUME NEW i \in 1 .. n + 1
      PROVE  q[i + 1] = q[i] + Len_[s[i]] /\ q[i] <= Len(f) /\ f[q[i]].cmd = s[i]
  <2>1. CASE i = n + 1
    BY <1>2, <1>3, <1>4, <1>6, <2>1 DEF l
  <2>2. CASE i # n + 1
    <3>1. i \in 1 .. n /\ i \in 1 .. n + 1 /\ i + 1 \in 1 .. n + 1
      BY <1>2, <2>2
    <3>2. pos[i] \in 1 .. Len(fifo)
      <4>1. pos[1] <= pos[i] /\ pos[i] <= Len(fifo) /\ pos[i] \in Nat
        BY <1>2, <1>5, <3>1
      <4> QED
        BY <1>3, <1>4, <4>1
    <3>3. q[i + 1] = pos[i + 1] /\ q[i] = pos[i] /\ s[i] = sent[i] /\ f[pos[i]] = fifo[pos[i]]
      BY <1>3, <1>6, <3>1, <3>2
    <3> QED
      BY <1>3, <1>5, <3>1, <3>2, <3>3
  <2> QED
    BY <2>1, <2>2
<1>8. ASSUME NEW i \in 1 .. n + 2, NEW j \in 1 .. n + 2, i <= j PROVE q[i] <= q[j]
  <2>1. CASE j <= n + 1
    BY <1>2, <1>5, <1>6, <1>8, <2>1
  <2>2. CASE j = n + 2 /\ i <= n + 1
    <3>1. pos[i] <= pos[n + 1] /\ pos[i] \in Nat /\ pos[n + 1] \in Nat
      BY <1>2, <1>5, <2>2
    <3> QED
      BY <1>2, <1>6, <2>2, <3>1
  <2>3. CASE j = n + 2 /\ i = n + 2
    BY <1>6, <2>3
  <2> QED
    BY <1>2, <2>1, <2>2, <2>3
<1>9. Frames(f, s, l - 1, q)
  <2>1. q[1] = 1 /\ q[Len(s) + 1] = Len(f) + 1 + (l - 1)
    BY <1>2, <1>3, <1>4, <1>6
  <2> QED
    BY <1>2, <1>3, <1>7, <1>8, <2>1 DEF Frames
<1>10. q \in [1 .. Len(s) + 1 -> Nat]
  BY <1>2, <1>3, <1>6
<1> QED
  BY <1>9, <1>10 DEF Framed, f, s, l

LEMMA FrameArgument ==
  ASSUME NEW fifo \in Seq(PWord), NEW sent \in Seq(Cmds), NEW w \in PWord,
         NEW a \in Nat \ {0}, Framed(fifo, sent, a)
  PROVE  Framed(Append(fifo, w), sent, a - 1)
<1> DEFINE n == Len(sent)
           f == Append(fifo, w)
<1>1. PICK pos \in [1 .. n + 1 -> Nat] : Frames(fifo, sent, a, pos)
  BY DEF Framed
<1>2. n \in Nat /\ Len(fifo) \in Nat /\ Len(f) = Len(fifo) + 1 /\ \A i \in 1 .. Len(fifo) : f[i] = fifo[i]
  BY AppendProperties
<1>3. /\ pos[1] = 1 /\ pos[n + 1] = Len(fifo) + 1 + a
      /\ \A i \in 1 .. n : /\ pos[i + 1] = pos[i] + Len_[sent[i]]
                           /\ pos[i] <= Len(fifo) /\ fifo[pos[i]].cmd = sent[i]
      /\ \A i, j \in 1 .. n + 1 : i <= j => pos[i] <= pos[j]
  BY <1>1 DEF Frames
<1> HIDE DEF n, f
<1>4. ASSUME NEW i \in 1 .. n PROVE pos[i] <= Len(f) /\ f[pos[i]].cmd = sent[i]
  <2>1. 1 \in 1 .. n + 1 /\ i \in 1 .. n + 1 /\ 1 <= i
    BY <1>2
  <2>2. pos[1] <= pos[i] /\ pos[i] <= Len(fifo) /\ pos[i] \in Nat
    BY <1>3, <2>1
  <2>3. pos[i] \in 1 .. Len(fifo)
    BY <1>2, <1>3, <2>2
  <2>4. f[pos[i]] = fifo[pos[i]] /\ fifo[pos[i]].cmd = sent[i]
    BY <1>2, <1>3, <2>3
  <2>5. pos[i] <= Len(f)
    BY <1>2, <2>2
  <2> QED
    BY <2>4, <2>5
<1>5. pos[n + 1] = Len(f) + 1 + (a - 1)
  BY <1>2, <1>3
<1>6. Frames(f, sent, a - 1, pos)
  BY <1>3, <1>4, <1>5 DEF Frames, n
<1> QED
  BY <1>6 DEF Framed, f, n

LEMMA FrameHead ==
  ASSUME Parameters, NEW fifo \in Seq(PWord), NEW sent \in Seq(Cmds), NEW a \in Nat,
         Framed(fifo, sent, a), sent # <<>>
  PROVE  /\ fifo # <<>> /\ Head(fifo).cmd = Head(sent)
         /\ a = 0 => Len_[Head(sent)] <= Len(fifo)
         /\ Len(sent) = 1 => Len_[Head(sent)] = Len(fifo) + a
         /\ Len_[Head(sent)] <= Len(fifo) =>
              Framed(SubSeq(fifo, Len_[Head(sent)] + 1, Len(fifo)), Tail(sent), a)
<1> DEFINE n == Len(sent)
           L == Len(fifo)
           l == Len_[Head(sent)]
           f == SubSeq(fifo, l + 1, L)
           s == Tail(sent)
<1>1. PICK pos \in [1 .. n + 1 -> Nat] : Frames(fifo, sent, a, pos)
  BY DEF Framed
<1>2. /\ n \in Nat /\ n >= 1 /\ L \in Nat /\ Head(sent) = sent[1] /\ sent[1] \in Cmds
      /\ s \in Seq(Cmds) /\ Len(s) = n - 1 /\ \A i \in 1 .. n - 1 : s[i] = sent[i + 1]
  BY EmptySeq, HeadTailProperties
<1>3. l \in Nat /\ l >= 1
  BY <1>2, LenType
<1>4. /\ pos[1] = 1 /\ pos[n + 1] = L + 1 + a
      /\ \A i \in 1 .. n : /\ pos[i + 1] = pos[i] + Len_[sent[i]]
                           /\ pos[i] <= L /\ fifo[pos[i]].cmd = sent[i]
      /\ \A i, j \in 1 .. n + 1 : i <= j => pos[i] <= pos[j]
  BY <1>1 DEF Frames
<1> HIDE DEF n, L, s
<1>5. 1 \in 1 .. n /\ 1 \in 1 .. n + 1 /\ 2 \in 1 .. n + 1 /\ n + 1 \in 1 .. n + 1
  BY <1>2
<1>6. 1 <= L /\ fifo[1].cmd = sent[1] /\ pos[2] = 1 + l
  BY <1>2, <1>4, <1>5
<1>7. fifo # <<>> /\ Head(fifo) = fifo[1]
  BY <1>6, EmptySeq, HeadTailProperties DEF L
<1>8. ASSUME a = 0 PROVE l <= L
  <2>1. pos[2] <= pos[n + 1]
    BY <1>2, <1>4, <1>5
  <2> QED
    BY <1>2, <1>3, <1>4, <1>6, <1>8, <2>1
<1>9. ASSUME n = 1 PROVE l = L + a
  BY <1>2, <1>3, <1>4, <1>6, <1>9
<1>10. ASSUME l <= L PROVE Framed(f, s, a)
  <2> DEFINE q == [i \in 1 .. n |-> pos[i + 1] - l]
  <2>1. /\ Len(f) = L - l /\ \A i \in 1 .. L - l : f[i] = fifo[l + i]
    <3> HIDE DEF l
    <3>1. l + 1 \in 1 .. L + 1 /\ L \in l .. L
      BY <1>2, <1>3, <1>10
    <3>2. Len(f) = L - l /\ \A i \in 1 .. L - l : f[i] = fifo[i + (l + 1) - 1]
      <4>1. l + 1 \in 1 .. Len(fifo) + 1 /\ L \in (l + 1) - 1 .. Len(fifo)
        BY <1>2, <1>3, <3>1 DEF L
      <4>2. /\ Len(f) = L - (l + 1) + 1
            /\ \A i \in 1 .. L - (l + 1) + 1 : f[i] = fifo[(l + 1) + i - 1]
        BY <4>1, SubSeqProperties
      <4>3. L - (l + 1) + 1 = L - l /\ \A i \in 1 .. L - l : (l + 1) + i - 1 = i + (l + 1) - 1
        BY <1>2, <1>3
      <4> HIDE DEF f
      <4> QED
        BY <4>2, <4>3
    <3>3. ASSUME NEW i \in 1 .. L - l PROVE f[i] = fifo[l + i]
      <4>1. f[i] = fifo[i + (l + 1) - 1]
        BY <3>2
      <4>2. i + (l + 1) - 1 = l + i
        BY <1>2, <1>3
      <4> QED
        BY <4>1, <4>2
    <3> QED
      BY <3>2, <3>3
  <2>2. ASSUME NEW i \in 1 .. n PROVE pos[i + 1] \in Nat /\ pos[i + 1] >= 1 + l
    <3>1. i + 1 \in 1 .. n + 1 /\ 2 <= i + 1
      BY <1>2
    <3>2. pos[2] <= pos[i + 1]
      BY <1>4, <1>5, <3>1
    <3> QED
      BY <1>3, <1>6, <3>1, <3>2
  <2> HIDE DEF l, f
  <2>3. q \in [1 .. n -> Nat] /\ \A i \in 1 .. n : q[i] = pos[i + 1] - l
    BY <1>3, <2>2
  <2> HIDE DEF q
  <2>4. ASSUME NEW i \in 1 .. n - 1
        PROVE  q[i + 1] = q[i] + Len_[s[i]] /\ q[i] <= Len(f) /\ f[q[i]].cmd = s[i]
    <3>1. i \in 1 .. n /\ i + 1 \in 1 .. n /\ i + 1 \in Nat /\ (i + 1) + 1 \in 1 .. n + 1 /\ s[i] = sent[i + 1]
      BY <1>2
    <3>2. /\ pos[(i + 1) + 1] = pos[i + 1] + Len_[sent[i + 1]] /\ pos[i + 1] <= L
          /\ fifo[pos[i + 1]].cmd = sent[i + 1]
      BY <1>4, <3>1
    <3>3. q[i] = pos[i + 1] - l /\ q[i + 1] = pos[(i + 1) + 1] - l
      BY <2>3, <3>1
    <3>4. pos[i + 1] \in Nat /\ pos[i + 1] >= 1 + l /\ sent[i + 1] \in Cmds
      BY <1>2, <2>2, <3>1 DEF n
    <3>5. Len_[sent[i + 1]] \in Nat
      BY <3>4, LenType
    <3>6. q[i] \in 1 .. L - l /\ l + q[i] = pos[i + 1]
      <4>1. L \in Nat /\ l \in Nat /\ pos[i + 1] \in Nat /\ pos[i + 1] >= 1 + l /\ pos[i + 1] <= L
        BY <1>2, <1>3, <3>2, <3>4
      <4>2. q[i] = pos[i + 1] - l
        BY <3>3
      <4> QED
        BY <4>1, <4>2
    <3>7. f[q[i]] = fifo[pos[i + 1]]
      BY <2>1, <3>6
    <3> QED
      <4>1. q[i + 1] = q[i] + Len_[s[i]]
        BY <1>3, <3>1, <3>2, <3>3, <3>4, <3>5
      <4>2. q[i] <= Len(f)
        BY <1>2, <1>3, <2>1, <3>6
      <4> QED
        BY <3>1, <3>2, <3>7, <4>1, <4>2
  <2>5. ASSUME NEW i \in 1 .. n, NEW j \in 1 .. n, i <= j PROVE q[i] <= q[j]
    <3>1. i + 1 \in 1 .. n + 1 /\ j + 1 \in 1 .. n + 1 /\ i + 1 <= j + 1
      BY <1>2, <2>5
    <3>2. pos[i + 1] <= pos[j + 1]
      BY <1>4, <3>1
    <3> QED
      BY <1>3, <2>2, <2>3, <3>2
  <2>6. q[1] = 1 /\ q[n] = (L - l) + 1 + a
    <3>1. 1 \in 1 .. n /\ n \in 1 .. n /\ q[1] = pos[1 + 1] - l /\ q[n] = pos[n + 1] - l
      BY <1>2, <2>3
    <3> QED
      BY <1>2, <1>3, <1>4, <1>6, <3>1
  <2>7. Len(s) + 1 = n /\ Len(s) = n - 1
    BY <1>2
  <2>8. Frames(f, s, a, q)
    BY <2>1, <2>4, <2>5, <2>6, <2>7 DEF Frames
  <2> QED
    BY <2>3, <2>7, <2>8 DEF Framed
<1> QED
  BY <1>2, <1>6, <1>7, <1>8, <1>9, <1>10 DEF n, L, s

-----------------------------------------------------------------------------
PortType(g) ==
  g \in [state : {"idle", "drawing", "store", "load"}, left : Nat, fifo : Seq(PWord),
         words_left : SUBSET Nat, sent : Seq(Cmds), in_step : BOOLEAN, incomplete : BOOLEAN]
GuestType(q) == q \in [args : Nat, data : Nat, image : Nat, count : Nat, kind : {"polls", "counts"}]

\* A port that stores an image has nothing else to do.
Storing(g, q) ==
  g.state = "store" => g.fifo = <<>> /\ q.args = 0 /\ g.left >= 1 /\ q.data = (g.left + 1) \div 2

\* Nothing is sent behind an image that is yet to be sent.
Copying(g, q) ==
  \A i \in 1 .. Len(g.sent) : g.sent[i] = "copy" =>
    /\ i = Len(g.sent) /\ q.image >= 1 /\ q.data = (q.image + 1) \div 2
    /\ q.args = 0 => g.fifo[Len(g.fifo)].dim = q.image

Sent(g, q) ==
  /\ g.in_step /\ ~g.incomplete
  /\ Framed(g.fifo, g.sent, q.args) /\ Copying(g, q)

Fits(g, q) ==
  /\ g.words_left = IF q.args = 0 THEN {} ELSE {q.args}
  /\ Len(g.fifo) + q.args <= SIZE

PortGood(g, q) == PortType(g) /\ GuestType(q) /\ Storing(g, q) /\ Sent(g, q) /\ Fits(g, q)

\* The command at the head is the next one sent, and it is there as a whole.
LEMMA ExecGood ==
  ASSUME Parameters, NEW g, NEW q, PortGood(g, q), g.state = "idle", has_full_cmd(g)
  PROVE  PortGood(gp0_exec(g), q)
<1> DEFINE head == Head(g.fifo)
           n == Len_[head.cmd]
           f == SubSeq(g.fifo, n + 1, Len(g.fifo))
           s == Tail(g.sent)
<1>1. PortType(g) /\ GuestType(q) /\ Sent(g, q) /\ Fits(g, q)
  BY DEF PortGood
<1>2. /\ g.fifo \in Seq(PWord) /\ g.sent \in Seq(Cmds) /\ q.args \in Nat /\ g.left \in Nat
      /\ g.in_step = TRUE /\ g.incomplete = FALSE
  BY <1>1 DEF PortType, GuestType, Sent
<1>3. g.fifo # <<>> /\ n <= Len(g.fifo)
  BY DEF has_full_cmd
<1>4. g.sent # <<>>
  BY <1>1, <1>2, <1>3, FrameNone DEF Sent
<1>5. head.cmd = Head(g.sent) /\ Framed(f, s, q.args)
      /\ (Len(g.sent) = 1 => n = Len(g.fifo) + q.args)
  BY <1>1, <1>2, <1>3, <1>4, FrameHead DEF Sent
<1>6. /\ s \in Seq(Cmds) /\ Len(s) = Len(g.sent) - 1 /\ Len(g.sent) \in Nat /\ Len(g.sent) >= 1
      /\ \A i \in 1 .. Len(s) : s[i] = g.sent[i + 1]
      /\ Head(g.sent) = g.sent[1] /\ g.sent[1] \in Cmds
  BY <1>2, <1>4, EmptySeq, HeadTailProperties
<1>7. n \in Nat /\ n >= 1 /\ Len(g.fifo) \in Nat
  BY <1>2, <1>5, <1>6, LenType
<1>8. /\ f \in Seq(PWord) /\ Len(f) = Len(g.fifo) - n
      /\ \A i \in 1 .. Len(f) : f[i] = g.fifo[n + i]
  <2> HIDE DEF n
  <2>1. \A i \in n + 1 .. Len(g.fifo) : g.fifo[i] \in PWord
    BY <1>2, <1>7
  <2>2. /\ f \in Seq(PWord) /\ Len(f) = Len(g.fifo) - n
        /\ \A i \in 1 .. Len(g.fifo) - (n + 1) + 1 : f[i] = g.fifo[(n + 1) + i - 1]
    BY <1>3, <1>7, <2>1, SubSeqProperties
  <2>3. ASSUME NEW i \in 1 .. Len(f) PROVE f[i] = g.fifo[n + i]
    <3>1. i \in 1 .. Len(g.fifo) - (n + 1) + 1 /\ (n + 1) + i - 1 = n + i
      BY <1>7, <2>2
    <3> QED
      BY <2>2, <3>1
  <2> QED
    BY <2>2, <2>3
<1>9. Copying(g, q) /\ \A i \in 1 .. Len(s) : s[i] = "copy" => g.sent[i + 1] = "copy"
  BY <1>1, <1>6 DEF Sent
<1> DEFINE d == g.fifo[n].dim
           C(st, lf) == [state |-> st, left |-> lf, fifo |-> f, words_left |-> g.words_left,
                         sent |-> s, in_step |-> TRUE, incomplete |-> FALSE]
<1>10. d \in Nat
  <2> HIDE DEF n
  <2>1. n \in 1 .. Len(g.fifo)
    BY <1>3, <1>7
  <2>2. g.fifo[n] \in PWord
    BY <1>2, <2>1
  <2> QED
    BY <2>2 DEF PWord
<1>11. gp0_exec(g) = CASE head.cmd \in {"rect", "poly"} -> C("drawing", g.left)
                      [] head.cmd = "copy" -> C("store", d)
                      [] head.cmd = "read" -> C("load", d)
                      [] OTHER -> C("idle", g.left)
  <2> DEFINE done == [drop(g, n) EXCEPT !.incomplete = @ \/ ~has_full_cmd(g),
                        !.in_step = @ /\ g.sent # <<>> /\ Head(g.sent) = head.cmd,
                        !.sent = IF @ = <<>> THEN @ ELSE Tail(@)]
  <2>1. gp0_exec(g) = CASE head.cmd \in {"rect", "poly"} -> [done EXCEPT !.state = "drawing"]
                        [] head.cmd = "copy" -> [done EXCEPT !.state = "store", !.left = d]
                        [] head.cmd = "read" -> [done EXCEPT !.state = "load", !.left = d]
                        [] OTHER -> done
    BY DEF gp0_exec
  <2>2. done = C("idle", g.left)
    <3>1. drop(g, n) = [g EXCEPT !.fifo = f]
      BY DEF drop
    <3> HIDE DEF f, n, head
    <3>2. done = [g EXCEPT !.fifo = f, !.incomplete = FALSE, !.in_step = TRUE, !.sent = s]
      BY <1>1, <1>2, <1>4, <1>5, <3>1 DEF PortType
    <3> HIDE DEF done, s
    <3> QED
      BY <1>1, <1>2, <3>2 DEF PortType
  <2> HIDE DEF done, f, d, s, head
  <2> QED
    BY <2>1, <2>2
<1> HIDE DEF d, f, s, n
<1>12. ASSUME NEW st \in {"idle", "drawing", "store", "load"}, NEW lf \in Nat, Storing(C(st, lf), q)
       PROVE  PortGood(C(st, lf), q)
  <2> DEFINE c == C(st, lf)
  <2>1. PortType(c) /\ c.fifo = f /\ c.sent = s /\ c.words_left = g.words_left /\ c.in_step /\ ~c.incomplete
    BY <1>1, <1>6, <1>8 DEF PortType
  <2> HIDE DEF c
  <2>2. Fits(c, q)
    <3>1. g.words_left = (IF q.args = 0 THEN {} ELSE {q.args}) /\ Len(g.fifo) + q.args <= SIZE
      BY <1>1 DEF Fits
    <3>2. SIZE \in Nat /\ Len(f) + q.args <= SIZE
      BY <1>2, <1>7, <1>8, <3>1 DEF Parameters
    <3> QED
      BY <2>1, <3>1, <3>2 DEF Fits
  <2>3. Copying(c, q)
    <3> SUFFICES ASSUME NEW i \in 1 .. Len(s), s[i] = "copy"
                 PROVE  /\ i = Len(s) /\ q.image >= 1 /\ q.data = (q.image + 1) \div 2
                        /\ q.args = 0 => f[Len(f)].dim = q.image
      BY <2>1 DEF Copying
    <3>1. i + 1 \in 1 .. Len(g.sent) /\ g.sent[i + 1] = "copy"
      BY <1>6, <1>9
    <3>2. /\ i + 1 = Len(g.sent) /\ q.image >= 1 /\ q.data = (q.image + 1) \div 2
          /\ q.args = 0 => g.fifo[Len(g.fifo)].dim = q.image
      BY <1>9, <3>1 DEF Copying
    <3>3. i = Len(s)
      BY <1>6, <3>2
    <3>4. s # <<>>
      BY <1>6, EmptySeq
    <3>5. f # <<>>
      BY <1>2, <1>5, <1>6, <1>8, <3>4, FrameHead
    <3>6. Len(f) \in 1 .. Len(f) /\ n + Len(f) = Len(g.fifo)
      BY <1>7, <1>8, <3>5, EmptySeq
    <3> QED
      BY <1>8, <3>2, <3>3, <3>6
  <2> QED
    BY <1>1, <1>5, <1>12, <2>1, <2>2, <2>3 DEF PortGood, Sent, c
<1>13. CASE head.cmd = "copy"
  <2>1. 1 \in 1 .. Len(g.sent) /\ g.sent[1] = "copy"
    BY <1>5, <1>6, <1>13
  <2>2. /\ 1 = Len(g.sent) /\ q.image >= 1 /\ q.data = (q.image + 1) \div 2
        /\ q.args = 0 => g.fifo[Len(g.fifo)].dim = q.image
    BY <1>9, <2>1 DEF Copying
  <2>3. q.args = 0 /\ n = Len(g.fifo)
    BY <1>2, <1>3, <1>5, <1>7, <2>2 DEF n
  <2>4. d = q.image
    BY <2>2, <2>3 DEF d
  <2>5. f = <<>>
    BY <1>7, <1>8, <2>3, EmptySeq
  <2>6. Storing(C("store", d), q)
    BY <2>2, <2>3, <2>4, <2>5 DEF Storing
  <2> QED
    BY <1>10, <1>11, <1>12, <1>13, <2>6
<1>14. CASE head.cmd # "copy"
  <2>1. /\ Storing(C("drawing", g.left), q) /\ Storing(C("load", d), q)
        /\ Storing(C("idle", g.left), q)
    BY DEF Storing
  <2>2. /\ PortGood(C("drawing", g.left), q) /\ PortGood(C("load", d), q)
        /\ PortGood(C("idle", g.left), q)
    BY <1>2, <1>10, <1>12, <2>1
  <2> HIDE DEF C
  <2> QED
    BY <1>11, <1>14, <2>2
<1> QED
  BY <1>13, <1>14

-----------------------------------------------------------------------------
\* A word pushed in idle or drawing state, of a command begun or its argument:
\* h is the port with the command noted as sent.
LEMMA PushGood ==
  ASSUME Parameters, NEW h, NEW q, NEW val \in PWord, NEW k \in Nat \ {0}, PortType(h), GuestType(q),
         h.state \in {"idle", "drawing"}, h.in_step, ~h.incomplete,
         Len(h.fifo) + k <= SIZE, q.args = k - 1,
         \/ h.words_left = {} /\ k = Len_[val.cmd] /\ ~is_imm(val.cmd)
         \/ h.words_left = {k},
         Framed(Append(h.fifo, val), h.sent, k - 1),
         \A i \in 1 .. Len(h.sent) : h.sent[i] = "copy" =>
           /\ i = Len(h.sent) /\ q.image >= 1 /\ q.data = (q.image + 1) \div 2
           /\ q.args = 0 => val.dim = q.image
  PROVE  PortGood(gp0_store(h, val), q)
<1> DEFINE wl == IF k = 1 THEN {} ELSE {k - 1}
           f == Append(h.fifo, val)
           p == [h EXCEPT !.fifo = f, !.words_left = wl]
<1>1. /\ h.fifo \in Seq(PWord) /\ Len(h.fifo) \in Nat /\ SIZE \in Nat /\ val.cmd \in Cmds
      /\ Len(f) = Len(h.fifo) + 1 /\ f \in Seq(PWord) /\ f[Len(f)] = val /\ f # <<>>
  BY AppendProperties DEF PortType, Parameters, PWord
<1>2. ~is_full(h)
  BY <1>1 DEF is_full
<1>3. (IF h.words_left = None THEN Len_[val.cmd] ELSE The(h.words_left)) = k
  BY DEF None, The
<1>4. ~(is_imm(val.cmd) /\ (is_full(h) \/ h.words_left = None))
  BY <1>2 DEF None
<1>5. push_action(h, val) = IF k = 1 THEN "FullCmd" ELSE "None"
  BY <1>2, <1>3, <1>4 DEF push_action
<1>6. push_cmd(h, val) = p
  <2>1. push(h, val) = [h EXCEPT !.fifo = f]
    BY <1>2 DEF push
  <2>2. push_cmd(h, val) = [[h EXCEPT !.fifo = f] EXCEPT !.words_left = wl]
    BY <1>2, <1>3, <1>5, <2>1 DEF push_cmd, None, Some
  <2> HIDE DEF f, wl
  <2> QED
    BY <2>2 DEF PortType
<1>7. wl \in SUBSET Nat
  OBVIOUS
<1>8. wl = (IF q.args = 0 THEN {} ELSE {q.args})
  OBVIOUS
<1> HIDE DEF f, wl
<1>9. /\ PortType(p) /\ p.fifo = f /\ p.words_left = wl /\ p.sent = h.sent /\ p.state = h.state
      /\ p.in_step /\ ~p.incomplete
  BY <1>1, <1>7 DEF PortType
<1> HIDE DEF p
<1>10. Storing(p, q)
  BY <1>9 DEF Storing
<1>11. Fits(p, q)
  BY <1>1, <1>8, <1>9 DEF Fits
<1>12. Copying(p, q)
  BY <1>1, <1>9 DEF Copying
<1>13. Framed(f, h.sent, q.args)
  BY DEF f
<1>14. PortGood(p, q)
  BY <1>9, <1>10, <1>11, <1>12, <1>13 DEF PortGood, Sent
<1>15. gp0_store(h, val) = IF h.state = "idle" /\ k = 1 THEN gp0_exec(p) ELSE p
  BY <1>5, <1>6 DEF gp0_store
<1>16. CASE h.state = "idle" /\ k = 1
  <2>1. h.sent \in Seq(Cmds) /\ q.args = 0
    BY <1>16 DEF PortType
  <2>2. h.sent # <<>>
    BY <1>1, <1>13, <2>1, FrameNone
  <2>3. Head(f).cmd = Head(h.sent) /\ Len_[Head(h.sent)] <= Len(f)
    BY <1>1, <1>13, <2>1, <2>2, FrameHead
  <2>4. has_full_cmd(p)
    BY <1>1, <1>9, <2>3 DEF has_full_cmd
  <2> QED
    BY <1>9, <1>14, <1>15, <1>16, <2>4, ExecGood
<1> QED
  BY <1>14, <1>15, <1>16

LEMMA CommandGood == ASSUME Parameters, PortGood(gpu, guest), Command PROVE PortGood(gpu', guest')
<1> DEFINE Begun(val) == IF is_imm(val.cmd) THEN gpu ELSE [gpu EXCEPT !.sent = Append(@, val.cmd)]
           Image(val) == IF val.cmd = "copy" THEN (val.dim + 1) \div 2 ELSE 0
<1>1. PICK val \in Words :
        /\ IF guest.kind = "polls"
           THEN cmd_ready(gpu) \/ (is_imm(val.cmd) /\ gpu.state = "drawing")
           ELSE gpu.state \in {"idle", "drawing"} /\ Len(gpu.fifo) + Len_[val.cmd] <= SIZE
        /\ gpu' = gp0_store(Begun(val), val)
        /\ guest' = [guest EXCEPT !.args = Len_[val.cmd] - 1, !.data = Image(val),
                                  !.image = val.dim, !.count = @ + 1]
  BY DEF Command
<1>2. guest.args = 0 /\ guest.data = 0
  BY DEF Command
<1>3. PortType(gpu) /\ GuestType(guest) /\ Storing(gpu, guest) /\ Sent(gpu, guest) /\ Fits(gpu, guest)
  BY DEF PortGood
<1>4. /\ val.cmd \in Cmds /\ val.dim \in Nat /\ val.dim >= 1 /\ val \in PWord
      /\ Len_[val.cmd] \in Nat /\ Len_[val.cmd] >= 1 /\ Len_[val.cmd] <= SIZE /\ SIZE \in Nat
  <2>1. val.cmd \in Cmds /\ val.dim \in 1 .. MaxImage /\ val \in PWord
    BY DEF Words, PWord
  <2> QED
    BY <2>1, LenType DEF Parameters
<1>5. /\ gpu.fifo \in Seq(PWord) /\ gpu.sent \in Seq(Cmds) /\ Len(gpu.fifo) \in Nat
      /\ gpu.words_left = {} /\ Framed(gpu.fifo, gpu.sent, 0)
  BY <1>2, <1>3 DEF PortType, Fits, Sent
<1> DEFINE l == Len_[val.cmd]
           im == Image(val)
           w == val.dim
           c == guest.count + 1
           q == [guest EXCEPT !.args = l - 1, !.data = im, !.image = w, !.count = c]
<1>6. im \in Nat /\ (val.cmd = "copy" => im = (w + 1) \div 2)
  BY <1>4
<1>7. guest' = q
  BY <1>1, <1>3 DEF GuestType
<1>8. l - 1 \in Nat /\ w \in Nat /\ c \in Nat
  BY <1>3, <1>4 DEF GuestType
<1> HIDE DEF im, l, w, c
<1>9. GuestType(q) /\ q.args = l - 1 /\ q.data = im /\ q.image = w
  BY <1>3, <1>6, <1>8 DEF GuestType
<1> HIDE DEF q
<1>10. ASSUME NEW i \in 1 .. Len(gpu.sent) PROVE gpu.sent[i] # "copy"
  <2> SUFFICES ASSUME gpu.sent[i] = "copy" PROVE FALSE
    OBVIOUS
  <2>1. guest.image >= 1 /\ guest.data = (guest.image + 1) \div 2 /\ guest.image \in Nat
    BY <1>3 DEF Sent, Copying, GuestType
  <2> QED
    BY <1>2, <2>1
<1>11. CASE is_imm(val.cmd)
  <2>1. val.cmd = "nop" /\ l = 1
    BY <1>11 DEF is_imm, Parameters, l
  <2>2. push_action(gpu, val) = "ImmCmd"
    BY <1>5, <1>11 DEF push_action, None
  <2>3. push_cmd(gpu, val) = gpu
    BY <2>2 DEF push_cmd
  <2>4. gpu.state \in {"idle", "drawing"}
    BY <1>1 DEF cmd_ready
  <2>5. gp0_store(gpu, val) = gpu
    BY <2>2, <2>3, <2>4 DEF gp0_store
  <2>6. gpu' = gpu
    BY <1>1, <1>11, <2>5
  <2>7. q.args = 0
    BY <1>9, <2>1
  <2>8. Sent(gpu, q) /\ Fits(gpu, q) /\ Storing(gpu, q)
    BY <1>2, <1>3, <1>10, <2>4, <2>7 DEF Sent, Fits, Storing, Copying
  <2> QED
    BY <1>3, <1>7, <1>9, <2>6, <2>8 DEF PortGood
<1>12. CASE ~is_imm(val.cmd)
  <2> DEFINE s == Append(gpu.sent, val.cmd)
             h == [gpu EXCEPT !.sent = s]
  <2>1. gpu' = gp0_store(h, val)
    BY <1>1, <1>12
  <2>2. /\ s \in Seq(Cmds) /\ Len(s) = Len(gpu.sent) + 1 /\ s[Len(s)] = val.cmd /\ Len(gpu.sent) \in Nat
        /\ \A i \in 1 .. Len(gpu.sent) : s[i] = gpu.sent[i]
    BY <1>4, <1>5, AppendProperties
  <2>3. Framed(Append(gpu.fifo, val), s, l - 1)
    BY <1>4, <1>5, FrameBegin DEF l
  <2> HIDE DEF s
  <2>4. /\ PortType(h) /\ h.sent = s /\ h.fifo = gpu.fifo /\ h.state = gpu.state /\ h.words_left = {}
        /\ h.in_step /\ ~h.incomplete
    BY <1>3, <1>5, <2>2 DEF PortType, Sent
  <2> HIDE DEF h
  <2>5. gpu.state \in {"idle", "drawing"} /\ Len(gpu.fifo) + l <= SIZE
    <3>1. CASE guest.kind = "polls"
      BY <1>1, <1>4, <1>12, <3>1 DEF cmd_ready, l
    <3>2. CASE guest.kind # "polls"
      BY <1>1, <3>2 DEF l
    <3> QED
      BY <3>1, <3>2
  <2>6. ASSUME NEW i \in 1 .. Len(s), s[i] = "copy"
        PROVE  /\ i = Len(s) /\ q.image >= 1 /\ q.data = (q.image + 1) \div 2
               /\ q.args = 0 => val.dim = q.image
    <3>1. i = Len(s)
      BY <1>10, <2>2, <2>6
    <3>2. val.cmd = "copy"
      BY <2>2, <2>6, <3>1
    <3> QED
      BY <1>4, <1>6, <1>9, <3>1, <3>2 DEF w
  <2>7. l \in Nat \ {0} /\ l = Len_[val.cmd]
    BY <1>4 DEF l
  <2>8. PortGood(gp0_store(h, val), q)
    BY <1>4, <1>9, <1>12, <2>3, <2>4, <2>5, <2>6, <2>7, PushGood
  <2> QED
    BY <1>7, <2>1, <2>8
<1> QED
  BY <1>11, <1>12

LEMMA ArgumentGood == ASSUME Parameters, PortGood(gpu, guest), Argument PROVE PortGood(gpu', guest')
<1>1. PortType(gpu) /\ GuestType(guest) /\ Storing(gpu, guest) /\ Sent(gpu, guest) /\ Fits(gpu, guest)
  BY DEF PortGood
<1>2. PICK cmd \in Args : gpu' = gp0_store(gpu, [cmd |-> cmd, dim |-> guest.image])
  BY DEF Argument
<1> DEFINE val == [cmd |-> cmd, dim |-> guest.image]
           k == guest.args
           a == k - 1
           q == [guest EXCEPT !.args = a]
<1>3. val \in PWord /\ val.dim = guest.image
  BY <1>1, <1>2 DEF Parameters, PWord, GuestType
<1>4. k \in Nat \ {0} /\ guest' = q /\ a \in Nat
  BY <1>1 DEF Argument, GuestType
<1> HIDE DEF val, a
<1>5. GuestType(q) /\ q.args = a /\ q.data = guest.data /\ q.image = guest.image
  BY <1>1, <1>4 DEF GuestType
<1> HIDE DEF q
<1>6. gpu.state \in {"idle", "drawing"}
  BY <1>1, <1>4 DEF Argument, PortType, Storing
<1>7. /\ gpu.fifo \in Seq(PWord) /\ gpu.sent \in Seq(Cmds) /\ gpu.words_left = {k}
      /\ Len(gpu.fifo) + k <= SIZE /\ Framed(gpu.fifo, gpu.sent, k) /\ gpu.in_step /\ ~gpu.incomplete
  BY <1>1, <1>4 DEF PortType, Sent, Fits
<1>8. Framed(Append(gpu.fifo, val), gpu.sent, k - 1)
  <2> HIDE DEF k
  <2> QED
    BY <1>3, <1>4, <1>7, FrameArgument
<1>9. \A i \in 1 .. Len(gpu.sent) : gpu.sent[i] = "copy" =>
        /\ i = Len(gpu.sent) /\ q.image >= 1 /\ q.data = (q.image + 1) \div 2
        /\ q.args = 0 => val.dim = q.image
  BY <1>1, <1>3, <1>5 DEF Sent, Copying
<1> HIDE DEF k
<1>10. PortGood(gp0_store(gpu, val), q)
  BY <1>1, <1>3, <1>4, <1>5, <1>6, <1>7, <1>8, <1>9, PushGood DEF a
<1> QED
  BY <1>2, <1>4, <1>10 DEF val

LEMMA DataGood == ASSUME Parameters, PortGood(gpu, guest), Data PROVE PortGood(gpu', guest')
<1>1. PortType(gpu) /\ GuestType(guest) /\ Storing(gpu, guest) /\ Sent(gpu, guest) /\ Fits(gpu, guest)
  BY DEF PortGood
<1>2. PICK val \in [cmd : Args, dim : {1}] : gpu' = gp0_store(gpu, val)
  BY DEF Data
<1>3. val \in PWord
  BY <1>2 DEF Parameters, PWord
<1>4. /\ gpu.state = "store" /\ gpu.fifo = <<>> /\ guest.args = 0 /\ gpu.left \in Nat /\ gpu.left >= 1
      /\ guest.data = (gpu.left + 1) \div 2 /\ gpu.sent \in Seq(Cmds) /\ SIZE \in Nat /\ SIZE >= 1
  BY <1>1 DEF Data, Storing, PortType, Parameters
<1>5. gpu.sent = <<>>
  BY <1>1, <1>4, FrameHead DEF Sent, PortType
<1> DEFINE f == <<val>>
           lf == IF gpu.left > 2 THEN gpu.left - 2 ELSE 0
           st == IF gpu.left <= 2 THEN "idle" ELSE "store"
           p == [gpu EXCEPT !.fifo = f]
           g == [gpu EXCEPT !.left = lf, !.state = st]
           d == guest.data - 1
           q == [guest EXCEPT !.data = d]
<1>6. push(gpu, val) = p
  <2>1. ~is_full(gpu)
    BY <1>4 DEF is_full
  <2>2. Append(gpu.fifo, val) = f
    BY <1>4
  <2> QED
    BY <2>1, <2>2 DEF push
<1>7. /\ p.fifo = f /\ p.state = "store" /\ p.left = gpu.left /\ Len(f) = 1 /\ f \in Seq(PWord)
      /\ SubSeq(f, 2, 1) = <<>>
  BY <1>1, <1>3, <1>4 DEF PortType
<1>8. (gpu.left + 1) \div 2 >= 1 /\ (gpu.left + 1) \div 2 \in Nat
  BY <1>4
<1>9. drop(p, 1) = gpu
  <2> HIDE DEF f
  <2>1. drop(p, 1) = [p EXCEPT !.fifo = SubSeq(p.fifo, 1 + 1, Len(p.fifo))]
    BY DEF drop
  <2>2. SubSeq(p.fifo, 1 + 1, Len(p.fifo)) = <<>>
    <3> HIDE DEF p
    <3>1. p.fifo = f /\ Len(p.fifo) = 1 /\ 1 + 1 = 2
      BY <1>7
    <3>2. SubSeq(f, 2, 1) = <<>>
      BY <1>7
    <3> QED
      BY <3>1, <3>2
  <2>3. drop(p, 1) = [p EXCEPT !.fifo = <<>>]
    BY <2>1, <2>2
  <2>4. [p EXCEPT !.fifo = <<>>] = [gpu EXCEPT !.fifo = <<>>]
    BY <1>1 DEF PortType
  <2>5. [gpu EXCEPT !.fifo = <<>>] = gpu
    BY <1>1, <1>4 DEF PortType
  <2> QED
    BY <2>3, <2>4, <2>5
<1>10. fifo_to_vram_store(p) = g
  <2> DEFINE need == (p.left + 1) \div 2
             n == IF Len(p.fifo) < need THEN Len(p.fifo) ELSE need
  <2>1. n = 1
    BY <1>7, <1>8
  <2> HIDE DEF n
  <2>2. fifo_to_vram_store(p) = [drop(p, n) EXCEPT !.left = IF @ > 2 * n THEN @ - 2 * n ELSE 0,
                                                  !.state = IF p.left <= 2 * n THEN "idle" ELSE @]
    BY <1>7 DEF fifo_to_vram_store, n
  <2>3. fifo_to_vram_store(p) = [gpu EXCEPT !.left = IF @ > 2 THEN @ - 2 ELSE 0,
                                            !.state = IF gpu.left <= 2 THEN "idle" ELSE @]
    <3>1. drop(p, n) = gpu /\ 2 * n = 2 /\ p.left = gpu.left
      BY <1>7, <1>9, <2>1
    <3> HIDE DEF p
    <3> QED
      BY <2>2, <3>1
  <2> QED
    BY <1>1, <1>4, <2>3 DEF PortType
<1>11. gpu' = g
  BY <1>2, <1>4, <1>6, <1>10 DEF gp0_store
<1>12. guest' = q /\ d \in Nat
  BY <1>1, <1>4, <1>8 DEF Data, GuestType
<1>13. lf \in Nat /\ st \in {"idle", "store"}
  BY <1>4
<1>14. st = "store" => lf >= 1 /\ d = (lf + 1) \div 2
  BY <1>4
<1> HIDE DEF lf, st, d
<1>15. /\ PortType(g) /\ g.fifo = <<>> /\ g.sent = <<>> /\ g.left = lf /\ g.state = st
       /\ g.words_left = gpu.words_left /\ g.in_step = gpu.in_step /\ g.incomplete = gpu.incomplete
  BY <1>1, <1>4, <1>5, <1>13 DEF PortType
<1>16. GuestType(q) /\ q.args = 0 /\ q.data = d
  BY <1>1, <1>4, <1>12 DEF GuestType
<1> HIDE DEF g, q
<1>17. Storing(g, q)
  BY <1>14, <1>15, <1>16 DEF Storing
<1>18. Sent(g, q)
  BY <1>1, <1>4, <1>5, <1>15, <1>16 DEF Sent, Copying
<1>19. Fits(g, q)
  BY <1>1, <1>4, <1>15, <1>16 DEF Fits
<1> QED
  BY <1>11, <1>12, <1>15, <1>16, <1>17, <1>18, <1>19 DEF PortGood

LEMMA ReadGood == ASSUME PortGood(gpu, guest), GpuRead PROVE PortGood(gpu', guest')
<1>1. PortType(gpu) /\ GuestType(guest) /\ Storing(gpu, guest) /\ Sent(gpu, guest) /\ Fits(gpu, guest)
  BY DEF PortGood
<1> DEFINE lf == IF gpu.left > 2 THEN gpu.left - 2 ELSE 0
           st == IF gpu.left <= 2 THEN "idle" ELSE "load"
           g == [gpu EXCEPT !.left = lf, !.state = st]
<1>2. gpu' = g /\ guest' = guest /\ lf \in Nat /\ st \in {"idle", "load"}
  BY <1>1 DEF GpuRead, PortType
<1> HIDE DEF lf, st
<1>3. /\ PortType(g) /\ g.fifo = gpu.fifo /\ g.sent = gpu.sent /\ g.state = st
      /\ g.words_left = gpu.words_left /\ g.in_step = gpu.in_step /\ g.incomplete = gpu.incomplete
  BY <1>1, <1>2 DEF PortType
<1> HIDE DEF g
<1>4. Storing(g, guest) /\ Sent(g, guest) /\ Fits(g, guest)
  BY <1>1, <1>2, <1>3 DEF Storing, Sent, Copying, Fits
<1> QED
  BY <1>1, <1>2, <1>3, <1>4 DEF PortGood

\* A reset between two commands leaves no words expected.
LEMMA ResetGood ==
  ASSUME Parameters, Resets # "any", PortGood(gpu, guest), Gp1ResetFifo PROVE PortGood(gpu', guest')
<1>1. PortType(gpu) /\ GuestType(guest) /\ Storing(gpu, guest) /\ Sent(gpu, guest) /\ Fits(gpu, guest)
  BY DEF PortGood
<1>2. guest.args = 0 /\ guest.data = 0
  BY DEF Gp1ResetFifo
<1>3. gpu.state # "store"
  BY <1>1, <1>2 DEF Storing, PortType
<1> DEFINE g == [gpu EXCEPT !.fifo = <<>>, !.sent = <<>>]
<1>4. gpu' = g /\ guest' = guest
  BY <1>1, <1>2, <1>3 DEF Gp1ResetFifo, GuestType
<1>5. <<>> \in Seq(PWord) /\ <<>> \in Seq(Cmds) /\ Framed(<<>>, <<>>, 0)
  BY FrameNone, EmptySeq
<1>6. /\ PortType(g) /\ g.fifo = <<>> /\ g.sent = <<>> /\ g.state = gpu.state
      /\ g.words_left = gpu.words_left /\ g.in_step = gpu.in_step /\ g.incomplete = gpu.incomplete
  BY <1>1, <1>5 DEF PortType
<1> HIDE DEF g
<1>7. Storing(g, guest) /\ Sent(g, guest) /\ Fits(g, guest)
  BY <1>1, <1>2, <1>3, <1>5, <1>6 DEF Storing, Sent, Copying, Fits, Parameters
<1> QED
  BY <1>1, <1>4, <1>6, <1>7 DEF PortGood

LEMMA DrawDoneGood == ASSUME Parameters, PortGood(gpu, guest), DrawDone PROVE PortGood(gpu', guest')
<1>1. PortType(gpu) /\ GuestType(guest) /\ Storing(gpu, guest) /\ Sent(gpu, guest) /\ Fits(gpu, guest)
  BY DEF PortGood
<1> DEFINE g == [gpu EXCEPT !.state = "idle"]
<1>2. gpu' = try_gp0_exec(g) /\ guest' = guest
  BY DEF DrawDone
<1>3. /\ PortType(g) /\ g.fifo = gpu.fifo /\ g.sent = gpu.sent /\ g.state = "idle"
      /\ g.words_left = gpu.words_left /\ g.in_step = gpu.in_step /\ g.incomplete = gpu.incomplete
  BY <1>1 DEF PortType
<1> HIDE DEF g
<1>4. PortGood(g, guest)
  BY <1>1, <1>3 DEF PortGood, Storing, Sent, Copying, Fits
<1> QED
  BY <1>2, <1>3, <1>4, ExecGood DEF try_gp0_exec

PortIsGood == PortGood(gpu, guest)

LEMMA InitGood == ASSUME Parameters, PortInit PROVE PortIsGood
<1>1. PortType(gpu) /\ gpu.fifo = <<>> /\ gpu.sent = <<>> /\ gpu.words_left = {} /\ gpu.state = "idle"
      /\ gpu.in_step /\ ~gpu.incomplete
  BY DEF PortInit, PortType, None
<1>2. GuestType(guest) /\ guest.args = 0
  <2>1. guest \in [args : {0}, data : {0}, image : {0}, count : {0}, kind : Guests]
    BY DEF PortInit
  <2>2. guest.args = 0 /\ guest.data = 0 /\ guest.image = 0 /\ guest.count = 0 /\ guest.kind \in Guests
    BY <2>1
  <2>3. guest = [args |-> guest.args, data |-> guest.data, image |-> guest.image,
                 count |-> guest.count, kind |-> guest.kind]
    BY <2>1
  <2>4. guest.kind \in {"polls", "counts"}
    BY <2>2 DEF Parameters
  <2> QED
    BY <2>2, <2>3, <2>4 DEF GuestType
<1>3. <<>> \in Seq(PWord) /\ <<>> \in Seq(Cmds) /\ Framed(<<>>, <<>>, 0)
  BY FrameNone, EmptySeq
<1>4. Storing(gpu, guest) /\ Sent(gpu, guest) /\ Fits(gpu, guest)
  BY <1>1, <1>2, <1>3 DEF Storing, Sent, Copying, Fits, Parameters
<1> QED
  BY <1>1, <1>2, <1>4 DEF PortGood, PortIsGood

LEMMA PortStep ==
  ASSUME Parameters, Resets # "any", PortIsGood, [PortNext]_port_vars PROVE PortIsGood'
<1>1. CASE Command
  BY <1>1, CommandGood DEF PortIsGood
<1>2. CASE Argument
  BY <1>2, ArgumentGood DEF PortIsGood
<1>3. CASE Data
  BY <1>3, DataGood DEF PortIsGood
<1>4. CASE GpuRead
  BY <1>4, ReadGood DEF PortIsGood
<1>5. CASE Gp1ResetFifo
  BY <1>5, ResetGood DEF PortIsGood
<1>6. CASE DrawDone
  BY <1>6, DrawDoneGood DEF PortIsGood
<1>7. CASE UNCHANGED port_vars
  BY <1>7 DEF PortIsGood, port_vars
<1> QED
  BY <1>1, <1>2, <1>3, <1>4, <1>5, <1>6, <1>7 DEF PortNext, LoadStatus

\* However long the FIFO and the commands, and whatever the arguments spell:
\* gp0_exec only runs with a full command at the head (gpu/mod.rs:427), and that
\* is the next one the guest sent, for a guest that does not reset the FIFO in
\* the middle of a command (Fifo::clear keeps cmd_words_left, gpu/fifo.rs).
THEOREM CommandsAsSent == ASSUME Resets # "any" PROVE PortSpec => []ExecutedAsSent
<1> USE GpuPortAssumption
<1>1. PortInit => PortIsGood
  BY InitGood
<1>2. PortIsGood /\ [PortNext]_port_vars => PortIsGood'
  BY PortStep
<1>3. PortIsGood => ExecutedAsSent
  BY DEF PortIsGood, PortGood, Sent, ExecutedAsSent
<1> QED
  BY <1>1, <1>2, <1>3, PTL DEF PortSpec
=============================================================================
