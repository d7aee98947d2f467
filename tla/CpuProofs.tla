----------------------------- MODULE CpuProofs -----------------------------
(***************************************************************************)
(* Proofs about Cpu, for every guest program and any set of interrupt      *)
(* sources: types, the ownership of the timeout, and that no interrupt is  *)
(* missed; and, for programs that keep to the rules for delay slots and    *)
(* handlers, that interrupts are invisible to them.                        *)
(***************************************************************************)
EXTENDS Cpu, SequenceTheorems, TLAPS

\* The invariants are inductive together; NoMissedInterrupt needs only the
\* types of the queue and of COP0.
Inv == TypeOK /\ NoMissedInterrupt /\ TimeoutOwnedByRun

\* The counters and COP0 keep their types.
CpuType == [last_pc: Int, pc: Int, next_pc: Int, in_branch_delay: BOOLEAN, branched: BOOLEAN]
Cop0Type == [flags: BOOLEAN \X BOOLEAN \X BOOLEAN, im: SUBSET CauseBits, ip: SUBSET CauseBits,
             code: {"none", "interrupt", "syscall"}, bd: BOOLEAN, epc: Int]

LEMMA Cop0Record ==
  ASSUME NEW f \in BOOLEAN \X BOOLEAN \X BOOLEAN, NEW m \in SUBSET CauseBits,
         NEW i \in SUBSET CauseBits, NEW k \in {"none", "interrupt", "syscall"},
         NEW b \in BOOLEAN, NEW e \in Int
  PROVE  [flags |-> f, im |-> m, ip |-> i, code |-> k, bd |-> b, epc |-> e] \in Cop0Type
BY DEF Cop0Type

LEMMA InitInv == Init => Inv
<1> SUFFICES ASSUME Init PROVE Inv
  OBVIOUS
<1>1. TypeOK
  <2>1. cpu \in CpuType /\ irq \in [status: SUBSET Irq, mask: SUBSET Irq]
    BY DEF Init, CpuType
  <2>2. cop0 \in Cop0Type
    <3>1. <<FALSE, FALSE, FALSE>> \in BOOLEAN \X BOOLEAN \X BOOLEAN
      OBVIOUS
    <3>2. cop0.flags = <<FALSE, FALSE, FALSE>> /\ cop0 =
            [flags |-> cop0.flags, im |-> {}, ip |-> {}, code |-> "none", bd |-> FALSE, epc |-> 0]
      BY DEF Init
    <3>3. {} \in SUBSET CauseBits /\ FALSE \in BOOLEAN /\ 0 \in Int
          /\ "none" \in {"none", "interrupt", "syscall"}
      OBVIOUS
    <3> QED
      BY <3>1, <3>2, <3>3, Cop0Record, Zenon
  <2>3. queue \in [Triggered -> Nat] /\ due \in 0 .. MaxDue /\ timeout \in NoTimeout .. MaxTime
    BY CpuAssumption DEF Init, NoTimeout
  <2>4. user \in [pc: Int, next_pc: Int, enabled: BOOLEAN, mtc0: BOOLEAN]
    BY DEF Init
  <2>5. mode \in {"idle", "run", "step"}
    BY DEF Init
  <2> QED
    BY <2>1, <2>2, <2>3, <2>4, <2>5 DEF TypeOK, CpuType, Cop0Type
<1>2. NoMissedInterrupt
  BY DEF Init, NoMissedInterrupt, irq_pending
<1>3. TimeoutOwnedByRun
  BY DEF Init, TimeoutOwnedByRun
<1> QED
  BY <1>1, <1>2, <1>3 DEF Inv

LEMMA NextPcType ==
  ASSUME NEW c \in CpuType
  PROVE  next_pc(c) \in CpuType
BY DEF CpuType, next_pc

LEMMA EnterType ==
  ASSUME NEW p \in CpuType, NEW c \in Cop0Type, NEW code \in {"interrupt", "syscall"}
  PROVE  enter_exception(p, c, code) \in Cop0Type /\ ~enter_exception(p, c, code).flags[1]
<1> DEFINE epc == p.last_pc - (IF p.in_branch_delay THEN 1 ELSE 0)
<1>1. epc \in Int
  BY DEF CpuType
<1>2. p.in_branch_delay \in BOOLEAN /\ c.im \in SUBSET CauseBits /\ c.ip \in SUBSET CauseBits
  BY DEF CpuType, Cop0Type
<1>3. <<FALSE, c.flags[1], c.flags[2]>> \in BOOLEAN \X BOOLEAN \X BOOLEAN
  BY DEF Cop0Type
<1> HIDE DEF epc
<1>4. enter_exception(p, c, code) =
        [flags |-> <<FALSE, c.flags[1], c.flags[2]>>, im |-> c.im, ip |-> c.ip, code |-> code,
         bd |-> p.in_branch_delay, epc |-> epc]
  BY DEF enter_exception, epc
<1>5. enter_exception(p, c, code) \in Cop0Type
  BY <1>1, <1>2, <1>3, <1>4 DEF Cop0Type
<1> QED
  BY <1>4, <1>5

LEMMA ExitType ==
  ASSUME NEW c \in Cop0Type
  PROVE  exit_exception(c) \in Cop0Type
BY DEF Cop0Type, exit_exception

\* A triggered event is in the queue.
LEMMA TriggerFacts ==
  ASSUME NEW q \in [Triggered -> Nat], NEW e \in Triggered
  PROVE  trigger(q, e) \in [Triggered -> Nat] /\ trigger(q, e)[e] > 0
BY DEF trigger

LEMMA CheckTriggered == "check" \in Triggered /\ Irq \subseteq Triggered
BY DEF Triggered

LEMMA Types ==
  ASSUME TypeOK
  PROVE  /\ cpu \in CpuType /\ cop0 \in Cop0Type
         /\ irq \in [status: SUBSET Irq, mask: SUBSET Irq]
         /\ queue \in [Triggered -> Nat]
         /\ user \in [pc: Int, next_pc: Int, enabled: BOOLEAN, mtc0: BOOLEAN]
BY DEF TypeOK, CpuType, Cop0Type

\* The user program's history keeps its type and its mtc0 flag.
LEMMA UndisturbedFacts ==
  ASSUME TypeOK, NEW p \in CpuType, NEW op, NEW target \in Int, NEW enabled \in BOOLEAN
  PROVE  /\ Undisturbed(p, op, target, enabled) \in
              [pc: Int, next_pc: Int, enabled: BOOLEAN, mtc0: BOOLEAN]
         /\ Undisturbed(p, op, target, enabled).mtc0 = user.mtc0
<1> DEFINE n == IF op = "jump" THEN target ELSE user.next_pc + 1
           u1 == [user EXCEPT !.pc = user.next_pc]
           u2 == [u1 EXCEPT !.next_pc = n]
           u3 == [u2 EXCEPT !.enabled = enabled]
<1>1. user \in [pc: Int, next_pc: Int, enabled: BOOLEAN, mtc0: BOOLEAN]
  BY Types
<1>2. n \in Int
  BY <1>1
<1>3. u1 = [pc |-> user.next_pc, next_pc |-> user.next_pc, enabled |-> user.enabled, mtc0 |-> user.mtc0]
  BY <1>1
<1> HIDE DEF n, u1
<1>4. u2 = [pc |-> user.next_pc, next_pc |-> n, enabled |-> user.enabled, mtc0 |-> user.mtc0]
  BY <1>3
<1> HIDE DEF u2
<1>5. u3 = [pc |-> user.next_pc, next_pc |-> n, enabled |-> enabled, mtc0 |-> user.mtc0]
  BY <1>4
<1> HIDE DEF u3
<1>6. Undisturbed(p, op, target, enabled) = IF p.last_pc # user.pc THEN user ELSE u3
  BY DEF Undisturbed, u1, u2, u3, n
<1>7. u3 \in [pc: Int, next_pc: Int, enabled: BOOLEAN, mtc0: BOOLEAN] /\ u3.mtc0 = user.mtc0
  BY <1>1, <1>2, <1>5
<1> QED
  BY <1>1, <1>6, <1>7

UserType == [pc: Int, next_pc: Int, enabled: BOOLEAN, mtc0: BOOLEAN]
IrqType == [status: SUBSET Irq, mask: SUBSET Irq]

\* The types of the variables an event or an instruction changes, and
\* NoMissedInterrupt: what is left to show of a step of the loop.
StepOK ==
  /\ cpu \in CpuType /\ cop0 \in Cop0Type /\ irq \in IrqType
  /\ queue \in [Triggered -> Nat] /\ user \in UserType
  /\ NoMissedInterrupt

LEMMA StepOKHolds == Inv => StepOK
BY DEF Inv, TypeOK, StepOK, CpuType, Cop0Type, UserType, IrqType

\* Setting counters.
LEMMA CpuRecord ==
  ASSUME NEW p \in CpuType, NEW a \in Int, NEW n \in Int
  PROVE  [p EXCEPT !.pc = a, !.next_pc = n] \in CpuType
<1> DEFINE q == [p EXCEPT !.pc = a]
<1>1. q = [last_pc |-> p.last_pc, pc |-> a, next_pc |-> p.next_pc,
           in_branch_delay |-> p.in_branch_delay, branched |-> p.branched]
  BY DEF CpuType
<1>2. q \in CpuType
  BY <1>1 DEF CpuType
<1> HIDE DEF q
<1>3. [q EXCEPT !.next_pc = n] \in CpuType
  BY <1>2 DEF CpuType
<1> QED
  BY <1>3 DEF q

LEMMA CpuBranch ==
  ASSUME NEW p \in CpuType, NEW n \in Int
  PROVE  /\ [p EXCEPT !.next_pc = n, !.branched = TRUE] \in CpuType
         /\ [p EXCEPT !.branched = TRUE, !.next_pc = n] \in CpuType
<1> DEFINE q == [p EXCEPT !.next_pc = n]
           r == [p EXCEPT !.branched = TRUE]
<1>1. q \in CpuType
  BY DEF CpuType
<1>2. r \in CpuType
  BY DEF CpuType
<1> HIDE DEF q, r
<1>3. [q EXCEPT !.branched = TRUE] \in CpuType
  BY <1>1 DEF CpuType
<1>4. [r EXCEPT !.next_pc = n] \in CpuType
  BY <1>2 DEF CpuType
<1> QED
  BY <1>3, <1>4 DEF q, r

\* An exception disables interrupts.
LEMMA ThrowFacts ==
  ASSUME TypeOK, NEW p \in CpuType, NEW code \in {"interrupt", "syscall"},
         NEW q \in [Triggered -> Nat], throw_exception(p, code, q), irq' \in IrqType
  PROVE  /\ cpu' \in CpuType /\ cop0' \in Cop0Type /\ queue' \in [Triggered -> Nat]
         /\ NoMissedInterrupt'
<1>1. cop0' \in Cop0Type /\ ~cop0'.flags[1]
  BY Types, EnterType DEF throw_exception
<1>2. Vector \in Int /\ Vector + 1 \in Int
  BY CpuAssumption
<1>3. cpu' \in CpuType
  BY <1>2, CpuRecord DEF throw_exception
<1>4. queue' \in [Triggered -> Nat]
  BY CheckTriggered, TriggerFacts DEF throw_exception
<1>5. NoMissedInterrupt'
  BY <1>1 DEF NoMissedInterrupt, irq_pending
<1> QED
  BY <1>1, <1>3, <1>4, <1>5

LEMMA CheckFacts ==
  ASSUME Inv, NEW i \in IrqType, NEW q \in [Triggered -> Nat], check_for_pending_irq(i, q)
  PROVE  StepOK'
<1>1. TypeOK /\ irq' = i
  BY DEF Inv, check_for_pending_irq
<1>2. user' \in UserType
  <2>1. user \in UserType
    BY <1>1, Types DEF UserType
  <2>2. user' = [user EXCEPT !.mtc0 = FALSE]
    BY DEF check_for_pending_irq
  <2> QED
    BY <2>1, <2>2 DEF UserType
<1>3. CASE irq_pending(cop0, i)
  <2>1. throw_exception(next_pc(cpu), "interrupt", q)
    BY <1>3 DEF check_for_pending_irq
  <2>2. next_pc(cpu) \in CpuType
    BY <1>1, Types, NextPcType
  <2> QED
    BY <1>1, <1>2, <2>1, <2>2, ThrowFacts DEF StepOK
<1>4. CASE ~irq_pending(cop0, i)
  <2>1. queue' = q /\ cpu' = cpu /\ cop0' = cop0
    BY <1>4 DEF check_for_pending_irq
  <2>2. NoMissedInterrupt'
    BY <1>1, <1>4, <2>1 DEF NoMissedInterrupt
  <2> QED
    BY <1>1, <1>2, <2>1, <2>2, Types DEF StepOK
<1> QED
  BY <1>3, <1>4

\* Each instruction.
LEMMA ExecFacts ==
  ASSUME Inv, NoneTriggered, NEW p \in CpuType, NEW instr,
         instr.op \in Ops, instr.target \in Addr, exec(p, instr)
  PROVE  StepOK'
<1> DEFINE op == instr.op
<1>0. TypeOK /\ cop0 \in Cop0Type /\ irq \in IrqType /\ queue \in [Triggered -> Nat]
      /\ user \in UserType
  BY Types DEF Inv, UserType, IrqType
<1>a. user.enabled \in BOOLEAN /\ 0 \in Int /\ instr.target \in Int
  <2>1. user.enabled \in BOOLEAN
    BY <1>0 DEF UserType
  <2>2. instr.target \in Nat
    BY CpuAssumption, Zenon
  <2> QED
    BY <2>1, <2>2
<1>b. \A t \in Int : /\ Undisturbed(p, op, t, user.enabled) \in UserType
                     /\ Undisturbed(p, op, t, user.enabled).mtc0 = user.mtc0
  BY <1>0, <1>a, UndisturbedFacts DEF UserType
\* An instruction that leaves COP0, the interrupt registers and the queue alone.
<1>c. ASSUME UNCHANGED <<cop0, irq, queue>>, user'.mtc0 = user.mtc0
      PROVE  NoMissedInterrupt'
  BY <1>c DEF Inv, NoMissedInterrupt, NoneTriggered
\* One that triggers an event.
<1>d. ASSUME NEW e \in Triggered, queue' = trigger(queue, e)
      PROVE  queue' \in [Triggered -> Nat] /\ NoMissedInterrupt'
  <2>1. queue' \in [Triggered -> Nat] /\ queue'[e] > 0
    BY <1>0, <1>d, TriggerFacts
  <2>2. ~NoneTriggered'
    BY <2>1 DEF NoneTriggered
  <2> QED
    BY <2>1, <2>2 DEF NoMissedInterrupt
<1>1. CASE Plain(p, op)
  <2>1. user' \in UserType /\ user'.mtc0 = user.mtc0
    BY <1>a, <1>b, <1>1 DEF Plain
  <2> QED
    BY <1>0, <1>c, <1>1, <2>1 DEF Plain, StepOK
<1>2. CASE Jump(p, op, instr.target)
  <2>1. cpu' \in CpuType
    BY <1>a, <1>2, CpuBranch DEF Jump
  <2>2. user' \in UserType /\ user'.mtc0 = user.mtc0
    BY <1>a, <1>b, <1>2 DEF Jump
  <2> QED
    BY <1>0, <1>c, <1>2, <2>1, <2>2 DEF Jump, StepOK
<1>3. CASE Syscall(p, op)
  <2>1. throw_exception(p, "syscall", queue) /\ irq' \in IrqType
    BY <1>0, <1>3 DEF Syscall
  <2>2. user' \in UserType
    BY <1>a, <1>b, <1>3 DEF Syscall
  <2> QED
    BY <1>0, <2>1, <2>2, ThrowFacts DEF StepOK
<1>4. CASE store(p, op)
  <2>1. irq' \in IrqType
    BY <1>0, <1>4 DEF store, IrqType
  <2>2. queue' = trigger(queue, "check") /\ cpu' = p /\ cop0' = cop0
    BY <1>4 DEF store
  <2>3. user' \in UserType
    BY <1>a, <1>b, <1>4 DEF store
  <2> QED
    BY <1>0, <1>d, <2>1, <2>2, <2>3, CheckTriggered DEF StepOK
<1>5. CASE StoreDevice(p, op)
  <2>1. PICK i \in Irq : queue' = trigger(queue, i)
    BY <1>5 DEF StoreDevice
  <2>2. user' \in UserType /\ cpu' = p /\ cop0' = cop0 /\ irq' = irq
    BY <1>a, <1>b, <1>5 DEF StoreDevice
  <2> QED
    BY <1>0, <1>d, <2>1, <2>2, CheckTriggered DEF StepOK
<1>6. CASE Mtc0(p, op)
  <2>1. PICK bits \in SUBSET CauseBits, flags \in BOOLEAN \X BOOLEAN \X BOOLEAN :
          \/ /\ cop0' = [cop0 EXCEPT !.im = bits, !.flags = flags]
             /\ user' = [Undisturbed(p, op, 0, flags[1]) EXCEPT !.mtc0 = TRUE]
          \/ /\ cop0' = [cop0 EXCEPT !.ip = bits]
             /\ user' = [Undisturbed(p, op, 0, user.enabled) EXCEPT !.mtc0 = TRUE]
    BY <1>6 DEF Mtc0
  <2>2. cop0' \in Cop0Type
    <3>1. CASE cop0' = [cop0 EXCEPT !.im = bits, !.flags = flags]
      <4> DEFINE c == [cop0 EXCEPT !.im = bits]
      <4>1. c \in Cop0Type
        BY <1>0 DEF Cop0Type
      <4> HIDE DEF c
      <4>2. [c EXCEPT !.flags = flags] \in Cop0Type
        BY <4>1 DEF Cop0Type
      <4> QED
        BY <3>1, <4>2 DEF c
    <3>2. CASE cop0' = [cop0 EXCEPT !.ip = bits]
      BY <1>0, <3>2 DEF Cop0Type
    <3> QED
      BY <2>1, <3>1, <3>2
  <2>3. user' \in UserType /\ user'.mtc0
    <3>1. flags[1] \in BOOLEAN
      OBVIOUS
    <3>2. PICK u \in UserType : user' = [u EXCEPT !.mtc0 = TRUE]
      BY <1>0, <1>a, <2>1, <3>1, UndisturbedFacts DEF UserType
    <3> QED
      BY <3>2 DEF UserType
  <2>4. cpu' = p /\ irq' = irq /\ queue' = queue
    BY <1>6 DEF Mtc0
  <2> QED
    BY <1>0, <2>2, <2>3, <2>4 DEF StepOK, NoMissedInterrupt
<1>7. CASE Rfe(p, op)
  <2>1. cop0' \in Cop0Type /\ queue' = trigger(queue, "check") /\ cpu' = p /\ irq' = irq
    BY <1>0, <1>7, ExitType DEF Rfe
  <2>2. user' \in UserType
    BY <1>a, <1>b, <1>7 DEF Rfe
  <2> QED
    BY <1>0, <1>d, <2>1, <2>2, CheckTriggered DEF StepOK
<1>8. CASE Return(p, op)
  <2>1. cop0.epc + (IF cop0.code = "syscall" THEN 1 ELSE 0) \in Int
    BY <1>0 DEF Cop0Type
  <2>2. cpu' \in CpuType
    BY <1>8, <2>1, CpuBranch DEF Return
  <2> QED
    BY <1>0, <1>c, <1>8, <2>2 DEF Return, StepOK
<1> QED
  BY <1>1, <1>2, <1>3, <1>4, <1>5, <1>6, <1>7, <1>8 DEF exec

\* The parts of the step that the loop itself changes.
LoopType == due \in 0 .. MaxDue /\ timeout \in NoTimeout .. MaxTime /\ mode \in {"idle", "run", "step"}

LEMMA InvStep == Inv /\ [Next]_vars => Inv'
<1> SUFFICES ASSUME Inv, [Next]_vars PROVE Inv'
  OBVIOUS
<1>0. StepOK /\ LoopType /\ TimeoutOwnedByRun /\ TypeOK
  BY StepOKHolds DEF Inv, TypeOK, LoopType
<1>a. MaxTime \in Nat /\ MaxDue \in Nat /\ NoTimeout = -1
  BY CpuAssumption DEF NoTimeout
\* The parts an action that leaves them alone keeps.
<1>b. UNCHANGED <<cpu, cop0, irq, queue, user>> => StepOK'
  BY <1>0 DEF StepOK, NoMissedInterrupt, NoneTriggered
<1>c. UNCHANGED <<due, timeout, mode>> => LoopType' /\ TimeoutOwnedByRun'
  BY <1>0 DEF LoopType, TimeoutOwnedByRun
<1>d. StepOK' /\ LoopType' /\ TimeoutOwnedByRun' => Inv'
  BY DEF StepOK, LoopType, Inv, TypeOK, CpuType, Cop0Type, UserType, IrqType
<1>1. CASE Run
  <2>1. LoopType' /\ TimeoutOwnedByRun'
    BY <1>0, <1>a, <1>1 DEF Run, LoopType, TimeoutOwnedByRun
  <2> QED
    BY <1>b, <1>1, <2>1, <1>d DEF Run
<1>2. CASE Step
  <2>1. LoopType' /\ TimeoutOwnedByRun'
    BY <1>0, <1>2 DEF Step, LoopType, TimeoutOwnedByRun
  <2> QED
    BY <1>b, <1>2, <2>1, <1>d DEF Step
<1>3. CASE IrqCheck
  <2>1. taken(queue, "check") \in [Triggered -> Nat]
    BY <1>0, <1>3, CheckTriggered DEF IrqCheck, taken, StepOK
  <2>2. StepOK'
    BY <1>0, <1>3, <2>1, CheckFacts DEF IrqCheck, StepOK
  <2> QED
    BY <1>c, <1>3, <2>2, <1>d DEF IrqCheck
<1>4. CASE IrqEvent
  <2>1. PICK i \in Irq : /\ queue[i] > 0
                         /\ check_for_pending_irq([irq EXCEPT !.status = @ \cup {i}], taken(queue, i))
    BY <1>4 DEF IrqEvent
  <2>2. taken(queue, i) \in [Triggered -> Nat]
    BY <1>0, <2>1, CheckTriggered DEF taken, StepOK
  <2>3. [irq EXCEPT !.status = @ \cup {i}] \in IrqType
    BY <1>0 DEF StepOK, IrqType
  <2>4. StepOK'
    BY <2>1, <2>2, <2>3, CheckFacts
  <2> QED
    BY <1>c, <1>4, <2>4, <1>d DEF IrqEvent
<1>5. CASE DeviceEvent
  <2>1. LoopType' /\ TimeoutOwnedByRun'
    BY <1>0, <1>a, <1>5 DEF DeviceEvent, LoopType, TimeoutOwnedByRun
  <2>2. CASE UNCHANGED queue
    BY <1>b, <1>5, <2>1, <2>2, <1>d DEF DeviceEvent
  <2>3. CASE \E i \in Irq : queue' = trigger(queue, i)
    <3>1. PICK i \in Irq : queue' = trigger(queue, i)
      BY <2>3
    <3>2. queue' \in [Triggered -> Nat] /\ queue'[i] > 0
      BY <1>0, <3>1, CheckTriggered, TriggerFacts DEF StepOK
    <3>3. NoMissedInterrupt'
      BY <3>2, CheckTriggered DEF NoMissedInterrupt, NoneTriggered
    <3>4. StepOK'
      BY <1>0, <1>5, <3>2, <3>3 DEF DeviceEvent, StepOK
    <3> QED
      BY <2>1, <3>4, <1>d
  <2> QED
    BY <1>5, <2>2, <2>3 DEF DeviceEvent
<1>6. CASE ExecutionTimeout
  <2>1. LoopType' /\ TimeoutOwnedByRun'
    BY <1>0, <1>a, <1>6 DEF ExecutionTimeout, LoopType, TimeoutOwnedByRun
  <2> QED
    BY <1>b, <1>6, <2>1, <1>d DEF ExecutionTimeout
<1>7. CASE execute_instruction
  <2>1. StepOK'
    <3>1. next_pc(cpu) \in CpuType
      BY <1>0, NextPcType DEF StepOK
    <3>2. Code[cpu.pc].op \in Ops /\ Code[cpu.pc].target \in Addr
      BY <1>7, CpuAssumption DEF execute_instruction
    <3> QED
      BY <1>7, <3>1, <3>2, ExecFacts DEF execute_instruction
  <2>2. LoopType'
    BY <1>0, <1>a, <1>7 DEF execute_instruction, after_instruction, LoopType
  <2>3. TimeoutOwnedByRun'
    BY <1>0, <1>a, <1>7 DEF execute_instruction, after_instruction, LoopType, TimeoutOwnedByRun
  <2> QED
    BY <2>1, <2>2, <2>3, <1>d
<1>8. CASE UNCHANGED vars
  BY <1>b, <1>c, <1>8, <1>d DEF vars
<1> QED
  BY <1>1, <1>2, <1>3, <1>4, <1>5, <1>6, <1>7, <1>8 DEF Next, Loop

THEOREM Invariants == Spec => []Inv
<1> QED
  BY InitInv, InvStep, PTL DEF Spec

\* Every variable of the CPU loop keeps its type, for every guest program.
THEOREM TypeCorrect == Spec => []TypeOK
<1>1. Inv => TypeOK
  BY DEF Inv
<1> QED
  BY <1>1, Invariants, PTL

\* No enabled and pending interrupt is left without a check in the queue,
\* unless MTC0 alone made it pending.
THEOREM InterruptsNotMissed == Spec => []NoMissedInterrupt
<1>1. Inv => NoMissedInterrupt
  BY DEF Inv
<1> QED
  BY <1>1, Invariants, PTL

\* The timeout event is in the queue exactly while `run` executes.
THEOREM TimeoutIsOwned == Spec => []TimeoutOwnedByRun
<1>1. Inv => TimeoutOwnedByRun
  BY DEF Inv
<1> QED
  BY <1>1, Invariants, PTL
-----------------------------------------------------------------------------
\* Interrupts are invisible.

\* The word at a is a branch of user code to t.
Branch(a, t) == a \in Addr /\ a < Vector /\ Code[a].op = "jump" /\ Code[a].target = t

\* A user program that has reached (up, un) may go on at t: it is there, or at
\* the branch whose delay slot it is in.
GoesOn(t, up, un) ==
  /\ t < Vector /\ up < Vector /\ un < Vector
  /\ \/ t = up /\ un = t + 1
     \/ t = up - 1 /\ Branch(t, un)

\* The counters of the CPU in user code, outside a delay slot and in one.
Straight(pc, n, up, un) == n = pc + 1 /\ GoesOn(pc, up, un)

InSlot(pc, n, up, un) ==
  /\ pc < Vector /\ up < Vector /\ un < Vector
  /\ pc = up /\ n = un /\ Branch(pc - 1, un)

\* Of a program that keeps to the rules.
LEMMA Discipline ==
  ASSUME GuestDiscipline
  PROVE  /\ Vector \in Nat /\ Vector >= 2
         /\ \A a \in Addr : a \in Nat /\ Code[a].target \in Nat
         /\ \A a \in Addr : a < Vector => Code[a].op \notin {"rfe", "return"}
         /\ \A a \in Addr : a < Vector /\ Code[a].op # "jump" => a + 2 # Vector
         /\ \A a, t : Branch(a, t) => t + 1 < Vector /\ Code[a + 1].op \notin {"jump", "syscall"}
<1>1. Vector \in Nat /\ \A a \in Addr : a \in Nat /\ Code[a].target \in Nat
  BY CpuAssumption
<1>2. Vector - 2 \in Nat
  BY <1>1 DEF GuestDiscipline
<1>3. \A a \in Addr : Code[a].op # "jump" => a # Vector - 2
  BY DEF GuestDiscipline
<1>4. \A a \in Addr : a < Vector /\ Code[a].op # "jump" => a + 2 # Vector
  BY <1>1, <1>3
<1> QED
  BY <1>1, <1>2, <1>4 DEF GuestDiscipline, Branch

\* An instruction other than a branch or a system call moves both on.
LEMMA UserPlain ==
  ASSUME GuestDiscipline, NEW pc \in Addr, NEW n \in Int, NEW up \in Int, NEW un \in Int,
         Straight(pc, n, up, un) \/ InSlot(pc, n, up, un),
         Code[pc].op # "jump"
  PROVE  /\ pc = up /\ n = un
         /\ Code[pc].op # "syscall" => Straight(n, n + 1, un, un + 1)
         /\ Code[pc].op = "syscall" => un = pc + 1 /\ GoesOn(pc + 1, un, un + 1)
  BY Discipline DEF Straight, InSlot, GoesOn, Branch

LEMMA UserJump ==
  ASSUME GuestDiscipline, NEW pc \in Addr, NEW n \in Int, NEW up \in Int, NEW un \in Int,
         Straight(pc, n, up, un) \/ InSlot(pc, n, up, un),
         Code[pc].op = "jump"
  PROVE  LET t == Code[pc].target
         IN  IF pc = up THEN InSlot(n, t, un, t) ELSE InSlot(n, t, up, un)
  BY Discipline DEF Straight, InSlot, GoesOn, Branch

LEMMA UserInterrupt ==
  ASSUME GuestDiscipline, NEW pc \in Int, NEW n \in Int, NEW up \in Int, NEW un \in Int
  PROVE  /\ Straight(pc, n, up, un) => GoesOn(pc, up, un)
         /\ InSlot(pc, n, up, un) => GoesOn(pc - 1, up, un)
  BY Discipline DEF Straight, InSlot, GoesOn, Branch

HandlerEnd == CHOOSE r \in Addr : HandlerEndsAt(r)

\* The counters in the handler, which returns to t.
InHandler(pc, n, t) ==
  \/ pc \in Vector .. HandlerEnd /\ n = pc + 1
  \/ pc = HandlerEnd + 1 /\ n = t

LEMMA HandlerStep ==
  ASSUME GuestDiscipline, NEW pc \in Int, NEW n \in Int, NEW t \in Int, InHandler(pc, n, t)
  PROVE  /\ pc >= Vector
         /\ \/ /\ Code[pc].op \in {"alu", "store_status", "store_mask", "store_device", "mtc0_cause"}
               /\ InHandler(n, n + 1, t)
            \/ Code[pc].op = "return" /\ InHandler(n, t, t)
            \/ Code[pc].op = "rfe" /\ n = t
<1>1. HandlerEnd \in Addr /\ HandlerEndsAt(HandlerEnd)
  BY DEF GuestDiscipline, HandlerEnd
<1>2. HandlerEnd \in Nat /\ Vector \in Nat
  BY <1>1, Discipline
<1>3. CASE pc \in Vector .. HandlerEnd /\ pc # HandlerEnd /\ n = pc + 1
  <2>1. pc \in Vector .. HandlerEnd - 1 /\ n \in Vector .. HandlerEnd /\ n + 1 = n + 1
    BY <1>2, <1>3
  <2> QED
    BY <1>1, <1>2, <2>1 DEF HandlerEndsAt, InHandler
<1>4. CASE pc = HandlerEnd /\ n = pc + 1
  <2>1. n = HandlerEnd + 1
    BY <1>4
  <2>2. InHandler(n, t, t)
    BY <2>1 DEF InHandler
  <2> QED
    BY <1>1, <1>2, <1>4, <2>2 DEF HandlerEndsAt
<1>5. CASE pc = HandlerEnd + 1 /\ n = t
  BY <1>1, <1>2, <1>5 DEF HandlerEndsAt
<1> QED
  BY <1>3, <1>4, <1>5 DEF InHandler

resume(c) == c.epc + (IF c.code = "syscall" THEN 1 ELSE 0)

\* Where the CPU is, where the user program is, and which bit will be restored.
Resumable ==
  \/ /\ \/ ~cpu.branched /\ Straight(cpu.pc, cpu.next_pc, user.pc, user.next_pc)
        \/ cpu.branched /\ InSlot(cpu.pc, cpu.next_pc, user.pc, user.next_pc)
     /\ cop0.flags[1] <=> user.enabled
  \/ /\ InHandler(cpu.pc, cpu.next_pc, resume(cop0))
     /\ GoesOn(resume(cop0), user.pc, user.next_pc)
     /\ ~cop0.flags[1] /\ (cop0.flags[2] <=> user.enabled)

\* The fields as numbers and truth values.
Fields ==
  /\ cpu.pc \in Int /\ cpu.next_pc \in Int /\ cpu.branched \in BOOLEAN
  /\ user.pc \in Int /\ user.next_pc \in Int /\ user.enabled \in BOOLEAN
  /\ resume(cop0) \in Int /\ cop0.epc \in Int
  /\ cop0.flags[1] \in BOOLEAN /\ cop0.flags[2] \in BOOLEAN

LEMMA FieldTypes == TypeOK => Fields
<1> SUFFICES ASSUME TypeOK PROVE Fields
  OBVIOUS
<1>1. cop0 \in Cop0Type /\ cpu \in CpuType /\ user \in UserType
  BY Types DEF UserType
<1>2. cop0.epc \in Int
  BY <1>1 DEF Cop0Type
<1>3. resume(cop0) \in Int
  BY <1>2 DEF resume
<1>4. cop0.flags \in BOOLEAN \X BOOLEAN \X BOOLEAN
  BY <1>1 DEF Cop0Type
<1>5. cop0.flags[1] \in BOOLEAN /\ cop0.flags[2] \in BOOLEAN
  BY <1>4
<1>6. cpu.pc \in Int /\ cpu.next_pc \in Int /\ cpu.branched \in BOOLEAN
  BY <1>1 DEF CpuType
<1>7. user.pc \in Int /\ user.next_pc \in Int /\ user.enabled \in BOOLEAN
  BY <1>1 DEF UserType
<1> QED
  BY <1>2, <1>3, <1>5, <1>6, <1>7 DEF Fields

LEMMA NextPcFields ==
  LET p == next_pc(cpu)
  IN  /\ p.last_pc = cpu.pc /\ p.pc = cpu.next_pc /\ p.next_pc = cpu.next_pc + 1
      /\ ~p.branched /\ p.in_branch_delay = cpu.branched
BY DEF next_pc

\* The user program moves exactly when its own next instruction is executed.
Moves(u, op, target, enabled) ==
  IF cpu.pc = user.pc
  THEN /\ u.pc = user.next_pc /\ u.next_pc = (IF op = "jump" THEN target ELSE user.next_pc + 1)
       /\ u.enabled <=> enabled
  ELSE u.pc = user.pc /\ u.next_pc = user.next_pc /\ (u.enabled <=> user.enabled)

LEMMA UserMoves ==
  ASSUME TypeOK, NEW op, NEW target \in Int, NEW enabled \in BOOLEAN
  PROVE  LET u == Undisturbed(next_pc(cpu), op, target, enabled)
         IN  Moves(u, op, target, enabled) /\ Moves([u EXCEPT !.mtc0 = TRUE], op, target, enabled)
<1> DEFINE n == IF op = "jump" THEN target ELSE user.next_pc + 1
           u1 == [user EXCEPT !.pc = user.next_pc]
           u2 == [u1 EXCEPT !.next_pc = n]
           u3 == [u2 EXCEPT !.enabled = enabled]
           u == Undisturbed(next_pc(cpu), op, target, enabled)
<1>1. user \in UserType
  BY Types DEF UserType
<1>2. u1 = [pc |-> user.next_pc, next_pc |-> user.next_pc, enabled |-> user.enabled, mtc0 |-> user.mtc0]
  BY <1>1 DEF UserType
<1> HIDE DEF n, u1
<1>3. u2 = [pc |-> user.next_pc, next_pc |-> n, enabled |-> user.enabled, mtc0 |-> user.mtc0]
  BY <1>2
<1> HIDE DEF u2
<1>4. u3 = [pc |-> user.next_pc, next_pc |-> n, enabled |-> enabled, mtc0 |-> user.mtc0]
  BY <1>3
<1> HIDE DEF u3
<1>5. next_pc(cpu).last_pc = cpu.pc
  BY NextPcFields
<1>6. u = IF cpu.pc = user.pc THEN u3 ELSE user
  BY <1>5 DEF Undisturbed, u1, u2, u3, n
<1> HIDE DEF u
<1>7. u = user \/ u = u3
  BY <1>6
<1>8. u.pc = [u EXCEPT !.mtc0 = TRUE].pc /\ u.next_pc = [u EXCEPT !.mtc0 = TRUE].next_pc
      /\ u.enabled = [u EXCEPT !.mtc0 = TRUE].enabled
  BY <1>1, <1>4, <1>7 DEF UserType
<1>9. Moves(u, op, target, enabled)
  BY <1>4, <1>6 DEF Moves, n
<1>10. Moves([u EXCEPT !.mtc0 = TRUE], op, target, enabled)
  BY <1>8, <1>9 DEF Moves
<1> QED
  BY <1>9, <1>10 DEF u

\* An instruction that goes on to the next one.
LEMMA QuietStep ==
  ASSUME GuestDiscipline, TypeOK, Resumable, cpu.pc \in Addr, NEW op, op = Code[cpu.pc].op,
         op \notin {"jump", "syscall", "return", "rfe"}, NEW e \in BOOLEAN,
         cpu' = next_pc(cpu), Moves(user', op, 0, e), resume(cop0)' = resume(cop0),
         \/ cop0'.flags = cop0.flags /\ (e <=> user.enabled)
         \/ op = "mtc0_status" /\ (cop0'.flags[1] <=> e)
  PROVE  Resumable'
<1>1. Fields
  BY FieldTypes
<1>2. cpu'.pc = cpu.next_pc /\ cpu'.next_pc = cpu.next_pc + 1 /\ ~cpu'.branched
  BY NextPcFields
<1>3. CASE /\ \/ Straight(cpu.pc, cpu.next_pc, user.pc, user.next_pc)
              \/ InSlot(cpu.pc, cpu.next_pc, user.pc, user.next_pc)
           /\ cop0.flags[1] <=> user.enabled
  <2>1. /\ cpu.pc = user.pc /\ cpu.next_pc = user.next_pc
        /\ Straight(cpu.next_pc, cpu.next_pc + 1, user.next_pc, user.next_pc + 1)
    <3>1. Code[cpu.pc].op # "jump" /\ Code[cpu.pc].op # "syscall"
      OBVIOUS
    <3>2. cpu.next_pc \in Int /\ user.pc \in Int /\ user.next_pc \in Int
      BY <1>1 DEF Fields
    <3> QED
      BY <1>3, <3>1, <3>2, UserPlain
  <2>2. user'.pc = user.next_pc /\ user'.next_pc = user.next_pc + 1 /\ (user'.enabled <=> e)
    BY <2>1 DEF Moves
  <2>3. cop0'.flags[1] <=> e
    BY <1>3
  <2>4. ~cpu'.branched /\ Straight(cpu'.pc, cpu'.next_pc, user'.pc, user'.next_pc)
    BY <1>2, <2>1, <2>2
  <2> QED
    BY <2>2, <2>3, <2>4 DEF Resumable
<1>4. CASE /\ InHandler(cpu.pc, cpu.next_pc, resume(cop0))
           /\ GoesOn(resume(cop0), user.pc, user.next_pc)
           /\ ~cop0.flags[1] /\ (cop0.flags[2] <=> user.enabled)
  <2>1. cpu.pc >= Vector /\ op # "mtc0_status"
        /\ InHandler(cpu.next_pc, cpu.next_pc + 1, resume(cop0))
    BY <1>1, <1>4, HandlerStep DEF Fields
  <2>2. user.pc < Vector /\ Vector \in Nat
    BY <1>4, Discipline DEF GoesOn
  <2>3. cpu.pc # user.pc
    BY <1>1, <2>1, <2>2 DEF Fields
  <2>4. user'.pc = user.pc /\ user'.next_pc = user.next_pc /\ (user'.enabled <=> user.enabled)
    BY <2>3 DEF Moves
  <2>5. cop0'.flags = cop0.flags
    BY <2>1
  <2> QED
    BY <1>2, <1>4, <2>1, <2>4, <2>5 DEF Resumable
<1> QED
  BY <1>3, <1>4 DEF Resumable

\* An instruction of the handler is none of user code, and the other way round.
LEMMA WhereItIs ==
  ASSUME GuestDiscipline, TypeOK, Resumable
  PROVE  \/ /\ Code[cpu.pc].op \in {"jump", "syscall"} \/ cpu.pc < Vector
            /\ \/ ~cpu.branched /\ Straight(cpu.pc, cpu.next_pc, user.pc, user.next_pc)
               \/ cpu.branched /\ InSlot(cpu.pc, cpu.next_pc, user.pc, user.next_pc)
            /\ cop0.flags[1] <=> user.enabled
         \/ /\ Code[cpu.pc].op \notin {"jump", "syscall"}
            /\ InHandler(cpu.pc, cpu.next_pc, resume(cop0))
            /\ GoesOn(resume(cop0), user.pc, user.next_pc)
            /\ ~cop0.flags[1] /\ (cop0.flags[2] <=> user.enabled)
<1>1. Fields
  BY FieldTypes
<1>2. CASE /\ \/ ~cpu.branched /\ Straight(cpu.pc, cpu.next_pc, user.pc, user.next_pc)
              \/ cpu.branched /\ InSlot(cpu.pc, cpu.next_pc, user.pc, user.next_pc)
           /\ cop0.flags[1] <=> user.enabled
  BY <1>2 DEF Straight, InSlot, GoesOn
<1>3. CASE /\ InHandler(cpu.pc, cpu.next_pc, resume(cop0))
           /\ GoesOn(resume(cop0), user.pc, user.next_pc)
           /\ ~cop0.flags[1] /\ (cop0.flags[2] <=> user.enabled)
  <2>1. Code[cpu.pc].op \notin {"jump", "syscall"}
    BY <1>1, <1>3, HandlerStep DEF Fields
  <2> QED
    BY <1>3, <2>1
<1> QED
  BY <1>2, <1>3 DEF Resumable

LEMMA JumpStep ==
  ASSUME GuestDiscipline, TypeOK, Resumable, cpu.pc \in Addr, Code[cpu.pc].op = "jump",
         NEW t, t = Code[cpu.pc].target,
         cpu'.pc = cpu.next_pc, cpu'.next_pc = t, cpu'.branched,
         Moves(user', "jump", t, user.enabled), cop0' = cop0
  PROVE  Resumable'
<1>1. Fields
  BY FieldTypes
<1>2. /\ \/ Straight(cpu.pc, cpu.next_pc, user.pc, user.next_pc)
         \/ InSlot(cpu.pc, cpu.next_pc, user.pc, user.next_pc)
      /\ cop0.flags[1] <=> user.enabled
  BY WhereItIs
<1>3. cpu.next_pc \in Int /\ user.pc \in Int /\ user.next_pc \in Int
  BY <1>1 DEF Fields
<1>4. IF cpu.pc = user.pc THEN InSlot(cpu.next_pc, t, user.next_pc, t)
      ELSE InSlot(cpu.next_pc, t, user.pc, user.next_pc)
  BY <1>2, <1>3, UserJump
<1>5. /\ user'.enabled <=> user.enabled
      /\ InSlot(cpu.next_pc, t, user'.pc, user'.next_pc)
  BY <1>4 DEF Moves
<1> QED
  BY <1>2, <1>5 DEF Resumable

\* The handler is entered: the enable bit is on the stack, and it knows the way back.
LEMMA Entered ==
  ASSUME GuestDiscipline, TypeOK, NEW code, cop0' = enter_exception(next_pc(cpu), cop0, code),
         cpu' = [next_pc(cpu) EXCEPT !.pc = Vector, !.next_pc = Vector + 1],
         GoesOn(resume(cop0'), user'.pc, user'.next_pc), cop0.flags[1] <=> user'.enabled
  PROVE  Resumable'
<1>1. HandlerEnd \in Addr /\ HandlerEndsAt(HandlerEnd)
  BY DEF GuestDiscipline, HandlerEnd
<1>2. HandlerEnd \in Nat /\ Vector \in Nat
  BY <1>1, Discipline
<1>3. cpu'.pc = Vector /\ cpu'.next_pc = Vector + 1
  BY DEF next_pc
<1>4. InHandler(cpu'.pc, cpu'.next_pc, resume(cop0'))
  BY <1>1, <1>2, <1>3 DEF InHandler, HandlerEndsAt
<1>5. cop0'.flags = <<FALSE, cop0.flags[1], cop0.flags[2]>>
  BY DEF enter_exception
<1>6. ~cop0'.flags[1] /\ cop0'.flags[2] = cop0.flags[1]
  BY <1>5
<1> QED
  BY <1>4, <1>6 DEF Resumable

LEMMA EnteredAt ==
  ASSUME TypeOK, NEW code \in {"interrupt", "syscall"}
  PROVE  LET c == enter_exception(next_pc(cpu), cop0, code)
         IN  /\ code = "interrupt" /\ ~cpu.branched => resume(c) = cpu.pc
             /\ code = "interrupt" /\ cpu.branched => resume(c) = cpu.pc - 1
             /\ code = "syscall" /\ ~cpu.branched => resume(c) = cpu.pc + 1
<1> DEFINE c == enter_exception(next_pc(cpu), cop0, code)
<1>1. cpu.pc \in Int /\ cpu.branched \in BOOLEAN
  BY FieldTypes DEF Fields
<1>2. c.epc = cpu.pc - (IF cpu.branched THEN 1 ELSE 0) /\ c.code = code
  BY DEF enter_exception, next_pc
<1> HIDE DEF c
<1>3. /\ cpu.branched => c.epc = cpu.pc - 1
      /\ ~cpu.branched => c.epc = cpu.pc
  BY <1>1, <1>2
<1>4. /\ code = "interrupt" => resume(c) = c.epc + 0
      /\ code = "syscall" => resume(c) = c.epc + 1
  BY <1>2 DEF resume
<1>5. /\ code = "interrupt" /\ ~cpu.branched => resume(c) = cpu.pc
      /\ code = "interrupt" /\ cpu.branched => resume(c) = cpu.pc - 1
      /\ code = "syscall" /\ ~cpu.branched => resume(c) = cpu.pc + 1
  BY <1>1, <1>3, <1>4
<1> QED
  BY <1>5 DEF c

LEMMA SyscallStep ==
  ASSUME GuestDiscipline, TypeOK, Resumable, cpu.pc \in Addr, Code[cpu.pc].op = "syscall",
         cop0' = enter_exception(next_pc(cpu), cop0, "syscall"),
         cpu' = [next_pc(cpu) EXCEPT !.pc = Vector, !.next_pc = Vector + 1],
         Moves(user', "syscall", 0, user.enabled)
  PROVE  Resumable'
<1>1. cpu.next_pc \in Int /\ user.pc \in Int /\ user.next_pc \in Int /\ cpu.pc \in Int
  BY FieldTypes DEF Fields
<1>2. /\ \/ ~cpu.branched /\ Straight(cpu.pc, cpu.next_pc, user.pc, user.next_pc)
         \/ cpu.branched /\ InSlot(cpu.pc, cpu.next_pc, user.pc, user.next_pc)
      /\ cop0.flags[1] <=> user.enabled
  BY WhereItIs
<1>3. /\ cpu.pc = user.pc /\ cpu.next_pc = user.next_pc
      /\ user.next_pc = cpu.pc + 1 /\ GoesOn(cpu.pc + 1, user.next_pc, user.next_pc + 1)
  BY <1>1, <1>2, UserPlain
<1>4. ~cpu.branched
  <2>1. ~InSlot(cpu.pc, cpu.next_pc, user.pc, user.next_pc)
    <3>1. ASSUME Branch(cpu.pc - 1, user.next_pc) PROVE FALSE
      <4>1. Code[(cpu.pc - 1) + 1].op \notin {"jump", "syscall"}
        BY <3>1, Discipline
      <4>2. (cpu.pc - 1) + 1 = cpu.pc
        BY <1>1
      <4> QED
        BY <4>1, <4>2
    <3> QED
      BY <3>1 DEF InSlot
  <2> QED
    BY <1>2, <2>1
<1>5. resume(cop0') = cpu.pc + 1
  BY <1>4, EnteredAt
<1>6. user'.pc = user.next_pc /\ user'.next_pc = user.next_pc + 1 /\ (user'.enabled <=> user.enabled)
  BY <1>3 DEF Moves
<1> QED
  BY <1>2, <1>3, <1>5, <1>6, Entered

\* In the handler interrupts are disabled.
LEMMA InterruptStep ==
  ASSUME GuestDiscipline, TypeOK, Resumable, cop0.flags[1],
         cop0' = enter_exception(next_pc(cpu), cop0, "interrupt"),
         cpu' = [next_pc(cpu) EXCEPT !.pc = Vector, !.next_pc = Vector + 1],
         user'.pc = user.pc, user'.next_pc = user.next_pc, user'.enabled = user.enabled
  PROVE  Resumable'
<1>1. cpu.next_pc \in Int /\ user.pc \in Int /\ user.next_pc \in Int /\ cpu.pc \in Int
  BY FieldTypes DEF Fields
<1>2. /\ \/ ~cpu.branched /\ Straight(cpu.pc, cpu.next_pc, user.pc, user.next_pc)
         \/ cpu.branched /\ InSlot(cpu.pc, cpu.next_pc, user.pc, user.next_pc)
      /\ cop0.flags[1] <=> user.enabled
  BY DEF Resumable
<1>3. GoesOn(resume(cop0'), user.pc, user.next_pc)
  <2>1. CASE ~cpu.branched
    BY <1>1, <1>2, <2>1, EnteredAt, UserInterrupt
  <2>2. CASE cpu.branched
    BY <1>1, <1>2, <2>2, EnteredAt, UserInterrupt
  <2> QED
    BY <2>1, <2>2
<1> QED
  BY <1>2, <1>3, Entered

LEMMA ReturnStep ==
  ASSUME GuestDiscipline, TypeOK, Resumable, cpu.pc \in Addr, Code[cpu.pc].op = "return",
         cpu'.pc = cpu.next_pc, cpu'.next_pc = resume(cop0), cop0' = cop0, user' = user
  PROVE  Resumable'
<1>1. Fields
  BY FieldTypes
<1>2. CASE cpu.pc < Vector
  BY <1>2, Discipline
<1>3. CASE ~(cpu.pc < Vector)
  <2>1. /\ InHandler(cpu.pc, cpu.next_pc, resume(cop0))
        /\ GoesOn(resume(cop0), user.pc, user.next_pc)
        /\ ~cop0.flags[1] /\ (cop0.flags[2] <=> user.enabled)
    BY <1>3, WhereItIs
  <2>2. InHandler(cpu.next_pc, resume(cop0), resume(cop0))
    BY <1>1, <2>1, HandlerStep DEF Fields
  <2> QED
    BY <2>1, <2>2 DEF Resumable
<1> QED
  BY <1>2, <1>3

LEMMA RfeStep ==
  ASSUME GuestDiscipline, TypeOK, Resumable, cpu.pc \in Addr, Code[cpu.pc].op = "rfe",
         cpu' = next_pc(cpu), cop0' = exit_exception(cop0), Moves(user', "rfe", 0, user.enabled)
  PROVE  Resumable'
<1>1. Fields
  BY FieldTypes
<1>2. CASE cpu.pc < Vector
  BY <1>2, Discipline
<1>3. CASE ~(cpu.pc < Vector)
  <2>1. /\ InHandler(cpu.pc, cpu.next_pc, resume(cop0))
        /\ GoesOn(resume(cop0), user.pc, user.next_pc)
        /\ ~cop0.flags[1] /\ (cop0.flags[2] <=> user.enabled)
    BY <1>3, WhereItIs
  <2>2. cpu.pc >= Vector /\ cpu.next_pc = resume(cop0)
    BY <1>1, <2>1, HandlerStep DEF Fields
  <2>3. user.pc < Vector /\ Vector \in Nat
    BY <2>1, Discipline DEF GoesOn
  <2>4. cpu.pc # user.pc
    BY <1>1, <2>2, <2>3 DEF Fields
  <2>5. user'.pc = user.pc /\ user'.next_pc = user.next_pc /\ (user'.enabled <=> user.enabled)
    BY <2>4 DEF Moves
  <2>6. cpu'.pc = cpu.next_pc /\ cpu'.next_pc = cpu.next_pc + 1 /\ ~cpu'.branched
    BY NextPcFields
  <2>7. Straight(cpu'.pc, cpu'.next_pc, user'.pc, user'.next_pc)
    BY <2>1, <2>2, <2>5, <2>6 DEF Straight
  <2>8. cop0 \in Cop0Type
    BY Types
  <2>9. cop0'.flags = <<cop0.flags[2], cop0.flags[3], cop0.flags[3]>>
    BY <2>8 DEF exit_exception, Cop0Type
  <2>10. cop0'.flags[1] = cop0.flags[2]
    BY <2>9
  <2> QED
    BY <2>1, <2>5, <2>6, <2>7, <2>10 DEF Resumable
<1> QED
  BY <1>2, <1>3

\* An interrupt is taken, or nothing that matters here has changed.
LEMMA CheckStep ==
  ASSUME GuestDiscipline, TypeOK, Resumable, NEW i, NEW q, check_for_pending_irq(i, q)
  PROVE  Resumable'
<1>1. user'.pc = user.pc /\ user'.next_pc = user.next_pc /\ user'.enabled = user.enabled
  <2>1. user \in UserType /\ user' = [user EXCEPT !.mtc0 = FALSE]
    BY Types DEF UserType, check_for_pending_irq
  <2> QED
    BY <2>1 DEF UserType
<1>2. CASE irq_pending(cop0, i)
  <2>1. throw_exception(next_pc(cpu), "interrupt", q) /\ cop0.flags[1]
    BY <1>2 DEF check_for_pending_irq, irq_pending
  <2> QED
    BY <1>1, <2>1, InterruptStep DEF throw_exception
<1>3. CASE ~irq_pending(cop0, i)
  <2>1. cpu' = cpu /\ cop0' = cop0
    BY <1>3 DEF check_for_pending_irq
  <2> QED
    BY <1>1, <2>1 DEF Resumable
<1> QED
  BY <1>2, <1>3

LEMMA ExecStep ==
  ASSUME GuestDiscipline, TypeOK, Resumable, cpu.pc \in Addr, exec(next_pc(cpu), Code[cpu.pc])
  PROVE  Resumable'
<1> DEFINE p == next_pc(cpu)
           op == Code[cpu.pc].op
           t == Code[cpu.pc].target
<1>1. /\ 0 \in Int /\ t \in Int /\ user.enabled \in BOOLEAN /\ cop0 \in Cop0Type
      /\ p \in CpuType
  <2>1. t \in Nat
    BY CpuAssumption
  <2> QED
    BY <2>1, Types, NextPcType, FieldTypes DEF Fields
<1>2. p.pc = cpu.next_pc /\ p.next_pc = cpu.next_pc + 1
  BY NextPcFields
<1>3. \A o, a : a \in Int => Moves(Undisturbed(p, o, a, user.enabled), o, a, user.enabled)
  BY <1>1, UserMoves
<1> HIDE DEF p, op, t
<1>4. CASE Plain(p, op) \/ store(p, op) \/ StoreDevice(p, op)
  <2>1. cpu' = p /\ cop0' = cop0 /\ op \notin {"jump", "syscall", "return", "rfe"}
    BY <1>4 DEF Plain, store, StoreDevice
  <2>2. user' = Undisturbed(p, op, 0, user.enabled)
    BY <1>4 DEF Plain, store, StoreDevice
  <2>3. Moves(user', op, 0, user.enabled)
    BY <1>1, <1>3, <2>2
  <2> QED
    BY <1>1, <2>1, <2>3, QuietStep DEF p, op
<1>5. CASE Jump(p, op, t)
  <2>1. op = "jump" /\ cpu' = [p EXCEPT !.next_pc = t, !.branched = TRUE] /\ cop0' = cop0
        /\ user' = Undisturbed(p, "jump", t, user.enabled)
    BY <1>5 DEF Jump
  <2>2. Moves(user', "jump", t, user.enabled)
    BY <1>1, <1>3, <2>1
  <2>3. cpu'.pc = cpu.next_pc /\ cpu'.next_pc = t /\ cpu'.branched
    BY <1>1, <1>2, <2>1 DEF CpuType
  <2> QED
    BY <2>1, <2>2, <2>3, JumpStep DEF op, t
<1>6. CASE Syscall(p, op)
  <2>1. op = "syscall" /\ throw_exception(p, "syscall", queue)
        /\ user' = Undisturbed(p, "syscall", 0, user.enabled)
    BY <1>6 DEF Syscall
  <2>2. Moves(user', "syscall", 0, user.enabled)
    BY <1>1, <1>3, <2>1
  <2> QED
    BY <2>1, <2>2, SyscallStep DEF throw_exception, p, op
<1>7. CASE Mtc0(p, op)
  <2>1. cpu' = p /\ op \in {"mtc0_status", "mtc0_cause"}
    BY <1>7 DEF Mtc0
  <2>2. CASE op = "mtc0_status"
    <3>1. PICK bits \in SUBSET CauseBits, flags \in BOOLEAN \X BOOLEAN \X BOOLEAN :
            /\ cop0' = [cop0 EXCEPT !.im = bits, !.flags = flags]
            /\ user' = [Undisturbed(p, op, 0, flags[1]) EXCEPT !.mtc0 = TRUE]
      BY <1>7, <2>2 DEF Mtc0
    <3> DEFINE e == flags[1]
    <3>2. e \in BOOLEAN
      OBVIOUS
    <3>3. Moves(user', op, 0, e)
      BY <1>1, <3>1, <3>2, UserMoves DEF p
    <3>4. cop0'.flags = flags /\ cop0'.epc = cop0.epc /\ cop0'.code = cop0.code
      BY <1>1, <3>1 DEF Cop0Type
    <3>5. resume(cop0)' = resume(cop0) /\ (cop0'.flags[1] <=> e)
      BY <3>4 DEF resume
    <3> HIDE DEF e
    <3> QED
      BY <2>1, <2>2, <3>2, <3>3, <3>5, QuietStep DEF p, op
  <2>3. CASE op = "mtc0_cause"
    <3>1. PICK bits \in SUBSET CauseBits :
            /\ cop0' = [cop0 EXCEPT !.ip = bits]
            /\ user' = [Undisturbed(p, op, 0, user.enabled) EXCEPT !.mtc0 = TRUE]
      BY <1>7, <2>3 DEF Mtc0
    <3>2. Moves(user', op, 0, user.enabled)
      BY <1>1, <3>1, UserMoves DEF p
    <3>3. cop0'.flags = cop0.flags /\ cop0'.epc = cop0.epc /\ cop0'.code = cop0.code
      BY <1>1, <3>1 DEF Cop0Type
    <3>4. resume(cop0)' = resume(cop0)
      BY <3>3 DEF resume
    <3> QED
      BY <1>1, <2>1, <2>3, <3>2, <3>3, <3>4, QuietStep DEF p, op
  <2> QED
    BY <2>1, <2>2, <2>3
<1>8. CASE Rfe(p, op)
  <2>1. op = "rfe" /\ cpu' = p /\ cop0' = exit_exception(cop0)
        /\ user' = Undisturbed(p, "rfe", 0, user.enabled)
    BY <1>8 DEF Rfe
  <2>2. Moves(user', "rfe", 0, user.enabled)
    BY <1>1, <1>3, <2>1
  <2> QED
    BY <2>1, <2>2, RfeStep DEF p, op
<1>9. CASE Return(p, op)
  <2> DEFINE a == resume(cop0)
  <2>1. op = "return" /\ cop0' = cop0 /\ user' = user
        /\ cpu' = [p EXCEPT !.branched = TRUE, !.next_pc = a]
    BY <1>9 DEF Return, resume
  <2> HIDE DEF a
  <2>2. cpu'.pc = cpu.next_pc /\ cpu'.next_pc = a
    BY <1>1, <1>2, <2>1 DEF CpuType
  <2> QED
    BY <2>1, <2>2, ReturnStep DEF op, a
<1> QED
  BY <1>4, <1>5, <1>6, <1>7, <1>8, <1>9 DEF exec, p, op, t

LEMMA ResumableStep ==
  ASSUME GuestDiscipline, TypeOK, Resumable, [Next]_vars
  PROVE  Resumable'
<1>1. CASE UNCHANGED <<cpu, cop0, user>>
  BY <1>1 DEF Resumable
<1>2. CASE IrqCheck
  BY <1>2, CheckStep DEF IrqCheck
<1>3. CASE IrqEvent
  BY <1>3, CheckStep DEF IrqEvent
<1>4. CASE execute_instruction
  BY <1>4, ExecStep DEF execute_instruction
<1> QED
  BY <1>1, <1>2, <1>3, <1>4 DEF Next, Loop, Run, Step, DeviceEvent, ExecutionTimeout, vars

\* Interrupts are invisible to a user program whose code and handler keep to the
\* rules: wherever one is taken, the program goes on where it would have been,
\* with a branch executed again for its delay slot, and with its enable bit
\* (enter_exception and exit_exception).
THEOREM InterruptsAreInvisible ==
  ASSUME GuestDiscipline PROVE Spec => []PreciseResume
<1>1. Init => Resumable
  <2> SUFFICES ASSUME Init PROVE Resumable
    OBVIOUS
  <2>1. Straight(0, 1, 0, 1)
    BY Discipline DEF Straight, GoesOn
  <2>2. /\ cpu.pc = 0 /\ cpu.next_pc = 1 /\ ~cpu.branched
        /\ user.pc = 0 /\ user.next_pc = 1 /\ ~user.enabled /\ ~cop0.flags[1]
    BY DEF Init
  <2> QED
    BY <2>1, <2>2 DEF Resumable
<1>2. TypeOK /\ Resumable => PreciseResume
  <2> SUFFICES ASSUME TypeOK, Resumable, cpu.pc < Vector
               PROVE  /\ \/ cpu.pc = user.pc /\ cpu.next_pc = user.next_pc
                         \/ /\ cpu.next_pc = user.pc /\ cpu.pc = user.pc - 1 /\ ~cpu.branched
                            /\ Code[cpu.pc].op = "jump" /\ Code[cpu.pc].target = user.next_pc
                      /\ cop0.flags[1] = user.enabled
    BY DEF PreciseResume
  <2>1. Fields
    BY FieldTypes
  <2>2. ~InHandler(cpu.pc, cpu.next_pc, resume(cop0))
    <3>1. ASSUME InHandler(cpu.pc, cpu.next_pc, resume(cop0)) PROVE FALSE
      <4>1. cpu.pc >= Vector /\ Vector \in Nat
        BY <2>1, <3>1, HandlerStep, Discipline DEF Fields
      <4> QED
        BY <2>1, <4>1 DEF Fields
    <3> QED
      BY <3>1
  <2>3. /\ \/ ~cpu.branched /\ Straight(cpu.pc, cpu.next_pc, user.pc, user.next_pc)
           \/ cpu.branched /\ InSlot(cpu.pc, cpu.next_pc, user.pc, user.next_pc)
        /\ cop0.flags[1] <=> user.enabled
    BY <2>2 DEF Resumable
  <2>4. cop0.flags[1] = user.enabled
    BY <2>1, <2>3 DEF Fields
  <2>5. \/ cpu.pc = user.pc /\ cpu.next_pc = user.next_pc
        \/ /\ cpu.next_pc = user.pc /\ cpu.pc = user.pc - 1 /\ ~cpu.branched
           /\ Code[cpu.pc].op = "jump" /\ Code[cpu.pc].target = user.next_pc
    BY <2>1, <2>3 DEF Fields, Straight, InSlot, GoesOn, Branch
  <2> QED
    BY <2>4, <2>5
<1>3. TypeOK /\ Resumable /\ [Next]_vars => Resumable'
  BY ResumableStep
<1> QED
  BY <1>1, <1>2, <1>3, TypeCorrect, PTL DEF Spec
=============================================================================
