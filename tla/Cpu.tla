-------------------------------- MODULE Cpu --------------------------------
(***************************************************************************)
(* The CPU loop of splst_core: `Cpu::run` and `Cpu::step` dispatch the     *)
(* pending events and execute instructions; exceptions and interrupts go   *)
(* through COP0 (cpu/mod.rs, cpu/cop0.rs, cpu/irq.rs).                     *)
(*                                                                         *)
(* An address is a word index.  Registers, memory and the caches are left  *)
(* out: an instruction is what it does to the program counters, to COP0,   *)
(* to the interrupt registers and to the event queue.  The queue is seen   *)
(* the way AbstractSchedule allows: triggered events (ready since startup) *)
(* come before the timed ones, in any order among themselves.              *)
(*                                                                         *)
(* The guest's software is a constant program: user code below Vector and  *)
(* an exception handler from Vector on.                                    *)
(***************************************************************************)
EXTENDS Integers

CONSTANTS Irq,        \* interrupt sources
          Code,       \* the guest program: Code[addr] = [op, target]
          Vector,     \* where the exception handler starts
          MaxTime,    \* bound: cycles a call of `run` may get
          MaxDue      \* bound: timed device events due at one time

Addr == DOMAIN Code

Ops == {"alu", "jump", "syscall", "store_status", "store_mask", "store_device",
        "mtc0_status", "mtc0_cause", "rfe", "return"}

ASSUME CpuAssumption ==
  /\ "check" \notin Irq
  /\ Addr \subseteq Nat
  /\ Vector \in Addr
  /\ \A a \in Addr : Code[a].op \in Ops /\ Code[a].target \in Addr
  /\ MaxTime \in Nat /\ MaxDue \in Nat

VARIABLES
  cpu,      \* last_pc, pc, next_pc, in_branch_delay, branched
  cop0,     \* flags: the three interrupt enable bits of the status register
            \* (current, previous, old); im: its interrupt mask; ip: the pending
            \* bits of cause; code, bd and epc
  irq,      \* IrqState: status and mask
  queue,    \* how many Event::IrqCheck ("check") and Event::Irq(i) are triggered
  due,      \* how many timed device events are due
  timeout,  \* cycles until Event::ExecutionTimeout, or NoTimeout
  mode,     \* the call the frontend is in: "idle", "run", "step"
  user      \* history: the user program without interruptions, and whether
            \* only MTC0 may have made an interrupt pending

vars == <<cpu, cop0, irq, queue, due, timeout, mode, user>>

NoTimeout == -1

Triggered == Irq \cup {"check"}
CauseBits == {"hw", "sw"}     \* bit 10, and the software bits 8 and 9

Init ==
  /\ cpu = [last_pc |-> 0, pc |-> 0, next_pc |-> 1, in_branch_delay |-> FALSE, branched |-> FALSE]
  /\ cop0 = [flags |-> <<FALSE, FALSE, FALSE>>, im |-> {}, ip |-> {},
             code |-> "none", bd |-> FALSE, epc |-> 0]
  /\ irq = [status |-> {}, mask |-> {}]
  /\ queue = [e \in Triggered |-> 0]
  /\ due = 0
  /\ timeout = NoTimeout
  /\ mode = "idle"
  /\ user = [pc |-> 0, next_pc |-> 1, enabled |-> FALSE, mtc0 |-> FALSE]

-----------------------------------------------------------------------------
\* `Schedule::trigger`, and `get_pending_event` for an entry it returns.
trigger(q, e) == [q EXCEPT ![e] = @ + 1]

taken(q, e) == [q EXCEPT ![e] = @ - 1]

active(i) == i.status \cap i.mask # {}

irq_pending(c, i) ==
  /\ c.flags[1]
  /\ (c.ip \cup IF active(i) THEN {"hw"} ELSE {}) \cap c.im # {}

next_pc(c) ==
  [last_pc |-> c.pc, pc |-> c.next_pc, next_pc |-> c.next_pc + 1,
   in_branch_delay |-> c.branched, branched |-> FALSE]

\* Faults: the branch delay slot is forgotten; interrupts stay enabled.
Fault_enter_exception(p, c, code) ==
  [flags |-> <<FALSE, c.flags[1], c.flags[2]>>, im |-> c.im, ip |-> c.ip,
   code |-> code, bd |-> p.in_branch_delay, epc |-> p.last_pc]
Fault_enter_enabled(p, c, code) ==
  [flags |-> <<c.flags[1], c.flags[1], c.flags[2]>>, im |-> c.im, ip |-> c.ip, code |-> code,
   bd |-> p.in_branch_delay, epc |-> p.last_pc - (IF p.in_branch_delay THEN 1 ELSE 0)]

\* `enter_exception` pushes the flags and remembers where to resume: the
\* instruction, or the branch before it if it is in the delay slot.
enter_exception(p, c, code) ==
  [flags |-> <<FALSE, c.flags[1], c.flags[2]>>, im |-> c.im, ip |-> c.ip, code |-> code,
   bd |-> p.in_branch_delay, epc |-> p.last_pc - (IF p.in_branch_delay THEN 1 ELSE 0)]

exit_exception(c) == [c EXCEPT !.flags = <<@[2], @[3], @[3]>>]

\* `throw_exception` after next_pc has moved the counters to p.
throw_exception(p, code, q) ==
  /\ cop0' = enter_exception(p, cop0, code)
  /\ cpu' = [p EXCEPT !.pc = Vector, !.next_pc = Vector + 1]
  /\ queue' = trigger(q, "check")

\* `check_for_pending_irq` with interrupt registers i, after an event was
\* taken and left queue q.
check_for_pending_irq(i, q) ==
  /\ irq' = i
  /\ user' = [user EXCEPT !.mtc0 = FALSE]
  /\ IF irq_pending(cop0, i) THEN throw_exception(next_pc(cpu), "interrupt", q)
                             ELSE queue' = q /\ UNCHANGED <<cpu, cop0>>

-----------------------------------------------------------------------------
\* One call of `run(time)`, and one of `step`.
Run ==
  /\ mode = "idle"
  /\ mode' = "run"
  /\ timeout' \in 0 .. MaxTime
  /\ UNCHANGED <<cpu, cop0, irq, queue, due, user>>

Step ==
  /\ mode = "idle"
  /\ mode' = "step"
  /\ UNCHANGED <<cpu, cop0, irq, queue, due, timeout, user>>

NoneTriggered == \A e \in Triggered : queue[e] = 0

\* Event::IrqCheck.
IrqCheck ==
  /\ mode # "idle" /\ queue["check"] > 0
  /\ check_for_pending_irq(irq, taken(queue, "check"))
  /\ UNCHANGED <<due, timeout, mode>>

\* Event::Irq(i): the source is latched and the CPU looks at once.
IrqEvent == \E i \in Irq :
  /\ mode # "idle" /\ queue[i] > 0
  /\ check_for_pending_irq([irq EXCEPT !.status = @ \cup {i}], taken(queue, i))
  /\ UNCHANGED <<due, timeout, mode>>

\* A timed event of a device: its callback may trigger an interrupt, and may
\* schedule events that are due at once, itself among them.
DeviceEvent ==
  /\ mode # "idle" /\ NoneTriggered /\ due > 0
  /\ due' \in due - 1 .. MaxDue
  /\ \/ \E i \in Irq : queue' = trigger(queue, i)
     \/ UNCHANGED queue
  /\ UNCHANGED <<cpu, cop0, irq, timeout, mode, user>>

\* Event::ExecutionTimeout ends `run`; in `step` it is `unreachable!`.
ExecutionTimeout ==
  /\ mode = "run" /\ NoneTriggered /\ timeout = 0
  /\ mode' = "idle" /\ timeout' = NoTimeout
  /\ UNCHANGED <<cpu, cop0, irq, queue, due, user>>

\* The user program without interruptions: a step of it, unless the code is
\* the handler's or a branch is executed again.
Undisturbed(p, op, target, enabled) ==
  IF p.last_pc # user.pc THEN user
  ELSE [user EXCEPT !.pc = user.next_pc,
                    !.next_pc = IF op = "jump" THEN target ELSE user.next_pc + 1,
                    !.enabled = enabled]

\* What an instruction does, once next_pc has moved the counters to p.
Plain(p, op) ==
  /\ op = "alu"
  /\ cpu' = p
  /\ user' = Undisturbed(p, op, 0, user.enabled)
  /\ UNCHANGED <<cop0, irq, queue>>

\* `jump` and `branch` change the counter after the delay slot.
Jump(p, op, target) ==
  /\ op = "jump"
  /\ cpu' = [p EXCEPT !.next_pc = target, !.branched = TRUE]
  /\ user' = Undisturbed(p, op, target, user.enabled)
  /\ UNCHANGED <<cop0, irq, queue>>

Syscall(p, op) ==
  /\ op = "syscall"
  /\ throw_exception(p, "syscall", queue)
  /\ user' = Undisturbed(p, op, 0, user.enabled)
  /\ UNCHANGED irq

\* Fault: a store to the interrupt registers does not cause a check.
Fault_store(p, op) ==
  /\ cpu' = p
  /\ \E val \in SUBSET Irq :
       \/ op = "store_status" /\ irq' = [irq EXCEPT !.status = @ \cap val]
       \/ op = "store_mask" /\ irq' = [irq EXCEPT !.mask = val]
  /\ user' = Undisturbed(p, op, 0, user.enabled)
  /\ UNCHANGED <<cop0, queue>>

\* `IrqState::store`.
store(p, op) ==
  /\ cpu' = p
  /\ \E val \in SUBSET Irq :
       \/ op = "store_status" /\ irq' = [irq EXCEPT !.status = @ \cap val]
       \/ op = "store_mask" /\ irq' = [irq EXCEPT !.mask = val]
  /\ queue' = trigger(queue, "check")
  /\ user' = Undisturbed(p, op, 0, user.enabled)
  /\ UNCHANGED cop0

\* A store to a device register that triggers its interrupt.
StoreDevice(p, op) ==
  /\ op = "store_device"
  /\ cpu' = p
  /\ \E i \in Irq : queue' = trigger(queue, i)
  /\ user' = Undisturbed(p, op, 0, user.enabled)
  /\ UNCHANGED <<cop0, irq>>

\* MTC0: `set_reg` stores any value and does not cause a check.
Mtc0(p, op) ==
  /\ cpu' = p
  /\ \E bits \in SUBSET CauseBits, flags \in BOOLEAN \X BOOLEAN \X BOOLEAN :
       \/ /\ op = "mtc0_status"
          /\ cop0' = [cop0 EXCEPT !.im = bits, !.flags = flags]
          /\ user' = [Undisturbed(p, op, 0, flags[1]) EXCEPT !.mtc0 = TRUE]
       \/ /\ op = "mtc0_cause"
          /\ cop0' = [cop0 EXCEPT !.ip = bits]
          /\ user' = [Undisturbed(p, op, 0, user.enabled) EXCEPT !.mtc0 = TRUE]
  /\ UNCHANGED <<irq, queue>>

Rfe(p, op) ==
  /\ op = "rfe"
  /\ cpu' = p
  /\ cop0' = exit_exception(cop0)
  /\ queue' = trigger(queue, "check")
  /\ user' = Undisturbed(p, op, 0, user.enabled)
  /\ UNCHANGED irq

\* The handler's jump back: to EPC, or after it for a system call.
Return(p, op) ==
  /\ op = "return"
  /\ cpu' = [p EXCEPT !.branched = TRUE,
                      !.next_pc = cop0.epc + IF cop0.code = "syscall" THEN 1 ELSE 0]
  /\ UNCHANGED <<cop0, irq, queue, user>>

exec(p, instr) ==
  \/ Plain(p, instr.op) \/ Jump(p, instr.op, instr.target) \/ Syscall(p, instr.op)
  \/ store(p, instr.op) \/ StoreDevice(p, instr.op)
  \/ Mtc0(p, instr.op) \/ Rfe(p, instr.op) \/ Return(p, instr.op)

\* Fault: a break leaves the timeout in the queue.
Fault_after_instruction ==
  /\ \E t \in 1 .. 2 : timeout' = IF timeout > t THEN timeout - t ELSE IF timeout > 0 THEN 0 ELSE timeout
  /\ \/ mode = "run" /\ UNCHANGED mode
     \/ mode' = "idle"

\* What follows an instruction: it took one or two cycles; `run` goes on, or
\* the debugger breaks and the timeout is unscheduled; `step` is over.
after_instruction ==
  \/ /\ mode = "run"
     /\ \E t \in 1 .. 2 : timeout' = IF timeout > t THEN timeout - t ELSE 0
     /\ UNCHANGED mode
  \/ mode = "run" /\ mode' = "idle" /\ timeout' = NoTimeout
  \/ mode = "step" /\ mode' = "idle" /\ UNCHANGED timeout

\* No event is pending: one instruction is executed (of the guest's program:
\* TLC would report a deadlock if the counters left it).
execute_instruction ==
  /\ cpu.pc \in Addr
  /\ mode # "idle" /\ NoneTriggered /\ due = 0 /\ timeout # 0
  /\ exec(next_pc(cpu), Code[cpu.pc])
  /\ due' \in 0 .. MaxDue
  /\ after_instruction

Loop == IrqCheck \/ IrqEvent \/ DeviceEvent \/ ExecutionTimeout \/ execute_instruction

Next == Run \/ Step \/ Loop

\* The loop is a `loop` of the host: it goes on while a call has not returned.
Spec == Init /\ [][Next]_vars /\ WF_vars(Loop)

-----------------------------------------------------------------------------
\* The registers, the queue and the loop's state have their types.
TypeOK ==
  /\ cpu \in [last_pc: Int, pc: Int, next_pc: Int, in_branch_delay: BOOLEAN, branched: BOOLEAN]
  /\ cop0 \in [flags: BOOLEAN \X BOOLEAN \X BOOLEAN, im: SUBSET CauseBits, ip: SUBSET CauseBits,
               code: {"none", "interrupt", "syscall"}, bd: BOOLEAN, epc: Int]
  /\ irq \in [status: SUBSET Irq, mask: SUBSET Irq]
  /\ queue \in [Triggered -> Nat]
  /\ due \in 0 .. MaxDue
  /\ timeout \in NoTimeout .. MaxTime
  /\ mode \in {"idle", "run", "step"}
  /\ user \in [pc: Int, next_pc: Int, enabled: BOOLEAN, mtc0: BOOLEAN]

\* No interrupt is missed: one that is enabled and pending has a check or an
\* interrupt event in front of it, unless MTC0 alone made it pending (the TODO
\* of cpu/mod.rs:5-7).  The CPU looks only when such an event is dispatched,
\* so every other change must leave one (irq.rs:111, cop0.rs:127,143).
NoMissedInterrupt == irq_pending(cop0, irq) => ~NoneTriggered \/ user.mtc0

\* The timeout event exists exactly while `run` is executing: `expect("timeout
\* event not found")` and the `unreachable!` of `step` are never reached
\* (cpu/mod.rs:568, 615).
TimeoutOwnedByRun == timeout # NoTimeout <=> mode = "run"

\* What a guest program must keep to for its interruptions to be invisible.  The
\* handler is straight code up to its jump back, with RFE in the delay slot; user
\* code ends with a branch, does not run into the handler, and has neither a
\* branch nor a system call in a delay slot.
HandlerEndsAt(r) ==
  /\ r >= Vector /\ Code[r].op = "return" /\ r + 1 \in Addr /\ Code[r + 1].op = "rfe"
  /\ \A a \in Vector .. r - 1 :
       Code[a].op \in {"alu", "store_status", "store_mask", "store_device", "mtc0_cause"}

GuestDiscipline ==
  /\ \E r \in Addr : HandlerEndsAt(r)
  /\ Vector - 2 \in Addr /\ Code[Vector - 2].op = "jump"
  /\ \A a \in Addr : a < Vector =>
       /\ Code[a].op \notin {"rfe", "return"}
       /\ Code[a].op = "jump" => /\ Code[a].target + 1 < Vector
                                 /\ a + 1 \in Addr /\ Code[a + 1].op \notin {"jump", "syscall"}

\* Interrupts are invisible to the user program: whenever the counters are in
\* user code they are where the program alone would be, or at the branch of
\* the delay slot it has reached, which is executed once more, and the flag
\* stack of the status register has given it back the interrupt enable bit it
\* had set (enter_exception, exit_exception).
PreciseResume ==
  cpu.pc < Vector =>
    /\ \/ cpu.pc = user.pc /\ cpu.next_pc = user.next_pc
       \/ /\ cpu.next_pc = user.pc /\ cpu.pc = user.pc - 1 /\ ~cpu.branched
          /\ Code[cpu.pc].op = "jump" /\ Code[cpu.pc].target = user.next_pc
    /\ cop0.flags[1] = user.enabled

\* A call of `run` returns ("run the CPU for a given amount of time", cpu/mod.rs
\* :575), unless from some moment on a device event is always due: the checks
\* that exceptions and stores trigger do not keep the loop from the timeout,
\* nor do device events that are done at some time.  The exception is real: a
\* timer whose counter stands at u16::MAX is due again after zero ticks
\* (timer.rs:416-425), no instruction lets time pass, and `run` hangs.
RunReturns == mode = "run" ~> (mode = "idle" \/ [](due > 0))
=============================================================================
