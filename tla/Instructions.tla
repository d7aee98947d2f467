---------------------------- MODULE Instructions ----------------------------
(***************************************************************************)
(* What one instruction does to the machine: `Cpu::exec` and the op_*      *)
(* functions of cpu/mod.rs, with the load delay slot, exceptions, and      *)
(* loads and stores (isolated ones included).                              *)
(*                                                                         *)
(* The machine is one record m: the program counters, the registers, the   *)
(* load delay slot, hi and lo, COP0, one data register of the GTE, memory, *)
(* the cache control register and the instruction cache.  An instruction   *)
(* is a record of the fields `Opcode` extracts.  Waiting (`access_reg`,    *)
(* `skip_to`, the `ready` times) only moves the clock and is left out.     *)
(***************************************************************************)
EXTENDS Bus

CONSTANTS Regs,       \* general purpose registers, ZERO among them
          RA,         \* the return address register
          Vector,     \* the exception handler
          LineWords,  \* words of a line of the instruction cache
          Lines       \* lines of the instruction cache

ZERO == 0

ASSUME InstructionsAssumption ==
  /\ Regs \subseteq Nat /\ ZERO \in Regs /\ RA \in Regs \ {ZERO}
  /\ Vector \in 0 .. Word - 1
  /\ LineWords \in Nat \ {0} /\ Lines \in Nat \ {0}

-----------------------------------------------------------------------------
\* Registers and the load delay slot.

NoLoad == [reg |-> ZERO, val |-> 0]

store_reg(m, r, v) == IF r = ZERO THEN m ELSE [m EXCEPT !.regs[r] = v]

fetch_load_slot(m) == [store_reg(m, m.load_delay.reg, m.load_delay.val) EXCEPT !.load_delay = NoLoad]

\* Fault: a pending load of the same register is delivered, not dropped.
Fault_pipeline_load(m, r, v) ==
  [store_reg(m, m.load_delay.reg, m.load_delay.val) EXCEPT !.load_delay = [reg |-> r, val |-> v]]

\* `pipeline_bus_load` and `pipeline_cop_load`: the pending load is delivered,
\* unless the new one is to the same register, and the new one takes its place.
pipeline_load(m, r, v) ==
  [store_reg(m, IF m.load_delay.reg = r THEN ZERO ELSE m.load_delay.reg, m.load_delay.val)
     EXCEPT !.load_delay = [reg |-> r, val |-> v]]

-----------------------------------------------------------------------------
\* Program counters and exceptions.

next_pc(m) ==
  [m EXCEPT !.last_pc = m.pc, !.pc = m.next_pc, !.next_pc = wrap(@ + 4),
            !.in_branch_delay = m.branched, !.branched = FALSE]

jump(m, addr) == [m EXCEPT !.next_pc = addr, !.branched = TRUE]
branch(m, offset) == jump(m, wrap(m.pc + offset * 4))

throw_exception(m, code) ==
  [m EXCEPT !.cop0.code = code,
            !.cop0.epc = IF m.in_branch_delay THEN wrap(m.last_pc - 4) ELSE m.last_pc,
            !.pc = Vector, !.next_pc = wrap(Vector + 4)]

\* `check_for_pending_irq` when an interrupt is pending.
interrupt(m) == throw_exception(fetch_load_slot(next_pc(m)), "Interrupt")

-----------------------------------------------------------------------------
\* `Cpu::load` and `Cpu::store`: a value, or the exception.

load(m, width, addr) ==
  LET phys == regioned_addr(addr)
  IN  CASE ~is_aligned_to(width, addr) -> [exc |-> "AddressLoadError"]
        [] is_aligned_to(width, addr) /\ phys \in ScratchPad ->
             [exc |-> "none", val |-> load_unchecked(m.mem, width, phys)]
        [] OTHER ->
             LET val == bus_load(m.mem, m.ctrl, width, phys)
             IN  IF val = Unmapped THEN [exc |-> "BusDataError"] ELSE [exc |-> "none", val |-> val]

load_failed(m, addr, exc) ==
  throw_exception(IF exc = "AddressLoadError" THEN [m EXCEPT !.cop0.bad = addr] ELSE m, exc)

line_idx(addr) == (addr \div (4 * LineWords)) % Lines
word_idx(addr) == (addr \div 4) % LineWords
tag_of(addr) == (addr % (Word \div 2)) \div (4 * LineWords * Lines)

\* A line is valid from word `first` on; an invalid one from none.
invalidate(line) == [line EXCEPT !.first = @ + (IF @ < LineWords THEN LineWords ELSE 0)]

\* With the cache isolated a store goes to the cache: it invalidates the line
\* (tag test) or writes a word of it.
store(m, width, addr, val) ==
  LET phys == regioned_addr(addr)  l == line_idx(phys)
  IN  CASE ~is_aligned_to(width, addr) ->
             throw_exception([m EXCEPT !.cop0.bad = addr], "AddressStoreError")
        [] is_aligned_to(width, addr) /\ ~m.cop0.isolated ->
             CASE bus_target(phys) = "mem"  -> [m EXCEPT !.mem = store_unchecked(@, width, phys, val)]
               [] bus_target(phys) = "ctrl" -> [m EXCEPT !.ctrl = val % Byte ^ width]
               [] OTHER                     -> throw_exception(m, "BusDataError")
        [] OTHER ->
             CASE ~icache_enabled(m.ctrl) -> m
               [] icache_enabled(m.ctrl) /\ tag_test_enabled(m.ctrl) ->
                    [m EXCEPT !.icache[l] = invalidate(@)]
               [] OTHER -> [m EXCEPT !.icache[l].data[word_idx(phys)] = val % Byte ^ width]

-----------------------------------------------------------------------------
\* Opcode fields: registers rs, rt and rd, and `imm`, which stands for the
\* immediate, the shift, the target or the COP register.

imm(i) == i.imm % Half
signed_imm(i) == sign_half(i.imm % Half)

\* The ALU functions; shifts take the value first.
alu(f, a, b) ==
  CASE f = "add"  -> wrap(a + b)
    [] f = "sub"  -> wrap(a - b)
    [] f = "and"  -> word_of({i \in 0 .. WordBits - 1 : bit(a, i) = 1 /\ bit(b, i) = 1})
    [] f = "or"   -> word_of({i \in 0 .. WordBits - 1 : bit(a, i) = 1 \/ bit(b, i) = 1})
    [] f = "xor"  -> word_of({i \in 0 .. WordBits - 1 : bit(a, i) # bit(b, i)})
    [] f = "nor"  -> word_of({i \in 0 .. WordBits - 1 : bit(a, i) = 0 /\ bit(b, i) = 0})
    [] f = "slt"  -> IF signed(a) < signed(b) THEN 1 ELSE 0
    [] f = "sltu" -> IF a < b THEN 1 ELSE 0
    [] f = "sll"  -> wrap(a * 2 ^ b)
    [] f = "srl"  -> a \div 2 ^ b
    [] f = "sra"  -> wrap(signed(a) \div 2 ^ b)

\* Whether the signed result of add or sub does not fit: `checked_add`,
\* `checked_sub`.
overflows(f, a, b) ==
  LET v == IF f = "add" THEN signed(a) + signed(b) ELSE signed(a) - signed(b)
  IN  v < -(Word \div 2) \/ v >= Word \div 2

\* For each instruction: its function, its operands, its destination, and
\* whether an overflow traps.
Form(f, a, b, d, trap) == [f |-> f, a |-> a, b |-> b, d |-> d, trap |-> trap]

ShiftForms ==
  LET Imm(f) == Form(f, "rt", "shift", "rd", FALSE)
      Reg(f) == Form(f, "rt", "rs_shift", "rd", FALSE)
  IN  [sll |-> Imm("sll"), srl |-> Imm("srl"), sra |-> Imm("sra"),
       sllv |-> Reg("sll"), srlv |-> Reg("srl"), srav |-> Reg("sra")]

RegisterForms ==
  LET Reg(f) == Form(f, "rs", "rt", "rd", FALSE)
  IN  [add |-> Form("add", "rs", "rt", "rd", TRUE), addu |-> Reg("add"),
       sub |-> Form("sub", "rs", "rt", "rd", TRUE), subu |-> Reg("sub"),
       and |-> Reg("and"), or |-> Reg("or"), xor |-> Reg("xor"), nor |-> Reg("nor"),
       slt |-> Reg("slt"), sltu |-> Reg("sltu")]

ImmediateForms ==
  LET Signed(f) == Form(f, "rs", "signed_imm", "rt", FALSE)
      Plain(f) == Form(f, "rs", "imm", "rt", FALSE)
  IN  [addi |-> Form("add", "rs", "signed_imm", "rt", TRUE), addiu |-> Signed("add"),
       slti |-> Signed("slt"), sltui |-> Signed("sltu"),
       andi |-> Plain("and"), ori |-> Plain("or"), xori |-> Plain("xor"),
       lui |-> Form("sll", "imm", "half", "rt", FALSE)]

operand(m, i, src) ==
  CASE src = "rs"         -> m.regs[i.rs]
    [] src = "rt"         -> m.regs[i.rt]
    [] src = "rs_shift"   -> m.regs[i.rs] % WordBits
    [] src = "shift"      -> i.imm % WordBits
    [] src = "imm"        -> imm(i)
    [] src = "signed_imm" -> signed_imm(i)
    [] src = "half"       -> 2 * ByteBits

\* Fault: the result is stored before the overflow is looked at.
Fault_op_alu(m, i, form) ==
  LET a == operand(m, i, form.a)  b == operand(m, i, form.b)
      stored == store_reg(fetch_load_slot(m), i[form.d], alu(form.f, a, b))
  IN  IF form.trap /\ overflows(form.f, a, b) THEN throw_exception(stored, "ArithmeticOverflow") ELSE stored

\* The operands are read, the pending load is delivered, the result is stored.
op_alu(m, i, form) ==
  LET a == operand(m, i, form.a)  b == operand(m, i, form.b)
  IN  IF form.trap /\ overflows(form.f, a, b)
        THEN throw_exception(fetch_load_slot(m), "ArithmeticOverflow")
        ELSE store_reg(fetch_load_slot(m), i[form.d], alu(form.f, a, b))

-----------------------------------------------------------------------------
\* hi and lo.

set_hi_lo(m, hi, lo) == [fetch_load_slot(m) EXCEPT !.hi = hi, !.lo = lo]

\* A double word product, signed or not.
op_mult(m, i) ==
  LET v == (signed(m.regs[i.rs]) * signed(m.regs[i.rt])) % (Word * Word)
  IN  set_hi_lo(m, v \div Word, v % Word)

op_multu(m, i) ==
  LET v == m.regs[i.rs] * m.regs[i.rt] IN set_hi_lo(m, v \div Word, v % Word)

\* Rust's division of signed integers rounds towards zero, TLA+'s down.
quotient(a, b) ==
  LET q == (IF a < 0 THEN -a ELSE a) \div (IF b < 0 THEN -b ELSE b)
  IN  IF (a < 0) = (b < 0) THEN q ELSE -q

\* Division by zero and the one overflow have results and no exception.
op_div(m, i) ==
  LET a == signed(m.regs[i.rs])  b == signed(m.regs[i.rt])
  IN  CASE b = 0 -> set_hi_lo(m, wrap(a), IF a < 0 THEN 1 ELSE Word - 1)
        [] b = -1 /\ a = -(Word \div 2) -> set_hi_lo(m, 0, Word \div 2)
        [] OTHER -> set_hi_lo(m, wrap(a - b * quotient(a, b)), wrap(quotient(a, b)))

op_divu(m, i) ==
  LET a == m.regs[i.rs]  b == m.regs[i.rt]
  IN  IF b = 0 THEN set_hi_lo(m, a, Word - 1) ELSE set_hi_lo(m, a % b, a \div b)

op_move_hi_lo(m, i) ==
  CASE i.op = "mfhi" -> store_reg(fetch_load_slot(m), i.rd, m.hi)
    [] i.op = "mflo" -> store_reg(fetch_load_slot(m), i.rd, m.lo)
    [] i.op = "mthi" -> set_hi_lo(m, m.regs[i.rs], m.lo)
    [] i.op = "mtlo" -> set_hi_lo(m, m.hi, m.regs[i.rs])

-----------------------------------------------------------------------------
\* Branches and jumps.  The link is the address after the delay slot.

condition(m, i) ==
  LET a == m.regs[i.rs]
  IN  CASE i.op = "beq"  -> a = m.regs[i.rt]
        [] i.op = "bne"  -> a # m.regs[i.rt]
        [] i.op = "blez" -> signed(a) <= 0
        [] i.op = "bgtz" -> signed(a) > 0
        [] i.op \in {"bltz", "bltzal"} -> signed(a) < 0
        [] i.op \in {"bgez", "bgezal"} -> signed(a) >= 0

op_branch(m, i) ==
  LET n == fetch_load_slot(m)
  IN  IF condition(m, i) THEN branch(n, signed_imm(i)) ELSE n

\* BCONDZ links whether or not the branch is taken.
op_bcondz(m, i) ==
  LET n == fetch_load_slot(m)
      linked == IF i.op \in {"bltzal", "bgezal"} THEN store_reg(n, RA, n.next_pc) ELSE n
  IN  IF condition(m, i) THEN branch(linked, signed_imm(i)) ELSE linked

op_j(m, i) ==
  fetch_load_slot(jump(m, Region(m.pc) * (Word \div 8) + ((i.imm * 4) % (Word \div 8))))

op_jal(m, i) == store_reg(op_j(m, i), RA, m.next_pc)

op_jr(m, i) == fetch_load_slot(jump(m, m.regs[i.rs]))

op_jalr(m, i) == store_reg(op_jr(m, i), i.rd, m.next_pc)

-----------------------------------------------------------------------------
\* Loads.  The width and what becomes of the value; a load that fails leaves
\* the pending load pending.

Width(op) == CASE op \in {"lb", "lbu", "sb"} -> 1 [] op \in {"lh", "lhu", "sh"} -> 2 [] OTHER -> 4

extend(op, v) == CASE op = "lb" -> sign_byte(v) [] op = "lh" -> sign_half(v) [] OTHER -> v

effective_addr(m, i) == wrap(m.regs[i.rs] + signed_imm(i))

op_load(m, i) ==
  LET addr == effective_addr(m, i)  l == load(m, Width(i.op), addr)
  IN  IF l.exc = "none" THEN pipeline_load(m, i.rt, extend(i.op, l.val))
                        ELSE load_failed(m, addr, l.exc)

\* Fault: LWL and LWR ignore a pending load of their register.
Fault_old_value(m, r) == m.regs[r]

\* LWL and LWR merge into the value on its way to the register.
old_value(m, r) == IF m.load_delay.reg = r THEN m.load_delay.val ELSE m.regs[r]

op_lwl(m, i) ==
  LET addr == effective_addr(m, i)  n == addr % 4  l == load(m, 4, addr - n)
  IN  IF l.exc = "none"
        THEN pipeline_load(m, i.rt, join(old_value(m, i.rt), left(l.val, 3 - n), 3 - n))
        ELSE load_failed(m, addr - n, l.exc)

op_lwr(m, i) ==
  LET addr == effective_addr(m, i)  n == addr % 4  l == load(m, 4, addr - n)
  IN  IF l.exc = "none"
        THEN pipeline_load(m, i.rt, join(right(l.val, n), old_value(m, i.rt), 4 - n))
        ELSE load_failed(m, addr - n, l.exc)

-----------------------------------------------------------------------------
\* Stores.  SWL and SWR read the word first.

op_store(m, i) == store(fetch_load_slot(m), Width(i.op), effective_addr(m, i), m.regs[i.rt])

op_swl(m, i) ==
  LET addr == effective_addr(m, i)  n == addr % 4  l == load(m, 4, addr - n)
  IN  IF l.exc = "none"
        THEN store(fetch_load_slot(m), 4, addr - n, join(right(m.regs[i.rt], 3 - n), l.val, n + 1))
        ELSE load_failed(m, addr - n, l.exc)

op_swr(m, i) ==
  LET addr == effective_addr(m, i)  n == addr % 4  l == load(m, 4, addr - n)
  IN  IF l.exc = "none"
        THEN store(fetch_load_slot(m), 4, addr - n, join(l.val, left(m.regs[i.rt], n), n))
        ELSE load_failed(m, addr - n, l.exc)

-----------------------------------------------------------------------------
\* Coprocessors.  MTC0 reads its register after the pending load is delivered.
\* The interrupt flags (MTC0 to cause, RFE) are in module Cpu.  A command of the
\* GTE leaves the value i.imm in its register.

cop0_read(m, reg) == CASE reg = 8 -> m.cop0.bad [] reg = 14 -> m.cop0.epc [] OTHER -> 0

op_cop0(m, i) ==
  CASE i.op = "mfc0" /\ i.rd > 15 -> throw_exception(m, "ReservedInstruction")
    [] i.op = "mfc0" /\ i.rd <= 15 -> pipeline_load(m, i.rt, cop0_read(m, i.rd))
    [] i.op = "mtc0" ->
         LET n == fetch_load_slot(m)  v == n.regs[i.rt]
         IN  CASE i.rd = 12 -> [n EXCEPT !.cop0.isolated = bit(v, 4) = 1]
               [] i.rd = 8  -> [n EXCEPT !.cop0.bad = v]
               [] i.rd = 14 -> [n EXCEPT !.cop0.epc = v]
               [] OTHER     -> n
    [] i.op = "rfe" -> fetch_load_slot(m)

op_cop2(m, i) ==
  CASE i.op = "mfc2" -> pipeline_load(m, i.rt, m.gte)
    [] i.op = "mtc2" -> [fetch_load_slot(m) EXCEPT !.gte = m.regs[i.rt]]
    [] i.op = "gte"  -> [fetch_load_slot(m) EXCEPT !.gte = i.imm]

op_lwc2(m, i) ==
  LET addr == effective_addr(m, i)  n == fetch_load_slot(m)  l == load(m, 4, addr)
  IN  IF l.exc = "none" THEN [n EXCEPT !.gte = l.val] ELSE load_failed(n, addr, l.exc)

op_swc2(m, i) == store(fetch_load_slot(m), 4, effective_addr(m, i), m.gte)

\* SYSCALL and BREAK deliver the pending load; instructions of coprocessors
\* that do not exist, and illegal ones, do not.
op_trap(m, code) == throw_exception(fetch_load_slot(m), code)
op_cop1(m) == throw_exception(m, "CopUnusable")
op_illegal(m) == throw_exception(m, "ReservedInstruction")

-----------------------------------------------------------------------------
\* `Cpu::exec`.
exec(m, i) ==
  CASE i.op \in DOMAIN ShiftForms     -> op_alu(m, i, ShiftForms[i.op])
    [] i.op \in DOMAIN RegisterForms  -> op_alu(m, i, RegisterForms[i.op])
    [] i.op \in DOMAIN ImmediateForms -> op_alu(m, i, ImmediateForms[i.op])
    [] i.op \in {"mfhi", "mthi", "mflo", "mtlo"} -> op_move_hi_lo(m, i)
    [] i.op = "mult"  -> op_mult(m, i)
    [] i.op = "multu" -> op_multu(m, i)
    [] i.op = "div"   -> op_div(m, i)
    [] i.op = "divu"  -> op_divu(m, i)
    [] i.op \in {"beq", "bne", "blez", "bgtz"} -> op_branch(m, i)
    [] i.op \in {"bltz", "bgez", "bltzal", "bgezal"} -> op_bcondz(m, i)
    [] i.op = "j"    -> op_j(m, i)
    [] i.op = "jal"  -> op_jal(m, i)
    [] i.op = "jr"   -> op_jr(m, i)
    [] i.op = "jalr" -> op_jalr(m, i)
    [] i.op \in {"lb", "lbu", "lh", "lhu", "lw"} -> op_load(m, i)
    [] i.op = "lwl"  -> op_lwl(m, i)
    [] i.op = "lwr"  -> op_lwr(m, i)
    [] i.op \in {"sb", "sh", "sw"} -> op_store(m, i)
    [] i.op = "swl"  -> op_swl(m, i)
    [] i.op = "swr"  -> op_swr(m, i)
    [] i.op \in {"mfc0", "mtc0", "rfe"} -> op_cop0(m, i)
    [] i.op \in {"mfc2", "mtc2", "gte"} -> op_cop2(m, i)
    [] i.op = "lwc2" -> op_lwc2(m, i)
    [] i.op = "swc2" -> op_swc2(m, i)
    [] i.op = "syscall" -> op_trap(m, "Syscall")
    [] i.op = "break"   -> op_trap(m, "Breakpoint")
    [] i.op = "cop1"    -> op_cop1(m)
    [] i.op = "illegal" -> op_illegal(m)
=============================================================================
