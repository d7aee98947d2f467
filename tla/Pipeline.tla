------------------------------ MODULE Pipeline ------------------------------
(***************************************************************************)
(* The CPU executing instructions: registers, load delay slot, memory and  *)
(* instruction cache of cpu/mod.rs, driven by three kinds of guest code.   *)
(*                                                                         *)
(*  - "data": any sequence of instructions of a repertoire, with the cache *)
(*    off and an interrupt between any two of them;                        *)
(*  - "code": code that stores to itself, isolates and flushes the         *)
(*    instruction cache; a fetched word may stand for any instruction;     *)
(*  - "source": a program of the assembler, executed as it was emitted.    *)
(***************************************************************************)
EXTENDS ICache, Assembler

CONSTANTS Repertoire,   \* instructions of the data guest
          FirstRegs,    \* its initial registers
          MaxSteps,     \* bound: its instructions and interrupts
          CodeRepertoire, CodeRegs, MaxCodeSteps,   \* the same for the code guest
          Sources,      \* sources of the assembler: [src, base, exe]
          FirstMem      \* RAM and scratchpad at the start

\* An instruction `Cpu::exec` has an arm for, and its fields; MFC0 and MTC0 name
\* a register of COP0 in rd.
Known(i) ==
  /\ i.op \in DOMAIN ShiftForms \cup DOMAIN RegisterForms \cup DOMAIN ImmediateForms \cup
              {"mfhi", "mthi", "mflo", "mtlo", "mult", "multu", "div", "divu",
               "beq", "bne", "blez", "bgtz", "bltz", "bgez", "bltzal", "bgezal", "j", "jal", "jr", "jalr",
               "lb", "lbu", "lh", "lhu", "lw", "lwl", "lwr", "sb", "sh", "sw", "swl", "swr",
               "mfc0", "mtc0", "rfe", "mfc2", "mtc2", "gte", "lwc2", "swc2",
               "syscall", "break", "cop1", "illegal"}
  /\ i.rs \in Regs /\ i.rt \in Regs /\ i.rd \in (IF i.op \in {"mfc0", "mtc0"} THEN Nat ELSE Regs)
  /\ i.imm \in 0 .. Word - 1

Parameters ==
  /\ \A r \in FirstRegs \cup {CodeRegs} : r \in [Regs -> 0 .. Word - 1] /\ r[ZERO] = 0
  /\ \A i \in Repertoire \cup CodeRepertoire : Known(i)
  /\ MaxSteps \in Nat /\ MaxCodeSteps \in Nat
  /\ FirstMem \in [Ram \cup ScratchPad -> 0 .. Byte - 1]

\* What the code guest needs besides: a region holds the cache a whole number of
\* times, and a store is to a single word.
CodeParameters ==
  /\ (Word \div 8) % (4 * LineWords * Lines) = 0
  /\ \A i \in CodeRepertoire : i.op \notin {"swl", "swr"}

ASSUME PipelineAssumption == Parameters
ASSUME CodeAssumption == CodeParameters

VARIABLES m,      \* the machine
          guest,  \* the kind of guest, and what it runs
          log,    \* history: how many steps the guest took, the writes of its
                  \* instructions, and whether the last step threw an exception
          doubt   \* history: words the code guest changed, and did not flush

vars == <<m, guest, log, doubt>>

Boot(regs, mem, pc) ==
  [last_pc |-> 0, pc |-> pc, next_pc |-> pc + 4, in_branch_delay |-> FALSE, branched |-> FALSE,
   hi |-> 0, lo |-> 0, regs |-> regs, load_delay |-> NoLoad, gte |-> 0,
   cop0 |-> [isolated |-> FALSE, bad |-> 0, code |-> "none", epc |-> 0],
   mem |-> mem, ctrl |-> 0, icache |-> [l \in 0 .. Lines - 1 |-> ICacheLine_valid]]

NoLog == [steps |-> 0, hist |-> <<>>, exc |-> FALSE]

CodeWords == {w \in 0 .. RamSize + ScratchSize - 1 : w % 4 = 0}

\* Where piece k of the code is.
Offset(code, k) == length(SubSeq(code, 1, k - 1))

\* The image of an assembled source: the instruction that is piece k of the code
\* is the word k.
Image(code, base) ==
  [a \in DOMAIN FirstMem |->
     LET offset == a - regioned_addr(base)
         at == {k \in DOMAIN code : offset - Offset(code, k) \in 0 .. length(<<code[k]>>) - 1}
     IN  IF at = {} THEN FirstMem[a]
         ELSE LET k == CHOOSE k \in at : TRUE
              IN  IF code[k].op = "datum" THEN code[k].imm ELSE lane(k, offset - Offset(code, k))]

InitData == \E r \in FirstRegs :
  /\ guest = [kind |-> "data", regs |-> r]
  /\ m = Boot(r, FirstMem, 0)
  /\ doubt = {}

InitCode ==
  /\ guest = [kind |-> "code"]
  /\ m = Boot(CodeRegs, FirstMem, 0)
  /\ doubt = {w \in CodeWords : tag_of(w) = 0}

InitSource == \E s \in Sources :
  LET g == gen_ins(s.src, s.base)
  IN  /\ g.ok
      /\ guest = [kind |-> "source", source |-> s, code |-> g.code]
      /\ m = Boot([r \in Regs |-> 0], Image(g.code, s.base), g.main)
      /\ doubt = {}

Init == log = NoLog /\ (InitData \/ InitCode \/ InitSource)

-----------------------------------------------------------------------------
\* History of the data guest: the register an instruction writes at once, and
\* the one it loads for later.

Now(i) ==
  CASE i.op \in DOMAIN ShiftForms \cup DOMAIN RegisterForms \cup {"mfhi", "mflo", "jalr"} -> i.rd
    [] i.op \in DOMAIN ImmediateForms       -> i.rt
    [] i.op \in {"jal", "bltzal", "bgezal"} -> RA
    [] OTHER                                -> ZERO

Later(i) ==
  IF i.op \in {"lb", "lbu", "lh", "lhu", "lw", "lwl", "lwr", "mfc0", "mfc2"} THEN i.rt ELSE ZERO

\* Refused before the pending load is delivered.
LeavesPending(i) ==
  i.op \in {"lb", "lbu", "lh", "lhu", "lw", "lwl", "lwr", "swl", "swr", "mfc0", "cop1", "illegal"}

\* What instruction i does when no load is pending.  LWL and LWR are the ones
\* that see a load of the register they merge into.
Undelayed(n, i) ==
  LET sees == i.op \in {"lwl", "lwr"} /\ n.load_delay.reg = i.rt
  IN  exec([n EXCEPT !.cop0.code = "none", !.load_delay = IF sees THEN @ ELSE NoLoad], i)

Wrote(n, i) ==
  LET u == Undelayed(n, i)
      reg == IF u.cop0.code # "none" THEN ZERO ELSE IF Later(i) # ZERO THEN Later(i) ELSE Now(i)
  IN  [op |-> i.op, reg |-> reg, late |-> reg # ZERO /\ Later(i) # ZERO,
       val |-> IF Later(i) # ZERO THEN u.load_delay.val ELSE u.regs[reg],
       addr |-> effective_addr(n, i), arg |-> n.regs[i.rt]]

Threw(n, i) == Undelayed(n, i).cop0.code # "none"

Logged(i) ==
  LET n == next_pc(m)  refused == Threw(n, i) /\ LeavesPending(i)  failed == fetch(n, m.pc).exc # "none"
  IN  [steps |-> log.steps + 1, exc |-> failed \/ Threw(n, i),
       hist |-> IF failed \/ refused THEN log.hist ELSE Append(log.hist, Wrote(n, i))]

-----------------------------------------------------------------------------
\* History of the code guest: which words may differ from the cached ones.

LineOf(addr) == {w \in CodeWords : line_idx(w) = line_idx(addr)}

Filled(addr) ==
  {w \in LineOf(addr) : tag_of(w) = tag_of(addr) /\ word_idx(w) >= word_idx(addr)}

Doubted(i) ==
  LET n == next_pc(m)  f == fetch(n, m.pc)
      base == IF ~f.miss THEN doubt
              ELSE IF f.exc = "none" THEN doubt \ Filled(m.pc) ELSE doubt \cup LineOf(m.pc)
      addr == effective_addr(n, i)
      to == regioned_addr(addr)
      stored == f.exc = "none" /\ i.op \in {"sb", "sh", "sw", "swc2"} /\ is_aligned_to(Width(i.op), addr)
      lost == f.miss /\ line_idx(to) = line_idx(m.pc)
  IN  CASE ~stored -> base
        [] stored /\ ~n.cop0.isolated -> base \cup {to - (to % 4)}
        [] OTHER ->
             CASE ~icache_enabled(n.ctrl) \/ lost -> base
               [] icache_enabled(n.ctrl) /\ ~lost /\ tag_test_enabled(n.ctrl) -> base \ LineOf(to)
               [] OTHER -> base \cup {w \in LineOf(to) : word_idx(w) = word_idx(to)}

-----------------------------------------------------------------------------
\* One instruction of each kind of guest.

\* The instructions of the assembled source.
CodePieces == {k \in DOMAIN guest.code : guest.code[k].op # "datum"}

NopIns == Ins("sll", 0, 0, 0, 0)

Running ==
  CASE guest.kind = "data"   -> log.steps < MaxSteps
    [] guest.kind = "code"   -> log.steps < MaxCodeSteps
    [] guest.kind = "source" ->
         ~log.exc /\ \E k \in CodePieces : m.pc = guest.source.base + Offset(guest.code, k)

\* Any instruction the fetched word can stand for.
Meaning(f) ==
  CASE f.exc # "none"                              -> {NopIns}
    [] f.exc = "none" /\ guest.kind = "data"       -> Repertoire
    [] f.exc = "none" /\ guest.kind = "code"       -> CodeRepertoire
    [] OTHER -> {guest.code[k] : k \in {f.word} \cap CodePieces}

Execute == \E i \in Meaning(fetch(next_pc(m), m.pc)) :
  /\ Running
  /\ m' = execute_instruction(m, i)
  /\ log' = CASE guest.kind = "data"   -> Logged(i)
              [] guest.kind = "code"   -> [log EXCEPT !.steps = @ + 1]
              [] guest.kind = "source" -> 
                   [log EXCEPT !.steps = 1,
                               !.exc = fetch(next_pc(m), m.pc).exc # "none" \/ Threw(next_pc(m), i)]
  /\ doubt' = IF guest.kind = "code" THEN Doubted(i) ELSE doubt
  /\ UNCHANGED guest

\* An interrupt is taken between two instructions.
Interrupt ==
  /\ guest.kind = "data" /\ log.steps < MaxSteps
  /\ m' = interrupt(m)
  /\ log' = [steps |-> log.steps + 1, exc |-> TRUE,
             hist |-> Append(log.hist, [op |-> "interrupt", reg |-> ZERO, late |-> FALSE, val |-> 0,
                                        addr |-> 0, arg |-> 0])]
  /\ UNCHANGED <<guest, doubt>>

Next == Execute \/ Interrupt

Spec == Init /\ [][Next]_vars

-----------------------------------------------------------------------------
\* Instruction k's write has arrived: at once, or if it is a load when one more
\* instruction has passed and that one did not write the same register.
Arrived(r) ==
  {k \in DOMAIN log.hist :
     /\ log.hist[k].reg = r
     /\ log.hist[k].late => k < Len(log.hist) /\ log.hist[k + 1].reg # r}

\* The load delay slot (`pipeline_bus_load`, `fetch_load_slot`, and every op_*
\* between its reads and its writes): an instruction sees the result of every
\* earlier one, except that a loaded value is one instruction late and is lost
\* if the next instruction writes its register.  An interrupt passes the slot
\* like an instruction; a refused instruction leaves it alone.
LoadDelay ==
  guest.kind = "data" =>
    \A r \in Regs \ {ZERO} :
      m.regs[r] = IF Arrived(r) = {} THEN guest.regs[r] ELSE log.hist[Max(Arrived(r))].val

\* The last instructions of a history but for interrupts: the last one, and the
\* last two.
LastOf(h, k) == k \in DOMAIN h /\ \A l \in k .. Len(h) : h[l].op = "interrupt" <=> l # k

LastTwoOf(h, j, k) ==
  j \in DOMAIN h /\ k \in DOMAIN h /\ j < k /\ \A l \in j .. Len(h) : h[l].op = "interrupt" <=> l \notin {j, k}

\* Instructions left and right at the two ends of the word at address `from`.
Ends(left_ins, right_ins, from) == left_ins.addr = wrap(from + 3) /\ right_ins.addr = from

\* The instructions a and b, one after the other, have moved a whole word between
\* register and memory at p.
WordLoaded(n, a, b, p) ==
  a.op = "lwl" /\ b.op = "lwr" /\ a.reg # ZERO /\ a.reg = b.reg =>
    old_value(n, a.reg) = load_unchecked(n.mem, 4, p)

WordStored(n, a, b, p) ==
  a.op = "swl" /\ b.op = "swr" /\ a.arg = b.arg /\ ~n.cop0.isolated =>
    load_unchecked(n.mem, 4, p) = a.arg

\* LWL and LWR (SWL and SWR) at the two ends of an unaligned word load (store)
\* exactly that word, in either order, also when an interrupt or a refused
\* instruction comes between the two or after them.  The word is in RAM or the
\* scratchpad.
UnalignedWord ==
  guest.kind = "data" =>
    \A j, k \in DOMAIN log.hist : LastTwoOf(log.hist, j, k) =>
      \A a, b \in {log.hist[j], log.hist[k]} :
        LET p == regioned_addr(b.addr)
        IN  Ends(a, b, b.addr) /\ p .. p + 3 \subseteq DOMAIN m.mem =>
              WordLoaded(m, a, b, p) /\ WordStored(m, a, b, p)

\* An instruction that throws an exception changes neither memory nor hi, lo or
\* the GTE, nor any register but that of the pending load, and EPC is its
\* address or that of the branch before it.
FaultKeepsState ==
  [][guest.kind = "data" /\ log'.exc =>
       /\ m'.mem = m.mem /\ m'.ctrl = m.ctrl
       /\ <<m'.hi, m'.lo, m'.gte>> = <<m.hi, m.lo, m.gte>>
       /\ m'.regs = m.regs \/ m'.regs = fetch_load_slot(m).regs
       /\ m'.cop0.epc = IF m.branched THEN wrap(m.pc - 4) ELSE m.pc
       /\ m'.pc = Vector]_vars

\* A word that is not in doubt is executed as it is in memory: every word the
\* cache would hit on equals memory, unless the guest stored to it and neither
\* flushed its line (from elsewhere) nor caused it to be filled again, wrote into
\* the isolated cache, never loaded the line since startup, or had a fetch from
\* the line fail.
FetchIsCurrent ==
  guest.kind = "code" =>
    \A w \in CodeWords \ doubt :
      hit(m.icache[line_idx(w)], w) => m.icache[line_idx(w)].data[word_idx(w)] = load_code(m, w)

\* Where item k of the source really is: it follows the bytes of those before.
Place(k) ==
  LET s == guest.source IN s.base + loc(labels(s.src, s.base), s.src, k)

LabelItem(id) == CHOOSE k \in DOMAIN guest.source.src :
                   guest.source.src[k].op = "label" /\ guest.source.src[k].id = id

\* A label is only promised its place after data of whole words: `size` takes a
\* half, a byte or a string for a word, and the labels after it are off.
WholeWord(item) ==
  /\ item.op \notin {"half", "byte"}
  /\ item.op = "ascii" => Len(item.string) = 4

Placed(item) ==
  "to" \in DOMAIN item => \A j \in 1 .. LabelItem(item.to) - 1 : WholeWord(guest.source.src[j])

\* A branch is only promised to land where `branch_offset`, which leaves out the
\* base, finds a base that the offset's width does not see.
Reached(item) == Placed(item) /\ guest.source.base % (4 * Half) = 0

\* What an item refers to.
Target(item) == IF "to" \in DOMAIN item THEN Place(LabelItem(item.to)) ELSE item.imm

\* Whether the last instruction executed was the last word of item k.
Completed(k) == log.steps > 0 /\ ~log.exc /\ m.last_pc = Place(k + 1) - 4 /\ Place(k) < Place(k + 1)

\* What the items of the source ask for, when their last word was executed.
ItemsAsWritten ==
  \A k \in DOMAIN guest.source.src : Completed(k) =>
    LET i == guest.source.src[k]
    IN  /\ i.op = "li" /\ i.rt # ZERO => m.regs[i.rt] = i.imm
        /\ i.op = "la" /\ Placed(i) => m.regs[i.rt] = Target(i)
        /\ i.op = "move" => m.regs[i.rd] = m.regs[i.rs]
        /\ i.op \in {"b", "j", "jal"} => m.branched
        /\ i.op \in {"j", "jal"} /\ Placed(i) => m.next_pc = Target(i)
        /\ i.op = "jal" => m.regs[RA] = Place(k + 1) + 4
        /\ i.op \in {"beqz", "bnez"} => m.branched = ((m.regs[i.rs] = 0) = (i.op = "beqz"))
        /\ i.op \in {"b", "beqz", "bnez"} /\ m.branched /\ Reached(i) => m.next_pc = Target(i)

\* What the header of an executable asks for, when the patch is left.
ExeEntered ==
  LET exe == guest.source.exe
  IN  "exe" \in DOMAIN guest.source /\ log.steps > 0 /\ ~Running =>
        /\ m.pc = exe.pc /\ m.regs[GP] = exe.gp
        /\ exe.sp # NoStack => m.regs[SP] = exe.sp /\ m.regs[FP] = exe.sp

\* Labels and pseudo instructions mean what they say (`gen_ins`): a branch or
\* jump lands on the item after its label, LA loads that item's address, LI its
\* value and MOVE its register, however many words the items between take and
\* whatever data lies there.  Left out are labels with a half, a byte or a string
\* before them, which `size` misplaces (ins.rs:205, gen.rs:329-337), and branches
\* under a base that their offset lacks (gen.rs:97).  And the patch of the BIOS
\* (`patch_for_exe`) is left for the entry point of the executable, with $gp, $sp
\* and $fp as its header says.
AssembledAsWritten ==
  guest.kind = "source" => ItemsAsWritten /\ ExeEntered
=============================================================================
