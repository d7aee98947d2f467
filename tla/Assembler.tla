----------------------------- MODULE Assembler -----------------------------
(***************************************************************************)
(* The assembler's code generation (splst_asm: gen.rs, ins.rs), and the    *)
(* program `Bios::patch_for_exe` assembles to start an executable.         *)
(*                                                                         *)
(* A source is the sequence of its items, text before data.  An item is a  *)
(* label, a machine instruction, data (a word, a half, a byte or a string) *)
(* or a pseudo instruction; `to` is the label an instruction refers to, or *)
(* `imm` the address.  Lexing and parsing are left out, and so is the      *)
(* encoding of an instruction: the code is a sequence of pieces, each a    *)
(* byte of data or the instruction record `Cpu::exec` sees.                *)
(***************************************************************************)
EXTENDS Words, Sequences, SequencesExt

Label(id) == [op |-> "label", id |-> id]
Ins(op, rs, rt, rd, val) == [op |-> op, rs |-> rs, rt |-> rt, rd |-> rd, imm |-> val]
To(item, id) == item @@ [to |-> id]
Ascii(string) == [op |-> "ascii", string |-> string]

high(v) == v \div Half
low(v) == v % Half

\* Fault: LI is always taken for one word.
Fault_size(item) ==
  CASE item.op = "label" -> 0
    [] item.op = "la"    -> 8
    [] OTHER             -> 4

\* `InsTy::size`: data of any length is taken for a word.
size(item) ==
  CASE item.op = "label" -> 0
    [] item.op = "la"    -> 8
    [] item.op = "li"    -> (IF high(item.imm) # 0 THEN 4 ELSE 0)
                            + (IF low(item.imm) # 0 \/ item.imm = 0 THEN 4 ELSE 0)
    [] OTHER             -> 4

\* The first pass: the address of every label, from the sizes.
address(src, base, k) == base + MapThenSumSet(LAMBDA j : size(src[j]), 1 .. k - 1)

labels(src, base) ==
  LET at == {k \in DOMAIN src : src[k].op = "label"}
  IN  [id \in {src[k].id : k \in at} |->
         address(src, base, CHOOSE k \in at : src[k].id = id)]

redeclared(src) ==
  \E j, k \in DOMAIN src : j # k /\ src[j].op = "label" /\ src[k].op = "label" /\ src[j].id = src[k].id

unresolved(src) ==
  \E k \in DOMAIN src : "to" \in DOMAIN src[k] /\ ~\E j \in DOMAIN src : src[j].op = "label" /\ src[j].id = src[k].to

no_main(src) == ~\E k \in DOMAIN src : src[k].op = "label" /\ src[k].id = "main"

resolve_labels(lab, item) == IF "to" \in DOMAIN item THEN lab[item.to] ELSE item.imm

\* The offset counts from the delay slot, whose location is that in the code,
\* not its address; the field keeps the low bits.
branch_offset(lab, loc, item) == ((resolve_labels(lab, item) - (loc + 4)) \div 4) % Half

jump_addr(lab, item) == resolve_labels(lab, item) \div 4

Branches == {"beq", "bne", "blez", "bgtz", "bltz", "bgez", "bltzal", "bgezal"}

\* The bytes of a value, least significant first.
Datum(b) == [op |-> "datum", imm |-> b]
to_le_bytes(v, width) == [k \in 1 .. width |-> Datum(lane(v, k - 1))]

\* `assemble_ins`: the pieces of one item, which starts at loc in the code.
assemble_ins(lab, loc, item) ==
  LET off == branch_offset(lab, loc, item)
      load_imm(v) == IF high(v) = 0 THEN <<Ins("ori", 0, item.rt, 0, low(v))>>
                     ELSE <<Ins("lui", 0, item.rt, 0, high(v))>>
                          \o IF low(v) # 0 THEN <<Ins("ori", item.rt, item.rt, 0, low(v))>> ELSE <<>>
      dest == resolve_labels(lab, item)
  IN  CASE item.op = "label"     -> <<>>
        [] item.op = "word"      -> to_le_bytes(item.imm, 4)
        [] item.op = "half"      -> to_le_bytes(item.imm, 2)
        [] item.op = "byte"      -> to_le_bytes(item.imm, 1)
        [] item.op = "ascii"     -> [k \in DOMAIN item.string |-> Datum(item.string[k])]
        [] item.op = "nop"       -> <<Ins("sll", 0, 0, 0, 0)>>
        [] item.op = "move"      -> <<Ins("addu", item.rs, 0, item.rd, 0)>>
        [] item.op = "li"        -> load_imm(item.imm)
        [] item.op = "la"        -> <<Ins("lui", 0, item.rt, 0, high(dest)),
                                      Ins("ori", item.rt, item.rt, 0, low(dest))>>
        [] item.op = "b"         -> <<Ins("beq", 0, 0, 0, off)>>
        [] item.op = "beqz"      -> <<Ins("beq", item.rs, 0, 0, off)>>
        [] item.op = "bnez"      -> <<Ins("bne", item.rs, 0, 0, off)>>
        [] item.op \in Branches  -> <<[item EXCEPT !.imm = off]>>
        [] item.op \in {"j", "jal"} -> <<[item EXCEPT !.imm = jump_addr(lab, item)]>>
        [] OTHER                 -> <<item>>

\* The second pass: `loc` is the length of the code emitted before item k.
length(code) == MapThenSumSet(LAMBDA k : IF code[k].op = "datum" THEN 1 ELSE 4, DOMAIN code)
loc(lab, src, k) ==
  MapThenSumSet(LAMBDA j : length(assemble_ins(lab, 0, src[j])), 1 .. k - 1)

gen_ins(src, base) ==
  LET lab == labels(src, base)
      one(k) == assemble_ins(lab, loc(lab, src, k), src[k])
  IN  IF redeclared(src) \/ unresolved(src) \/ no_main(src) THEN [ok |-> FALSE]
      ELSE [ok |-> TRUE, code |-> FlattenSeq([k \in DOMAIN src |-> one(k)]), main |-> lab["main"]]

\* `Bios::patch_for_exe`: registers and stack as the executable's header wants
\* them, and a jump to its entry.  NoStack stands for a header without a stack.
\* Fault: the jump comes one instruction early.
CONSTANTS T0, GP, SP, FP, NoStack

Fault_patch_for_exe(exe) ==
  LET sp == IF exe.sp = NoStack THEN 0 ELSE exe.sp
  IN  <<Label("main"), Ins("li", 0, T0, 0, exe.pc), Ins("li", 0, GP, 0, exe.gp),
        Ins("li", 0, SP, 0, sp), Ins("jr", T0, 0, 0, 0), Ins("lui", 0, FP, 0, high(sp)),
        Ins("ori", FP, FP, 0, low(sp))>>

patch_for_exe(exe) ==
  <<Label("main"), Ins("li", 0, T0, 0, exe.pc), Ins("li", 0, GP, 0, exe.gp)>> \o
  IF exe.sp # NoStack
    THEN <<Ins("li", 0, SP, 0, exe.sp), Ins("lui", 0, FP, 0, high(exe.sp)),
           Ins("jr", T0, 0, 0, 0), Ins("ori", FP, FP, 0, low(exe.sp))>>
    ELSE <<Ins("nop", 0, 0, 0, 0), Ins("nop", 0, 0, 0, 0), Ins("nop", 0, 0, 0, 0),
           Ins("jr", T0, 0, 0, 0), Ins("nop", 0, 0, 0, 0)>>
=============================================================================
