----------------------------- MODULE MCPipeline -----------------------------
(***************************************************************************)
(* Instance of Pipeline: a byte of three bits (a word of twelve), registers*)
(* $zero, four general ones and $ra, 32 bytes of RAM, 8 of scratchpad, and *)
(* a cache of two lines of two words.                                      *)
(***************************************************************************)
EXTENDS Pipeline

MCRegs == 0 .. 5

MCFirstMem == [a \in 0 .. 39 |-> (a * 3 + a \div 4) % 8]

\* A pointer into RAM and a negative number, and the two ends of the integers.
MCFirstRegs ==
  {[r \in MCRegs |-> CASE r = 1 -> 9 [] r = 2 -> 3000 [] OTHER -> 0],
   [r \in MCRegs |-> CASE r = 1 -> 2048 [] r = 2 -> 4095 [] OTHER -> 0]}

\* One of every instruction, and for those that touch the load delay slot every
\* way registers 1 and 2 can meet.
R(op, rs, rt, rd) == Ins(op, rs, rt, rd, 0)
I(op, rs, rt, v) == Ins(op, rs, rt, 0, v)

MCRepertoire ==
  {Ins(op, 0, 1, 2, 3) : op \in {"sll", "srl", "sra"}} \cup
  {R(op, 2, 1, 1) : op \in {"sllv", "srlv", "srav", "add", "addu", "sub", "subu",
                            "and", "or", "xor", "nor", "slt", "sltu"}} \cup
  {I(op, 1, 2, 60) : op \in {"addi", "addiu", "slti", "sltui", "andi", "ori", "xori", "lui"}} \cup
  {R(op, 1, 2, 0) : op \in {"mult", "multu", "div", "divu", "mthi", "mtlo"}} \cup
  {R(op, 0, 0, 1) : op \in {"mfhi", "mflo"}} \cup
  {I(op, 1, 2, 1) : op \in {"beq", "bne", "blez", "bgtz", "bltz", "bgez", "bltzal", "bgezal", "j", "jal"}} \cup
  {R("jr", 1, 0, 0), R("jalr", 1, 0, 1)} \cup
  {I(op, 1, r, 3) : op \in {"lb", "lbu", "lh", "lhu", "lw"}, r \in {1}} \cup
  {I("lw", 0, r, 4) : r \in {0, 1, 2}} \cup {I("lw", 0, 2, 32)} \cup
  {I("lwl", 0, 1, 9), I("lwr", 0, 1, 6), I("lwl", 1, 2, 3), I("lwr", 1, 2, 0)} \cup
  {I(op, 1, 2, v) : op \in {"sb", "sh", "sw"}, v \in {3}} \cup
  {I("swl", 1, 2, 3), I("swr", 1, 2, 0)} \cup
  {R("mfc0", 0, 1, 14), R("mfc0", 0, 1, 16), R("mtc0", 0, 1, 12), R("rfe", 0, 0, 0)} \cup
  {R("mfc2", 0, 1, 0), R("mtc2", 0, 1, 0), I("gte", 0, 0, 7), I("lwc2", 0, 0, 4), I("swc2", 1, 0, 3)} \cup
  {R(op, 0, 0, 0) : op \in {"syscall", "break", "cop1", "illegal"}}

\* Self modifying code: registers 1 and 2 turn the cache on with and without tag
\* test, 2 isolates it, 3 is RAM in the uncached region.
MCCodeRegs ==
  [r \in MCRegs |-> CASE r = 1 -> 20 [] r = 2 -> 16 [] r = 3 -> 2560 [] OTHER -> 0]

MCCodeRepertoire ==
  {R("mtc0", 0, 2, 12), R("mtc0", 0, 0, 12), R("jr", 3, 0, 0)} \cup
  {I("sw", rs, 1, 0) : rs \in {0, 2}} \cup {I("sw", 0, rt, -4 + 64) : rt \in {1, 2}} \cup
  {Ins("j", 0, 0, 0, w) : w \in {0, 4}}

\* Sources: a loop, a forward branch over pseudo instructions of every size, a
\* call, data of every kind behind the text and within it, where the program jumps
\* over it and branches back, bases with a part that branches see, labels declared
\* twice or missing, and the executables' patch.
N(op) == R(op, 0, 0, 0)

MCSources ==
  LET Src(items, base) == [src |-> items, base |-> base]
      Exe(exe, base) == [src |-> patch_for_exe(exe), base |-> base, exe |-> exe]
  IN  {Src(<<Label("main"), I("li", 0, 1, v), To(R(b, 1, 0, 0), "out"), I("li", 0, 2, w),
             Label("out"), To(I("la", 0, 1, 0), "main"), N("break"), Label("d"), I("word", 0, 0, 7)>>, base) :
         v \in {0, 64, 65}, w \in {0, 5, 128, 129}, b \in {"beqz", "bnez"}, base \in {0, 2048}}
      \cup
      {Src(<<I("addiu", 1, 1, 1), Label("main"), To(N("b"), "up"), N("nop"), N("break"),
             Label("up"), To(N(j), "main"), To(I("la", 0, 1, 0), "up")>>, base) :
         j \in {"j", "jal", "b"}, base \in {0, 2048}}
      \cup
      {Src(<<Label("main"), To(I("la", 0, 1, 0), "d"), I("lw", 1, 2, 0), N("nop"), R("move", 2, 0, 1),
             N("break"), Label("d"), I("word", 0, 0, 4000)>>, base) : base \in {0, 2048}}
      \cup
      {Src(<<Label("main"), To(I("la", 0, 1, 0), "d"), I("addiu", 1, 1, n), R("jr", 1, 0, 0),
             R("move", 1, 0, 2), Label("d")>> \o data \o <<Label("e"), To(N(j), to)>>, 0) :
         <<data, n>> \in {<<<<Ascii(<<1, 2, 3, 4>>)>>, 4>>, <<<<Ascii(<<5, 6, 7, 1, 2, 3, 4, 5>>)>>, 8>>,
                          <<<<I("half", 0, 0, 63), I("half", 0, 0, 9)>>, 4>>,
                          <<<<I("half", 0, 0, 63), I("byte", 0, 0, 5)>>, 3>>, <<<<Ascii(<<>>)>>, 0>>},
         j \in {"b", "j", "jal"}, to \in {"main", "e"}}
      \cup
      {Src(<<Label("main"), To(I("la", 0, 1, 0), "d"), To(I("la", 0, 2, 0), "e"), I("lw", 1, 2, 0),
             N("break"), Label("d"), item, Label("e"), I("byte", 0, 0, 7)>>, base) :
         item \in {I("half", 0, 0, 9), I("word", 0, 0, 4000), Ascii(<<1, 2, 3, 4>>)}, base \in {0, 2048}}
      \cup
      {Src(<<Label("main"), To(N(j), "main"), I("la", 0, 1, v), N("break")>>, base) :
         j \in {"b", "j"}, v \in {0, 2050}, base \in {4, 12, 2064}}
      \cup {Src(<<Label("main"), Label("main"), N("break")>>, 0),
            Src(<<Label("main"), To(N("j"), "nowhere")>>, 0), Src(<<N("break")>>, 0)}
      \cup {Exe([pc |-> pc, gp |-> gp, sp |-> sp], base) :
              pc \in {2688, 2052 + 64}, gp \in {0, 64}, sp \in {NoStack, 0, 192, 2050}, base \in {0, 2560}}
=============================================================================
