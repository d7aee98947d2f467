------------------------------ MODULE GpuPort ------------------------------
(***************************************************************************)
(* The GPU's command port: the GP0 register, the command FIFO behind it    *)
(* (gpu/fifo.rs) and the state that decides what a stored word means       *)
(* (gpu/mod.rs).  Words come from the guest or, a block at a time, from    *)
(* the DMA.                                                                *)
(*                                                                         *)
(* A word is the command its top bits spell and the size its low bits      *)
(* give an image, in halfwords: two to a word.  An argument or a word of   *)
(* an image spells a command too, which nobody meant.                      *)
(***************************************************************************)
EXTENDS Integers, Sequences, Option

CONSTANTS SIZE,      \* Fifo::SIZE
          Len_,      \* CMD_LEN, by command
          Args,      \* the commands that arguments and images spell
          MaxImage,  \* bound: halfwords of an image
          MaxCmds,   \* bound: commands the guest sends
          Guests,    \* when a guest starts a command: one that "polls" does when
                     \* status bit 26 is set, one that "counts" when the words fit
          Resets     \* when it resets the FIFO: "never", "between" or "any"

Cmds == {"nop", "mode", "rect", "poly", "copy", "read"}

\* A command that is executed at once has one word.
Parameters ==
  /\ SIZE \in Nat \ {0} /\ Len_ \in [Cmds -> 1 .. SIZE] /\ Len_["nop"] = 1 /\ Args \subseteq Cmds
  /\ MaxImage \in Nat \ {0} /\ MaxCmds \in Nat
  /\ Guests \subseteq {"polls", "counts"} /\ Resets \in {"never", "between", "any"}

ASSUME GpuPortAssumption == Parameters

VARIABLES gpu,     \* the port: state, halfwords left of an image, FIFO
          guest    \* the words the guest has yet to send of its command and image

port_vars == <<gpu, guest>>

Words == [cmd : Cmds, dim : 1 .. MaxImage]

PortInit ==
  /\ gpu = [state |-> "idle", left |-> 0, fifo |-> <<>>, words_left |-> None,
            sent |-> <<>>,          \* commands the guest has begun and the port not executed
            in_step |-> TRUE,       \* every command executed was the next one sent
            incomplete |-> FALSE]   \* gp0_exec was called without a full command
  /\ guest \in [args : {0}, data : {0}, image : {0}, count : {0}, kind : Guests]

-----------------------------------------------------------------------------
\* Fifo.
is_full(g) == Len(g.fifo) = SIZE
is_imm(cmd) == cmd = "nop"
has_full_cmd(g) == g.fifo # <<>> /\ Len_[Head(g.fifo).cmd] <= Len(g.fifo)

drop(g, n) == [g EXCEPT !.fifo = SubSeq(@, n + 1, Len(@))]

push(g, val) == IF is_full(g) THEN g ELSE [g EXCEPT !.fifo = Append(@, val)]

\* Fault: off by one, a command is full one word early.
Fault_push_action(g, val) ==
  LET expected == IF g.words_left = None THEN Len_[val.cmd] ELSE The(g.words_left)
      imm      == is_imm(val.cmd) /\ (is_full(g) \/ g.words_left = None)
  IN  CASE imm -> "ImmCmd"
        [] ~imm /\ ~is_full(g) /\ expected <= 2 -> "FullCmd"
        [] OTHER -> "None"

\* Fault: off by one, the last word does not complete the command.
Fault_push_action_late(g, val) ==
  IF is_imm(val.cmd) /\ (is_full(g) \/ g.words_left = None) THEN "ImmCmd" ELSE "None"

\* What push_cmd returns ...
push_action(g, val) ==
  LET expected == IF g.words_left = None THEN Len_[val.cmd] ELSE The(g.words_left)
      imm      == is_imm(val.cmd) /\ (is_full(g) \/ g.words_left = None)
  IN  CASE imm -> "ImmCmd"
        [] ~imm /\ ~is_full(g) /\ expected = 1 -> "FullCmd"
        [] OTHER -> "None"

\* ... and leaves behind: a full FIFO drops the word.
push_cmd(g, val) ==
  LET expected == IF g.words_left = None THEN Len_[val.cmd] ELSE The(g.words_left)
  IN  IF is_full(g) \/ push_action(g, val) = "ImmCmd" THEN g
      ELSE [push(g, val) EXCEPT !.words_left = IF expected = 1 THEN None ELSE Some(expected - 1)]

-----------------------------------------------------------------------------
\* Fault: stops one halfword short.
Fault_fifo_to_vram_store(g) ==
  IF g.state # "store" THEN g
  ELSE LET need == g.left \div 2
           n    == IF Len(g.fifo) < need THEN Len(g.fifo) ELSE need
       IN  [drop(g, n) EXCEPT !.left = IF @ > 2 * n + 1 THEN @ - 2 * n ELSE 0,
                              !.state = IF g.left <= 2 * n + 1 THEN "idle" ELSE @]

\* Image words leave the FIFO two halfwords at a time, until the image is done.
fifo_to_vram_store(g) ==
  IF g.state # "store" THEN g
  ELSE LET need == (g.left + 1) \div 2
           n    == IF Len(g.fifo) < need THEN Len(g.fifo) ELSE need
       IN  [drop(g, n) EXCEPT !.left = IF @ > 2 * n THEN @ - 2 * n ELSE 0,
                              !.state = IF g.left <= 2 * n THEN "idle" ELSE @]

\* The command at the head takes its words.  Drawing takes time; the image
\* commands take their size from the last word.
gp0_exec(g) ==
  LET word == Head(g.fifo)
      n    == IF has_full_cmd(g) THEN Len_[word.cmd] ELSE Len(g.fifo)
      done == [drop(g, n) EXCEPT
                 !.incomplete = @ \/ ~has_full_cmd(g),
                 !.in_step = @ /\ g.sent # <<>> /\ Head(g.sent) = word.cmd,
                 !.sent = IF @ = <<>> THEN @ ELSE Tail(@)]
  IN  CASE word.cmd \in {"rect", "poly"} -> [done EXCEPT !.state = "drawing"]
        [] word.cmd = "copy" -> [done EXCEPT !.state = "store", !.left = g.fifo[n].dim]
        [] word.cmd = "read" -> [done EXCEPT !.state = "load", !.left = g.fifo[n].dim]
        [] OTHER -> done

try_gp0_exec(g) == IF g.state = "idle" /\ has_full_cmd(g) THEN gp0_exec(g) ELSE g

gp0_store(g, val) ==
  LET pushed == push_cmd(g, val)
      action == push_action(g, val)
  IN  CASE g.state = "idle"    -> IF action = "FullCmd" THEN gp0_exec(pushed) ELSE pushed
        [] g.state = "drawing" -> pushed
        [] g.state = "store"   -> fifo_to_vram_store(push(g, val))
        [] g.state = "load"    -> g

\* Whether a block may come from the DMA, and status bit 26.
dma_block_ready(g) ==
  CASE g.state = "store" -> ~is_full(g)
    [] g.state = "idle"  -> g.fifo # <<>> => Head(g.fifo).cmd # "poly" /\ ~has_full_cmd(g)
    [] OTHER             -> FALSE

cmd_ready(g) == g.state = "idle" /\ g.fifo = <<>>

-----------------------------------------------------------------------------
\* The guest begins a command, an immediate one also while the GPU draws.
Command ==
  /\ guest.args = 0 /\ guest.data = 0 /\ guest.count < MaxCmds
  /\ \E val \in Words :
       /\ IF guest.kind = "polls"
          THEN cmd_ready(gpu) \/ (is_imm(val.cmd) /\ gpu.state = "drawing")
          ELSE gpu.state \in {"idle", "drawing"} /\ Len(gpu.fifo) + Len_[val.cmd] <= SIZE
       /\ LET begun == IF is_imm(val.cmd) THEN gpu ELSE [gpu EXCEPT !.sent = Append(@, val.cmd)]
          IN  gpu' = gp0_store(begun, val)
       /\ guest' = [guest EXCEPT !.args = Len_[val.cmd] - 1,
                    !.data = IF val.cmd = "copy" THEN (val.dim + 1) \div 2 ELSE 0,
                    !.image = val.dim, !.count = @ + 1]

\* It sends an argument, the last of which gives an image its size, once it has
\* read an image it asked for before: the port drops words until then ...
Argument ==
  /\ guest.args > 0 /\ gpu.state # "load"
  /\ \E cmd \in Args :
       gpu' = gp0_store(gpu, [cmd |-> cmd, dim |-> guest.image])
  /\ guest' = [guest EXCEPT !.args = @ - 1]

\* ... and the words of an image, when the port can take them.
Data ==
  /\ guest.args = 0 /\ guest.data > 0
  /\ dma_block_ready(gpu) /\ gpu.state = "store"
  /\ \E val \in [cmd : Args, dim : {1}] : gpu' = gp0_store(gpu, val)
  /\ guest' = [guest EXCEPT !.data = @ - 1]

\* It reads back an image, a word at a time.
GpuRead ==
  /\ gpu.state = "load"
  /\ gpu' = [gpu EXCEPT !.left = IF @ > 2 THEN @ - 2 ELSE 0, !.state = IF gpu.left <= 2 THEN "idle" ELSE @]
  /\ UNCHANGED guest

\* GP1(1): the FIFO forgets its words.  The guest starts over.
Gp1ResetFifo ==
  /\ \/ Resets = "any"
     \/ Resets = "between" /\ guest.args = 0 /\ guest.data = 0
  /\ gpu' = [gpu EXCEPT !.fifo = <<>>,
                        !.sent = IF gpu.state = "store" THEN @ ELSE <<>>]
  /\ guest' = [guest EXCEPT !.args = 0, !.data = IF gpu.state = "store" THEN @ ELSE 0]

\* The event gp0_exec scheduled for the end of the drawing.
DrawDone ==
  /\ gpu.state = "drawing"
  /\ gpu' = try_gp0_exec([gpu EXCEPT !.state = "idle"])
  /\ UNCHANGED guest

\* The guest can always read the status register, which changes nothing.
LoadStatus == UNCHANGED port_vars

PortNext == Command \/ Argument \/ Data \/ GpuRead \/ Gp1ResetFifo \/ DrawDone \/ LoadStatus

\* Drawing ends, a guest finishes what it began and reads what it asked for.
PortSpec ==
  /\ PortInit /\ [][PortNext]_port_vars
  /\ WF_port_vars(DrawDone) /\ WF_port_vars(Argument) /\ WF_port_vars(Data) /\ WF_port_vars(GpuRead)

-----------------------------------------------------------------------------
\* The commands executed are those the guest sent, in its order, and each with
\* all its words ("Should only be called if the FIFO has a full command",
\* gpu/mod.rs:427): no argument and no image word is ever taken for a command.
ExecutedAsSent == gpu.in_step /\ ~gpu.incomplete

\* Every command of a guest that polls is executed, and the port is ready for
\* the next one.
PortFreesUp == guest.kind = "polls" /\ guest.args = 0 /\ guest.data = 0 ~> cmd_ready(gpu)
=============================================================================
