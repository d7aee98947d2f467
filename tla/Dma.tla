-------------------------------- MODULE Dma --------------------------------
(***************************************************************************)
(* The DMA controller (bus/dma.rs).  An access to one of its registers     *)
(* runs every channel in turn, an event runs one; the CPU stands still     *)
(* until the run ends, so a run is a sequence of steps no other actor      *)
(* interrupts.                                                             *)
(*                                                                         *)
(* Addresses count words.  RAM wraps after RAM words, the registers after  *)
(* ADDR.  A word of RAM is the header of a list node: a link and a size.   *)
(***************************************************************************)
EXTENDS Integers, Sequences, Option

CONSTANTS Order,      \* the ports in the order run_dma runs them
          RAM, ADDR,  \* words of RAM, and of a channel's address space
          Bases, Blocks, Ctrls, Irqs,  \* what the guest stores to the registers
          MaxStores,  \* bound: register stores
          MaxEvents   \* bound: events queued for a port when the guest adds one

END == ADDR           \* 0xffffff, which is no word's address
Ports == {Order[i] : i \in DOMAIN Order}

\* The word an address lies in.
word(addr) == IF addr = END THEN ADDR - 1 ELSE addr

Modes == {"manual", "request", "list"}
Ctrl == [dir : {"ram", "port"}, step : {1, -1}, mode : Modes, chop : BOOLEAN,
         dma_chop : Nat, cpu_chop : Nat, enabled : BOOLEAN, start : BOOLEAN]

ASSUME DmaAssumption ==
  /\ Order \in Seq({"gpu", "cdrom", "otc", "spu"}) /\ Order # <<>>
  /\ RAM \in Nat \ {0} /\ ADDR \in Nat /\ ADDR >= RAM
  /\ Bases \subseteq 0 .. ADDR - 1 /\ Blocks \subseteq Nat \X Nat
  /\ \A p \in Ports : Ctrls[p] \subseteq Ctrl
  /\ MaxStores \in Nat /\ MaxEvents \in Nat

\* RAM is mirrored a whole number of times.
ASSUME MirrorAssumption == ADDR % RAM = 0

VARIABLES chan,       \* the channels' registers and pending transfers
          irq,        \* the interrupt register
          ram,
          gpu_ready,  \* Gpu::dma_block_ready
          events,     \* how many Event::Dma each port has queued
          run,        \* the ports still to be run, and run_chan's locals
          triggered,  \* whether this step triggered Irq::Dma
          stores,     \* how many stores were made
          plan        \* what each transfer was set up to move, and has moved

vars == <<chan, irq, ram, gpu_ready, events, run, triggered, stores, plan>>

Idle == [ports |-> <<>>, left |-> 0, manual_done |-> FALSE, inner |-> FALSE]
NoPlan == [want |-> -1, moved |-> 0, from |-> 0]

Init ==
  /\ chan = [p \in Ports |->
              [base |-> 0, size |-> 0, count |-> 0, transfer |-> None,
               ctrl |-> [dir |-> "ram", step |-> 1, mode |-> "manual", chop |-> FALSE,
                         dma_chop |-> 0, cpu_chop |-> 0, enabled |-> FALSE, start |-> FALSE]]]
  /\ irq = [force |-> FALSE, channels |-> {}, enabled |-> FALSE, flags |-> {}, master |-> FALSE]
  /\ ram = [a \in 0 .. RAM - 1 |-> [link |-> END, size |-> IF a % 2 = 0 THEN 1 ELSE 0]]
  /\ gpu_ready = TRUE
  /\ events = [p \in Ports |-> 0]
  /\ run = Idle
  /\ triggered = FALSE /\ stores = 0
  /\ plan = [p \in Ports |-> NoPlan]

-----------------------------------------------------------------------------
\* IrqReg.
result(i) == i.force \/ (i.enabled /\ i.flags # {})

\* Fault: only ever sets the flag.
Fault_update_master_irq_flag(i) ==
  /\ irq' = [i EXCEPT !.master = @ \/ result(i)]
  /\ triggered' = (result(i) /\ ~i.master)

\* The master flag follows the others; the interrupt comes when it rises.
update_master_irq_flag(i) ==
  /\ irq' = [i EXCEPT !.master = result(i)]
  /\ triggered' = (result(i) /\ ~i.master)

channel_done(p) ==
  /\ chan' = [chan EXCEPT ![p].ctrl.enabled = FALSE, ![p].ctrl.start = FALSE]
  /\ update_master_irq_flag([irq EXCEPT !.flags = IF p \in irq.channels THEN @ \cup {p} ELSE @])

-----------------------------------------------------------------------------
\* run_chan.
AtRest == run.ports = <<>>

\* The run continues with the first of these ports.
enter(ports) ==
  IF ports = <<>> THEN Idle
  ELSE [Idle EXCEPT !.ports = ports, !.left = chan[Head(ports)].ctrl.dma_chop]

port == Head(run.ports)
stat == chan[port]

InTime == stat.ctrl.chop => run.left > 0       \* schedule.now() < done
OutOfTime == stat.ctrl.chop /\ run.left < 0    \* schedule.now() > done

dma_ready == port = "gpu" /\ stat.ctrl.dir = "port" => gpu_ready

\* The loop's condition at its head.
AtHead == ~AtRest /\ ~run.inner /\ InTime /\ stat.ctrl.enabled /\ dma_ready
NextBlock == AtHead /\ stat.transfer = None
KeepRest == UNCHANGED <<ram, gpu_ready, events, stores, plan>>

Quiet == triggered' = FALSE /\ UNCHANGED irq

\* The loop ends: out of time, disabled, or the device is not ready.
LeaveChan ==
  /\ ~AtRest /\ ~run.inner /\ ~(InTime /\ stat.ctrl.enabled /\ dma_ready)
  /\ run' = enter(Tail(run.ports))
  /\ Quiet /\ UNCHANGED chan /\ KeepRest

\* A transfer interrupted by chopping goes on.
Resume ==
  /\ AtHead /\ stat.transfer # None
  /\ run' = [run EXCEPT !.inner = TRUE]
  /\ Quiet /\ UNCHANGED chan /\ KeepRest

transfer(cursor, size) == Some([cursor |-> word(cursor), size |-> size, inc |-> stat.ctrl.step])

StartManual ==
  /\ NextBlock /\ stat.ctrl.mode = "manual" /\ ~run.manual_done
  /\ IF stat.ctrl.start
       THEN /\ chan' = [chan EXCEPT ![port].transfer = transfer(stat.base, stat.size)]
            /\ run' = [run EXCEPT !.inner = TRUE, !.manual_done = TRUE]
       ELSE UNCHANGED chan /\ run' = enter(Tail(run.ports))
  /\ Quiet /\ KeepRest

\* Fault: the block is not counted.
Fault_StartRequest ==
  /\ NextBlock /\ stat.ctrl.mode = "request" /\ stat.count > 0
  /\ chan' = [chan EXCEPT ![port].transfer = transfer(stat.base, stat.size)]
  /\ run' = [run EXCEPT !.inner = TRUE]
  /\ Quiet /\ KeepRest

StartRequest ==
  /\ NextBlock /\ stat.ctrl.mode = "request" /\ stat.count > 0
  /\ chan' = [chan EXCEPT ![port].transfer = transfer(stat.base, stat.size), ![port].count = @ - 1]
  /\ run' = [run EXCEPT !.inner = TRUE]
  /\ Quiet /\ KeepRest

\* Fault: an empty node is sent as a block and its link is not followed.
Fault_FollowList ==
  /\ NextBlock /\ stat.ctrl.mode = "list" /\ stat.base # END
  /\ LET header == ram[stat.base % RAM]
     IN  IF header.size = 0
           THEN UNCHANGED <<chan, run>>
           ELSE /\ chan' = [chan EXCEPT ![port].base = header.link,
                              ![port].transfer = transfer((stat.base + 1) % ADDR, header.size)]
                /\ run' = [run EXCEPT !.inner = TRUE]
  /\ Quiet /\ KeepRest

\* A list's next node; an empty one is only followed.
FollowList ==
  /\ NextBlock /\ stat.ctrl.mode = "list" /\ stat.base # END
  /\ LET header == ram[stat.base % RAM]
         empty  == header.size = 0
     IN  /\ chan' = [chan EXCEPT ![port].base = header.link,
                       ![port].transfer = IF empty THEN None
                                          ELSE transfer((stat.base + 1) % ADDR, header.size)]
         /\ run' = [run EXCEPT !.inner = ~empty]
  /\ Quiet /\ KeepRest

Finish ==
  /\ NextBlock
  /\ \/ stat.ctrl.mode = "manual" /\ run.manual_done
     \/ stat.ctrl.mode = "request" /\ stat.count = 0
     \/ stat.ctrl.mode = "list" /\ stat.base = END
  /\ channel_done(port)
  /\ run' = enter(Tail(run.ports))
  /\ KeepRest

InBlock == ~AtRest /\ run.inner
tran == The(stat.transfer)

\* Fault: the last entry links on.
Fault_dma_load == [link |-> (tran.cursor - 1) % RAM, size |-> 0]

\* What a device delivers: the ordering table links each entry to the one
\* below it; other data is no list.
dma_load ==
  IF port = "otc"
    THEN [link |-> IF tran.size = 1 THEN END ELSE (tran.cursor - 1) % RAM, size |-> 0]
    ELSE [link |-> END, size |-> 0]

\* One word is moved, which takes a cycle; a command may leave the GPU busy.
Word ==
  /\ InBlock /\ ~OutOfTime /\ tran.size > 0
  /\ ram' = IF stat.ctrl.dir = "ram" THEN [ram EXCEPT ![tran.cursor % RAM] = dma_load] ELSE ram
  /\ chan' = [chan EXCEPT ![port].transfer =
                Some([tran EXCEPT !.cursor = (@ + tran.inc) % ADDR, !.size = @ - 1])]
  /\ gpu_ready' \in IF port = "gpu" /\ stat.ctrl.dir = "port" THEN BOOLEAN ELSE {gpu_ready}
  /\ run' = [run EXCEPT !.left = IF stat.ctrl.chop THEN @ - 1 ELSE @]
  /\ plan' = [plan EXCEPT ![port].moved = IF plan[port].want >= 0 THEN @ + 1 ELSE @]
  /\ Quiet /\ UNCHANGED <<events, stores>>

\* The block is done.
EndBlock ==
  /\ InBlock /\ ~OutOfTime /\ tran.size = 0
  /\ LET update_base == \/ stat.ctrl.chop /\ stat.ctrl.mode = "manual"
                        \/ stat.ctrl.mode = "request"
     IN  chan' = [chan EXCEPT ![port].base = IF update_base THEN tran.cursor ELSE @,
                              ![port].transfer = None]
  /\ run' = [run EXCEPT !.inner = FALSE]
  /\ Quiet /\ KeepRest

\* Out of time within the block: the CPU gets to run until an event resumes it.
Chop ==
  /\ InBlock /\ OutOfTime
  /\ chan' = [chan EXCEPT ![port].base = IF stat.ctrl.mode = "manual" THEN tran.cursor ELSE @]
  /\ events' = [events EXCEPT ![port] = @ + 1]
  /\ run' = [run EXCEPT !.inner = FALSE]
  /\ Quiet /\ UNCHANGED <<ram, gpu_ready, stores, plan>>

RunChan ==
  \/ LeaveChan \/ Resume \/ StartManual \/ StartRequest \/ FollowList
  \/ Finish \/ Word \/ EndBlock \/ Chop

-----------------------------------------------------------------------------
\* The guest and the devices, between runs.

\* Every channel runs, with what was just stored.
run_dma(stats) ==
  run' = [Idle EXCEPT !.ports = Order, !.left = stats[Head(Order)].ctrl.dma_chop]

Load == AtRest /\ run_dma(chan) /\ Quiet /\ UNCHANGED chan /\ KeepRest

\* What the transfer just enabled is to move; not known for a list, nor when
\* a chopped transfer is still pending.
planned(c) ==
  IF ~c.ctrl.enabled \/ c.transfer # None \/ c.ctrl.mode = "list" THEN NoPlan
  ELSE [want |-> IF c.ctrl.mode = "manual" THEN c.size ELSE c.count * c.size,
        moved |-> 0, from |-> word(c.base)]

StoreChan ==
  /\ AtRest /\ stores < MaxStores
  /\ \E p \in Ports :
       /\ \/ \E val \in Bases : chan' = [chan EXCEPT ![p].base = val]
          \/ \E val \in Blocks : chan' = [chan EXCEPT ![p].size = val[1], ![p].count = val[2]]
          \/ \E val \in Ctrls[p] : chan' = [chan EXCEPT ![p].ctrl = val]
       /\ plan' = [plan EXCEPT ![p] = planned(chan'[p])]
  /\ stores' = stores + 1
  /\ run_dma(chan') /\ Quiet /\ UNCHANGED <<ram, gpu_ready, events>>

\* Flags written with ones are acknowledged.
StoreIrq ==
  /\ AtRest /\ stores < MaxStores
  /\ \E val \in Irqs :
       update_master_irq_flag([irq EXCEPT !.force = val.force, !.channels = val.channels,
                                          !.enabled = val.enabled, !.flags = @ \ val.flags])
  /\ stores' = stores + 1
  /\ run_dma(chan) /\ UNCHANGED <<chan, ram, gpu_ready, events, plan>>

\* The CPU loop dispatches Event::Dma.
RunDmaChan ==
  /\ AtRest
  /\ \E p \in Ports :
       /\ events[p] > 0
       /\ events' = [events EXCEPT ![p] = @ - 1]
       /\ run' = enter(<<p>>)
  /\ Quiet /\ UNCHANGED <<chan, ram, gpu_ready, stores, plan>>

\* A store to the GPU, which may now be ready or busy, always has the channel run.
GpuStore ==
  /\ AtRest /\ "gpu" \in Ports /\ events["gpu"] < MaxEvents
  /\ gpu_ready' \in BOOLEAN
  /\ events' = [events EXCEPT !["gpu"] = @ + 1]
  /\ Quiet /\ UNCHANGED <<chan, ram, run, stores, plan>>

Next == RunChan \/ Load \/ StoreChan \/ StoreIrq \/ RunDmaChan \/ GpuStore

\* A run goes on until it ends, and queued events are dispatched.
Spec == Init /\ [][Next]_vars /\ WF_vars(RunChan) /\ WF_vars(RunDmaChan)

-----------------------------------------------------------------------------

\* "This is a readonly and is updated whenever IrqReg is changed in any way"
\* (dma.rs:657): after any mix of stores and completions the master flag is on
\* exactly if an enabled interrupt is waiting, so the next one can raise it.
MasterFlagCurrent == irq.master = result(irq)

\* A manual transfer is not interrupted: it is not chopped, and not to the GPU,
\* which may become busy.  One that is forgets that it was begun, and begins again.
AtOnce(p, ctrl) == ctrl.mode = "manual" => ~ctrl.chop /\ ~(p = "gpu" /\ ctrl.dir = "port")
ManualAtOnce == \A p \in Ports : \A ctrl \in Ctrls[p] : AtOnce(p, ctrl)

\* Words that a set-up transfer has yet to move.
Remaining(p) ==
  LET c == chan[p]
      begun == IF c.transfer = None THEN 0 ELSE The(c.transfer).size
      again == run.ports # <<>> /\ port = p /\ run.manual_done
  IN  CASE c.ctrl.enabled /\ c.ctrl.mode = "request" -> begun + c.count * c.size
        [] c.ctrl.enabled /\ c.ctrl.mode = "manual"  -> IF c.transfer # None THEN begun
                                                        ELSE IF again THEN 0 ELSE c.size
        [] OTHER -> 0

\* A transfer moves each word it was set up for once, in address order, over
\* any number of blocks, chops and waits for the device, and no other
\* (run_chan, dma.rs:100-104).
WordsAccounted ==
  \A p \in Ports : plan[p].want >= 0 =>
    /\ plan[p].moved + Remaining(p) = plan[p].want
    /\ \A t \in chan[p].transfer : t.cursor = (plan[p].from + t.inc * plan[p].moved) % ADDR

\* The guest sets up tables that fit in RAM, with the control word the hardware
\* has for them, and has no device write to RAM.
Building(p, ctrl) ==
  IF p = "otc" THEN ctrl.dir = "ram" /\ ctrl.step = -1 /\ ctrl.mode = "manual" ELSE ctrl.dir = "port"
TablesOnly ==
  /\ \A p \in Ports : \A ctrl \in Ctrls[p] : Building(p, ctrl)
  /\ \A val \in Blocks : val[1] <= RAM

\* The table the ordering-table channel has built.
TableDone(p) == p = "otc" /\ plan[p].want > 0 /\ plan[p].want = plan[p].moved /\ ~chan[p].ctrl.enabled

\* A finished ordering table is a list from its base to the terminator through
\* every entry, all empty (dma.rs:714-716), until other data is put there.
TableIsChain ==
  "otc" \in Ports /\ TableDone("otc") =>
    LET base == plan["otc"].from
        n    == plan["otc"].want
    IN  \A i \in 0 .. n - 1 :
          ram[(base - i) % RAM] = [link |-> IF i = n - 1 THEN END ELSE (base - i - 1) % RAM, size |-> 0]

\* The CPU is not halted for good: a run over blocks, lists and tables ends.
RunEnds == ~AtRest ~> AtRest
=============================================================================
