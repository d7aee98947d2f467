------------------------------- MODULE MCCpu -------------------------------
(* Two interrupt sources.  The user program enables interrupts, stores to  *)
(* the interrupt and device registers and loops through a delay slot; the  *)
(* handler acknowledges, jumps back and executes RFE in the delay slot.    *)
EXTENDS Cpu, TLC

I(op) == [op |-> op, target |-> 0]

MCCode ==
  0 :> I("mtc0_status") @@ 1 :> I("store_mask") @@ 2 :> [op |-> "jump", target |-> 5] @@
  3 :> I("store_device") @@ 4 :> I("alu") @@ 5 :> I("syscall") @@
  6 :> [op |-> "jump", target |-> 0] @@ 7 :> I("mtc0_cause") @@
  8 :> I("store_status") @@ 9 :> I("return") @@ 10 :> I("rfe")

\* The program keeps to the rules PreciseResume is proved for.
ASSUME ProgramIsDisciplined == GuestDiscipline
=============================================================================
