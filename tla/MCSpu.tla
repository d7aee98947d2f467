------------------------------- MODULE MCSpu -------------------------------
(***************************************************************************)
(* Instance of Spu: voice 1, which is captured and pitch modulated, two    *)
(* blocks of RAM and two of capture buffer, the fastest envelopes.         *)
(***************************************************************************)
EXTENDS Spu

Adsr(sustain, dir) ==
  [sustain |-> sustain, decay_rate |-> 0, attack_rate |-> 48, attack_mode |-> "Exponential",
   release_rate |-> 40, release_mode |-> "Exponential",
   sustain_rate |-> 44, sustain_dir |-> dir, sustain_mode |-> "Exponential"]

MCAdsrRegs == {Adsr(3, "Decrease")}

MCControls == {{}, {"enable", "unmute", "irq"}}

\* Block 0 starts a loop that block 8 ends.
MCImages == {[w \in 0 .. 31 |-> CASE w = 0 -> {"start"} [] w = 8 -> {"end", "repeat"} [] OTHER -> {}]}

MCWords == {{}, {"end"}}
=============================================================================
