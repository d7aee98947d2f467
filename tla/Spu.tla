-------------------------------- MODULE Spu --------------------------------
(***************************************************************************)
(* The sound processor: spu/mod.rs.  Every 768 cycles `run_cycle` decodes  *)
(* a word of each voice's block into its FIFO, mixes a sample, steps the   *)
(* volume envelope, and handles the voices switched on and off by register *)
(* stores since the last cycle.                                            *)
(*                                                                         *)
(* Samples are abstracted to the RAM word they were decoded from, a RAM    *)
(* word to the block flags it has when it is a header, and the output to   *)
(* the set of voices that are heard in it.  Volumes, rates and counters    *)
(* are the machine's.  Registers of the SPU are stored by index in `Regs`, *)
(* that is after `reg - 191`.                                              *)
(***************************************************************************)
EXTENDS Fifo, FiniteSets

CONSTANTS Voices,     \* voices of the 24 that are modelled
          AddrSpace,  \* bound: RAM addresses (65536 in the machine), blocks of 8
          CaptureBuf, \* where voice 1's samples are captured (256 in the machine)
          Sample,     \* model value: a RAM word that is a captured sample
          Images,     \* contents of RAM at the start: [address -> set of flags]
          Words,      \* words transferred to RAM, as the flags they have
          AdsrRegs,   \* values of an ADSR register, as the fields it has
          Rates,      \* sample rates
          Starts,     \* block addresses
          Controls,   \* values of the control register, as sets of its bits
          MaxCycles,  \* bound: cycles of a behaviour
          MaxStores   \* bound: register stores and transfers of a behaviour

Flags == {"end", "repeat", "start"}
Phases == {"Off", "Attack", "Decay", "Sustain", "Release"}

ASSUME SpuAssumption ==
  /\ Voices \subseteq 0 .. 23 \ {3}
  /\ AddrSpace \in Nat /\ AddrSpace % 8 = 0 /\ AddrSpace > 0
  /\ CaptureBuf \in {2 ^ n : n \in 0 .. 15} /\ CaptureBuf < AddrSpace
  /\ \A i \in Images : i \in [0 .. AddrSpace - 1 -> SUBSET Flags]
  /\ Words \subseteq SUBSET Flags
  /\ Starts \subseteq 0 .. AddrSpace - 1 /\ Rates \subseteq Nat
  /\ MaxCycles \in Nat /\ MaxStores \in Nat

VARIABLES voices,   \* the voices
          regs,     \* voice_on, voice_off, noise_on, pitch_mod_on, irq_addr, trans_addr, control
          ram,
          irq,      \* active_irq, its bit of the status register, and whether the last
                    \* step triggered the interrupt
          capture,  \* capture_addr
          heard,    \* voices in the last sample sent
          cycles, stores,
          ghost     \* history, for each voice: the samples decoded and not yet played,
                    \* how many there were when the last was mixed, and whether the
                    \* voice is keyed on; voices whose volume was stored to since the
                    \* last cycle; and whether the SPU was disabled then

vars == <<voices, regs, ram, irq, capture, heard, cycles, stores, ghost>>

-----------------------------------------------------------------------------
\* Envelopes.

\* The two halves of ADSR_TABLE: how many cycles a rate takes, and the step.
Entry(rate, mantissa) ==
  LET e == rate \div 4
  IN  IF e < 12 THEN [count |-> 1, step |-> mantissa * 2 ^ (11 - e)]
                ELSE [count |-> 2 ^ (e - 11), step |-> mantissa]

ADSR_INCREASE(rate) == Entry(rate, 7 - (rate % 4))
ADSR_DECREASE(rate) == Entry(rate, (rate % 4) - 8)

ADSR_TABLE(dir, rate) == IF dir = "Increase" THEN ADSR_INCREASE(rate) ELSE ADSR_DECREASE(rate)

Envelope(rate, dir, mode) ==
  [counter |-> ADSR_TABLE(dir, rate).count, rate |-> rate, dir |-> dir, mode |-> mode]

clamp(v) == IF v < 0 THEN 0 ELSE IF v > 32767 THEN 32767 ELSE v

\* `VolEnvelope::run_cycle`: the envelope and the level after a cycle.
envelope_cycle(env, level) ==
  LET c == env.counter - 1
      step == ADSR_TABLE(env.dir, env.rate).step
      high == env.mode = "Exponential" /\ env.dir = "Increase" /\ level >= 24576
  IN  IF c > 0 THEN [env |-> [env EXCEPT !.counter = c], level |-> level]
      ELSE [env |-> [env EXCEPT !.counter =
                       IF high /\ env.rate > 39 THEN c \div (IF env.rate <= 44 THEN 4 ELSE 2) ELSE c],
            level |-> clamp(level +
                       CASE env.mode = "Exponential" /\ env.dir = "Decrease" -> (step * level) \div 32768
                         [] high /\ env.rate <= 39 -> step \div 4
                         [] high /\ env.rate > 44  -> step \div 2
                         [] OTHER -> step)]

next_phase(phase) ==
  CASE phase = "Attack"                -> "Decay"
    [] phase \in {"Decay", "Sustain"}  -> "Sustain"
    [] phase \in {"Release", "Off"}    -> "Off"

\* The level wraps to 16 bits: the highest one is the least integer.
sustain_lvl(a) == IF a.sustain = 15 THEN -32768 ELSE (a.sustain + 1) * 2048

\* `update_adsr_envelope` for the phase the voice is in.
update_adsr_envelope(v) ==
  LET a == v.adsr
      set(target, env) == [v EXCEPT !.target = target, !.env = env]
  IN  CASE v.phase = "Off"     -> set(0, Envelope(0, "Increase", "Linear"))
        [] v.phase = "Attack"  -> set(32767, Envelope(a.attack_rate, "Increase", a.attack_mode))
        [] v.phase = "Decay"   -> set(sustain_lvl(a), Envelope(a.decay_rate, "Decrease", "Exponential"))
        [] v.phase = "Sustain" -> set(0, Envelope(a.sustain_rate, a.sustain_dir, a.sustain_mode))
        [] v.phase = "Release" -> set(0, Envelope(a.release_rate, "Decrease", a.release_mode))

\* `adsr_envelope_cycle`: the next phase starts when its target is reached.
adsr_envelope_cycle(v) ==
  LET e == envelope_cycle(v.env, v.vol)
      w == [v EXCEPT !.env = e.env, !.vol = e.level]
      reached == IF w.env.dir = "Decrease" THEN w.vol <= w.target ELSE w.vol >= w.target
  IN  IF w.phase # "Sustain" /\ reached
        THEN update_adsr_envelope([w EXCEPT !.phase = next_phase(@)])
        ELSE w

\* The envelope's parameters and the target stay those of the phase before.
start_release_phase(v) == [v EXCEPT !.phase = "Release", !.env.counter = 0]
start_attack_phase(v) == [v EXCEPT !.phase = "Attack", !.env.counter = 0, !.vol = 0]
mute(v) == [v EXCEPT !.vol = 0]

reset(v) ==
  [start_attack_phase(v) EXCEPT !.counter = 0, !.addr = v.start, !.flags = {},
                                !.fifo = clear(@), !.start_delay = 4, !.ignore_loop_addr = FALSE]

-----------------------------------------------------------------------------
\* Decoding.

plus(addr, n) == (addr + n) % AddrSpace

\* A word holds four samples.
decode(v, addr) ==
  [v EXCEPT !.fifo = push(push(push(push(@, addr), addr), addr), addr), !.addr = plus(addr, 1)]

irq_enabled == {"irq", "enable"} \subseteq regs.control
irq_for_addr(addr) == irq_enabled /\ addr = regs.irq_addr

\* Fault: the decoder runs until the FIFO is full.
Fault_decoder_waits(v) == len(v.fifo) > 12

decoder_waits(v) == len(v.fifo) > 10

\* Where the next block's header is: the loop's, if this block is the last one.
block_addr(v) == IF "end" \in v.flags THEN v.repeat ELSE v.addr

\* The headers that can be read there: any, where a sample was captured.
Headers(v) == IF ram[block_addr(v)] = Sample THEN SUBSET Flags ELSE {ram[block_addr(v)]}

\* At the start of a block.  A note whose last block does not repeat is released.
next_block(i, v, header) ==
  LET over == "end" \in v.flags /\ "repeat" \notin v.flags /\ i \notin regs.noise_on
      w == IF over THEN [v EXCEPT !.phase = "Release", !.vol = 0] ELSE v
      addr == plus(block_addr(v), 1)
  IN  [w EXCEPT !.addr = addr, !.flags = header,
                !.repeat = IF "start" \in header /\ ~v.ignore_loop_addr THEN addr ELSE @]

\* `Voice::run_decoder`: the voice after it, and whether it asks for an interrupt.
run_decoder(i, v, header) ==
  LET b == IF v.addr % 8 = 0 THEN next_block(i, v, header) ELSE v
  IN  IF decoder_waits(v)
        THEN [voice |-> v, irq |-> irq_for_addr(plus(v.addr, AddrSpace - 1))]
        ELSE [voice |-> decode(b, b.addr),
              irq   |-> irq_for_addr(IF v.addr % 8 = 0 THEN plus(b.addr, AddrSpace - 1) ELSE v.addr)]

-----------------------------------------------------------------------------
\* Playing.

consume_samples(v, step) ==
  [v EXCEPT !.counter = @ % 4096, !.fifo = pop_n(@, (v.counter + step) \div 4096)]

\* Fault: a voice switched on and off in one cycle stays off.
Fault_key(i, v) ==
  LET on == IF i \in regs.voice_on THEN reset(v) ELSE v
  IN  IF i \in regs.voice_off THEN start_release_phase(on) ELSE on

\* Voices switched off, on, and the SPU switched off.
key(i, v) ==
  LET off == IF i \in regs.voice_off THEN start_release_phase(v) ELSE v
  IN  IF i \in regs.voice_on THEN reset(off) ELSE off

\* Fault: the voice is released and keeps its volume.
Fault_disabled(v) == start_release_phase(v)

disabled(v) == mute(start_release_phase(v))

\* `Voice::run` after the sample is mixed; `step` is how far it plays.
run(i, v, step) ==
  LET played == IF v.start_delay # 0 THEN [v EXCEPT !.start_delay = @ - 1]
                ELSE consume_samples(adsr_envelope_cycle(v), step)
  IN  IF "enable" \in regs.control THEN key(i, played) ELSE disabled(key(i, played))

\* The step is the sample rate, at most 3fff; with pitch modulation, by the
\* sample of the voice before it, anything up to that.
Steps(i) ==
  IF i # 0 /\ i \in regs.pitch_mod_on THEN {4096 * n : n \in 0 .. 3}
  ELSE {IF voices[i].rate > 16383 THEN 16383 ELSE voices[i].rate}

-----------------------------------------------------------------------------
AdsrReg ==
  [sustain |-> 0, decay_rate |-> 0, attack_rate |-> 0, attack_mode |-> "Linear",
   release_rate |-> 0, release_mode |-> "Linear",
   sustain_rate |-> 0, sustain_dir |-> "Decrease", sustain_mode |-> "Linear"]

NewVoice ==
  [addr |-> 0, counter |-> 0, flags |-> {},
   env |-> [counter |-> 0, rate |-> 0, dir |-> "Increase", mode |-> "Linear"],
   phase |-> "Off", target |-> 0, vol |-> 0, fifo |-> NewFifo(0), ignore_loop_addr |-> FALSE,
   start_delay |-> 0, rate |-> 0, start |-> 0, repeat |-> 0,
   adsr |-> AdsrReg]

Regs ==
  [voice_on |-> {}, voice_off |-> {}, noise_on |-> {}, pitch_mod_on |-> {},
   irq_addr |-> 0, trans_addr |-> 0, control |-> {}]

\* The guest has stored to the registers of the voices, and no cycle was run.
Init ==
  /\ \E r \in Rates, a \in Starts, adsr \in AdsrRegs :
       voices = [i \in Voices |-> [NewVoice EXCEPT !.rate = r, !.start = a, !.adsr = adsr]]
  /\ regs = Regs
  /\ ram \in Images
  /\ irq = [active |-> FALSE, status |-> FALSE, triggered |-> FALSE]
  /\ capture = 0 /\ heard = {} /\ cycles = 0 /\ stores = 0
  /\ ghost = [fifo |-> [i \in Voices |-> <<>>], mixed |-> [i \in Voices |-> 4],
              keyed |-> [i \in Voices |-> FALSE], stored |-> {}, disabled |-> TRUE]

\* `256 | capture_addr`
capture_word == IF (capture \div CaptureBuf) % 2 = 1 THEN capture ELSE capture + CaptureBuf

\* What the voice decoded in this cycle, and whether its note ended.
Decoded(i) == IF decoder_waits(voices[i]) THEN <<>> ELSE
                LET v == voices[i]
                    a == IF v.addr % 8 = 0 THEN plus(block_addr(v), 1) ELSE v.addr
                IN  <<a, a, a, a>>

NoteEnds(i) ==
  LET v == voices[i]
  IN  /\ ~decoder_waits(v) /\ v.addr % 8 = 0
      /\ "end" \in v.flags /\ "repeat" \notin v.flags /\ i \notin regs.noise_on

Keyed(i) ==
  /\ "enable" \in regs.control
  /\ i \in regs.voice_on \/ (ghost.keyed[i] /\ i \notin regs.voice_off /\ ~NoteEnds(i))

\* The samples left when `step` has been played.
Left(i, step) ==
  LET all == ghost.fifo[i] \o Decoded(i)
      n == IF voices[i].start_delay # 0 THEN 0 ELSE step \div 4096
  IN  IF i \in regs.voice_on THEN <<>> ELSE SubSeq(all, n + 1, Len(all))

\* `run_cycle`: the status register, every voice's decoder and playback, the
\* interrupt, the key flags, the output and the capture address.
RunCycle ==
  \E step \in [Voices -> UNION {Steps(i) : i \in Voices}],
     header \in [Voices -> UNION {Headers(voices[i]) : i \in Voices}] :
  LET d(i) == run_decoder(i, voices[i], header[i])
  IN  /\ cycles < MaxCycles
      /\ \A i \in Voices : step[i] \in Steps(i) /\ header[i] \in Headers(voices[i])
      /\ cycles' = cycles + 1
      /\ voices' = [i \in Voices |-> run(i, d(i).voice, step[i])]
      /\ irq' = [irq EXCEPT !.status = irq.active, !.triggered = \E i \in Voices : d(i).irq]
      /\ ram' = IF 1 \in Voices THEN [ram EXCEPT ![capture_word] = Sample] ELSE ram
      /\ regs' = [regs EXCEPT !.voice_on = {}, !.voice_off = {}]
      /\ heard' = IF "unmute" \in regs.control THEN {i \in Voices : d(i).voice.vol # 0} ELSE {}
      /\ capture' = plus(capture, 1)
      /\ ghost' = [fifo |-> [i \in Voices |-> Left(i, step[i])],
                   mixed |-> [i \in Voices |-> Len(ghost.fifo[i] \o Decoded(i))],
                   keyed |-> [i \in Voices |-> Keyed(i)],
                   stored |-> {}, disabled |-> "enable" \notin regs.control]
      /\ UNCHANGED stores

\* `reg_store` to a register of a voice; one to the repeat address also makes
\* the voice ignore the addresses in block headers.
StoreVoice == \E i \in Voices :
  /\ stores < MaxStores /\ stores' = stores + 1
  /\ \/ \E r \in Rates : voices' = [voices EXCEPT ![i].rate = r] /\ UNCHANGED ghost
     \/ \E a \in Starts : voices' = [voices EXCEPT ![i].start = a] /\ UNCHANGED ghost
     \/ \E a \in AdsrRegs : voices' = [voices EXCEPT ![i].adsr = a] /\ UNCHANGED ghost
     \/ /\ voices' = [voices EXCEPT ![i].vol = 32767]
        /\ ghost' = [ghost EXCEPT !.stored = @ \cup {i}]
     \/ \E a \in Starts :
          /\ voices' = [voices EXCEPT ![i].repeat = a, ![i].ignore_loop_addr = TRUE]
          /\ UNCHANGED ghost
  /\ irq' = [irq EXCEPT !.triggered = FALSE]
  /\ UNCHANGED <<regs, ram, capture, heard, cycles>>

\* `reg_store` to the registers of the SPU.  Its special cases are for registers
\* 210, 211 and 213, and an index is at most 128: none is ever reached.
StoreReg ==
  /\ stores < MaxStores /\ stores' = stores + 1
  /\ \/ \E f \in {"voice_on", "voice_off", "noise_on", "pitch_mod_on"}, vs \in SUBSET Voices :
          regs' = [regs EXCEPT ![f] = vs]
     \/ \E f \in {"irq_addr", "trans_addr"}, a \in Starts : regs' = [regs EXCEPT ![f] = a]
     \/ \E c \in Controls : regs' = [regs EXCEPT !.control = c]
  /\ irq' = [irq EXCEPT !.triggered = FALSE]
  /\ UNCHANGED <<voices, ram, capture, heard, cycles, ghost>>

\* `maybe_trigger_irq` for the two half words of a DMA transfer.
maybe_trigger_irq ==
  LET hit == \E n \in 0 .. 1 : irq_for_addr(plus(regs.trans_addr, n))
  IN  irq' = [irq EXCEPT !.triggered = hit, !.active = @ \/ hit]

\* `transfer_store` or `transfer_load`, twice, but for what is stored.
Transfer ==
  /\ stores < MaxStores /\ stores' = stores + 1
  /\ maybe_trigger_irq
  /\ regs' = [regs EXCEPT !.trans_addr = plus(@, 2)]

DmaStore == \E lo, hi \in Words :
  /\ Transfer
  /\ ram' = [ram EXCEPT ![regs.trans_addr] = lo, ![plus(regs.trans_addr, 1)] = hi]
  /\ UNCHANGED <<voices, capture, heard, cycles, ghost>>

DmaLoad ==
  /\ Transfer
  /\ UNCHANGED <<voices, ram, capture, heard, cycles, ghost>>

Next == RunCycle \/ StoreVoice \/ StoreReg \/ DmaStore \/ DmaLoad

Spec == Init /\ [][Next]_vars

-----------------------------------------------------------------------------
\* The decoder and the player agree about the FIFO of four bit indices: it holds
\* exactly the samples decoded since the voice was last switched on and not yet
\* played, four of them whenever a sample is mixed, and never so many that the
\* length wraps, at any sample rate and with pitch modulation.
FifoExact ==
  \A i \in Voices :
    /\ len(voices[i].fifo) = Len(ghost.fifo[i])
    /\ \A n \in 1 .. Len(ghost.fifo[i]) : at(voices[i].fifo, n - 1) = ghost.fifo[i][n]
    /\ ghost.mixed[i] \in 4 .. FifoSize - 1

\* The envelope follows the key: a voice is in attack, decay or sustain exactly
\* if it was switched on, and not off, since, its last block did not end the
\* note, and the SPU stayed enabled.  On wins over off in the same cycle.
PlayingIffKeyed ==
  \A i \in Voices : ghost.keyed[i] <=> voices[i].phase \in {"Attack", "Decay", "Sustain"}

\* The first sample after a cycle with the SPU disabled has no voice in it,
\* unless the guest stored to the voice's volume in between.
DisabledIsSilent == [][cycles' > cycles /\ ghost.disabled => heard' \subseteq ghost.stored]_vars
=============================================================================
