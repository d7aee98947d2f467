# Verification of spillestation

`spillestation` is a PlayStation emulator in Rust. Its core, `splst_core`, is a
discrete-event simulation: one host thread owns the CPU and every device, a
priority queue of timed events (`schedule.rs`) decides what happens next, and the
guest's program, which may store anything to any register at any instruction,
drives the rest. There are no threads in the core, yet the hard part is
concurrency all the same: CPU, timers, DMA, GPU, CD-ROM, SPU and the controller
port are actors whose steps interleave in the order of the queue, they hold on to
identifiers of events and to values that other actors change meanwhile, and every
one of them must be left in a state from which something will start it again.
Around the event loop are sequential parts with many cases: the pipeline of the CPU
with its load delay and instruction cache, the drawing of shapes, the envelopes of the
sound processor, the layout of a disc.

This directory models these parts in TLA+, checks them with TLC on small
instances and proves their safety properties with TLAPS, for instances of any size:
all but one, what the assembler's output does. Liveness stays with TLC. The
repository has no document of its requirements; what the properties state comes from
the source's comments, its assertions and the meaning of the registers, and each
property's comment says which.

Paths below are relative to `crates/splst_core/src/` unless they begin with `crates/`.

## 1. Inventory

| component | source | state | operations | interacts with |
|---|---|---|---|---|
| Event scheduler | `schedule.rs`, `time.rs` | clock `now`, heap of entries, cached `next_event`, next id | schedule, schedule_repeat, trigger, trigger_repeat, trigger_early, repeat_every, unschedule, get_pending_event, advance, skip_to | called by everybody; entries hold callbacks into the devices |
| CPU loop, interrupts | `cpu/mod.rs`, `cpu/irq.rs`, `cpu/cop0.rs` | pc, next_pc, delay-slot flags, COP0 registers, I_STAT, I_MASK | run, step, dispatch of an event, one instruction, exceptions, rfe | scheduler; every device raises `Event::Irq` |
| Instructions, load delay | `cpu/mod.rs`, `cpu/opcode.rs` | registers, one delayed load | about 70 `op_*` | bus, GTE |
| Instruction cache | `cpu/mod.rs` | 256 lines with tag and first valid word | fetch, refill, isolated stores | cache control register of the bus |
| Timers | `timer.rs` | counter, target, mode, last update, id of the update event | load, store, run_timer, enter/leave of the blanks | scheduler, GPU raster (blanks), interrupts |
| DMA | `bus/dma.rs` | seven channels, one pending transfer each, interrupt register | load, store, run of a channel | RAM, GPU, CD-ROM, SPU, ordering table |
| GPU port | `gpu/mod.rs`, `gpu/fifo.rs`, `gpu/gp0.rs` | state, command FIFO, image transfer | GP0 and GP1 stores, GPUREAD, status, end of a drawing | CPU, DMA, scheduler |
| GPU raster timing | `gpu/mod.rs`, `gpu/gp1.rs` | scanline, field, blank, mode, area | end of a scanline, GP1 reset, mode, area | scheduler, timers, interrupts, video output |
| Rasterizer, VRAM | `gpu/rasterize.rs`, `primitive.rs`, `texture.rs`, `vram.rs` | 1 MiB of pixels | triangles, lines, rectangles, copies | GPU port |
| I/O port | `io_port/mod.rs` | control, status, two one-byte buffers, transfer state, active device | register accesses, transfer, ack_input | pads, cards, scheduler, interrupts |
| Game pads | `io_port/pad.rs` | place in the transfer, buttons | transfer, reset, set_button | I/O port, front end |
| Memory cards | `io_port/memcard.rs` | place in the transfer, sector buffer, flash, flags, file | transfer, reset, load, save | I/O port, front end, host file |
| CD-ROM | `cdrom/mod.rs` | command, response and argument FIFOs, interrupt flags and mask, drive state, position, pending seek | register accesses, run, sector_done, async_* | scheduler, disc, interrupts, DMA, SPU |
| Byte FIFO | `fifo.rs` | head, tail, 16 bytes | push, pop, try_pop, clear | CD-ROM, SPU |
| SPU | `spu/mod.rs` | 24 voices, transfer, volumes, reverb | run, register accesses, DMA | CD-ROM audio, audio output |
| GTE | `cpu/gte.rs` | vectors, matrices, flags | about 20 commands | CPU |
| Bus, RAM, BIOS | `bus/*.rs` | memory, cache and memory control | load, store, run_dma | every device |
| Facade | `lib.rs`, `debug.rs` | – | run, run_debug, step_debug, load_exe | front end |
| Assembler | `crates/splst_asm` | – | lex, parse, generate | BIOS patch for executables, tests |
| Disc images | `crates/splst_cdimg` | index of tracks | open a cue sheet, look up and read a sector | CD-ROM |
| Utilities | `crates/splst_util` | – | bits, BCD, MSF, executables | all |
| Front end, renderer | `crates/splst_front`, `crates/splst_render` | windows, settings | menus; between two runs of the core it changes pads, cards and the disc | facade |

What is hard here, and what the properties are aimed at (the list, each at its
line, is `hazards` in `PROJECT.json`):

* cached or remembered values that go stale: the scheduler's `next_event`, the
  event ids in timers and I/O port, the GPU FIFO's `cmd_words_left`, the scanline
  counter against a count that registers change, `sector_done` events of a read
  that is over, locals of `run_chan` that describe a transfer spanning several calls;
* ends that have to start something: the end of a drawing, of a byte, of a DMA
  window, of an interrupt handler;
* order: an interrupt between a branch and its delay slot, nested exceptions, a
  command before the last one's interrupt is acknowledged, a host that changes
  devices between two steps of the guest; a load that reaches its register an
  instruction late, a store into the cache line being executed, a palette changed
  behind its cache, a voice keyed on and off between two cycles;
* boundaries: a full FIFO whose indices look empty, zero ticks left, the last word
  of a table, an image of odd size, the shared edge of two triangles, the carry of a
  BCD counter, the first and last sector of a track.

## 2. Plan

1. **Scheduler** (done): `EventQueue` operators, `AbstractSchedule` (what a caller
   may rely on), `Schedule` shown to implement it, proofs.
2. **CPU loop and interrupts** (done): `Cpu`, over what `AbstractSchedule` promises; proofs.
3. **Devices driven by events** (done): `Timer`, `Dma`, `GpuPort`, `IoPort`
   (which composes `PadProtocol` and `CardProtocol`), `MemCard`, `CdRom`.
4. **The pipeline** (done): `Pipeline` composes `Instructions` (over `Words` and `Bus`),
   `ICache` and `Assembler`.
5. **Picture, sound and disc** (done): `Gpu` composes `Raster` with `Rasterize`;
   `Spu` uses `Fifo`; `Disc` composes `CueSheet`, `DiscIndex` and `Msf`.
6. **Compositions** (open): the GPU port with its DMA channel (who restarts a transfer
   the GPU held up); the CD-ROM's data buffer with the disc and the DMA channel.
7. **Theorems** (done for the scheduler, the CPU loop, timers, DMA, GPU port, I/O port,
   memory card, CD-ROM, SPU, pipeline, drawing and discs; see section 6). What is left is
   what assembled code computes.

## 3. Modules and how they correspond to the code

Common conventions. One action stands for one handler, with every call it makes. A
component that the code passes around as `&mut self` is a record; the operators that
keep the source's names take the record and return the changed one, and the action
assigns the result. An `Option` is a set of at most one element (module `Option`: `None`, `Some`, `The`).
Where the code schedules a callback, the event is part of the state and a later action
takes it. Unless a module's comments say otherwise, arithmetic is that of a release
build. A definition named `Fault_x` is a faulty variant of the definition `x` after it:
the specifications never use one; it records what kind of mistake the properties are
known to notice (`mutants` in `PROJECT.json`).

| module | models | state | actions |
|---|---|---|---|
| `EventQueue` | the operations of `Schedule` as operators on the record `[now, next_event, next_event_id, events]` | – | – |
| `AbstractSchedule` | what a caller of the scheduler may rely on: a set of deadlines and a clock | `now`, `queue`, `next_id`, `out` | add, remove, move, deliver, find nothing due, pass time |
| `Schedule` | `schedule.rs` | the record, the last answer of `get_pending_event`, the occurrences delivered | one per public function |
| `Cpu` | `Cpu::run`, `Cpu::step` and the instructions that touch control, COP0 or the interrupt registers | counters and delay-slot flags, COP0, I_STAT/I_MASK, the queue, the timeout | call of `run` and `step`, the four kinds of event, one instruction |
| `Timer` | one of the timers | registers, time since the last update, update and master-flag events | the two callbacks, horizontal blank, load, store, an unrelated instruction |
| `Dma` | the controller, a word per step | channels, interrupt register, RAM, events, the locals of `run_chan` | accesses, the turns of the loop, the event, the GPU going busy and ready |
| `GpuPort` | GP0, GP1(1), GPUREAD, the command FIFO | state, image words left, FIFO, `cmd_words_left` | command, argument and image word, read back, reset, end of a drawing |
| `Raster` | the scanline event and the GP1 commands that change its surroundings, as actions for `Gpu` | scanline, count, interval, mode, field, area, blank | – |
| `Rasterize` | `vram.rs`, `texture.rs`, `rasterize.rs`: addresses, texels, the palette cache, which pixels a shape has and in which order | – | – |
| `Gpu` | the effects of the GP0 and GP1 commands | the raster's, video memory, palette cache, drawing registers, image transfer | a drawing command, a register, a word of an image each way, GP1(0), the display |
| `PadProtocol`, `CardProtocol` | what a pad or card does with one byte | – | – |
| `IoPort` | the port with pads and cards plugged in | registers, buffers, transfer state, its event, the devices | TX and control stores, RX and status loads, the events, plugging, buttons |
| `MemCard` | one card over many sequences, with its file | card, file | a byte, deselection, load from the file |
| `CdRom` | command register, drive, asynchronous responses | registers, drive state, position, events | send, acknowledge, mask, response, `run`, `sector_done`, second responses, change of disc |
| `Words`, `Bus` | sign extension and bit fields on words of a given width; regions, mirrors and memory accesses | – | – |
| `Instructions` | each `op_*` of `cpu/mod.rs`, with load delay, branch and exception | – | – |
| `ICache` | lookup, refill and isolated stores | – | – |
| `Assembler` | `gen.rs`, `ins.rs` and `Bios::patch_for_exe` | – | – |
| `Pipeline` | `Cpu::execute_instruction` running guest code | registers, load delay, COP0, memory, cache lines, counters | an instruction, an interrupt |
| `Fifo` | `fifo.rs` | – | – |
| `Spu` | the 44.1 kHz cycle and the registers of the SPU | voices, registers, RAM, interrupt, capture address | a cycle, a store to a voice, to a register, DMA both ways |
| `Msf`, `DiscIndex`, `CueSheet` | `bcd.rs` and `msf.rs`; `index.rs` (sorting, the library's binary search, the table of contents); `cue.rs` (a line, and one index or the end of a file in the layout) | – | – |
| `Disc` | a sheet that is parsed, laid out, mounted and read | lines, sheet, layout so far, lookup, table of contents, position, what the last read gave | a line (`Parse`), the files opened (`Open`), a turn of `parse_cue`'s loops (`LayOut`), `Mount`, `Seek`, `Read` |

How they compose. `Schedule` uses `EventQueue` and is shown to implement
`AbstractSchedule`. `Cpu` sees its queue only as `AbstractSchedule` allows: triggered
events before timed ones, equal deadlines in any order. Each device module lets its
event fire at any time after it was scheduled (`Timer`, whose subject is time, keeps
the delays), which covers every order `Schedule` can produce. `IoPort` composes the
port with `PadProtocol` and `CardProtocol`, which `MemCard` uses too. `Pipeline` is
the other half of `Cpu`: `Cpu` has the loop, the events and the interrupt state over a
fixed repertoire of instructions, `Pipeline` has every instruction over memory and
cache, with an interrupt possible between any two. `Gpu` takes complete commands where
`GpuPort` shows that they arrive complete and in order. `Disc` reads as
`CdRom::sector_done` does, which in `CdRom` is the action `SectorDone`.

History variables. Some properties relate a state to what happened before: the
occurrences delivered (`Schedule`), the undisturbed user program (`Cpu`), the words a
transfer was set up for (`Dma.plan`), the commands sent (`gpu.sent`), the bytes stored
(`IoPort.guest`), the data sent (`MemCard.sender`), the writes of the last instructions
and the words in doubt (`Pipeline.log`, `doubt`), the state before a command and what it
drew (`Gpu.log`), the samples decoded and the voices keyed (`Spu.ghost`), the target of a
seek (`Disc.target`), the sector a read asks for and the first one it gets (`CdRom.guest`).
No guard of the code depends on them.

## 4. Runs

| run | instance | what it shows |
|---|---|---|
| `schedule` | 3 entries, times 0–2 | the cache `next_event` is always the earliest deadline, no deadline is delivered twice; the whole implements the deadlines of `AbstractSchedule`, whose identifiers are never reused and which deliver nothing early |
| `cpu` | 11 instructions, 2 sources | no interrupt is missed, a program is resumed precisely (delay slots included) with its enable bit, the timeout belongs to `run`, and `run` returns unless a device event is due for ever |
| `timer` | timers 1 and 2, counter of 2 bits | the lazily updated timer is never late, the master flag returns, a target interrupt comes however often the timer is polled |
| `dma` | GPU and table channel, 4 words | every word is moved once, a finished table is a list, the master flag is current, each run of the controller ends |
| `gpu_port` | FIFO of 5 words, 6 commands | commands are executed complete, in order and as they were sent, and the port becomes ready |
| `gpu` | 8×4 halfwords of 4 bits, frames of 4–6 lines | polygons are whole and drawn once, lines are straight, textures appear as stored, images in place; the vertical blank keeps coming at the rate of the mode |
| `io_port` | 2 pads, 1 card | one event per transfer, bytes in order, one device talks, a byte is sent, until a card panics at an address past its flash |
| `memcard` | 2 sectors of 3 bytes, 3 writes | the flash holds whole sectors whatever sequences are broken off, changes are told |
| `cdrom` | 3 positions, 2 drivers | the drive goes on, no interrupt is missed, commands are executed, reads deliver, first the sector behind the one asked for |
| `pipeline` | words of 12 bits, 6 registers, a cache of 2 lines of 2 words | loads are delayed by one instruction and never lost, unaligned pairs give the word, a fault leaves no trace, the cache is current where the guest kept its rules, assembled sources do what they say |
| `spu` | one voice, 32 words of RAM, 12 cycles | no sample is lost or repeated, a voice plays exactly while it is keyed, a disabled SPU is silent |
| `disc` | about 6800 sheets, 19 seeks, 3 reads | sectors are read from their place, tracks and indices are those of the sheet, so is the table of contents |

Bounds and why they are enough. For the properties section 6 proves they matter only
to show that the cases happen; the others rest on them.

* `schedule`: three entries make an entry before, at and after any other, with one of
  them cancelled, repeated or triggered early; three instants give equal, adjacent and
  distant deadlines.
* `cpu`: the program has a branch with a delay slot that raises an interrupt, a
  system call, both interrupt register stores, both MTC0 and a handler that returns
  with RFE in a delay slot; `run` may time out at every instruction.
* `timer`: a counter of four values has a target below, at and above every start, and an
  overflow; the divisor 2 loses a remainder; the master-flag delay 2 is longer than
  the shortest update, so its events overlap.
* `dma`: blocks longer than the chop window, equal to it and shorter; tables of one and
  of three of RAM's four words, begun at its first word, where they wrap, and at its last;
  addresses beyond RAM, which are mirrored.
* `gpu_port`: the FIFO holds a longest command and a part of the next one behind it, also
  behind an image that is being read back; images have even and odd numbers of halfwords.
  One guest polls the status register, the other queues as many words as fit.
* `gpu`: every convex quad, and every triangle that has an area or a corner at the
  origin, on a grid of 4×3 points with odd and even distances and more than one group
  of four pixels per row; clipped on either side. Textures have each depth and flip and
  are cut on the left and top; palettes change between two draws. Images have each
  width and height from 0 to 3×2. The wrap of the line counter (16 for 65536) lies well
  past the longest frame. The beam and a drawing guest share no state, so each behaviour
  has one of the four guests.
* `pipeline`: three instructions or interrupts in a row reach every meeting of a load
  with a later one; each instruction of the dispatch table is in the repertoire. A byte
  has three bits, so that a word of four bytes still has four different lanes and room
  for sign and carry. The code guest has ten steps, enough to fill, change, flush and
  fetch a line again. The sources have every size of pseudo instruction before and after
  a label, data of every kind behind the code and inside it, and bases that branches see
  and do not see.
* `spu`: twelve cycles are more than a block, a key-on with its delay of four cycles
  and an envelope from attack to sustain at the fastest rates; three stores can key a
  voice on, off and change the control register.
* `disc`: sheets of two files and of one, with and without pregap, each sector size and
  starts around the carry at 75 frames; all sheets of up to three lines for the
  parser's errors.
* `io_port`: the bytes that select each device and one that selects none, every
  combination of control bits that the code tells apart, and devices that come and go.
* `memcard`: three bytes are a first, a middle and a last one; address bytes lie
  within the flash, at its end and beyond it.
* `cdrom`: three positions, the last standing for all behind it, so that the head, the
  target and the sector delivered differ; two events of each kind at a time, so that
  events of an older command meet those of a newer one. One driver waits for the second
  response of each command, the other sends the next as soon as the last is taken.

## 5. Fairness

Liveness needs assumptions, and each is one that the loop of `Cpu::run` justifies: it
takes every due event before it executes an instruction, and instructions advance the
clock. So, unless an event is due again at once for ever (a timer can be, section 8;
`RunReturns` says so), a scheduled event is delivered in the end (`IoPort`, `CdRom`, `GpuPort`,
`Gpu`), the loop of a call goes on (`Cpu`, `Timer`), and `run_chan` is not
interrupted (`Dma`). Where a property needs the guest's cooperation the assumption says
so: a guest that finishes a command it began (`GpuPort`), that acknowledges interrupts
(`CdRom`). `CdRom` has one strong fairness: `run` comes thousands of times between two
sectors, so that it finds an instant at which the interrupt has been acknowledged.
In `IoPort` and `CdRom` the formulas spell ENABLED out, with the weak or strong
fairness formula they stand for in a comment. `Schedule`, `MemCard`, `Pipeline`, `Spu`
and `Disc` have safety properties only and need none.

## 6. Proofs

Eight modules prove safety properties of the runs for every value of the constants:
every program, register value, size and bound. Each is about the component it is named
after, and four also about another, which they extend as well: `DmaProofs` about
`GpuPort`, to which its channel sends blocks, `IoPortProofs` about `MemCard`,
`CdRomProofs` about `Disc`, and `TimerProofs` about `Gpu`. The specifications of these
four are therefore called `PortSpec`, `CardSpec`, `DiscSpec` and `GpuSpec`.

| module | theorems (of the property) | inductive invariant |
|---|---|---|
| `ScheduleProofs` | `CacheIsExact` (`NextEventExact`), `DeliveredOnceAndOnTime` (`NoRepeatedDelivery`), `Implements` (`ImplementsDeadlines`), `PopNeverPanics`, `IdsStayRetired`, `TypeCorrect` | `TypeOK /\ NextEventExact /\ UniqueIds /\ NoRepeatedDelivery /\ NeverEarly` |
| `CpuProofs` | `InterruptsNotMissed` (`NoMissedInterrupt`), `TimeoutIsOwned` (`TimeoutOwnedByRun`), `InterruptsAreInvisible` (`PreciseResume`), `TypeCorrect` | `TypeOK /\ NoMissedInterrupt /\ TimeoutOwnedByRun`, and `Resumable` |
| `PipelineProofs` | `LoadsComeLate` (`LoadDelay`), `FaultsAreClean` (`FaultKeepsState`), `CacheIsCurrent` (`FetchIsCurrent`), `UnalignedAccesses` (`UnalignedWord`) | `Delay`; `Cached`; `Merged` |
| `TimerProofs` | `UpdatesComeInTime` (`UpdateInTime`), `MasterFlagComesBack` (`MasterFlagReturns`) | `Good`: types, `Returns`, `InTime` |
| – of `Gpu` | `ImagesInPlace` (`ImageInPlace`), `RectanglesAreTextured` (`TexturedAsStored`), `ShapesAreWhole` (`DrawnIsTheShape`) | `Images`; `Textured` |
| `DmaProofs` | `MasterFlagFollows` (`MasterFlagCurrent`), `EveryWordOnce` (`WordsAccounted`), `TablesAreChains` (`TableIsChain`) | `Inv` with `Accounted` per channel, and `Tables` |
| – of `GpuPort` | `CommandsAsSent` (`ExecutedAsSent`) | `PortIsGood`: types, `Storing`, `Sent`, `Fits` |
| `CdRomProofs` | `DriveIsNotStuck` (`DriveGoesOn`), `IrqIsNotMissed` (`NoMissedIrq`) | `TypeOK /\ DriveGoesOn` |
| – of `Disc` | `DiscIsRead` (`ReadsTheDisc`), `SectorsAreFound` (`SectorIsInIndex`), `TocIsRight` (`TocIsTheSheet`) | `DiscInv`: types, `LaidPlain`, `MountOK`, `DriveOK` and the first two properties |
| `IoPortProofs` | `NoEventLeftBehind` (`OneEvent`), `BytesGoOutInOrder` (`BytesInOrder`), `DevicesTakeTurns` (`OneDeviceTalks`) | `Good`: `Core`, and whose `Turn` it is |
| – of `MemCard` | `FlashStaysWhole` (`FlashIsWhole`) | types, `Progress`, `Whole` |
| `SpuProofs` | `FifoIsExact` (`FifoExact`), `EnvelopeFollowsKey` (`PlayingIffKeyed`), `DisabledMeansSilent` (`DisabledIsSilent`) | `VoiceInv` per voice, types, `Silent` |

Why the invariants are as strong as they are:

* `Schedule`: that an operation keeps the cache exact without looking at the heap rests
  on the cache being exact before it; that a repeated entry is not delivered twice rests
  on ids being unique. The refinement of `AbstractSchedule` is proved step by step from
  the same invariant.
* `Cpu`: `NoMissedInterrupt` is inductive given the types, since an action either leaves
  the registers that decide about an interrupt alone or triggers a check. `PreciseResume`
  speaks only of the moments the counters are in user code; `Resumable` also says where
  the handler will return to, from EPC and the cause, and that the flag stack holds the
  enable bit meanwhile.
* `Timer`: `InTime` names the update that comes in time, the one `next_update` stands
  for; updates left over from earlier are not needed. A prediction depends on counter,
  target and mode alone (`SamePrediction`), which time does not change, and both time
  since the update and the event's delay advance together.
* `Dma`: `Accounted` relates words moved, words in the pending transfer and words in the
  registers, in each stage of a transfer. `Tables` adds what the part of a table built so
  far looks like; that its last entry is the terminator and the others point to the
  entry before them needs addresses that differ modulo the size of RAM.
* `GpuPort`: that the words at the head of the FIFO are a full command needs where every
  command in it begins (`Framed`), how many arguments of the last one are still to come,
  and that they fit.
* `CdRom`: an action of the drive either leaves the event that goes on with the drive
  in the queue or puts one there; the counts of events of each kind suffice, since events
  of older commands only come on top.
* `Disc`: four layers. Positions: a sector below minute 154 and its minutes, seconds and
  frames in BCD are each other's inverse, and `next_sector` is the sector after. Search:
  whatever a vector is ordered by, the binary search ends with everything smaller before
  where it stands and nothing smaller behind; of the pregap and the first index, which
  are both at sector 150, it stops at the second one (`Later`). A vector can be sorted,
  and sorting one that is in order changes nothing.
  Layout: `LaidPlain` says, after any number of indices of a plain sheet, that each has
  been placed at its sector and at its offset, and where the next one begins; `offset`
  and `abs`, which the loop accumulates, are the start of the last index in its file and
  on the disc. It needs that a plain file has at most two indices, the first at its
  beginning: with a third, the sum of starts is wrong (section 8). Then `MountOK` (the
  lookup is what was laid out, sorted, and the table of contents follows from it) and
  `DriveOK` (the position is `reads` sectors after the target as long as no read has
  panicked) give the three properties.
* `IoPort`: which bytes are on their way depends on the state of the transfer and the
  buffer; that one device talks needs the places of all devices in their sequences.
* `MemCard`: `Progress` says, for each step of a write sequence, how much of the sector
  buffer and of the address holds what the guest sent.
* `Spu`: the FIFO's indices wrap, and its content is the ghost sequence only as long as
  it never holds 16 entries; that it does not follows from when blocks are decoded.
* `Pipeline`, loads: `Delay` says that the registers with the load still in the slot are
  what the history says. Each instruction is shown to be one of a few outcomes (it wrote a
  register, loads one, was refused, or trapped), the same whatever the slot and the
  exception code of before held (`ExecOutcome`); that the value written does not depend on
  the pending load either is what makes the history meaningful.
* `Pipeline`, cache: `Cached` is that every word which is not in doubt and on which the
  cache hits is the one in memory, and types. That a fill is from the right words needs
  that an address is its tag, its line and its word whatever its region (`SamePlace`); that
  a store disturbs the word it is in and no other (`OtherWords`) follows from alignment.
* `Pipeline`, unaligned words: `Merged` says that of the part the last instruction has
  moved, register and memory agree on every byte, and of the part the one before it has
  moved too if the two are a pair; and types, with every byte of memory below `Byte`. An
  instruction of a pair takes from the word it merges into only the lanes of the other
  part (`LoadMoves`, `StoreMoves`, from what shifts and masks do to a lane: `LaneRight`,
  `LaneLeft`, `LaneJoin`), an interrupt or a refusal moves a pending load at most into
  its register (`StillRegs`), and the two parts make up the word (`FarEnd`, `SameWord`).
* `Gpu`, images: `Images` says, for the halfwords moved so far, the column and row where
  the next one goes, that each is at its place, and that the places differ.
* `Gpu`, textures: `Textured` says that each entry of the palette cache is the halfword
  in video memory that it was fetched from, unless that was written since the cache was
  cleared; drawing writes nowhere else than it says (`ExecDrawn`). Within a rectangle the
  pixels are drawn one after the other, each into what the others left: what is read for
  a pixel is what was there before the first as long as no pixel is part of the texture
  (`Painted`), and no pixel is drawn twice (`RectPixels`, `OffsetUnique`). The texture
  coordinate that the code steps to from the clipped corner, wrapping twice, is the one
  counted from the corner itself, wrapping once (`CoordIs`).
* `Gpu`, shapes: what a command draws depends on it and the registers alone, so that the
  theorem needs no more than the types in `Textured`; the work is in the geometry. The
  coordinate that `draw_triangle` advances is the edge function with the bias
  (`Barycentric`). The bias orders the points of an edge, so that of the two triangles
  beside it one has a pixel on it (`EitherSide`), and a triangle without area has none
  (`InsideTurnsLeft`). A pixel of a triangle is a mean of its corners (`Weights`): it is
  in the bounding box (`InsideBounds`), and what the corners are to the left of, it is
  too (`LeftOfCorners`); hence neither half of a convex quad has a pixel beyond a side of
  the other (`Halves`). In a line, the decision variable is twice the distance between the
  pen and the line, and stays within its bounds (`OnLine`, `DecisionBounds`).

Assumptions. `ScheduleAssumption` and its like are in the modules that declare the
constants; `MirrorAssumption` is that the address space holds RAM a whole number of
times, as the bus mirrors it. Five theorems are about a guest that keeps a rule, and
have it as a hypothesis:

* `EveryWordOnce` assumes `ManualAtOnce`: manual transfers are neither chopped nor sent
  to the GPU, as the code begins an interrupted one again (section 8);
* `TablesAreChains` assumes also `TablesOnly`: tables fit in RAM, step backwards, and no
  device writes to RAM, since nothing protects a table from that;
* `DevicesTakeTurns` assumes `Deselects`: a slot is deselected before the other is
  selected, as the code resets the devices only then;
* `InterruptsAreInvisible` assumes `GuestDiscipline`: a handler that ends in a return
  with RFE in its delay slot, and delay slots without a branch or a system call;
* `CommandsAsSent` assumes `Resets # "any"`: no GP1 reset in the middle of a command,
  after which the FIFO still expects the rest of it (section 8).

The runs satisfy each one, so none is empty. `PipelineAssumption` and `BusAssumption`
are types: registers hold words, memory holds bytes, RAM and scratchpad are whole words
inside a region. `CodeAssumption` adds that a region holds a whole number of caches and,
for `CacheIsCurrent`, code without SWL and SWR, whose stores of a part of a word the
doubts do not follow. `GpuAssumption` are types of the commands, and that the corners of
the draw area are within video memory, which their ten and nine bits cannot leave; with
it no two pixels of a rectangle are the same halfword. `PowersAssumption` of `Words` and
`TexelPowers` of `Rasterize` are no choice of a constant but arithmetic: what the powers
of a byte that make up a word are, that a word's bits sum to less than `Word`, and that
powers of a positive number are positive. They follow from the recursive definitions of
`^` and of sums by induction, which is out of the provers' reach; TLC evaluates them for
the instance.

What the ticks of an update, the cycles of an instruction or the probes of a search do is
a recursive function of their number (`Timer.run`, `Timer.Later`,
`DiscIndex.binary_search`). The induction theorems of the library
take an operator, which the provers cannot instantiate; `TimerProofs` and
`CdRomProofs` derive from the well-founded inclusion of finite sets that a nonempty set
of naturals has a least element, and from it an induction principle for sets
(`SetInduction`) and the existence of iterated functions (`Iterated`, `Recursed`), which
serve the same purpose.

`DiscAssumption` is types, of what `parse` can make of the text of a sheet: numbers and
positions are BCD numbers, file lengths natural numbers. What a *plain* disc is belongs
to the properties (`Plain`): one file or more; at most 99 tracks, numbered from 1, each
with an index 1 and at most an index 0 before it; in each file one sector size and one
or two indices, the first at its beginning, none without sectors; and no more sectors
than a position can name. The attempt to prove them without the limits found where they are
needed: the table of contents stops at track 99 (`index.rs:110`) and `next_sector` at
minute 99, of two indices at the same sector the search may give either, and a number
that is no BCD number has another place in the order of the tracks than its value.

Only model-checked:

* liveness, which is out of the prover's reach: `RunReturns`, `TargetInterrupts`,
  `RunEnds`, `CommandIsExecuted`, `ReadDelivers`, `ByteIsSent`, `PortFreesUp`,
  `VBlankKeepsComing`;
* `AssembledAsWritten`: what the emitted words do when they run: labels, jumps, branches
  and pseudo instructions. It excludes labels behind a half, a byte or a string and
  branches under a base they do not count with, both of which the code gets wrong (section
  8); the run has sources of either kind. The sizes of the pseudo instructions, the labels and the branch
  offsets are sums over the source, and what a branch reaches depends on the code of every
  item between; the proof would be one over programs, for all items at once.

## 7. Not modelled

The components without a module are in section 1 and, with the reason, in
`PROJECT.json`: the GTE (44-bit arithmetic), the CD-XA resampler (a filter), the
renderer and the front end (windows; what it does to the core is part of `IoPort`,
`MemCard` and `CdRom`). Within the modelled ones the following is left out:

* colours: interpolation in `f32`, blending, dithering, the mask bits, the texture
  window, and how long a command takes to draw;
* the CD-ROM's data buffer, its DMA and audio; the interpolation and mixing of the SPU;
* the dot clock of timer 0 (it differs from timer 2's divided clock by a factor);
* the cycles an instruction takes, and what the GTE computes;
* text: the lexer and parser of the assembler, the tokens of a cue sheet; the sector
  headers;
* the debugger's read-only `peek` functions and all formatting.

## 8. Disagreements met while modelling

Behaviour that differs from a comment or an evident intention. Where the models have
it, the properties are stated so as to hold beside it; the items about colours, sector
headers, noise and the like were met in code that is left out.

Events and ports:

* `timer.rs:416`: with the counter at `u16::MAX` the next interrupt is predicted in zero
  ticks, and `run_timer` reschedules itself (line 168) without an advance of the clock. It
  is due again at once for ever, and `Cpu::run` (`cpu/mod.rs:580`) neither executes an
  instruction nor comes to its timeout. In `Cpu` a device's callback may be due again at
  once, and `RunReturns` has this as its exception.
* `bus/dma.rs:120`: `manual_done` is a local of `run_chan`; a chopped manual transfer is
  found incomplete by the next call, which begins it again (line 103).
* `gpu/fifo.rs:51`: `clear` leaves `cmd_words_left`; the command after a reset within a
  command is executed before its arguments are there (`gpu/mod.rs:427`).
* `timer.rs:362`: without `reset_on_target` every update past the target interrupts
  again, a register load too; line 173 says "each time it hits the target".
* `timer.rs:421`: when no interrupt is to be expected the queued update is forgotten,
  not unscheduled, and later runs beside the next one.
* `timer.rs:528`: each access of a timer on the divided clock loses the remainder of the
  division, so that polling it faster than every eighth cycle stops it.
* `bus/dma.rs:122`: a chopped transfer whose block ends just when its window does is
  left without an event to go on.
* `bus/dma.rs:124`: a manual transfer whose last word leaves the GPU busy is sent again.
* `bus/dma.rs:531`: the ordering table's fixed control bits are overwritten by the store
  that masked them; with an incrementing step the table is not a list.
* `bus/dma.rs:672`: `force_irq` triggers on the edge of the master flag only; line 630
  says "will always be triggered".
* `gpu/mod.rs:528`: at the end of a drawing one command is executed; if it takes no time
  a second one stays in the FIFO of an idle GPU.
* `gpu/fifo.rs:74`: a full FIFO takes an argument that looks like an immediate command
  for one.
* `gpu/mod.rs:274`: a word stored while an image is read back is dropped, also one that is
  the argument of a command queued before the read began.
* `gpu/mod.rs:310`: a mode with fewer lines, set late in a frame, lets the scanline
  counter pass its end. `gpu/gp1.rs:99`: a new display area does not update `in_vblank`.
  `gpu/gp1.rs:115`: leaving interlace keeps the bottom field.
* `io_port/mod.rs:331`: a byte stored during a transfer stays in the buffer if the
  transfer is not acknowledged. `io_port/mod.rs:228`: the result of `set_bit` is dropped.
  `io_port/pad.rs:27`: a button is set in a clone of the pad's state.
* `io_port/memcard.rs:172`: a read counts its offset down from zero. Line 217:
  `has_written` is set before anything is written. Line 109: `save` opens its file for
  reading only.
* `cdrom/mod.rs:279`: the drive moves on before it loads a sector, so that a read
  delivers the one behind the target first; `ReadDelivers` is stated so.
* `cdrom/mod.rs:344`: a read command while reading starts a second stream of sectors.
  Lines 319 and 433: `set_loc` and `read_toc` set each other's drive state. Lines 277 and
  528: a disc taken out during a read or `get_id` is not expected.
* `fifo.rs:36`: a full FIFO has length zero. `fifo.rs:86`: `try_pop` pops only if empty.

The pipeline and the assembler:

* `cpu/mod.rs:504`: a miss copies the line, executes, and writes the copy back: an
  instruction that invalidates its own line has that undone. A failed fetch leaves the
  line tagged as valid with old words. A hit does not check the alignment of the counter.
* `lwl` and `lwr` to `$zero` trip a `debug_assert`; `mtc0` sees the load still in its slot.
* `splst_asm` `ins.rs:191`: `size` is 4 for halfwords, bytes and strings, which emit 2, 1
  and n bytes: each label behind one is off by the difference (`gen.rs:329-337`). Branch
  offsets ignore the base (`gen.rs:97`), which is right only for multiples of 256 KiB.

Drawing:

* `gpu/rasterize.rs:258`: `is_top_left` keeps the pixels of right and bottom edges, not
  of the top-left ones that its comment names. `gpu/rasterize.rs:294`: up to six columns
  right of the drawing area are drawn.
* An empty or inverted drawing area panics in `clamp`; a shaded line whose ends are
  equal divides by zero, and its first pixel is black; columns past the right edge of
  video memory are those of the next row.
* `gpu/mod.rs:764`: an image of width 0 never ends, one of height 0 ends after a word,
  one of odd size writes a halfword past its rectangle. GP1(0) does not end a transfer.
* An untextured polygon loads the palette at (0, 0). The palette cache outlives changes
  of video memory until GP0(01).
* A textured polygon sets bit 11 of the status for bit 15; a blended textured rectangle
  is blended twice; the texture window loses its offset.

Sound:

* `spu/mod.rs`: the index of a register is one late (`reg - 191`), so that the special
  cases for the control and interrupt registers are not reached and the last ones panic.
  `VoiceFlags::set` drops its result.
* The attack phase lasts one cycle; release and off step the envelope by values of an
  earlier phase; a sustain level of 15 wraps to the most negative volume.
* The fraction of the sample counter is not kept: rates below 0x1000 do not advance.
* The capture address is not masked, so that captures overwrite half of the RAM.
* `fifo.rs:36`: the comment speaks of a carry bit, which the mask of four bits cuts off.

Discs:

* `cue.rs:260`: starts relative to the file are summed up; a file with more than one
  index past its beginning is laid out wrongly, and a size is computed with the sector
  size of the track that follows.
* `index.rs:65`: the first sector of the lead-out passes the bound, and a sector before
  the first index makes `i - 1` underflow; the drive unwraps the result.
* Audio sectors end in `todo!()`. The XA header is read from bytes 8–15 for 16–23.
* `Msf::from_sector` cuts minutes to eight bits; `set_loc` takes positions that are no
  valid MSF, from which `next_sector` can go backwards.
