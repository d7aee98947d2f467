------------------------------- MODULE CdRom -------------------------------
(***************************************************************************)
(* The CD-ROM drive (cdrom/mod.rs): its command register, which `run`      *)
(* looks at in fixed intervals, the drive behind it and the events that    *)
(* complete commands and deliver sectors.  The guest sends commands and    *)
(* acknowledges interrupts; the host takes the disc out and puts it back.  *)
(*                                                                         *)
(* An event may fire at any time after it was scheduled.  A command        *)
(* carries its arguments, a position is a sector number, and of the        *)
(* response FIFO only the length is kept.  An interrupt is the set of the  *)
(* bits of its number.                                                     *)
(***************************************************************************)
EXTENDS Integers, Option

CONSTANTS FIFO,       \* the response FIFO's length counts modulo this (16)
          LAST,       \* stands for this sector and all after it
          Drivers,    \* guests: the commands one sends, and whether it sends the next
                      \* when the last is complete or already when it is taken
          Unloads,    \* the host takes out and loads the disc
          MaxEvents   \* bound: events of one kind at a time

AllOps == {"status", "set_loc", "read_n", "stop", "pause", "init", "set_mode", "seekl",
           "test", "get_id", "read_toc"}
Async == {"init", "pause", "stop", "read_toc", "seekl", "get_id"}
Callbacks == Async \cup {"sector_done"}
Interrupts == [DataReady |-> {0}, Complete |-> {1}, Ack |-> {0, 1}, Error |-> {0, 2}]
Positions == 0 .. LAST

ASSUME CdRomAssumption ==
  /\ FIFO \in Nat \ {0} /\ LAST \in Nat
  /\ Drivers \subseteq [ops : SUBSET AllOps, waits : BOOLEAN]
  /\ Unloads \in BOOLEAN /\ MaxEvents \in Nat \ {0}

VARIABLES cd,       \* the CdRom
          events,   \* its scheduled events: how many of each callback
          disc,     \* whether a disc is loaded
          guest     \* the guest's driver; history: whether the last command it sent was
                    \* read_n, the sector set_loc named just before (loc), the position
                    \* of the first sector it got from it, and whether the second
                    \* response of an earlier command has stopped the drive since

vars == <<cd, events, disc, guest>>

\* DriveState: Idle, Paused, Reading and ReadingToc, or a seek and what is to follow
\* it, Pause or Read.
Seeking(target, after) == [name |-> "Seeking", target |-> target, after |-> after]
Drive(name) == [name |-> name, target |-> 0, after |-> "none"]

\* A guest that has asked for nothing.
NoRequest == [driver |-> [ops |-> {}, waits |-> TRUE], reads |-> FALSE,
              loc |-> None, got |-> None, stopped |-> FALSE]

Init ==
  /\ cd = [state |-> Drive("Idle"), mask |-> {}, flags |-> {}, cmd |-> None, response |-> 0,
           position |-> 0, pending_seek |-> None,
           irq |-> FALSE,          \* whether this step triggered Event::Irq
           panicked |-> FALSE]
  /\ events = [c \in Callbacks |-> 0]
  /\ disc = TRUE /\ guest \in {[NoRequest EXCEPT !.driver = d] : d \in Drivers}

-----------------------------------------------------------------------------
\* One step works on the drive and its events.
Sys == [cd |-> [cd EXCEPT !.irq = FALSE], events |-> events]
Become(s) == cd' = s.cd /\ events' = s.events

in_state(s, name) == s.cd.state.name = name
set_state(s, state) == [s EXCEPT !.cd.state = state]
schedule(s, callback) == [s EXCEPT !.events[callback] = @ + 1]
push(s, n) == [s EXCEPT !.cd.response = (@ + n) % FIFO]

irq_active(c) == c.flags \cap c.mask # {}

\* It replaces one that is not acknowledged yet.
set_interrupt(s, int) ==
  [s EXCEPT !.cd.flags = Interrupts[int],
            !.cd.irq = @ \/ Interrupts[int] \cap s.cd.mask # {}]

finish_cmd(s, int) == set_interrupt(push(s, 1), int)

start_seek(s, after) ==
  LET target == IF s.cd.pending_seek = None THEN 0 ELSE The(s.cd.pending_seek)
  IN  schedule([s EXCEPT !.cd.pending_seek = None, !.cd.state = Seeking(target, after)],
               "sector_done")

\* Fault: the first sector is not scheduled.
Fault_start_read(s) == set_state(s, Drive("Reading"))

start_read(s) == schedule(set_state(s, Drive("Reading")), "sector_done")

\* Fault: a seek that is to be followed by a read leaves the head where it is.
Fault_seek_done(s) ==
  IF s.cd.state.after = "Read" THEN start_read(s)
  ELSE set_state([s EXCEPT !.cd.position = s.cd.state.target], Drive("Paused"))

seek_done(s) ==
  LET there == [s EXCEPT !.cd.position = s.cd.state.target]
  IN  IF s.cd.state.after = "Read" THEN start_read(there) ELSE set_state(there, Drive("Paused"))

next_position(position) == IF position = LAST THEN LAST ELSE position + 1

\* While reading, the next sector is loaded and the one after it scheduled.
\* There must be a disc, and the sector must be on it: `past_end` if not.
sector_done(s, past_end) ==
  CASE in_state(s, "Seeking") -> seek_done(s)
    [] in_state(s, "Reading") ->
         IF ~disc \/ past_end THEN [s EXCEPT !.cd.panicked = TRUE]
         ELSE finish_cmd(schedule([s EXCEPT !.cd.position = next_position(@)], "sector_done"), "DataReady")
    [] OTHER -> s

\* After the acknowledgement: a read that is under way is left alone, unless
\* set_loc gave a new target.  Without one, a drive that is reading or paused
\* starts to read.
read_n(s) ==
  LET seek == s.cd.pending_seek
      st   == s.cd.state
  IN  IF in_state(s, "Seeking") /\ st.after = "Read" /\ seek \in {None, Some(st.target)} THEN s
      ELSE IF seek # None THEN start_seek(s, "Read")
      ELSE IF in_state(s, "Seeking") THEN [s EXCEPT !.cd.state.after = "Read"]
      ELSE start_read(s)

exec(s, cmd) ==
  LET acked == finish_cmd(s, "Ack")
  IN  CASE cmd.op \in {"status", "set_mode"} -> acked
        [] cmd.op = "set_loc" ->
             finish_cmd([s EXCEPT !.cd.state = Drive("ReadingToc"),
                                  !.cd.pending_seek = Some(cmd.arg)], "Ack")
        [] cmd.op = "read_n" -> read_n(acked)
        [] cmd.op = "stop"   -> schedule(acked, "stop")
        [] cmd.op = "pause"  -> schedule(set_state(acked, Drive("Paused")), "pause")
        [] cmd.op = "init"   ->
             schedule([acked EXCEPT !.cd.state = Drive("Paused"), !.cd.position = 0,
                                    !.cd.pending_seek = None], "init")
        [] cmd.op = "seekl" ->
             schedule(finish_cmd(start_seek(s, "Pause"), "Ack"), "seekl")
        [] cmd.op = "test" -> set_interrupt(push(s, 4), "Ack")
        [] cmd.op = "get_id" ->
             IF disc THEN schedule(acked, "get_id") ELSE set_interrupt(push(s, 2), "Error")
        [] cmd.op = "read_toc" ->
             schedule(finish_cmd(set_state(s, Drive("Reading")), "Ack"), "read_toc")

\* Fault: the command is not taken out of its register.
Fault_exec_cmd(s) ==
  IF s.cd.flags # {} \/ s.cd.cmd = None THEN s
  ELSE exec([s EXCEPT !.cd.response = 0], The(s.cd.cmd))

\* A command waits until the last interrupt is acknowledged.
exec_cmd(s) ==
  IF s.cd.flags # {} \/ s.cd.cmd = None THEN s
  ELSE exec([s EXCEPT !.cd.cmd = None, !.cd.response = 0], The(s.cd.cmd))

\* The second responses, and those that also stop the drive.
Stopping == {"pause", "read_toc", "stop", "get_id"}

complete(s, callback) ==
  CASE callback \in {"init", "seekl"}     -> finish_cmd(s, "Complete")
    [] callback \in {"pause", "read_toc"} -> finish_cmd(set_state(s, Drive("Paused")), "Complete")
    [] callback = "stop"                  -> finish_cmd(set_state(s, Drive("Idle")), "Complete")
    [] callback = "get_id" -> set_interrupt(push(set_state(s, Drive("Idle")), 8), "Complete")

-----------------------------------------------------------------------------
Runs == ~cd.panicked

\* The guest after it has sent a command: a read_n just after set_loc asks for
\* the sector named there, any other for what comes next.
Sent(op, arg) ==
  [NoRequest EXCEPT
     !.driver = guest.driver,
     !.reads = op = "read_n",
     !.loc = IF op = "set_loc" THEN Some(arg)
             ELSE IF op = "read_n" /\ ~guest.reads THEN guest.loc ELSE None]

\* The read the guest has asked for is under way.
ReadTaken == guest.reads /\ cd.cmd = None

\* The guest's driver.  It polls the busy bit, or waits for the completion.
SendCmd ==
  /\ Runs /\ cd.cmd = None
  /\ guest.driver.waits => cd.flags = {} /\ \A c \in Async : events[c] = 0
  /\ \E op \in guest.driver.ops, arg \in Positions :
       /\ op # "set_loc" => arg = 0
       /\ op \in Async => events[op] < MaxEvents
       /\ op \in {"read_n", "seekl"} => events["sector_done"] < MaxEvents
       /\ cd' = [cd EXCEPT !.cmd = Some([op |-> op, arg |-> arg]), !.irq = FALSE]
       /\ guest' = Sent(op, arg)
  /\ UNCHANGED <<events, disc>>

AckIrq ==
  /\ Runs /\ cd.flags # {}
  /\ cd' = [cd EXCEPT !.flags = {}, !.irq = FALSE]
  /\ UNCHANGED <<events, disc, guest>>

\* Fault: an interrupt that is pending is not looked at.
Fault_SetMask ==
  /\ Runs
  /\ \E mask \in {{}, {0, 1, 2}} : cd' = [cd EXCEPT !.mask = mask, !.irq = FALSE]
  /\ UNCHANGED <<events, disc, guest>>

SetMask ==
  /\ Runs
  /\ \E mask \in {{}, {0, 1, 2}} :
       cd' = [cd EXCEPT !.mask = mask,
                        !.irq = ~irq_active(cd) /\ cd.flags \cap mask # {}]
  /\ UNCHANGED <<events, disc, guest>>

\* `try_pop` pops an empty FIFO and leaves any other alone.  (A build with debug
\* assertions panics.)
LoadResponse ==
  /\ Runs /\ cd.response = 0
  /\ cd' = [cd EXCEPT !.irq = FALSE, !.response = FIFO - 1]
  /\ UNCHANGED <<events, disc, guest>>

\* The loop's periodic event.
Run ==
  /\ Runs
  /\ Become(exec_cmd(Sys))
  /\ UNCHANGED <<disc, guest>>

\* A sector, or the second response of a command.
SectorDone ==
  /\ Runs /\ events["sector_done"] > 0
  /\ \E past_end \in BOOLEAN :
       /\ past_end => cd.position = LAST
       /\ Become(sector_done([Sys EXCEPT !.events["sector_done"] = @ - 1], past_end))
  /\ guest' = IF ReadTaken /\ guest.got = None /\ in_state(Sys, "Reading")
              THEN [guest EXCEPT !.got = Some(cd'.position)] ELSE guest
  /\ UNCHANGED disc

Complete ==
  /\ Runs
  /\ \E c \in Async :
       /\ events[c] > 0
       /\ Become(complete([Sys EXCEPT !.events[c] = @ - 1], c))
       /\ guest' = IF ReadTaken /\ c \in Stopping THEN [guest EXCEPT !.stopped = TRUE] ELSE guest
  /\ UNCHANGED disc

\* The front end loads and unloads the disc while the guest runs.
ChangeDisc ==
  /\ Runs /\ Unloads
  /\ disc' = ~disc
  /\ UNCHANGED <<cd, events, guest>>

\* Nothing happens after a panic.
Halted == cd.panicked /\ UNCHANGED vars

Next ==
  SendCmd \/ AckIrq \/ SetMask \/ LoadResponse \/ Run \/ SectorDone \/ Complete
    \/ ChangeDisc \/ Halted

\* The guest acknowledges what it is told.  Events come in the end, and `run`
\* comes many times between two sectors, so it finds a time at which the guest
\* has acknowledged the last one.
Execute == Run /\ cd.cmd # None /\ cd.flags = {}

\* WF_vars(AckIrq) /\ WF_vars(SectorDone) /\ WF_vars(Complete) /\ SF_vars(Execute),
\* with ENABLED written out.
Fairness ==
  /\ []<>(cd.flags = {} \/ cd.panicked) \/ []<><<AckIrq>>_vars
  /\ []<>(events["sector_done"] = 0 \/ cd.panicked) \/ []<><<SectorDone>>_vars
  /\ []<>((\A c \in Async : events[c] = 0) \/ cd.panicked) \/ []<><<Complete>>_vars
  /\ <>[](cd.cmd = None \/ cd.flags # {} \/ cd.panicked) \/ []<><<Execute>>_vars

Spec == Init /\ [][Next]_vars /\ Fairness

-----------------------------------------------------------------------------
(* A drive that seeks or reads has the event that ends it: it is never left *)
(* in such a state with nothing to come, whatever commands follow a read.   *)
DriveGoesOn ==
  ~cd.panicked =>
    /\ cd.state.name = "Seeking" => events["sector_done"] > 0
    /\ cd.state.name = "Reading" => events["sector_done"] > 0 \/ events["read_toc"] > 0

(* The interrupt line rises with every interrupt the mask lets through,     *)
(* also when the mask is what changed (mod.rs:113-118, 448-454).            *)
NoMissedIrq == [][~irq_active(cd) /\ irq_active(cd') => cd'.irq]_vars

(* A command that was sent is executed, once the guest has acknowledged     *)
(* what came before.                                                        *)
CommandIsExecuted == cd.cmd # None ~> (cd.cmd = None \/ cd.panicked)

(* A read that was sent delivers a sector, unless the guest sends another   *)
(* command: after set_loc, the first one is the one AFTER the sector named, *)
(* whatever was queued before, for the drive moves on before it loads       *)
(* (mod.rs:276-284).  Only the second response of an earlier command may    *)
(* stop the drive under the read, and not if the guest has waited for it.   *)
Requests == {None} \cup {Some(s) : s \in Positions}
Asks(loc) == guest.reads /\ guest.loc = loc
Got(loc) == guest.got # None /\ (loc # None => guest.got = Some(next_position(The(loc))))

ReadDelivers ==
  \A loc \in Requests :
    Asks(loc) ~> (~Asks(loc) \/ Got(loc) \/ cd.panicked
                    \/ (guest.stopped /\ ~guest.driver.waits))
=============================================================================
