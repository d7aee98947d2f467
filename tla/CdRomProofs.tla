---------------------------- MODULE CdRomProofs ----------------------------
(***************************************************************************)
(* Proofs about the drive (CdRom), for every guest driver, disc length and *)
(* number of events: a drive that is under way has an event that goes on   *)
(* with it, and no interrupt the mask lets through is missed.  After them, *)
(* about the discs in it (Disc), for every cue sheet: positions, the       *)
(* search, sorting and looking up, the layout, and then that the sectors   *)
(* that are read and the table of contents are those of the sheet.         *)
(***************************************************************************)
EXTENDS CdRom, Disc, FiniteSetTheorems, WellFoundedInduction, TLAPS

StateNames == {"Idle", "Paused", "Reading", "ReadingToc", "Seeking"}
StateType == [name : StateNames, target : Positions, after : {"none", "Pause", "Read"}]
CmdType == [op : AllOps, arg : Positions]
CdType == [state : StateType, mask : SUBSET (0 .. 2), flags : SUBSET (0 .. 2),
           cmd : SUBSET CmdType, response : Int, position : Positions,
           pending_seek : SUBSET Positions, irq : BOOLEAN, panicked : BOOLEAN]
EventsType == [Callbacks -> Nat]
SysType == [cd : CdType, events : EventsType]
GuestType == [driver : Drivers, reads : BOOLEAN, loc : SUBSET Positions, got : SUBSET Positions,
              stopped : BOOLEAN]

TypeOK ==
  /\ cd \in CdType /\ events \in EventsType /\ disc \in BOOLEAN
  /\ guest \in GuestType

\* What DriveGoesOn says, of a step's result.
GoesOn(s) ==
  /\ s.cd.state.name = "Seeking" => s.events["sector_done"] > 0
  /\ s.cd.state.name = "Reading" => s.events["sector_done"] > 0 \/ s.events["read_toc"] > 0

\* The line is up, or nothing is waiting behind the mask but what was there before.
Line(s, mask, old) ==
  s \in SysType /\ s.cd.mask = mask /\ (s.cd.irq \/ s.cd.flags \cap mask \subseteq old)

\* A step's result is fit to be the next state.
Good(s, mask, old) == Line(s, mask, old) /\ GoesOn(s)

LEMMA ScheduleFacts ==
  ASSUME NEW s \in SysType, NEW c \in Callbacks
  PROVE  /\ schedule(s, c) \in SysType
         /\ schedule(s, c).cd = s.cd
         /\ schedule(s, c).events[c] > 0
         /\ \A d \in Callbacks : schedule(s, c).events[d] >= s.events[d]
BY DEF SysType, EventsType, schedule

LEMMA SetStateFacts ==
  ASSUME NEW s \in SysType, NEW st \in StateType
  PROVE  /\ set_state(s, st) \in SysType
         /\ set_state(s, st).cd = [s.cd EXCEPT !.state = st]
         /\ set_state(s, st).events = s.events
BY DEF SysType, CdType, set_state

LEMMA PushFacts ==
  ASSUME NEW s \in SysType, NEW n \in Int
  PROVE  /\ push(s, n) \in SysType
         /\ push(s, n).cd.state = s.cd.state /\ push(s, n).cd.mask = s.cd.mask
         /\ push(s, n).events = s.events
BY CdRomAssumption DEF SysType, CdType, push

LEMMA SetInterruptFacts ==
  ASSUME NEW s \in SysType, NEW int \in DOMAIN Interrupts
  PROVE  /\ set_interrupt(s, int) \in SysType
         /\ set_interrupt(s, int).cd.state = s.cd.state
         /\ set_interrupt(s, int).events = s.events
         /\ set_interrupt(s, int).cd.mask = s.cd.mask
         /\ set_interrupt(s, int).cd.flags \cap s.cd.mask # {} => set_interrupt(s, int).cd.irq
<1> DEFINE f == Interrupts[int]
           b == s.cd.irq \/ f \cap s.cd.mask # {}
           t == [s EXCEPT !.cd.flags = f, !.cd.irq = b]
<1>1. f \in SUBSET (0 .. 2)
  BY DEF Interrupts
<1>2. b \in BOOLEAN
  BY DEF SysType, CdType
<1>3. set_interrupt(s, int) = t
  BY DEF set_interrupt
<1>4. f \cap s.cd.mask # {} => b
  OBVIOUS
<1> HIDE DEF f, b
<1>5. t \in SysType /\ t.events = s.events /\ t.cd = [s.cd EXCEPT !.flags = f, !.irq = b]
  BY <1>1, <1>2 DEF SysType, CdType
<1> HIDE DEF t
<1>6. t.cd.state = s.cd.state /\ t.cd.mask = s.cd.mask /\ t.cd.flags = f
  BY <1>5 DEF SysType, CdType
<1>7. t.cd.irq = b
  BY <1>5 DEF SysType, CdType
<1> QED
  BY <1>3, <1>4, <1>5, <1>6, <1>7

\* A response raises the line, and leaves the drive and the events alone.
LEMMA FinishCmdFacts ==
  ASSUME NEW s \in SysType, NEW n \in Int, NEW int \in DOMAIN Interrupts
  PROVE  LET t == set_interrupt(push(s, n), int)
         IN  /\ t \in SysType /\ t.events = s.events
             /\ t.cd.state = s.cd.state /\ t.cd.mask = s.cd.mask
             /\ t.cd.flags \cap s.cd.mask # {} => t.cd.irq
<1> DEFINE p == push(s, n)
<1>1. p \in SysType /\ p.events = s.events /\ p.cd.state = s.cd.state /\ p.cd.mask = s.cd.mask
  BY PushFacts
<1> HIDE DEF p
<1>2. LET t == set_interrupt(p, int)
      IN  /\ t \in SysType /\ t.events = s.events
          /\ t.cd.state = s.cd.state /\ t.cd.mask = s.cd.mask
          /\ t.cd.flags \cap s.cd.mask # {} => t.cd.irq
  BY <1>1, SetInterruptFacts
<1> QED
  BY <1>2 DEF p

\* Whatever was waiting before, a response is as good as what it is given.
LEMMA Respond ==
  ASSUME NEW s, NEW mask, NEW earlier, NEW old, Good(s, mask, earlier),
         NEW n \in Int, NEW int \in DOMAIN Interrupts
  PROVE  Good(set_interrupt(push(s, n), int), mask, old)
BY FinishCmdFacts DEF Good, Line, GoesOn

LEMMA FinishGood ==
  ASSUME NEW s, NEW mask, NEW earlier, NEW old, Good(s, mask, earlier), NEW int \in DOMAIN Interrupts
  PROVE  Good(finish_cmd(s, int), mask, old)
BY Respond DEF finish_cmd

\* Scheduling more keeps a result good.
LEMMA ScheduleGood ==
  ASSUME NEW s, NEW mask, NEW old, NEW c \in Callbacks, Good(s, mask, old)
  PROVE  Good(schedule(s, c), mask, old)
<1>1. GoesOn(schedule(s, c))
  <2>1. /\ s.events \in [Callbacks -> Nat] /\ schedule(s, c).events \in [Callbacks -> Nat]
        /\ "sector_done" \in Callbacks /\ "read_toc" \in Callbacks
    BY ScheduleFacts DEF Good, Line, SysType, EventsType, Callbacks, Async
  <2> QED
    BY <2>1, ScheduleFacts DEF Good, Line, GoesOn
<1> QED
  BY <1>1, ScheduleFacts DEF Good, Line

LEMMA DriveType ==
  ASSUME NEW n \in StateNames \ {"Seeking"}
  PROVE  Drive(n) \in StateType /\ Drive(n).name = n
BY CdRomAssumption DEF Drive, StateType, StateNames, Positions

\* A new state of the drive leaves the interrupts alone.
LEMMA SetStateLine ==
  ASSUME NEW s, NEW mask, NEW old, NEW st \in StateType, Line(s, mask, old)
  PROVE  Line(set_state(s, st), mask, old) /\ set_state(s, st).cd.state = st
<1>1. s \in SysType /\ s.cd \in CdType
  BY DEF Line, SysType
<1> DEFINE t == set_state(s, st)
<1>2. t \in SysType /\ t.cd = [s.cd EXCEPT !.state = st]
  BY <1>1, SetStateFacts
<1> HIDE DEF t
<1>3. /\ t.cd.state = st /\ t.cd.mask = s.cd.mask
      /\ t.cd.flags = s.cd.flags /\ t.cd.irq = s.cd.irq
  BY <1>1, <1>2 DEF CdType
<1>4. Line(t, mask, old)
  BY <1>2, <1>3 DEF Line
<1> QED
  BY <1>3, <1>4 DEF t

\* States of the drive that wait for nothing.
Resting == {"Idle", "Paused", "ReadingToc"}

LEMMA RestGood ==
  ASSUME NEW s, NEW mask, NEW old, NEW st \in StateType, st.name \in Resting, Line(s, mask, old)
  PROVE  Good(set_state(s, st), mask, old)
BY SetStateLine DEF Good, GoesOn, Resting

\* A drive that is set going has its event scheduled at once.
LEMMA GoGood ==
  ASSUME NEW s, NEW mask, NEW old, NEW st \in StateType, NEW c \in {"sector_done", "read_toc"},
         st.name = "Seeking" => c = "sector_done", Line(s, mask, old)
  PROVE  Good(schedule(set_state(s, st), c), mask, old)
<1> DEFINE u == set_state(s, st)
<1>0. Line(u, mask, old) /\ u.cd.state = st
  BY SetStateLine, Zenon
<1>1. Line(u, mask, old) /\ u.cd.state = st /\ u \in SysType /\ c \in Callbacks
  BY <1>0 DEF Line, Callbacks, Async
<1> HIDE DEF u
<1>2. schedule(u, c) \in SysType /\ schedule(u, c).cd = u.cd /\ schedule(u, c).events[c] > 0
  BY <1>1, ScheduleFacts
<1>3. Good(schedule(u, c), mask, old)
  BY <1>1, <1>2 DEF Good, Line, GoesOn
<1> QED
  BY <1>3 DEF u

LEMMA StartReadGood ==
  ASSUME NEW s, NEW mask, NEW old, Line(s, mask, old)
  PROVE  Good(start_read(s), mask, old)
BY GoGood, DriveType DEF start_read, StateNames

\* Where the drive is and where it will seek to does not matter.
Moved(s, p, q) == [s EXCEPT !.cd.position = p, !.cd.pending_seek = q]

LEMMA SetPosition ==
  ASSUME NEW s, NEW mask, NEW old, NEW p \in Positions, NEW q \in SUBSET Positions, Line(s, mask, old)
  PROVE  /\ Line(Moved(s, p, q), mask, old)
         /\ Moved(s, p, q).cd.state = s.cd.state /\ Moved(s, p, q).events = s.events
<1> DEFINE t == Moved(s, p, q)
<1>1. s \in SysType /\ s.cd \in CdType
  BY DEF Line, SysType
<1>2. t \in SysType /\ t.events = s.events /\ t.cd = [s.cd EXCEPT !.position = p, !.pending_seek = q]
  BY <1>1 DEF SysType, CdType, Moved
<1> HIDE DEF t
<1>3. /\ t.cd.state = s.cd.state /\ t.cd.mask = s.cd.mask
      /\ t.cd.flags = s.cd.flags /\ t.cd.irq = s.cd.irq
  BY <1>1, <1>2 DEF CdType
<1>4. Line(t, mask, old)
  BY <1>2, <1>3 DEF Line
<1> QED
  BY <1>2, <1>3, <1>4 DEF t

LEMMA TheIn ==
  ASSUME NEW S, NEW o \in SUBSET S, o # None
  PROVE  The(o) \in o /\ The(o) \in S
BY DEF The, None

LEMMA SeekingType ==
  ASSUME NEW p \in Positions, NEW a \in {"Pause", "Read"}
  PROVE  Seeking(p, a) \in StateType /\ Seeking(p, a).name = "Seeking"
BY DEF Seeking, StateType, StateNames

LEMMA StartSeekGood ==
  ASSUME NEW s, NEW mask, NEW old, NEW after \in {"Pause", "Read"}, Line(s, mask, old)
  PROVE  Good(start_seek(s, after), mask, old)
<1> DEFINE to == IF s.cd.pending_seek = None THEN 0 ELSE The(s.cd.pending_seek)
           st == Seeking(to, after)
           u == Moved(s, s.cd.position, None)
<1>1. /\ s \in SysType /\ s.cd \in CdType
      /\ s.cd.position \in Positions /\ s.cd.pending_seek \in SUBSET Positions
  BY DEF Line, SysType, CdType
<1>2. to \in Positions
  <2>1. 0 \in Positions
    BY CdRomAssumption DEF Positions
  <2> QED
    BY <1>1, <2>1, TheIn
<1>3. st \in StateType /\ st.name = "Seeking"
  BY <1>2, SeekingType
<1>4. Line(u, mask, old)
  BY <1>1, SetPosition DEF None
<1> HIDE DEF to, st
<1>5. [s EXCEPT !.cd.pending_seek = None, !.cd.state = st] = set_state(u, st)
  BY <1>1 DEF SysType, CdType, set_state, None, Moved
<1>6. start_seek(s, after) = schedule(set_state(u, st), "sector_done")
  BY <1>5 DEF start_seek, to, st
<1> HIDE DEF u
<1> QED
  BY <1>3, <1>4, <1>6, GoGood

LEMMA SeekDoneGood ==
  ASSUME NEW s, NEW mask, NEW old, Line(s, mask, old)
  PROVE  Good(seek_done(s), mask, old)
<1> DEFINE p == s.cd.state.target
           u == Moved(s, p, s.cd.pending_seek)
<1>1. s \in SysType /\ s.cd \in CdType /\ p \in Positions /\ s.cd.pending_seek \in SUBSET Positions
  BY DEF Line, SysType, CdType, StateType
<1>2. Line(u, mask, old)
  BY <1>1, SetPosition
<1>3. [s EXCEPT !.cd.position = p] = u
  BY <1>1 DEF SysType, CdType, Moved
<1> HIDE DEF p
<1>4. seek_done(s) = IF s.cd.state.after = "Read" THEN start_read(u) ELSE set_state(u, Drive("Paused"))
  BY <1>3 DEF seek_done, p
<1> HIDE DEF u
<1>5. Good(start_read(u), mask, old)
  BY <1>2, StartReadGood
<1>6. Good(set_state(u, Drive("Paused")), mask, old)
  BY <1>2, DriveType, RestGood DEF Resting, StateNames
<1> QED
  BY <1>4, <1>5, <1>6

LEMMA ReadNGood ==
  ASSUME NEW s, NEW mask, NEW old, Good(s, mask, old)
  PROVE  Good(read_n(s), mask, old)
<1>1. s \in SysType /\ Line(s, mask, old)
  BY DEF Good, Line
<1>2. Good(start_seek(s, "Read"), mask, old) /\ Good(start_read(s), mask, old)
  BY <1>1, StartSeekGood, StartReadGood
<1>3. Good([s EXCEPT !.cd.state.after = "Read"], mask, old)
  <2> DEFINE st == [s.cd.state EXCEPT !.after = "Read"]
             t == set_state(s, st)
  <2>1. s.cd \in CdType /\ st \in StateType /\ st.name = s.cd.state.name
    BY <1>1 DEF SysType, CdType, StateType
  <2>2. [s EXCEPT !.cd.state.after = "Read"] = t
    BY DEF set_state
  <2> HIDE DEF st
  <2>3. t.events = s.events
    BY <1>1, <2>1, SetStateFacts, Zenon
  <2>4. t.cd.state = st /\ Line(t, mask, old)
    BY <1>1, <2>1, SetStateLine, Zenon
  <2> HIDE DEF t
  <2>5. Good(t, mask, old)
    BY <2>1, <2>3, <2>4 DEF Good, GoesOn
  <2> QED
    BY <2>2, <2>5
<1> QED
  BY <1>2, <1>3 DEF read_n

LEMMA CallbackNames ==
  /\ Async \subseteq Callbacks /\ "sector_done" \in Callbacks
  /\ \A n \in {"stop", "pause", "init", "seekl", "get_id", "read_toc"} : n \in Async
  /\ \A i \in {"Ack", "Complete", "Error", "DataReady"} : i \in DOMAIN Interrupts
BY DEF Callbacks, Async, Interrupts

\* The state, the position and the pending seek set together.
LEMMA SetAll ==
  ASSUME NEW s, NEW mask, NEW old, Line(s, mask, old), NEW st \in StateType, st.name \in Resting,
         NEW p \in Positions, NEW q \in SUBSET Positions
  PROVE  Good([s EXCEPT !.cd.state = st, !.cd.position = p, !.cd.pending_seek = q], mask, old)
<1> DEFINE u == Moved(s, p, q)
           t == [s EXCEPT !.cd.state = st, !.cd.position = p, !.cd.pending_seek = q]
<1>1. Line(u, mask, old)
  BY SetPosition
<1>2. t = set_state(u, st)
  BY DEF Line, SysType, CdType, set_state, Moved
<1> HIDE DEF u
<1>3. Good(set_state(u, st), mask, old)
  BY <1>1, RestGood
<1> QED
  BY <1>2, <1>3

\* Every command leaves a good result.
LEMMA ExecGood ==
  ASSUME NEW s, NEW mask, NEW earlier, NEW old, Good(s, mask, earlier), NEW cmd \in CmdType
  PROVE  Good(exec(s, cmd), mask, old)
<1> DEFINE acked == finish_cmd(s, "Ack")
<1>1. /\ Good(acked, mask, old) /\ Line(acked, mask, old)
      /\ Line(s, mask, earlier) /\ s \in SysType
  BY FinishGood, CallbackNames DEF Good, Line
<1>2. cmd.arg \in Positions /\ cmd.op \in AllOps /\ 0 \in Positions
  BY CdRomAssumption DEF CmdType, Positions
<1>3. CASE cmd.op \in {"status", "set_mode"}
  BY <1>1, <1>3 DEF exec
<1>4. CASE cmd.op = "set_loc"
  <2> DEFINE st == Drive("ReadingToc")
             t == [s EXCEPT !.cd.state = st, !.cd.position = s.cd.position,
                            !.cd.pending_seek = Some(cmd.arg)]
  <2>1. st \in StateType /\ st.name \in Resting
    BY DriveType DEF Resting, StateNames
  <2>2. s.cd.position \in Positions /\ Some(cmd.arg) \in SUBSET Positions
    BY <1>1, <1>2 DEF SysType, CdType, Some
  <2>3. Good(t, mask, earlier)
    BY <1>1, <2>1, <2>2, SetAll
  <2> HIDE DEF st
  <2>4. t = [s EXCEPT !.cd.state = st, !.cd.pending_seek = Some(cmd.arg)]
    BY <1>1 DEF SysType, CdType
  <2>5. exec(s, cmd) = finish_cmd(t, "Ack")
    BY <1>4, <2>4 DEF exec, st
  <2> HIDE DEF t
  <2> QED
    BY <2>3, <2>5, FinishGood, CallbackNames
<1>5. CASE cmd.op = "read_n"
  <2>1. exec(s, cmd) = read_n(acked)
    BY <1>5 DEF exec
  <2> QED
    BY <1>1, <2>1, ReadNGood
<1>6. CASE cmd.op = "stop"
  <2>1. exec(s, cmd) = schedule(acked, "stop")
    BY <1>6 DEF exec
  <2> QED
    BY <1>1, <2>1, ScheduleGood, CallbackNames
<1>7. CASE cmd.op = "pause"
  <2>1. exec(s, cmd) = schedule(set_state(acked, Drive("Paused")), "pause")
    BY <1>7 DEF exec
  <2>2. Good(set_state(acked, Drive("Paused")), mask, old)
    BY <1>1, RestGood, DriveType DEF Resting, StateNames
  <2> QED
    BY <2>1, <2>2, ScheduleGood, CallbackNames
<1>8. CASE cmd.op = "init"
  <2> DEFINE t == [acked EXCEPT !.cd.state = Drive("Paused"), !.cd.position = 0, !.cd.pending_seek = None]
  <2>1. Drive("Paused") \in StateType /\ Drive("Paused").name \in Resting /\ None \in SUBSET Positions
    BY DriveType DEF Resting, StateNames, None
  <2>2. Good(t, mask, old)
    BY <1>1, <1>2, <2>1, SetAll
  <2>3. exec(s, cmd) = schedule(t, "init")
    BY <1>8 DEF exec
  <2> HIDE DEF t
  <2> QED
    BY <2>2, <2>3, ScheduleGood, CallbackNames
<1>9. CASE cmd.op = "seekl"
  <2>1. exec(s, cmd) = schedule(finish_cmd(start_seek(s, "Pause"), "Ack"), "seekl")
    BY <1>9 DEF exec
  <2>2. Good(start_seek(s, "Pause"), mask, earlier)
    BY <1>1, StartSeekGood
  <2>3. Good(finish_cmd(start_seek(s, "Pause"), "Ack"), mask, old)
    BY <2>2, FinishGood, CallbackNames
  <2> QED
    BY <2>1, <2>3, ScheduleGood, CallbackNames
<1>10. CASE cmd.op = "test"
  <2>1. exec(s, cmd) = set_interrupt(push(s, 4), "Ack")
    BY <1>10 DEF exec
  <2> QED
    BY <2>1, Respond, CallbackNames
<1>11. CASE cmd.op = "get_id"
  <2>1. exec(s, cmd) = IF disc THEN schedule(acked, "get_id") ELSE set_interrupt(push(s, 2), "Error")
    BY <1>11 DEF exec
  <2>2. Good(schedule(acked, "get_id"), mask, old)
    BY <1>1, ScheduleGood, CallbackNames
  <2>3. Good(set_interrupt(push(s, 2), "Error"), mask, old)
    BY Respond, CallbackNames
  <2> QED
    BY <2>1, <2>2, <2>3
<1>12. CASE cmd.op = "read_toc"
  <2> DEFINE u == set_state(s, Drive("Reading"))
             t == finish_cmd(u, "Ack")
             r == schedule(t, "read_toc")
  <2>1. exec(s, cmd) = r
    BY <1>12 DEF exec
  <2>2. Drive("Reading") \in StateType /\ Drive("Reading").name = "Reading"
    BY <1>1, DriveType DEF StateNames
  <2>3. Line(u, mask, earlier) /\ u.cd.state.name = "Reading"
    BY <1>1, <2>2, SetStateLine, Zenon
  <2> HIDE DEF u
  <2>4. t \in SysType /\ t.cd.mask = mask /\ t.cd.state.name = "Reading"
        /\ (t.cd.flags \cap mask # {} => t.cd.irq)
    BY <2>3, FinishCmdFacts, CallbackNames DEF finish_cmd, Line
  <2> HIDE DEF t
  <2>5. r \in SysType /\ r.cd = t.cd /\ r.events["read_toc"] > 0
    BY <2>4, ScheduleFacts, CallbackNames
  <2> QED
    BY <2>1, <2>4, <2>5 DEF Good, Line, GoesOn
<1> QED
  BY <1>2, <1>3, <1>4, <1>5, <1>6, <1>7, <1>8, <1>9, <1>10, <1>11, <1>12 DEF AllOps

LEMMA TakeCmd ==
  ASSUME NEW c \in CdType, NEW n \in SUBSET CmdType
  PROVE  [c EXCEPT !.cmd = n, !.response = 0] \in CdType
<1>1. ASSUME NEW m \in Int PROVE [c EXCEPT !.cmd = n, !.response = m] \in CdType
  BY DEF CdType
<1>2. 0 \in Int
  OBVIOUS
<1> QED
  BY <1>1, <1>2, Zenon

LEMMA ExecCmdGood ==
  ASSUME NEW s, NEW mask, NEW old, Good(s, mask, old)
  PROVE  Good(exec_cmd(s), mask, old)
<1> DEFINE t == [s EXCEPT !.cd.cmd = None, !.cd.response = 0]
<1>1. s \in SysType /\ s.cd \in CdType
  BY DEF Good, Line, SysType
<1> DEFINE c == [s.cd EXCEPT !.cmd = None, !.response = 0]
<1>0. c \in CdType
  <2>1. None \in SUBSET CmdType
    BY DEF None
  <2> QED
    BY <1>1, <2>1, TakeCmd
<1>2. t \in SysType /\ t.events = s.events /\ t.cd = c
  <2>1. t = [s EXCEPT !.cd = c]
    OBVIOUS
  <2> HIDE DEF c
  <2> QED
    BY <1>0, <1>1, <2>1 DEF SysType
<1>3. exec_cmd(s) = s \/ (s.cd.cmd # None /\ exec_cmd(s) = exec(t, The(s.cd.cmd)))
  BY DEF exec_cmd
<1> HIDE DEF t
<1>4. t.cd.state = s.cd.state /\ t.cd.mask = s.cd.mask /\ t.cd.flags \in SUBSET (0 .. 2)
  BY <1>1, <1>2 DEF CdType
<1>5. Good(t, mask, 0 .. 2)
  BY <1>2, <1>4 DEF Good, Line, GoesOn
<1>6. s.cd.cmd # None => The(s.cd.cmd) \in CmdType
  BY <1>1, TheIn DEF CdType
<1> QED
  BY <1>3, <1>5, <1>6, ExecGood

\* The second responses: only the event of read_toc was one to wait for, and
\* with it the drive is paused.
LEMMA CompleteGood ==
  ASSUME NEW s, NEW mask, NEW old, Line(s, mask, old), NEW c \in Async,
         c \in {"init", "seekl"} => GoesOn(s)
  PROVE  Good(complete(s, c), mask, old)
<1>1. CASE c \in {"init", "seekl"}
  <2>1. complete(s, c) = finish_cmd(s, "Complete")
    BY <1>1 DEF complete
  <2>2. Good(s, mask, old)
    BY <1>1 DEF Good
  <2> QED
    BY <2>1, <2>2, FinishGood, CallbackNames
<1>2. CASE c \in {"pause", "read_toc"}
  <2>1. complete(s, c) = finish_cmd(set_state(s, Drive("Paused")), "Complete")
    BY <1>2 DEF complete
  <2>2. Good(set_state(s, Drive("Paused")), mask, old)
    BY DriveType, RestGood DEF Resting, StateNames
  <2> QED
    BY <2>1, <2>2, FinishGood, CallbackNames
<1>3. CASE c \in {"stop", "get_id"}
  <2>1. \/ complete(s, c) = finish_cmd(set_state(s, Drive("Idle")), "Complete")
        \/ complete(s, c) = set_interrupt(push(set_state(s, Drive("Idle")), 8), "Complete")
    BY <1>3 DEF complete
  <2>2. Good(set_state(s, Drive("Idle")), mask, old)
    BY DriveType, RestGood DEF Resting, StateNames
  <2> QED
    BY <2>1, <2>2, FinishGood, Respond, CallbackNames
<1> QED
  BY <1>1, <1>2, <1>3 DEF Async

\* A sector: the drive goes on, unless there is none to read.
LEMMA SectorDoneGood ==
  ASSUME NEW s, NEW mask, NEW old, Line(s, mask, old), NEW past_end \in BOOLEAN
  PROVE  /\ Line(sector_done(s, past_end), mask, old)
         /\ ~sector_done(s, past_end).cd.panicked => GoesOn(sector_done(s, past_end))
<1>1. s \in SysType /\ s.cd \in CdType
  BY DEF Line, SysType
<1>2. CASE in_state(s, "Seeking")
  <2>1. sector_done(s, past_end) = seek_done(s)
    BY <1>2 DEF sector_done, in_state
  <2> QED
    BY <2>1, SeekDoneGood DEF Good
<1>3. CASE in_state(s, "Reading") /\ (~disc \/ past_end)
  <2> DEFINE t == [s EXCEPT !.cd.panicked = TRUE]
  <2>1. sector_done(s, past_end) = t
    BY <1>3 DEF sector_done, in_state
  <2>2. t \in SysType /\ t.cd = [s.cd EXCEPT !.panicked = TRUE]
    BY <1>1 DEF SysType, CdType
  <2> HIDE DEF t
  <2>3. /\ t.cd.mask = s.cd.mask /\ t.cd.flags = s.cd.flags
        /\ t.cd.irq = s.cd.irq /\ t.cd.panicked = TRUE
    BY <1>1, <2>2 DEF CdType
  <2>4. Line(t, mask, old)
    BY <2>2, <2>3 DEF Line
  <2> QED
    BY <2>1, <2>3, <2>4
<1>4. CASE in_state(s, "Reading") /\ ~(~disc \/ past_end)
  <2> DEFINE p == next_position(s.cd.position)
             q == s.cd.pending_seek
             u == Moved(s, p, q)
  <2>1. p \in Positions /\ q \in SUBSET Positions
    BY <1>1, CdRomAssumption DEF CdType, Positions, next_position
  <2>3. [s EXCEPT !.cd.position = next_position(@)] = u
    BY <1>1 DEF SysType, CdType, Moved
  <2> HIDE DEF p, q
  <2>2. Line(u, mask, old) /\ u.cd.state = s.cd.state
    BY <2>1, SetPosition
  <2>4. sector_done(s, past_end) = finish_cmd(schedule(u, "sector_done"), "DataReady")
    BY <1>4, <2>3 DEF sector_done, in_state, p
  <2> HIDE DEF u
  <2>5. Good(schedule(u, "sector_done"), mask, old)
    <3> DEFINE v == schedule(u, "sector_done")
    <3>1. v \in SysType /\ v.cd = u.cd /\ v.events["sector_done"] > 0
      BY <2>2, ScheduleFacts, CallbackNames DEF Line
    <3> HIDE DEF v
    <3>2. Good(v, mask, old)
      BY <2>2, <3>1 DEF Good, Line, GoesOn
    <3> QED
      BY <3>2 DEF v
  <2>6. Good(finish_cmd(schedule(u, "sector_done"), "DataReady"), mask, old)
    BY <2>5, FinishGood, CallbackNames
  <2> QED
    BY <2>4, <2>6 DEF Good
<1>5. CASE ~in_state(s, "Seeking") /\ ~in_state(s, "Reading")
  <2>1. sector_done(s, past_end) = s /\ GoesOn(s)
    BY <1>5 DEF sector_done, in_state, GoesOn
  <2> QED
    BY <2>1
<1> QED
  BY <1>2, <1>3, <1>4, <1>5

-----------------------------------------------------------------------------
Inv == TypeOK /\ DriveGoesOn

LEMMA InitInv ==
  ASSUME Init PROVE Inv
<1>1. Drive("Idle") \in StateType /\ Drive("Idle").name = "Idle"
  BY DriveType DEF StateNames
<1>2. cd \in CdType /\ cd.state.name = "Idle"
  BY <1>1, CdRomAssumption DEF Init, CdType, Positions, None
<1>3. events \in EventsType /\ disc \in BOOLEAN /\ guest \in GuestType
  <2>1. events \in EventsType /\ disc \in BOOLEAN
    BY DEF Init, EventsType
  <2>2. PICK d \in Drivers : guest = [NoRequest EXCEPT !.driver = d]
    BY DEF Init
  <2>3. guest = [driver |-> d, reads |-> FALSE, loc |-> {}, got |-> {}, stopped |-> FALSE]
    BY <2>2 DEF NoRequest, None
  <2> QED
    BY <2>1, <2>3 DEF GuestType
<1> QED
  BY <1>2, <1>3 DEF Inv, TypeOK, DriveGoesOn

\* What a handler is given.
LEMMA SysGood ==
  ASSUME Inv, Runs
  PROVE  Good(Sys, cd.mask, cd.flags \cap cd.mask) /\ Sys.events = events /\ Sys.cd.state = cd.state
<1> DEFINE c == [cd EXCEPT !.irq = FALSE]
<1>1. cd \in CdType /\ events \in EventsType
  BY DEF Inv, TypeOK
<1>2. /\ c \in CdType /\ c.state = cd.state /\ c.mask = cd.mask /\ c.flags = cd.flags
  BY <1>1 DEF CdType
<1>3. Sys.cd = c /\ Sys.events = events /\ Sys = [cd |-> c, events |-> events]
  BY DEF Sys
<1> HIDE DEF c
<1>4. Sys \in SysType
  BY <1>1, <1>2, <1>3 DEF SysType
<1>5. GoesOn(Sys)
  BY <1>2, <1>3 DEF Inv, DriveGoesOn, GoesOn, Runs
<1> QED
  BY <1>2, <1>3, <1>4, <1>5 DEF Good, Line

\* A handler's result as the next state.
LEMMA BecomeInv ==
  ASSUME Inv, NEW s, Line(s, cd.mask, cd.flags \cap cd.mask), ~s.cd.panicked => GoesOn(s), Become(s),
         disc' \in BOOLEAN, guest' \in GuestType
  PROVE  Inv' /\ (~irq_active(cd) /\ irq_active(cd') => cd'.irq)
<1>1. cd' = s.cd /\ events' = s.events /\ s \in SysType
  BY DEF Become, Line
<1>2. TypeOK'
  BY <1>1 DEF SysType, TypeOK
<1>3. DriveGoesOn'
  BY <1>1 DEF DriveGoesOn, GoesOn
<1>4. ~irq_active(cd) /\ irq_active(cd') => cd'.irq
  BY <1>1 DEF Line, irq_active
<1> QED
  BY <1>2, <1>3, <1>4 DEF Inv

\* An event that is taken off the queue.
LEMMA TakeEvent ==
  ASSUME NEW s, NEW mask, NEW old, Line(s, mask, old), NEW c \in Callbacks, s.events[c] > 0
  PROVE  LET t == [s EXCEPT !.events[c] = @ - 1]
         IN  /\ Line(t, mask, old) /\ t.cd = s.cd
             /\ \A d \in Callbacks \ {c} : t.events[d] = s.events[d]
<1> DEFINE t == [s EXCEPT !.events[c] = @ - 1]
<1>1. s \in SysType
  BY DEF Line
<1>2. t \in SysType /\ t.cd = s.cd /\ \A d \in Callbacks \ {c} : t.events[d] = s.events[d]
  BY <1>1 DEF SysType, EventsType
<1> HIDE DEF t
<1>3. Line(t, mask, old)
  BY <1>2 DEF Line
<1> QED
  BY <1>2, <1>3 DEF t

\* What the guest does to the drive's registers.
LEMMA RegistersInv ==
  ASSUME Inv, NEW c \in CdType, cd' = c, c.state = cd.state, c.panicked = cd.panicked,
         c.irq \/ c.flags \cap c.mask \subseteq cd.flags \cap cd.mask,
         events' = events, disc' = disc, guest' \in GuestType
  PROVE  Inv' /\ (~irq_active(cd) /\ irq_active(cd') => cd'.irq)
<1>1. TypeOK'
  BY DEF Inv, TypeOK
<1>2. DriveGoesOn'
  BY DEF Inv, DriveGoesOn
<1>3. ~irq_active(cd) /\ irq_active(cd') => cd'.irq
  BY DEF irq_active
<1> QED
  BY <1>1, <1>2, <1>3 DEF Inv

\* The guest's history after it has sent a command.
LEMMA SentType ==
  ASSUME guest \in GuestType, NEW op, NEW arg \in Positions
  PROVE  Sent(op, arg) \in GuestType
<1> DEFINE r == op = "read_n"
           l == IF op = "set_loc" THEN Some(arg)
                ELSE IF op = "read_n" /\ ~guest.reads THEN guest.loc ELSE None
<1>1. r \in BOOLEAN /\ guest.driver \in Drivers
  BY DEF GuestType
<1>2. l \in SUBSET Positions
  BY DEF GuestType, Some, None
<1>3. Sent(op, arg) = [NoRequest EXCEPT !.driver = guest.driver, !.reads = r, !.loc = l]
  BY DEF Sent
<1> HIDE DEF r, l
<1>4. Sent(op, arg) = [driver |-> guest.driver, reads |-> r, loc |-> l, got |-> {}, stopped |-> FALSE]
  BY <1>3 DEF NoRequest, None
<1> QED
  BY <1>1, <1>2, <1>4 DEF GuestType

NoneMissed == ~irq_active(cd) /\ irq_active(cd') => cd'.irq

\* Every step keeps the invariant, and misses no interrupt.
LEMMA NextInv ==
  ASSUME Inv, Next PROVE Inv' /\ NoneMissed
<1>1. cd \in CdType /\ events \in EventsType /\ guest \in GuestType
  BY DEF Inv, TypeOK
<1>2. CASE SendCmd
  <2>1. PICK op \in guest.driver.ops, arg \in Positions :
          /\ cd' = [cd EXCEPT !.cmd = Some([op |-> op, arg |-> arg]), !.irq = FALSE]
          /\ guest' = Sent(op, arg)
    BY <1>2 DEF SendCmd
  <2> DEFINE m == Some([op |-> op, arg |-> arg])
  <2>2. m \in SUBSET CmdType
    <3>1. op \in AllOps
      BY <1>1, CdRomAssumption DEF GuestType
    <3> QED
      BY <3>1 DEF CmdType, Some
  <2>3. guest' \in GuestType
    BY <1>1, <2>1, SentType
  <2> HIDE DEF m
  <2>4. cd' = [cd EXCEPT !.cmd = m, !.irq = FALSE]
    BY <2>1 DEF m
  <2>5. /\ cd' \in CdType /\ cd'.state = cd.state /\ cd'.panicked = cd.panicked
        /\ cd'.flags = cd.flags /\ cd'.mask = cd.mask
    BY <1>1, <2>2, <2>4 DEF CdType
  <2>6. events' = events /\ disc' = disc
    BY <1>2 DEF SendCmd
  <2> QED
    BY <2>3, <2>5, <2>6, RegistersInv DEF NoneMissed
<1>3. CASE AckIrq
  <2>1. cd' = [cd EXCEPT !.flags = {}, !.irq = FALSE] /\ UNCHANGED <<events, disc, guest>>
    BY <1>3 DEF AckIrq
  <2>2. cd' \in CdType /\ cd'.state = cd.state /\ cd'.panicked = cd.panicked /\ cd'.flags = {}
    BY <1>1, <2>1 DEF CdType
  <2> QED
    BY <1>1, <2>1, <2>2, RegistersInv DEF NoneMissed
<1>4. CASE SetMask
  <2>1. PICK mask \in {{}, {0, 1, 2}} :
          cd' = [cd EXCEPT !.mask = mask, !.irq = ~irq_active(cd) /\ cd.flags \cap mask # {}]
    BY <1>4 DEF SetMask
  <2>2. UNCHANGED <<events, disc, guest>>
    BY <1>4 DEF SetMask
  <2> DEFINE b == ~irq_active(cd) /\ cd.flags \cap mask # {}
  <2>3. b \in BOOLEAN /\ mask \in SUBSET (0 .. 2)
    OBVIOUS
  <2>4. cd' = [cd EXCEPT !.mask = mask, !.irq = b]
    BY <2>1
  <2>5. ~irq_active(cd) /\ cd.flags \cap mask # {} => b
    OBVIOUS
  <2> HIDE DEF b
  <2>6. /\ cd' \in CdType /\ cd'.state = cd.state /\ cd'.panicked = cd.panicked
        /\ cd'.flags = cd.flags /\ cd'.mask = mask
    BY <1>1, <2>3, <2>4 DEF CdType
  <2>7. cd'.irq = b
    BY <1>1, <2>3, <2>4 DEF CdType
  <2>8. TypeOK'
    BY <2>2, <2>6 DEF Inv, TypeOK
  <2>9. DriveGoesOn'
    BY <2>2, <2>6 DEF Inv, DriveGoesOn
  <2>10. NoneMissed
    <3>1. irq_active(cd') => cd.flags \cap mask # {}
      BY <2>6 DEF irq_active
    <3> QED
      BY <2>5, <2>7, <3>1 DEF NoneMissed
  <2> QED
    BY <2>8, <2>9, <2>10 DEF Inv
<1>5. CASE LoadResponse
  <2> DEFINE n == FIFO - 1
  <2>1. n \in Int
    BY CdRomAssumption
  <2>2. cd' = [cd EXCEPT !.irq = FALSE, !.response = n] /\ UNCHANGED <<events, disc, guest>>
    BY <1>5 DEF LoadResponse
  <2> HIDE DEF n
  <2>3. /\ cd' \in CdType /\ cd'.state = cd.state /\ cd'.panicked = cd.panicked
        /\ cd'.flags = cd.flags /\ cd'.mask = cd.mask
    BY <1>1, <2>1, <2>2 DEF CdType
  <2> QED
    BY <1>1, <2>2, <2>3, RegistersInv DEF NoneMissed
<1>6. CASE Run
  <2>1. Become(exec_cmd(Sys)) /\ UNCHANGED <<disc, guest>> /\ Runs
    BY <1>6 DEF Run
  <2>2. Good(exec_cmd(Sys), cd.mask, cd.flags \cap cd.mask)
    BY <2>1, SysGood, ExecCmdGood
  <2>3. disc' \in BOOLEAN /\ guest' \in GuestType
    BY <1>1, <2>1 DEF Inv, TypeOK
  <2> QED
    BY <2>1, <2>2, <2>3, BecomeInv DEF Good, NoneMissed
<1>7. CASE SectorDone
  <2> DEFINE s == [Sys EXCEPT !.events["sector_done"] = @ - 1]
  <2>1. PICK past_end \in BOOLEAN : Become(sector_done(s, past_end))
    BY <1>7 DEF SectorDone
  <2>2. Runs /\ disc' = disc /\ events["sector_done"] > 0
    BY <1>7 DEF SectorDone
  <2>3. Line(s, cd.mask, cd.flags \cap cd.mask)
    BY <2>2, SysGood, TakeEvent, CallbackNames DEF Good
  <2>4. guest' = guest \/ guest' = [guest EXCEPT !.got = Some(cd'.position)]
    BY <1>7 DEF SectorDone
  <2> HIDE DEF s
  <2>5. /\ Line(sector_done(s, past_end), cd.mask, cd.flags \cap cd.mask)
        /\ ~sector_done(s, past_end).cd.panicked => GoesOn(sector_done(s, past_end))
    BY <2>3, SectorDoneGood
  <2>6. disc' \in BOOLEAN /\ guest' \in GuestType
    <3>1. cd' \in CdType
      BY <2>1, <2>5 DEF Become, Line, SysType
    <3>2. Some(cd'.position) \in SUBSET Positions
      BY <3>1 DEF CdType, Some
    <3>3. guest' \in GuestType
      BY <1>1, <2>4, <3>2 DEF GuestType
    <3> QED
      BY <2>2, <3>3 DEF Inv, TypeOK
  <2> QED
    BY <2>1, <2>5, <2>6, BecomeInv DEF NoneMissed
<1>8. CASE Complete
  <2>1. PICK c \in Async : events[c] > 0 /\ Become(complete([Sys EXCEPT !.events[c] = @ - 1], c))
    BY <1>8 DEF Complete
  <2> DEFINE s == [Sys EXCEPT !.events[c] = @ - 1]
  <2>2. Runs /\ disc' = disc /\ (guest' = guest \/ guest' = [guest EXCEPT !.stopped = TRUE])
    BY <1>8 DEF Complete
  <2>3. /\ Line(s, cd.mask, cd.flags \cap cd.mask) /\ s.cd = Sys.cd
        /\ \A d \in Callbacks \ {c} : s.events[d] = Sys.events[d]
    BY <2>1, <2>2, SysGood, TakeEvent, CallbackNames DEF Good
  <2>4. Become(complete(s, c))
    BY <2>1
  <2> HIDE DEF s
  <2>5. c \in {"init", "seekl"} => GoesOn(s)
    <3> SUFFICES ASSUME c \in {"init", "seekl"} PROVE GoesOn(s)
      OBVIOUS
    <3>1. "sector_done" \in Callbacks \ {c} /\ "read_toc" \in Callbacks \ {c}
      BY DEF Callbacks, Async
    <3>2. GoesOn(Sys)
      BY <2>2, SysGood DEF Good
    <3> QED
      BY <2>3, <3>1, <3>2 DEF GoesOn
  <2>6. Good(complete(s, c), cd.mask, cd.flags \cap cd.mask)
    BY <2>3, <2>5, CompleteGood
  <2>7. disc' \in BOOLEAN /\ guest' \in GuestType
    BY <1>1, <2>2 DEF Inv, TypeOK, GuestType
  <2> QED
    BY <2>4, <2>6, <2>7, BecomeInv DEF Good, NoneMissed
<1>9. CASE ChangeDisc
  <2>1. cd' = cd /\ events' = events /\ guest' = guest /\ disc' \in BOOLEAN
    BY <1>9 DEF ChangeDisc
  <2> QED
    BY <2>1 DEF Inv, TypeOK, DriveGoesOn, NoneMissed, irq_active
<1>10. CASE Halted
  BY <1>10 DEF Halted, vars, Inv, TypeOK, DriveGoesOn, NoneMissed, irq_active
<1> QED
  BY <1>2, <1>3, <1>4, <1>5, <1>6, <1>7, <1>8, <1>9, <1>10 DEF Next

-----------------------------------------------------------------------------
THEOREM Invariance == Spec => []Inv
<1>1. Init => Inv
  BY InitInv
<1>2. Inv /\ [Next]_vars => Inv'
  <2>1. ASSUME Inv, UNCHANGED vars PROVE Inv'
    BY <2>1 DEF vars, Inv, TypeOK, DriveGoesOn
  <2> QED
    BY <2>1, NextInv
<1> QED
  BY <1>1, <1>2, PTL DEF Spec

(* Whatever commands follow a seek or a read, and in whatever order they and *)
(* their events come, the drive has the event that ends its state: every     *)
(* guest, disc and number of events.                                         *)
THEOREM DriveIsNotStuck == Spec => []DriveGoesOn
<1>1. Inv => DriveGoesOn
  BY DEF Inv
<1> QED
  BY <1>1, Invariance, PTL

(* No interrupt the mask lets through is missed: the step after which one    *)
(* waits is a step that raised the line, whether the interrupt came or the   *)
(* mask was opened.                                                          *)
THEOREM IrqIsNotMissed == Spec => NoMissedIrq
<1>1. Inv /\ [Next]_vars => [NoneMissed]_vars
  BY NextInv
<1>2. Spec => [][NoneMissed]_vars
  BY <1>1, Invariance, PTL DEF Spec
<1> QED
  BY <1>2 DEF NoMissedIrq, NoneMissed

-----------------------------------------------------------------------------
(***************************************************************************)
(* Induction and recursion.                                                *)
(***************************************************************************)
LEMMA LeastNat ==
  ASSUME NEW T \in SUBSET Nat, T # {}
  PROVE  \E x \in T : \A y \in T : x <= y
<1> DEFINE R == StrictSubsetOrdering(Nat)
           Below == {1 .. n : n \in T}
<1>1. Below \subseteq FiniteSubsetsOf(Nat)
  BY FS_Interval DEF FiniteSubsetsOf
<1>2. Below # {}
  OBVIOUS
<1>3. IsWellFoundedOn(R, FiniteSubsetsOf(Nat))
  BY FS_StrictSubsetOrderingWellFounded
<1>4. \E b \in Below : \A c \in Below : ~ (<<c, b>> \in R)
  <2> HIDE DEF Below, R
  <2> QED
    BY <1>1, <1>2, <1>3, WFMin
<1>5. PICK x \in T : \A y \in T : ~ (<<1 .. y, 1 .. x>> \in R)
  BY <1>4
<1>6. ASSUME NEW y \in T PROVE x <= y
  <2>1. y < x => 1 .. y \subseteq 1 .. x /\ x \notin 1 .. y /\ x \in 1 .. x
    OBVIOUS
  <2>2. 1 .. y \in SUBSET Nat /\ 1 .. x \in SUBSET Nat
    OBVIOUS
  <2>3. 1 .. y \subseteq 1 .. x /\ 1 .. y # 1 .. x => <<1 .. y, 1 .. x>> \in R
    BY <2>2 DEF StrictSubsetOrdering
  <2> QED
    BY <1>5, <2>1, <2>3
<1> QED
  BY <1>6

LEMMA SetInduction ==
  ASSUME NEW T \in SUBSET Nat, 0 \in T, \A n \in T : n + 1 \in T
  PROVE  \A n \in Nat : n \in T
<1> SUFFICES ASSUME Nat \ T # {} PROVE FALSE
  OBVIOUS
<1>1. PICK x \in Nat \ T : \A y \in Nat \ T : x <= y
  <2>1. Nat \ T \in SUBSET Nat
    OBVIOUS
  <2> QED
    BY <2>1, LeastNat
<1>2. x # 0 /\ x - 1 \in Nat
  BY <1>1
<1>3. x - 1 \in T
  BY <1>1, <1>2
<1>4. (x - 1) + 1 = x
  BY <1>1
<1> QED
  BY <1>1, <1>3, <1>4

\* A function on 0 .. n that is defined from each number to the next exists.
Recursion(f, S, step, s, n) ==
  f \in [0 .. n -> S] /\ f[0] = s /\ \A i \in 1 .. n : f[i] = step[<<i, f[i - 1]>>]

LEMMA Recursed ==
  ASSUME NEW S, NEW s \in S, NEW n \in Nat, NEW step \in [(1 .. n) \X S -> S]
  PROVE  \E f : Recursion(f, S, step, s, n)
<1> DEFINE Goes(f, m) == f \in [0 .. m -> S] /\ f[0] = s /\ \A i \in 1 .. m : f[i] = step[<<i, f[i - 1]>>]
           T == {m \in Nat : m <= n => \E f : Goes(f, m)}
<1>1. 0 \in T
  <2> DEFINE f == [i \in 0 .. 0 |-> s]
  <2>1. f \in [0 .. 0 -> S] /\ f[0] = s
    OBVIOUS
  <2> HIDE DEF f
  <2>2. Goes(f, 0)
    BY <2>1
  <2> QED
    BY <2>2
<1>2. ASSUME NEW m \in T PROVE m + 1 \in T
  <2> SUFFICES ASSUME m + 1 <= n PROVE \E f : Goes(f, m + 1)
    OBVIOUS
  <2>1. m \in Nat /\ m + 1 \in Nat /\ m + 1 \in 1 .. n
    OBVIOUS
  <2>2. PICK f : Goes(f, m)
    BY <2>1
  <2> DEFINE next_ == step[<<m + 1, f[m]>>]
             g == [i \in 0 .. m + 1 |-> IF i = m + 1 THEN next_ ELSE f[i]]
  <2>3. f[m] \in S /\ next_ \in S
    BY <2>1, <2>2
  <2> HIDE DEF next_
  <2>4. g \in [0 .. m + 1 -> S]
    BY <2>1, <2>2, <2>3
  <2>5. g[0] = s
    BY <2>1, <2>2
  <2>6. ASSUME NEW i \in 1 .. m + 1 PROVE g[i] = step[<<i, g[i - 1]>>]
    <3>1. i - 1 \in 0 .. m /\ i - 1 # m + 1 /\ g[i - 1] = f[i - 1]
      BY <2>1
    <3>2. CASE i = m + 1
      <4>1. i - 1 = m /\ g[i] = next_ /\ g[i - 1] = f[m]
        BY <2>1, <3>1, <3>2
      <4> QED
        BY <3>2, <4>1 DEF next_
    <3>3. CASE i # m + 1
      <4>1. i \in 1 .. m /\ g[i] = f[i]
        BY <2>1, <3>3
      <4> QED
        BY <2>2, <3>1, <4>1
    <3> QED
      BY <3>2, <3>3
  <2> HIDE DEF g
  <2> QED
    BY <2>4, <2>5, <2>6
<1>3. T \in SUBSET Nat
  OBVIOUS
<1>4. n \in T
  <2> HIDE DEF T
  <2> QED
    BY <1>1, <1>2, <1>3, SetInduction
<1> QED
  BY <1>4 DEF Recursion

-----------------------------------------------------------------------------
(***************************************************************************)
(* Positions (Msf).                                                        *)
(***************************************************************************)
MsfType == [min : Bcd, sec : Bcd, frame : Bcd]

\* A sector below this is at a position.
Far == 154 * 4500

LEMMA TheSome == ASSUME NEW x PROVE The(Some(x)) = x /\ Some(x) # None
BY DEF The, Some, None

LEMMA BcdOf ==
  ASSUME NEW n \in 0 .. 153
  PROVE  /\ bcd_from_binary(n) = Some((n \div 10) * 16 + (n % 10)) /\ bcd_from_binary(n) # None
         /\ The(bcd_from_binary(n)) \in Bcd
         /\ as_binary(The(bcd_from_binary(n))) = n
<1> DEFINE b == (n \div 10) * 16 + (n % 10)
<1>1. bcd_from_binary(n) = Some(b)
  BY DEF bcd_from_binary
<1>2. b \in Bcd
  BY DEF Bcd
<1>3. b \div 16 = n \div 10 /\ b % 16 = n % 10
  OBVIOUS
<1>4. as_binary(b) = n
  <2>1. (n \div 10) * 10 + (n % 10) = n
    OBVIOUS
  <2> QED
    BY <1>3, <2>1 DEF as_binary
<1> HIDE DEF b
<1>5. bcd_from_binary(n) # None /\ The(bcd_from_binary(n)) = b
  BY <1>1, TheSome
<1> QED
  BY <1>1, <1>2, <1>4, <1>5 DEF b

LEMMA BcdIs ==
  ASSUME NEW b \in Bcd
  PROVE  /\ as_binary(b) \in 0 .. 153 /\ b \in Nat
         /\ b = The(bcd_from_binary(as_binary(b)))
         /\ (as_binary(b) = 0) <=> (b = 0)
         /\ (as_binary(b) = 1) <=> (b = 1)
<1>1. PICK n \in 0 .. 153 : b = (n \div 10) * 16 + (n % 10)
  BY DEF Bcd
<1>2. as_binary(b) = n /\ b = The(bcd_from_binary(n))
  BY <1>1, BcdOf, TheSome
<1>3. (n = 0 <=> b = 0) /\ (n = 1 <=> b = 1) /\ b \in Nat
  BY <1>1
<1> QED
  BY <1>2, <1>3

LEMMA BcdOrder ==
  ASSUME NEW a \in Bcd, NEW b \in Bcd
  PROVE  (a < b <=> as_binary(a) < as_binary(b)) /\ (a = b <=> as_binary(a) = as_binary(b))
<1>1. PICK m \in 0 .. 153 : a = (m \div 10) * 16 + (m % 10)
  BY DEF Bcd
<1>2. PICK n \in 0 .. 153 : b = (n \div 10) * 16 + (n % 10)
  BY DEF Bcd
<1>3. as_binary(a) = m /\ as_binary(b) = n
  BY <1>1, <1>2, BcdOf, TheSome
<1>4. (a < b <=> m < n) /\ (a = b <=> m = n)
  BY <1>1, <1>2
<1> QED
  BY <1>3, <1>4

\* The arithmetic of minutes, seconds and frames.
Sum(a, b, c) == 4500 * a + 75 * b + c

LEMMA SumIs ==
  ASSUME NEW a, NEW b, NEW c,
         a \in 0 .. 153, b \in 0 .. 153, c \in 0 .. 153
  PROVE  Sum(a, b, c) \in Nat /\ Sum(a, b, c) <= 4500 * 153 + 75 * 153 + 153
BY SMT DEF Sum

LEMMA SumNear ==
  ASSUME NEW a, NEW b, NEW c,
         a \in Nat, b \in 0 .. 59, c \in 0 .. 74, Sum(a, b, c) < Reach
  PROVE  /\ a \in 0 .. 99
         /\ Sum(a, b, c) = Reach - 1 <=> a = 99 /\ b = 59 /\ c = 74
         /\ Sum(a, b, c) + 1 = IF c < 74 THEN Sum(a, b, c + 1)
                              ELSE IF b < 59 THEN Sum(a, b + 1, 0) ELSE Sum(a + 1, 0, 0)
BY SMT DEF Sum, Reach

LEMMA SumDigits ==
  ASSUME NEW a, NEW b, NEW c, NEW s,
         a \in Nat, b \in 0 .. 59, c \in 0 .. 74, s \in Nat, s = Sum(a, b, c)
  PROVE  s \div 4500 = a /\ (s % 4500) \div 75 = b /\ s % 75 = c
<1>1. s = 4500 * a + (75 * b + c) /\ 75 * b + c \in 0 .. 4499
  BY SMT DEF Sum
<1>2. s \div 4500 = a /\ s % 4500 = 75 * b + c
  BY <1>1, SMT
<1>3. (75 * b + c) \div 75 = b
  BY SMT
<1>4. s = 75 * (60 * a + b) + c
  BY SMT DEF Sum
<1>5. s % 75 = c
  BY <1>4, SMT
<1> QED
  BY <1>2, <1>3, <1>5

LEMMA DigitsSum ==
  ASSUME NEW s \in Nat
  PROVE  /\ s = Sum(s \div 4500, (s % 4500) \div 75, s % 75)
         /\ s \div 4500 \in Nat /\ (s % 4500) \div 75 \in 0 .. 59 /\ s % 75 \in 0 .. 74
<1> DEFINE r == s % 4500
<1>1. s = 4500 * (s \div 4500) + r /\ r \in 0 .. 4499 /\ r \in Nat /\ s \div 4500 \in Nat
  BY SMT
<1>2. s % 75 = r % 75
  BY SMT
<1> HIDE DEF r
<1>3. r = 75 * (r \div 75) + (r % 75) /\ r \div 75 \in 0 .. 59 /\ r % 75 \in 0 .. 74
  BY <1>1, SMT
<1> QED
  BY <1>1, <1>2, <1>3, SMT DEF Sum, r

LEMMA SectorOf ==
  ASSUME NEW m \in MsfType
  PROVE  sector(m) \in Nat /\ sector(m) <= 4500 * 153 + 75 * 153 + 153
<1>1. as_binary(m.min) \in 0 .. 153 /\ as_binary(m.sec) \in 0 .. 153 /\ as_binary(m.frame) \in 0 .. 153
  BY BcdIs DEF MsfType
<1>2. sector(m) = Sum(as_binary(m.min), as_binary(m.sec), as_binary(m.frame))
  BY DEF sector, Sum
<1> QED
  BY <1>1, <1>2, SumIs

LEMMA FromSectorType ==
  ASSUME NEW s \in Int, from_sector(s) # None
  PROVE  The(from_sector(s)) \in MsfType
<1> DEFINE q == (s \div 4500) % 256
           u == (s % 4500) \div 75
           v == s % 75
           m == MsfOf(The(bcd_from_binary(q)), The(bcd_from_binary(u)), The(bcd_from_binary(v)))
<1>1. q \in 0 .. 255 /\ u \in 0 .. 59 /\ v \in 0 .. 74
  OBVIOUS
<1> HIDE DEF q, u, v
<1>2. bcd_from_binary(q) # None
  BY DEF from_sector, q
<1>3. q \in 0 .. 153
  BY <1>1, <1>2 DEF bcd_from_binary
<1>4. from_sector(s) = Some(m)
  BY <1>2 DEF from_sector, q, u, v
<1>5. m \in MsfType
  BY <1>1, <1>3, BcdOf DEF MsfType, MsfOf
<1> HIDE DEF m
<1> QED
  BY <1>4, <1>5, TheSome

\* What from_sector makes of a sector below 154 minutes.
Minute(s) == s \div 4500
Second(s) == (s % 4500) \div 75
Frame(s) == s % 75
Position(s) == MsfOf(The(bcd_from_binary(Minute(s))), The(bcd_from_binary(Second(s))),
                     The(bcd_from_binary(Frame(s))))

LEMMA Digits ==
  ASSUME NEW s \in Nat, s < Far
  PROVE  /\ Minute(s) \in 0 .. 153 /\ Second(s) \in 0 .. 59 /\ Frame(s) \in 0 .. 74
         /\ s = Sum(Minute(s), Second(s), Frame(s))
<1>1. s \div 4500 < 154
  BY SMT DEF Far
<1>2. s \div 4500 \in 0 .. 153
  BY <1>1, DigitsSum
<1> QED
  BY <1>2, DigitsSum DEF Minute, Second, Frame

LEMMA Limits == Reach \in Nat /\ Far \in Nat /\ Reach < Far /\ 450 < Reach
BY SMT DEF Reach, Far

LEMMA FromSector ==
  ASSUME NEW s \in Nat, s < Far
  PROVE  /\ from_sector(s) = Some(Position(s)) /\ from_sector(s) # None
         /\ The(from_sector(s)) = Position(s)
         /\ Position(s) \in MsfType /\ sector(Position(s)) = s
<1>1. Minute(s) % 256 = Minute(s)
  BY Digits
<1>2. bcd_from_binary(Minute(s)) # None
  <2>1. Minute(s) \in 0 .. 153
    BY Digits
  <2> QED
    BY <2>1, BcdOf
<1>3. from_sector(s) = Some(Position(s))
  BY <1>1, <1>2 DEF from_sector, Position, Minute, Second, Frame
<1>4. Position(s) \in MsfType
  <2>1. Minute(s) \in 0 .. 153 /\ Second(s) \in 0 .. 153 /\ Frame(s) \in 0 .. 153
    BY Digits
  <2> QED
    BY <2>1, BcdOf DEF MsfType, MsfOf, Position
<1>5. sector(Position(s)) = s
  <2>1. Minute(s) \in 0 .. 153 /\ Second(s) \in 0 .. 153 /\ Frame(s) \in 0 .. 153
    BY Digits
  <2>2. /\ as_binary(Position(s).min) = Minute(s) /\ as_binary(Position(s).sec) = Second(s)
        /\ as_binary(Position(s).frame) = Frame(s)
    BY <2>1, BcdOf DEF MsfOf, Position
  <2> QED
    BY <2>2, Digits DEF sector, Sum
<1> QED
  BY <1>3, <1>4, <1>5, TheSome

LEMMA NextSector ==
  ASSUME NEW s \in 0 .. Reach - 1
  PROVE  next_sector(Position(s)) = IF s = Reach - 1 THEN None ELSE Some(Position(s + 1))
<1> DEFINE m == Minute(s)
           u == Second(s)
           v == Frame(s)
           p == Position(s)
           B(n) == The(bcd_from_binary(n))
<1>0. s \in Nat /\ s < Far /\ s < Reach /\ s + 1 \in Nat
  BY Limits
<1>1. m \in 0 .. 99 /\ u \in 0 .. 59 /\ v \in 0 .. 74 /\ s = Sum(m, u, v)
  <2>1. m \in 0 .. 153 /\ u \in 0 .. 59 /\ v \in 0 .. 74 /\ s = Sum(m, u, v)
    BY <1>0, Digits
  <2> HIDE DEF m, u, v
  <2>2. m \in Nat /\ Sum(m, u, v) < Reach
    BY <1>0, <2>1
  <2> QED
    BY <2>1, <2>2, SumNear
<1>2. p = [min |-> B(m), sec |-> B(u), frame |-> B(v)]
  BY DEF Position, MsfOf
<1>3. /\ as_binary(p.min) = m /\ as_binary(p.sec) = u /\ as_binary(p.frame) = v
  <2> HIDE DEF m, u, v
  <2>1. as_binary(B(m)) = m /\ as_binary(B(u)) = u /\ as_binary(B(v)) = v
    BY <1>1, BcdOf
  <2> QED
    BY <1>2, <2>1
<1>4. ASSUME NEW n \in 0 .. 99 PROVE bcd_add(B(n), 1) = B(n + 1)
  <2>1. as_binary(B(n)) = n /\ as_binary(1) = 1
    BY BcdOf DEF as_binary
  <2> QED
    BY <2>1 DEF bcd_add
<1>5. ASSUME NEW a \in 0 .. 99, NEW b \in 0 .. 59, NEW c \in 0 .. 74, s + 1 = Sum(a, b, c)
      PROVE  Position(s + 1) = MsfOf(B(a), B(b), B(c))
  <2>1. Minute(s + 1) = a /\ Second(s + 1) = b /\ Frame(s + 1) = c
    <3>1. s + 1 \in Nat /\ a \in Nat
      BY <1>0
    <3> QED
      BY <3>1, <1>5, SumDigits DEF Minute, Second, Frame
  <2> QED
    BY <2>1 DEF Position
<1>6. B(0) = 0
  <2>1. bcd_from_binary(0) = Some(0)
    BY DEF bcd_from_binary
  <2> QED
    BY <2>1, TheSome
<1> HIDE DEF m, u, v, B
<1>10. /\ s = Reach - 1 <=> m = 99 /\ u = 59 /\ v = 74
       /\ s + 1 = IF v < 74 THEN Sum(m, u, v + 1) ELSE IF u < 59 THEN Sum(m, u + 1, 0) ELSE Sum(m + 1, 0, 0)
  <2>1. m \in Nat /\ Sum(m, u, v) < Reach
    BY <1>0, <1>1
  <2> QED
    BY <1>1, <2>1, SumNear
<1>7. CASE v < 74
  <2>1. Position(s + 1) = MsfOf(B(m), B(u), B(v + 1)) /\ s # Reach - 1
    <3>1. s + 1 = Sum(m, u, v + 1) /\ v + 1 \in 0 .. 74 /\ s # Reach - 1
      BY <1>1, <1>7, <1>10
    <3> QED
      BY <1>1, <1>5, <3>1
  <2>2. next_sector(p) = Some([p EXCEPT !.frame = bcd_add(@, 1)])
    BY <1>3, <1>7 DEF next_sector
  <2>3. bcd_add(B(v), 1) = B(v + 1)
    BY <1>1, <1>4
  <2>4. [p EXCEPT !.frame = bcd_add(@, 1)] = MsfOf(B(m), B(u), B(v + 1))
    BY <1>2, <2>3 DEF MsfOf
  <2> QED
    BY <2>1, <2>2, <2>4
<1>8. CASE v = 74 /\ u < 59
  <2>1. Position(s + 1) = MsfOf(B(m), B(u + 1), B(0)) /\ s # Reach - 1
    <3>1. s + 1 = Sum(m, u + 1, 0) /\ u + 1 \in 0 .. 59 /\ s # Reach - 1
      BY <1>1, <1>8, <1>10
    <3> QED
      <4>1. m \in 0 .. 99 /\ u + 1 \in 0 .. 59 /\ 0 \in 0 .. 74
        BY <1>1, <3>1
      <4> QED
        BY <1>5, <3>1, <4>1
  <2>2. next_sector(p) = Some(MsfOf(p.min, bcd_add(p.sec, 1), 0))
    BY <1>3, <1>8 DEF next_sector
  <2>3. bcd_add(B(u), 1) = B(u + 1)
    BY <1>1, <1>4
  <2> QED
    BY <1>2, <1>6, <2>1, <2>2, <2>3 DEF MsfOf
<1>9. CASE v = 74 /\ u = 59
  <2>1. CASE m < 99
    <3>1. Position(s + 1) = MsfOf(B(m + 1), B(0), B(0)) /\ s # Reach - 1
      <4>1. s + 1 = Sum(m + 1, 0, 0) /\ m + 1 \in 0 .. 99 /\ s # Reach - 1
        BY <1>1, <1>9, <2>1, <1>10
      <4> QED
        <5>1. m + 1 \in 0 .. 99 /\ 0 \in 0 .. 59 /\ 0 \in 0 .. 74
          BY <1>1, <4>1
        <5> QED
          BY <1>5, <4>1, <5>1
    <3>2. next_sector(p) = Some(MsfOf(bcd_add(p.min, 1), 0, 0))
      BY <1>3, <1>9, <2>1 DEF next_sector
    <3>3. bcd_add(B(m), 1) = B(m + 1)
      BY <1>1, <1>4
    <3> QED
      BY <1>2, <1>6, <3>1, <3>2, <3>3 DEF MsfOf
  <2>2. CASE m = 99
    <3>1. s = Reach - 1
      BY <1>1, <1>9, <2>2, <1>10
    <3> QED
      BY <1>3, <1>9, <2>2, <3>1 DEF next_sector
  <2> QED
    BY <1>1, <2>1, <2>2
<1> QED
  BY <1>1, <1>7, <1>8, <1>9

LEMMA Reaches ==
  ASSUME NEW S, NEW n \in Nat, NEW f, f[0] \in S, \A k \in 1 .. n : f[k - 1] \in S => f[k] \in S
  PROVE  \A k \in 0 .. n : f[k] \in S
<1> DEFINE T == {k \in Nat : k <= n => f[k] \in S}
<1>1. 0 \in T
  OBVIOUS
<1>2. ASSUME NEW k \in T PROVE k + 1 \in T
  <2>1. k \in Nat /\ k + 1 \in Nat /\ (k + 1) - 1 = k /\ (k + 1 <= n => k <= n /\ k + 1 \in 1 .. n)
    OBVIOUS
  <2> QED
    BY <2>1
<1>3. T \in SUBSET Nat
  OBVIOUS
<1>4. \A k \in Nat : k \in T
  <2> HIDE DEF T
  <2> QED
    BY <1>1, <1>2, <1>3, SetInduction
<1> QED
  BY <1>4

-----------------------------------------------------------------------------
(***************************************************************************)
(* The search (DiscIndex).                                                 *)
(***************************************************************************)
\* The order of a vector's elements and what is sought: smaller ones first.
Ordered(n, order) ==
  /\ \A i \in 0 .. n - 1 : order[i] \in {Less, Equal, Greater}
  /\ \A i, j \in 0 .. n - 1 : i < j => /\ order[j] = Less => order[i] = Less
                                       /\ order[i] = Greater => order[j] = Greater

\* The state of a search: what is sought is from l up to r.
Narrowed(n, order, s) ==
  /\ s \in Probes(n) /\ s.l <= s.r
  /\ s.ok => s.l < s.r /\ order[s.l] = Equal
  /\ ~s.ok => /\ \A i \in 0 .. n - 1 : i < s.l => order[i] = Less
              /\ \A i \in 0 .. n - 1 : i >= s.r => order[i] = Greater

\* The search does not stop at the first element if it may at the second.
Later(n, order, s) ==
  n >= 2 /\ order[1] = Equal => (s.l = 0 => ~s.ok /\ s.r >= 2)

Probe(order, s) ==
  LET mid == s.l + (s.r - s.l) \div 2
  IN  IF s.ok \/ s.l >= s.r THEN s
      ELSE CASE order[mid] = Less    -> [l |-> mid + 1, r |-> s.r, ok |-> FALSE]
             [] order[mid] = Greater -> [l |-> s.l, r |-> mid, ok |-> FALSE]
             [] order[mid] = Equal   -> [l |-> mid, r |-> s.r, ok |-> TRUE]

LEMMA ProbeNarrows ==
  ASSUME NEW n \in Nat, NEW order, Ordered(n, order), NEW s, Narrowed(n, order, s)
  PROVE  LET t == Probe(order, s)
         IN  /\ Narrowed(n, order, t) /\ (Later(n, order, s) => Later(n, order, t))
             /\ t.ok \/ t.l = t.r \/ t.r - t.l < s.r - s.l
<1> DEFINE mid == s.l + (s.r - s.l) \div 2
           t == Probe(order, s)
<1>1. s.l \in 0 .. n /\ s.r \in 0 .. n /\ s.ok \in BOOLEAN /\ s.l <= s.r
      /\ s = [l |-> s.l, r |-> s.r, ok |-> s.ok]
  BY DEF Narrowed, Probes
<1>2. CASE s.ok \/ s.l >= s.r
  <2>1. t = s
    BY <1>2 DEF Probe
  <2> QED
    BY <1>1, <1>2, <2>1
<1>3. CASE ~(s.ok \/ s.l >= s.r)
  <2>1. mid \in 0 .. n - 1 /\ s.l <= mid /\ mid < s.r /\ (s.l = 0 /\ s.r >= 2 => mid >= 1)
    BY <1>1, <1>3
  <2> DEFINE m == mid
  <2>2. t = CASE order[m] = Less    -> [l |-> m + 1, r |-> s.r, ok |-> FALSE]
              [] order[m] = Greater -> [l |-> s.l, r |-> m, ok |-> FALSE]
              [] order[m] = Equal   -> [l |-> m, r |-> s.r, ok |-> TRUE]
    BY <1>3 DEF Probe
  <2> HIDE DEF m, t
  <2> DEFINE Goal == /\ Narrowed(n, order, t) /\ (Later(n, order, s) => Later(n, order, t))
                     /\ t.ok \/ t.l = t.r \/ t.r - t.l < s.r - s.l
  <2>3. m \in 0 .. n - 1 /\ s.l <= m /\ m < s.r /\ (s.l = 0 /\ s.r >= 2 => m >= 1)
    BY <2>1 DEF m
  <2>4. ASSUME order[m] = Less PROVE Goal
    <3>1. t = [l |-> m + 1, r |-> s.r, ok |-> FALSE]
      BY <2>2, <2>4 DEF Less, Greater, Equal
    <3>2. \A i \in 0 .. n - 1 : i < m + 1 => order[i] = Less
      <4>1. \A i \in 0 .. n - 1 : i < m => order[i] = Less
        BY <2>3, <2>4 DEF Ordered
      <4>2. \A i \in 0 .. n - 1 : i < m + 1 => i < m \/ i = m
        BY <2>3
      <4> QED
        BY <2>4, <4>1, <4>2
    <3>3. \A i \in 0 .. n - 1 : i >= s.r => order[i] = Greater
      BY <1>3 DEF Narrowed
    <3>4. Narrowed(n, order, t)
      BY <1>1, <2>3, <3>1, <3>2, <3>3 DEF Narrowed, Probes
    <3> QED
      BY <1>1, <2>3, <3>1, <3>4 DEF Later
  <2>5. ASSUME order[m] = Greater PROVE Goal
    <3>1. t = [l |-> s.l, r |-> m, ok |-> FALSE]
      BY <2>2, <2>5 DEF Less, Greater, Equal
    <3>2. \A i \in 0 .. n - 1 : i >= m => order[i] = Greater
      <4>1. \A i \in 0 .. n - 1 : i > m => order[i] = Greater
        BY <2>3, <2>5 DEF Ordered
      <4>2. \A i \in 0 .. n - 1 : i >= m => i > m \/ i = m
        BY <2>3
      <4> QED
        BY <2>5, <4>1, <4>2
    <3>3. \A i \in 0 .. n - 1 : i < s.l => order[i] = Less
      BY <1>3 DEF Narrowed
    <3>4. Narrowed(n, order, t)
      BY <1>1, <2>3, <3>1, <3>2, <3>3 DEF Narrowed, Probes
    <3>5. Later(n, order, s) => Later(n, order, t)
      <4>1. order[1] = Equal => m # 1
        BY <2>5 DEF Less, Greater, Equal
      <4> QED
        BY <1>1, <2>3, <3>1, <4>1 DEF Later
    <3> QED
      BY <1>1, <2>3, <3>1, <3>4, <3>5
  <2>6. ASSUME order[m] = Equal PROVE Goal
    <3>1. t = [l |-> m, r |-> s.r, ok |-> TRUE]
      BY <2>2, <2>6 DEF Less, Greater, Equal
    <3>2. Narrowed(n, order, t)
      BY <1>1, <2>3, <2>6, <3>1 DEF Narrowed, Probes
    <3> QED
      BY <1>1, <2>3, <3>1, <3>2 DEF Later
  <2>7. Goal
    <3> HIDE DEF Goal
    <3> QED
      BY <2>3, <2>4, <2>5, <2>6 DEF Ordered
  <2> QED
    BY <2>7 DEF t
<1> QED
  BY <1>2, <1>3

\* What a search finds.
Found(n, order, found) ==
  /\ found.ok \in BOOLEAN /\ found.at \in 0 .. n
  /\ found.ok => /\ found.at \in 0 .. n - 1 /\ order[found.at] = Equal
                 /\ n >= 2 /\ order[1] = Equal => found.at # 0
  /\ ~found.ok => \A i \in 0 .. n - 1 : IF i < found.at THEN order[i] = Less ELSE order[i] = Greater

LEMMA Search ==
  ASSUME NEW n \in Nat, NEW order, Ordered(n, order)
  PROVE  Found(n, order, binary_search(n, order))
<1> DEFINE start == [l |-> 0, r |-> n, ok |-> FALSE]
           probe == [s \in Probes(n) |-> Probe(order, s)]
           F == CHOOSE f : f = [k \in 0 .. n |-> IF k = 0 THEN start ELSE probe[f[k - 1]]]
           S == {s \in Probes(n) : Narrowed(n, order, s) /\ Later(n, order, s)}
<1>1. binary_search(n, order) = [ok |-> F[n].ok, at |-> F[n].l]
  BY DEF binary_search, Probe
<1>2. start \in S
  <2>1. start \in Probes(n)
    BY DEF Probes
  <2>2. Narrowed(n, order, start)
    BY <2>1 DEF Narrowed
  <2>3. Later(n, order, start)
    BY DEF Later
  <2> QED
    BY <2>1, <2>2, <2>3
<1>3. ASSUME NEW s \in S
      PROVE  probe[s] \in S /\ (probe[s].ok \/ probe[s].l = probe[s].r \/ probe[s].r - probe[s].l < s.r - s.l)
  <2>1. probe[s] = Probe(order, s)
    OBVIOUS
  <2>2. Narrowed(n, order, probe[s]) => probe[s] \in Probes(n)
    BY DEF Narrowed
  <2> QED
    BY <2>1, <2>2, ProbeNarrows
<1> HIDE DEF start, probe
<1>4. F = [k \in 0 .. n |-> IF k = 0 THEN start ELSE probe[F[k - 1]]]
  <2> DEFINE step == [q \in (1 .. n) \X S |-> probe[q[2]]]
  <2>1. step \in [(1 .. n) \X S -> S]
    BY <1>3
  <2>2. \A i \in 1 .. n, s \in S : step[<<i, s>>] = probe[s]
    OBVIOUS
  <2> HIDE DEF step, S
  <2>3. PICK f : Recursion(f, S, step, start, n)
    BY <1>2, <2>1, Recursed
  <2>4. f \in [0 .. n -> S] /\ f[0] = start /\ \A i \in 1 .. n : f[i] = step[<<i, f[i - 1]>>]
    BY <2>3 DEF Recursion
  <2>5. ASSUME NEW k \in 0 .. n PROVE f[k] = IF k = 0 THEN start ELSE probe[f[k - 1]]
    <3>1. CASE k # 0
      <4>1. k \in 1 .. n /\ k - 1 \in 0 .. n
        BY <3>1
      <4> QED
        BY <2>2, <2>4, <3>1, <4>1
    <3> QED
      BY <2>4, <3>1
  <2>6. f = [k \in 0 .. n |-> IF k = 0 THEN start ELSE probe[f[k - 1]]]
    BY <2>4, <2>5
  <2> QED
    BY <2>6, Zenon
<1> HIDE DEF F
<1>5. F[0] = start /\ \A k \in 1 .. n : F[k] = probe[F[k - 1]]
  <2>1. ASSUME NEW k \in 1 .. n PROVE F[k] = probe[F[k - 1]]
    <3>1. k \in 0 .. n /\ k # 0
      OBVIOUS
    <3> QED
      BY <1>4, <3>1
  <2>2. 0 \in 0 .. n
    OBVIOUS
  <2> QED
    BY <1>4, <2>1, <2>2
<1>6. \A k \in 0 .. n : F[k] \in S
  <2> HIDE DEF S
  <2>1. \A k \in 1 .. n : F[k - 1] \in S => F[k] \in S
    BY <1>3, <1>5
  <2>2. F[0] \in S
    BY <1>2, <1>5
  <2> QED
    BY <2>1, <2>2, Reaches
<1>7. ASSUME NEW s \in S PROVE s.l \in 0 .. n /\ s.r \in 0 .. n /\ s.l <= s.r
  BY DEF Narrowed, Probes
<1> DEFINE T == {k \in Nat : k <= n => F[k].ok \/ F[k].l = F[k].r \/ F[k].r - F[k].l <= n - k}
<1>8. n \in T
  <2>1. 0 \in T
    BY <1>5 DEF start
  <2>2. ASSUME NEW k \in T PROVE k + 1 \in T
    <3> SUFFICES ASSUME k + 1 <= n
                 PROVE  F[k + 1].ok \/ F[k + 1].l = F[k + 1].r \/ F[k + 1].r - F[k + 1].l <= n - (k + 1)
      OBVIOUS
    <3>1. k \in 0 .. n /\ k + 1 \in 1 .. n /\ k + 1 \in 0 .. n /\ (k + 1) - 1 = k
      OBVIOUS
    <3> DEFINE s == F[k]
               t == F[k + 1]
    <3>2. t = probe[s] /\ s \in S /\ t \in S
      BY <1>5, <1>6, <3>1
    <3>3. t.ok \/ t.l = t.r \/ t.r - t.l < s.r - s.l
      BY <1>3, <3>2
    <3>4. s.ok \/ s.l = s.r \/ s.r - s.l <= n - k
      BY <3>1
    <3>5. s.ok \/ s.l = s.r => t = s
      <4>1. s.ok \/ s.l = s.r => Probe(order, s) = s
        BY <1>7, <3>2 DEF Probe
      <4> QED
        BY <3>2, <4>1 DEF probe
    <3>6. s.l \in 0 .. n /\ s.r \in 0 .. n /\ t.l \in 0 .. n /\ t.r \in 0 .. n
      BY <1>7, <3>2
    <3> HIDE DEF s, t
    <3>7. t.ok \/ t.l = t.r \/ t.r - t.l <= n - (k + 1)
      BY <3>1, <3>3, <3>4, <3>5, <3>6
    <3> QED
      BY <3>7 DEF t
  <2>3. T \in SUBSET Nat
    OBVIOUS
  <2> HIDE DEF T
  <2> QED
    BY <2>1, <2>2, <2>3, SetInduction
<1>9. F[n] \in S /\ (F[n].ok \/ F[n].l = F[n].r)
  <2>1. F[n] \in S
    BY <1>6
  <2>2. F[n].ok \/ F[n].l = F[n].r \/ F[n].r - F[n].l <= 0
    BY <1>8
  <2> QED
    BY <1>7, <2>1, <2>2
<1> DEFINE s == F[n]
<1>10. s \in S /\ (s.ok \/ s.l = s.r)
  BY <1>9
<1> HIDE DEF s
<1>11. Found(n, order, [ok |-> s.ok, at |-> s.l])
  <2>1. /\ s.l \in 0 .. n /\ s.r \in 0 .. n /\ s.ok \in BOOLEAN /\ Narrowed(n, order, s) /\ Later(n, order, s)
    BY <1>10 DEF Probes
  <2>2. CASE s.ok
    <3>1. s.l \in 0 .. n - 1 /\ order[s.l] = Equal
      BY <2>1, <2>2 DEF Narrowed
    <3>2. n >= 2 /\ order[1] = Equal => s.l # 0
      BY <2>1, <2>2 DEF Later
    <3> QED
      BY <2>1, <2>2, <3>1, <3>2 DEF Found
  <2>3. CASE ~s.ok
    <3>1. \A i \in 0 .. n - 1 : IF i < s.l THEN order[i] = Less ELSE order[i] = Greater
      BY <1>10, <2>1, <2>3 DEF Narrowed
    <3> QED
      BY <2>1, <2>3, <3>1 DEF Found
  <2> QED
    BY <2>1, <2>2, <2>3
<1> QED
  BY <1>1, <1>11 DEF s

-----------------------------------------------------------------------------
(***************************************************************************)
(* Sorting (DiscIndex).                                                    *)
(***************************************************************************)
\* A vector of n indices has a sector in each.
HasSectors(n, indices) == DOMAIN indices = 1 .. n /\ \A i \in 1 .. n : indices[i].sector \in Nat

InOrder(n, indices, order) ==
  order \in [1 .. n -> 1 .. n] /\ \A a, b \in 1 .. n : a < b => before(indices, order[a], order[b])

LEMMA Insert ==
  ASSUME NEW n \in Nat, NEW indices, HasSectors(n, indices), NEW m \in Nat, m + 1 <= n,
         NEW order, InOrder(m, indices, order)
  PROVE  \E g : InOrder(m + 1, indices, g)
<1> DEFINE S(i) == indices[i].sector
           T == {q \in 0 .. m : \A a \in 1 .. m : a > q => S(order[a]) > S(m + 1)}
<1>1. \A i \in 1 .. m + 1 : S(i) \in Nat
  BY DEF HasSectors
<1>2. order \in [1 .. m -> 1 .. m] /\ \A a, b \in 1 .. m : a < b => before(indices, order[a], order[b])
  BY DEF InOrder
<1>3. PICK q \in T : \A p \in T : q <= p
  <2>1. m \in T
    OBVIOUS
  <2>2. T \in SUBSET Nat
    OBVIOUS
  <2> HIDE DEF T
  <2> QED
    BY <2>1, <2>2, LeastNat
<1>4. q \in 0 .. m /\ \A a \in 1 .. m : a > q => S(order[a]) > S(m + 1)
  BY <1>3
<1>5. ASSUME q > 0 PROVE S(order[q]) <= S(m + 1)
  <2>1. q - 1 \in 0 .. m /\ q - 1 \notin T /\ q \in 1 .. m
    BY <1>3, <1>4, <1>5
  <2>2. PICK a \in 1 .. m : a > q - 1 /\ ~(S(order[a]) > S(m + 1))
    BY <2>1
  <2>3. a = q
    BY <1>4, <2>1, <2>2
  <2>4. order[q] \in 1 .. m + 1 /\ m + 1 \in 1 .. m + 1
    BY <1>2, <2>1
  <2> QED
    BY <1>1, <2>2, <2>3, <2>4
<1>6. \A a \in 1 .. m : a <= q => S(order[a]) <= S(m + 1)
  <2> SUFFICES ASSUME NEW a \in 1 .. m, a <= q PROVE S(order[a]) <= S(m + 1)
    OBVIOUS
  <2>1. order[a] \in 1 .. m + 1 /\ q \in 1 .. m /\ order[q] \in 1 .. m + 1 /\ m + 1 \in 1 .. m + 1 /\ q > 0
    BY <1>2, <1>4
  <2>2. CASE a = q
    BY <1>5, <2>1, <2>2
  <2>3. CASE a # q
    <3>1. a < q
      BY <1>4, <2>3
    <3>2. before(indices, order[a], order[q])
      BY <1>2, <2>1, <3>1
    <3>3. S(order[a]) <= S(order[q])
      BY <1>1, <2>1, <3>2 DEF before
    <3> QED
      BY <1>1, <1>5, <2>1, <3>3
  <2> QED
    BY <2>2, <2>3
<1> DEFINE g == [i \in 1 .. m + 1 |-> IF i <= q THEN order[i] ELSE IF i = q + 1 THEN m + 1 ELSE order[i - 1]]
<1>7. ASSUME NEW i \in 1 .. m + 1
      PROVE  /\ i <= q => i \in 1 .. m /\ g[i] = order[i]
             /\ i = q + 1 => g[i] = m + 1
             /\ i > q + 1 => i - 1 \in 1 .. m /\ i - 1 > q /\ g[i] = order[i - 1]
             /\ i <= q \/ i = q + 1 \/ i > q + 1
  BY <1>4
<1>8. g \in [1 .. m + 1 -> 1 .. m + 1]
  <2>1. \A i \in 1 .. m + 1 : (IF i <= q THEN order[i] ELSE IF i = q + 1 THEN m + 1 ELSE order[i - 1]) \in 1 .. m + 1
    <3> SUFFICES ASSUME NEW i \in 1 .. m + 1
                 PROVE  (IF i <= q THEN order[i] ELSE IF i = q + 1 THEN m + 1 ELSE order[i - 1]) \in 1 .. m + 1
      OBVIOUS
    <3>1. (i <= q => order[i] \in 1 .. m) /\ (i > q + 1 => order[i - 1] \in 1 .. m)
      BY <1>2, <1>7
    <3> QED
      BY <1>4, <3>1
  <2> QED
    BY <2>1
<1> HIDE DEF g
<1>9. ASSUME NEW a \in 1 .. m + 1, NEW b \in 1 .. m + 1, a < b
      PROVE  before(indices, g[a], g[b])
  <2>1. CASE b <= q
    <3>1. a <= q
      BY <1>4, <1>9, <2>1
    <3> QED
      BY <1>2, <1>7, <1>9, <2>1, <3>1
  <2>2. CASE b = q + 1
    <3>1. a <= q /\ a \in 1 .. m /\ g[a] = order[a] /\ g[b] = m + 1
      BY <1>4, <1>7, <1>9, <2>2
    <3>2. order[a] \in 1 .. m /\ S(order[a]) <= S(m + 1)
      BY <1>2, <1>6, <3>1
    <3>3. S(order[a]) \in Nat /\ S(m + 1) \in Nat /\ order[a] < m + 1
      BY <1>1, <3>2
    <3> QED
      BY <3>1, <3>2, <3>3 DEF before
  <2>3. CASE b > q + 1
    <3>1. b - 1 \in 1 .. m /\ b - 1 > q /\ g[b] = order[b - 1]
      BY <1>7, <2>3
    <3>2. CASE a <= q
      <4>1. a \in 1 .. m /\ g[a] = order[a] /\ a < b - 1
        BY <1>4, <1>7, <3>1, <3>2
      <4> QED
        BY <1>2, <3>1, <4>1
    <3>3. CASE a = q + 1
      <4>1. S(order[b - 1]) > S(m + 1) /\ g[a] = m + 1
        BY <1>4, <1>7, <3>1, <3>3
      <4>2. order[b - 1] \in 1 .. m
        BY <1>2, <3>1
      <4>3. S(order[b - 1]) \in Nat /\ S(m + 1) \in Nat
        BY <1>1, <4>2
      <4> QED
        BY <3>1, <4>1, <4>3 DEF before
    <3>4. CASE a > q + 1
      <4>1. a - 1 \in 1 .. m /\ g[a] = order[a - 1] /\ a - 1 < b - 1
        BY <1>7, <1>9, <3>4
      <4> QED
        BY <1>2, <3>1, <4>1
    <3> QED
      BY <1>7, <3>2, <3>3, <3>4
  <2> QED
    BY <1>7, <2>1, <2>2, <2>3
<1>10. InOrder(m + 1, indices, g)
  BY <1>8, <1>9 DEF InOrder
<1> QED
  BY <1>10

\* A vector can be sorted, and is.
LEMMA Sorted ==
  ASSUME NEW n \in Nat, NEW indices, HasSectors(n, indices)
  PROVE  InOrder(n, indices, sorted(indices))
<1> DEFINE T == {m \in Nat : m <= n => \E g : InOrder(m, indices, g)}
<1>1. 0 \in T
  <2> DEFINE g == [i \in 1 .. 0 |-> i]
  <2>1. InOrder(0, indices, g)
    BY DEF InOrder
  <2> QED
    BY <2>1
<1>2. ASSUME NEW m \in T PROVE m + 1 \in T
  <2>1. m \in Nat /\ m + 1 \in Nat /\ (m + 1 <= n => m <= n)
    OBVIOUS
  <2> QED
    BY <2>1, Insert
<1>3. T \in SUBSET Nat
  OBVIOUS
<1>4. n \in T
  <2> HIDE DEF T
  <2> QED
    BY <1>1, <1>2, <1>3, SetInduction
<1>5. PICK g : InOrder(n, indices, g)
  BY <1>4
<1>6. DOMAIN indices = 1 .. n
  BY DEF HasSectors
<1>7. \E g_ \in [1 .. n -> 1 .. n] : \A a, b \in 1 .. n : a < b => before(indices, g_[a], g_[b])
  BY <1>5 DEF InOrder
<1>8. sorted(indices) \in [1 .. n -> 1 .. n]
      /\ \A a, b \in 1 .. n : a < b => before(indices, sorted(indices)[a], sorted(indices)[b])
  BY <1>6, <1>7, Zenon DEF sorted
<1> QED
  BY <1>8 DEF InOrder

LEMMA IncreasingIsIdentity ==
  ASSUME NEW n \in Nat, NEW f \in [1 .. n -> 1 .. n], \A a, b \in 1 .. n : a < b => f[a] < f[b]
  PROVE  \A k \in 1 .. n : f[k] = k
<1> DEFINE T == {k \in Nat : k + 1 <= n => f[k + 1] >= k + 1}
           U == {k \in Nat : k <= n - 1 => f[n - k] <= n - k}
<1>1. \A k \in Nat : k \in T
  <2>1. 0 \in T
    OBVIOUS
  <2>2. ASSUME NEW k \in T PROVE k + 1 \in T
    <3>1. k \in Nat /\ k + 1 \in Nat
      OBVIOUS
    <3>2. ASSUME (k + 1) + 1 <= n PROVE f[(k + 1) + 1] >= (k + 1) + 1
      <4>1. k + 1 \in 1 .. n /\ (k + 1) + 1 \in 1 .. n /\ k + 1 < (k + 1) + 1
        BY <3>2
      <4>2. f[k + 1] >= k + 1 /\ f[k + 1] < f[(k + 1) + 1] /\ f[k + 1] \in 1 .. n /\ f[(k + 1) + 1] \in 1 .. n
        BY <4>1
      <4> QED
        BY <3>1, <4>2
    <3> QED
      BY <3>1, <3>2
  <2>3. T \in SUBSET Nat
    OBVIOUS
  <2> HIDE DEF T
  <2> QED
    BY <2>1, <2>2, <2>3, SetInduction
<1>2. \A k \in Nat : k \in U
  <2>1. 0 \in U
    <3>1. ASSUME 0 <= n - 1 PROVE f[n - 0] <= n - 0
      <4>1. n - 0 \in 1 .. n
        BY <3>1
      <4>2. f[n - 0] \in 1 .. n
        BY <4>1
      <4> QED
        BY <4>2
    <3> QED
      BY <3>1
  <2>2. ASSUME NEW k \in U PROVE k + 1 \in U
    <3>1. k \in Nat /\ k + 1 \in Nat
      OBVIOUS
    <3>2. ASSUME k + 1 <= n - 1 PROVE f[n - (k + 1)] <= n - (k + 1)
      <4>1. n - k \in 1 .. n /\ n - (k + 1) \in 1 .. n /\ n - (k + 1) < n - k /\ k <= n - 1
        BY <3>2
      <4>2. f[n - k] <= n - k /\ f[n - (k + 1)] < f[n - k] /\ f[n - k] \in 1 .. n /\ f[n - (k + 1)] \in 1 .. n
        BY <4>1
      <4> QED
        BY <3>1, <4>2
    <3> QED
      BY <3>1, <3>2
  <2>3. U \in SUBSET Nat
    OBVIOUS
  <2> HIDE DEF U
  <2> QED
    BY <2>1, <2>2, <2>3, SetInduction
<1>3. ASSUME NEW k \in 1 .. n PROVE f[k] = k
  <2>1. k - 1 \in Nat /\ n - k \in Nat /\ (k - 1) + 1 = k /\ n - (n - k) = k /\ n - k <= n - 1 /\ k <= n
    OBVIOUS
  <2>2. k - 1 \in T /\ n - k \in U
    BY <1>1, <1>2, <2>1
  <2>3. f[k] >= k /\ f[k] <= k /\ f[k] \in 1 .. n
    BY <2>1, <2>2
  <2> QED
    BY <2>3
<1> QED
  BY <1>3

\* A lookup is sorted by the sector.
IsLookup(lookup) ==
  /\ lookup.len \in Nat /\ DOMAIN lookup.indices = 0 .. lookup.len - 1
  /\ \A i \in 0 .. lookup.len - 1 : lookup.indices[i].sector \in Nat
  /\ \A i, j \in 0 .. lookup.len - 1 : i < j => lookup.indices[i].sector <= lookup.indices[j].sector

LEMMA LookupIsSorted ==
  ASSUME NEW indices, HasSectors(Len(indices), indices), Len(indices) \in Nat, NEW lead_out
  PROVE  /\ IsLookup(IndexLookup(indices, lead_out))
         /\ (\A a, b \in 1 .. Len(indices) : a < b => indices[a].sector <= indices[b].sector) =>
               IndexLookup(indices, lead_out).indices = [i \in 0 .. Len(indices) - 1 |-> indices[i + 1]]
<1> DEFINE n == Len(indices)
           order == sorted(indices)
           lookup == IndexLookup(indices, lead_out)
<1>1. order \in [1 .. n -> 1 .. n] /\ \A a, b \in 1 .. n : a < b => before(indices, order[a], order[b])
  BY Sorted DEF InOrder
<1>2. \A i \in 1 .. n : indices[i].sector \in Nat
  BY DEF HasSectors
<1>3. lookup.len = n /\ lookup.indices = [i \in 0 .. n - 1 |-> indices[order[i + 1]]] /\ n \in Nat
  BY DEF IndexLookup
<1> HIDE DEF n, order, lookup
<1>4. \A i \in 0 .. n - 1 : i + 1 \in 1 .. n /\ order[i + 1] \in 1 .. n
                            /\ lookup.indices[i] = indices[order[i + 1]]
  BY <1>1, <1>3
<1>5. IsLookup(lookup)
  <2>1. ASSUME NEW i \in 0 .. n - 1, NEW j \in 0 .. n - 1, i < j
        PROVE  lookup.indices[i].sector <= lookup.indices[j].sector
    <3>1. i + 1 < j + 1 /\ i + 1 \in 1 .. n /\ j + 1 \in 1 .. n
      BY <1>3, <2>1
    <3>2. before(indices, order[i + 1], order[j + 1])
      BY <1>1, <3>1
    <3>3. indices[order[i + 1]].sector \in Nat /\ indices[order[j + 1]].sector \in Nat
      BY <1>2, <1>4
    <3>4. indices[order[i + 1]].sector <= indices[order[j + 1]].sector
      BY <3>2, <3>3 DEF before
    <3> QED
      BY <1>4, <3>4
  <2>2. \A i \in 0 .. n - 1 : lookup.indices[i].sector \in Nat
    BY <1>2, <1>4
  <2> QED
    BY <1>3, <2>1, <2>2 DEF IsLookup
<1>6. ASSUME \A a, b \in 1 .. n : a < b => indices[a].sector <= indices[b].sector
      PROVE  lookup.indices = [i \in 0 .. n - 1 |-> indices[i + 1]]
  <2>1. ASSUME NEW a \in 1 .. n, NEW b \in 1 .. n, before(indices, a, b) PROVE a < b
    <3>1. CASE b < a
      <4>1. indices[b].sector <= indices[a].sector
        BY <1>6, <3>1
      <4> QED
        BY <1>2, <2>1, <3>1, <4>1 DEF before
    <3>2. CASE b = a
      BY <1>2, <2>1, <3>2 DEF before
    <3> QED
      BY <1>3, <3>1, <3>2
  <2>2. \A a, b \in 1 .. n : a < b => order[a] < order[b]
    BY <1>1, <2>1
  <2>3. \A k \in 1 .. n : order[k] = k
    BY <1>1, <1>3, <2>2, IncreasingIsIdentity
  <2>4. \A i \in 0 .. n - 1 : indices[order[i + 1]] = indices[i + 1]
    BY <1>4, <2>3
  <2> QED
    BY <1>3, <2>4
<1> QED
  BY <1>5, <1>6 DEF n, lookup

-----------------------------------------------------------------------------
(***************************************************************************)
(* Looking up (DiscIndex).                                                 *)
(***************************************************************************)
LEMMA Cmp ==
  ASSUME NEW a \in Int, NEW b \in Int
  PROVE  /\ cmp(a, b) \in {Less, Equal, Greater}
         /\ cmp(a, b) = Less <=> a < b
         /\ cmp(a, b) = Equal <=> a = b
         /\ cmp(a, b) = Greater <=> a > b
BY DEF cmp, Less, Equal, Greater

LEMMA FromMsf ==
  ASSUME NEW lookup, IsLookup(lookup), NEW msf, sector(msf) \in Nat, lookup.lead_out \in Nat
  PROVE  LET found == get_from_msf(lookup, msf)
             i == The(found)
             s == sector(msf)
         IN  /\ found = None <=> s > lookup.lead_out
             /\ found # None => i \in -1 .. lookup.len - 1
             /\ found # None /\ i # -1 =>
                  /\ lookup.indices[i].sector <= s
                  /\ \A j \in 0 .. lookup.len - 1 :
                       lookup.indices[j].sector > lookup.indices[i].sector => lookup.indices[j].sector > s
             /\ found # None /\ lookup.len >= 2 /\ lookup.indices[1].sector <= s => i >= 1
<1> DEFINE n == lookup.len
           s == sector(msf)
           S(i) == lookup.indices[i].sector
           order == [i \in DOMAIN lookup.indices |-> cmp(S(i), s)]
           got == binary_search(n, order)
           at == IF got.ok THEN got.at ELSE got.at - 1
<1>1. n \in Nat /\ s \in Nat /\ DOMAIN lookup.indices = 0 .. n - 1 /\ (\A i \in 0 .. n - 1 : S(i) \in Nat)
      /\ \A i, j \in 0 .. n - 1 : i < j => S(i) <= S(j)
  BY DEF IsLookup
<1>2. get_from_msf(lookup, msf) = IF s > lookup.lead_out THEN None ELSE Some(at)
  BY DEF get_from_msf
<1> HIDE DEF n, s, S
<1>3. \A i \in 0 .. n - 1 : order[i] = cmp(S(i), s)
  BY <1>1
<1>4. \A i \in 0 .. n - 1 : /\ order[i] \in {Less, Equal, Greater}
                            /\ order[i] = Less <=> S(i) < s
                            /\ order[i] = Equal <=> S(i) = s
                            /\ order[i] = Greater <=> S(i) > s
  BY <1>1, <1>3, Cmp
<1> HIDE DEF order
<1>5. Ordered(n, order)
  BY <1>1, <1>4 DEF Ordered
<1>6. Found(n, order, got)
  BY <1>1, <1>5, Search
<1> HIDE DEF got
<1>7. at \in -1 .. n - 1
  BY <1>1, <1>6 DEF Found
<1>8. ASSUME at # -1
      PROVE  S(at) <= s /\ \A j \in 0 .. n - 1 : S(j) > S(at) => S(j) > s
  <2>0. at \in 0 .. n - 1
    <3> HIDE DEF at
    <3> QED
      BY <1>1, <1>7, <1>8
  <2>1. CASE got.ok
    <3>1. at = got.at /\ S(at) = s
      BY <1>4, <1>6, <2>1 DEF Found
    <3> QED
      BY <1>1, <2>0, <3>1
  <2>2. CASE ~got.ok
    <3>1. at = got.at - 1 /\ at < got.at /\ got.at \in 0 .. n
      BY <1>1, <1>6, <2>2 DEF Found
    <3>2. S(at) < s
      BY <1>4, <1>6, <2>0, <2>2, <3>1 DEF Found
    <3>3. ASSUME NEW j \in 0 .. n - 1, S(j) > S(at) PROVE S(j) > s
      <4>1. j > at
        BY <1>1, <2>0, <3>3
      <4>2. ~(j < got.at)
        BY <1>1, <3>1, <4>1
      <4> QED
        BY <1>4, <1>6, <2>2, <4>2 DEF Found
    <3> QED
      BY <1>1, <2>0, <3>2, <3>3
  <2> QED
    BY <2>1, <2>2
<1>9. ASSUME n >= 2, S(1) <= s PROVE at >= 1
  <2>1. 0 \in 0 .. n - 1 /\ 1 \in 0 .. n - 1 /\ S(0) <= S(1)
    BY <1>1, <1>9
  <2>2. CASE got.ok
    <3>1. at = got.at /\ got.at \in 0 .. n - 1 /\ order[at] = Equal
      BY <1>6, <2>2 DEF Found
    <3>2. CASE S(1) = s
      <4>1. order[1] = Equal
        BY <1>4, <2>1, <3>2
      <4> QED
        BY <1>1, <1>6, <1>9, <2>2, <3>1, <4>1 DEF Found
    <3>3. CASE S(1) # s
      <4>1. S(0) < s
        BY <1>1, <1>9, <2>1, <3>3
      <4>2. S(at) = s
        BY <1>4, <3>1
      <4>3. at # 0
        BY <1>1, <2>1, <4>1, <4>2
      <4> QED
        BY <1>1, <3>1, <4>3
    <3> QED
      BY <3>2, <3>3
  <2>3. CASE ~got.ok
    <3>1. at = got.at - 1 /\ got.at \in 0 .. n
      BY <1>6, <2>3 DEF Found
    <3>2. order[1] # Greater
      BY <1>1, <1>4, <1>9, <2>1
    <3>3. 1 < got.at
      BY <1>6, <2>1, <2>3, <3>2 DEF Found
    <3> QED
      BY <1>1, <3>1, <3>3
  <2> QED
    BY <2>2, <2>3
<1>10. /\ get_from_msf(lookup, msf) = None <=> s > lookup.lead_out
       /\ get_from_msf(lookup, msf) # None => The(get_from_msf(lookup, msf)) = at
  BY <1>2, TheSome
<1> HIDE DEF at
<1> QED
  BY <1>7, <1>8, <1>9, <1>10 DEF n, s, S

\* Indices in the order of their tracks and numbers.
ByTrack(lookup) ==
  /\ lookup.len \in Nat /\ DOMAIN lookup.indices = 0 .. lookup.len - 1
  /\ \A i \in 0 .. lookup.len - 1 : lookup.indices[i].track \in Nat /\ lookup.indices[i].index \in Nat
  /\ \A i, j \in 0 .. lookup.len - 1 : i < j =>
       \/ lookup.indices[i].track < lookup.indices[j].track
       \/ /\ lookup.indices[i].track = lookup.indices[j].track
          /\ lookup.indices[i].index < lookup.indices[j].index

LEMMA FromTrack ==
  ASSUME NEW lookup, ByTrack(lookup), NEW track \in Nat, NEW index \in Nat
  PROVE  LET found == get_from_track(lookup, track, index)
             Is(i) == lookup.indices[i].track = track /\ lookup.indices[i].index = index
         IN  /\ found = None <=> \A i \in 0 .. lookup.len - 1 : ~Is(i)
             /\ \A i \in 0 .. lookup.len - 1 : Is(i) => found = Some(i)
<1> DEFINE n == lookup.len
           K(i) == lookup.indices[i].track
           X(i) == lookup.indices[i].index
           Is(i) == K(i) = track /\ X(i) = index
           order_(i) == IF K(i) = track THEN cmp(X(i), index) ELSE cmp(K(i), track)
           order == [i \in DOMAIN lookup.indices |-> order_(i)]
           got == binary_search(n, order)
<1>1. n \in Nat /\ DOMAIN lookup.indices = 0 .. n - 1 /\ (\A i \in 0 .. n - 1 : K(i) \in Nat /\ X(i) \in Nat)
      /\ \A i, j \in 0 .. n - 1 : i < j => K(i) < K(j) \/ (K(i) = K(j) /\ X(i) < X(j))
  BY DEF ByTrack
<1>2. get_from_track(lookup, track, index) = IF got.ok THEN Some(got.at) ELSE None
  BY DEF get_from_track
<1> HIDE DEF n, K, X
<1>3. \A i \in 0 .. n - 1 : order[i] = order_(i)
  BY <1>1
<1>4. \A i \in 0 .. n - 1 : /\ order[i] \in {Less, Equal, Greater}
                            /\ order[i] = Less <=> K(i) < track \/ (K(i) = track /\ X(i) < index)
                            /\ order[i] = Equal <=> Is(i)
                            /\ order[i] = Greater <=> K(i) > track \/ (K(i) = track /\ X(i) > index)
  <2> SUFFICES ASSUME NEW i \in 0 .. n - 1
               PROVE  /\ order_(i) \in {Less, Equal, Greater}
                      /\ order_(i) = Less <=> K(i) < track \/ (K(i) = track /\ X(i) < index)
                      /\ order_(i) = Equal <=> Is(i)
                      /\ order_(i) = Greater <=> K(i) > track \/ (K(i) = track /\ X(i) > index)
    BY <1>3
  <2>1. K(i) \in Nat /\ X(i) \in Nat
    BY <1>1
  <2>2. CASE K(i) = track
    BY <2>1, <2>2, Cmp
  <2>3. CASE K(i) # track
    BY <2>1, <2>3, Cmp
  <2> QED
    BY <2>2, <2>3
<1> HIDE DEF order
<1>5. Ordered(n, order)
  <2>1. ASSUME NEW i \in 0 .. n - 1, NEW j \in 0 .. n - 1, i < j
        PROVE  (order[j] = Less => order[i] = Less) /\ (order[i] = Greater => order[j] = Greater)
    <3>1. K(i) \in Nat /\ X(i) \in Nat /\ K(j) \in Nat /\ X(j) \in Nat
          /\ (K(i) < K(j) \/ (K(i) = K(j) /\ X(i) < X(j)))
      BY <1>1, <2>1
    <3> QED
      BY <1>4, <3>1
  <2> QED
    BY <1>4, <2>1 DEF Ordered
<1>6. Found(n, order, got)
  BY <1>1, <1>5, Search
<1> HIDE DEF got
<1>7. ASSUME NEW i \in 0 .. n - 1, NEW j \in 0 .. n - 1, Is(i), Is(j) PROVE i = j
  BY <1>1, <1>7
<1>8. CASE got.ok
  <2>1. got.at \in 0 .. n - 1 /\ Is(got.at)
    BY <1>4, <1>6, <1>8 DEF Found
  <2>2. get_from_track(lookup, track, index) = Some(got.at) /\ Some(got.at) # None
    BY <1>2, <1>8, TheSome
  <2>3. \A i \in 0 .. n - 1 : Is(i) => i = got.at
    BY <1>7, <2>1
  <2> QED
    BY <2>1, <2>2, <2>3 DEF n, K, X
<1>9. CASE ~got.ok
  <2>1. \A i \in 0 .. n - 1 : ~Is(i)
    <3>1. \A i \in 0 .. n - 1 : order[i] \in {Less, Greater}
      BY <1>6, <1>9 DEF Found
    <3>2. \A i \in 0 .. n - 1 : order[i] # Equal
      BY <3>1 DEF Less, Greater, Equal
    <3> QED
      BY <1>4, <3>2
  <2>2. get_from_track(lookup, track, index) = None
    BY <1>2, <1>9
  <2> QED
    BY <2>1, <2>2 DEF n, K, X
<1> QED
  BY <1>8, <1>9

-----------------------------------------------------------------------------
(***************************************************************************)
(* The sheet (CueSheet).                                                   *)
(***************************************************************************)
TrackType == [num : Bcd, binary : Nat, mode : Modes]
IndexType == [track : Nat, num : Bcd, start : MsfType]

\* Tracks are in the order of their files, and indices in that of their tracks.
SheetOK ==
  /\ sheet \in [files : Seq(Nat), tracks : Seq(TrackType), indices : Seq(IndexType)]
  /\ \A t \in Tracks : sheet.tracks[t].binary \in Files
  /\ \A t, u \in Tracks : t < u => sheet.tracks[t].binary <= sheet.tracks[u].binary
  /\ \A n \in Indices : sheet.indices[n].track \in Tracks
  /\ \A n, m \in Indices : n < m => sheet.indices[n].track <= sheet.indices[m].track

SourceOK == source \in Sheets /\ line \in 0 .. Len(source)

LEMMA InitSheet == DiscInit => SheetOK /\ SourceOK
<1> SUFFICES ASSUME DiscInit PROVE SheetOK /\ SourceOK
  OBVIOUS
<1>1. sheet.files = <<>> /\ sheet.tracks = <<>> /\ sheet.indices = <<>>
      /\ sheet \in [files : Seq(Nat), tracks : Seq(TrackType), indices : Seq(IndexType)]
  BY DEF DiscInit, EmptySheet
<1>2. Tracks = {} /\ Indices = {}
  BY <1>1 DEF Tracks, Indices
<1>3. source \in Seq(Lines) /\ line = 0
  BY DiscAssumption DEF DiscInit
<1> QED
  BY <1>1, <1>2, <1>3 DEF SheetOK, SourceOK, DiscInit

LEMMA AppendIs ==
  ASSUME NEW S, NEW q \in Seq(S), NEW x \in S
  PROVE  /\ Append(q, x) \in Seq(S) /\ Len(Append(q, x)) = Len(q) + 1 /\ Len(q) \in Nat
         /\ DOMAIN q = 1 .. Len(q) /\ DOMAIN Append(q, x) = 1 .. Len(q) + 1
         /\ \A i \in 1 .. Len(q) : Append(q, x)[i] = q[i]
         /\ Append(q, x)[Len(q) + 1] = x
OBVIOUS

LEMMA ParseSheet ==
  ASSUME SheetOK, SourceOK, Parse
  PROVE  SheetOK' /\ SourceOK'
<1> DEFINE ln == source[line + 1]
           new == parse_line(sheet, ln)
           F == sheet.files
           T == sheet.tracks
           X == sheet.indices
<1>0. line < Len(source) /\ line' = line + 1 /\ source' = source
  BY DEF Parse
<1>1. source \in Seq(Lines) /\ line + 1 \in 1 .. Len(source)
  BY <1>0, DiscAssumption DEF SourceOK
<1>2. SourceOK' /\ ln \in Lines
  <2>1. line + 1 \in 0 .. Len(source)
    BY <1>1
  <2>2. ln \in Lines
    BY <1>1
  <2> QED
    BY <1>0, <2>1, <2>2 DEF SourceOK
<1>3. /\ F \in Seq(Nat) /\ T \in Seq(TrackType) /\ X \in Seq(IndexType)
      /\ Len(F) \in Nat /\ Len(T) \in Nat /\ Len(X) \in Nat
      /\ DOMAIN F = 1 .. Len(F) /\ DOMAIN T = 1 .. Len(T) /\ DOMAIN X = 1 .. Len(X)
      /\ sheet = [files |-> F, tracks |-> T, indices |-> X]
      /\ \A t \in 1 .. Len(T) : T[t].binary \in 1 .. Len(F)
      /\ \A t, u \in 1 .. Len(T) : t < u => T[t].binary <= T[u].binary
      /\ \A n \in 1 .. Len(X) : X[n].track \in 1 .. Len(T)
      /\ \A n, m \in 1 .. Len(X) : n < m => X[n].track <= X[m].track
  <2>1. sheet \in [files : Seq(Nat), tracks : Seq(TrackType), indices : Seq(IndexType)]
    BY DEF SheetOK
  <2>2. F \in Seq(Nat) /\ T \in Seq(TrackType) /\ X \in Seq(IndexType)
        /\ sheet = [files |-> F, tracks |-> T, indices |-> X]
    BY <2>1
  <2>3. /\ Len(F) \in Nat /\ Len(T) \in Nat /\ Len(X) \in Nat
        /\ DOMAIN F = 1 .. Len(F) /\ DOMAIN T = 1 .. Len(T) /\ DOMAIN X = 1 .. Len(X)
    BY <2>2
  <2> QED
    BY <2>2, <2>3 DEF SheetOK, Files, Tracks, Indices
<1>4. sheet' = sheet \/ sheet' = The(new)
  BY DEF Parse
<1>5. CASE sheet' = sheet
  BY <1>2, <1>5 DEF SheetOK, Files, Tracks, Indices
<1>6. CASE sheet' = The(new) /\ sheet' # sheet
  <2>0. new # None
    BY <1>6 DEF Parse
  <2> DEFINE G == sheet'.files
             U == sheet'.tracks
             Y == sheet'.indices
             Fits(H, V, Z) ==
               /\ H \in Seq(Nat) /\ V \in Seq(TrackType) /\ Z \in Seq(IndexType)
               /\ \A t \in 1 .. Len(V) : V[t].binary \in 1 .. Len(H)
               /\ \A t, u \in 1 .. Len(V) : t < u => V[t].binary <= V[u].binary
               /\ \A n \in 1 .. Len(Z) : Z[n].track \in 1 .. Len(V)
               /\ \A n, m \in 1 .. Len(Z) : n < m => Z[n].track <= Z[m].track
             Result == Fits(G, U, Y) /\ sheet' = [files |-> G, tracks |-> U, indices |-> Y]
  <2>1. ln.cmd \in {"FILE", "TRACK", "INDEX", "REM", "BAD"}
    BY <1>2 DEF Lines
  <2>2. ASSUME ln.cmd = "FILE" PROVE Result
    <3>1. ln.len \in Nat
      BY <1>2, <2>2 DEF Lines
    <3>2. new = Some([sheet EXCEPT !.files = Append(@, ln.len)])
      BY <2>2 DEF parse_line
    <3>3. sheet' = [files |-> Append(F, ln.len), tracks |-> T, indices |-> X]
      BY <1>3, <1>6, <3>2, TheSome
    <3>4. Fits(Append(F, ln.len), T, X)
      <4>1. \A t \in 1 .. Len(T) : T[t].binary \in 1 .. Len(F) + 1
        BY <1>3
      <4> QED
        BY <1>3, <3>1, <4>1, AppendIs
    <3> QED
      BY <3>3, <3>4
  <2>3. ASSUME ln.cmd = "TRACK" PROVE Result
    <3> DEFINE x == [num |-> ln.num, binary |-> Len(F), mode |-> ln.mode]
    <3>1. x \in TrackType
      BY <1>2, <1>3, <2>3 DEF Lines, TrackType
    <3>2. new = Some([sheet EXCEPT !.tracks = Append(@, x)]) /\ Len(F) # 0
      BY <2>0, <2>3 DEF parse_line
    <3> HIDE DEF x
    <3>3. sheet' = [files |-> F, tracks |-> Append(T, x), indices |-> X]
      BY <1>3, <1>6, <3>2, TheSome
    <3>4. x.binary = Len(F) /\ Len(F) \in 1 .. Len(F)
      BY <1>3, <3>2 DEF x
    <3>5. Fits(F, Append(T, x), X)
      <4> DEFINE V == Append(T, x)
      <4>1. V \in Seq(TrackType) /\ Len(V) = Len(T) + 1 /\ (\A i \in 1 .. Len(T) : V[i] = T[i]) /\ V[Len(T) + 1] = x
        BY <1>3, <3>1, AppendIs
      <4> HIDE DEF V
      <4>2. \A t \in 1 .. Len(V) : t \in 1 .. Len(T) \/ t = Len(T) + 1
        BY <1>3, <4>1
      <4>3. \A t \in 1 .. Len(V) : V[t].binary \in 1 .. Len(F)
        BY <1>3, <3>4, <4>1, <4>2
      <4>4. \A t, u \in 1 .. Len(V) : t < u => V[t].binary <= V[u].binary
        <5> SUFFICES ASSUME NEW t \in 1 .. Len(V), NEW u \in 1 .. Len(V), t < u
                     PROVE  V[t].binary <= V[u].binary
          OBVIOUS
        <5>1. t \in 1 .. Len(T) /\ V[t] = T[t] /\ T[t].binary <= Len(F)
          BY <1>3, <4>1, <4>2
        <5>2. u \in 1 .. Len(T) => V[u] = T[u] /\ T[t].binary <= T[u].binary
          BY <1>3, <4>1, <5>1
        <5> QED
          BY <3>4, <4>1, <4>2, <5>1, <5>2
      <4>5. \A n \in 1 .. Len(X) : X[n].track \in 1 .. Len(V)
        BY <1>3, <4>1
      <4> QED
        BY <1>3, <4>1, <4>3, <4>4, <4>5 DEF V
    <3> QED
      BY <3>3, <3>5
  <2>4. ASSUME ln.cmd = "INDEX" PROVE Result
    <3> DEFINE x == [track |-> Len(T), num |-> ln.num, start |-> ln.start]
    <3>1. x \in IndexType
      BY <1>2, <1>3, <2>4 DEF Lines, IndexType, MsfType
    <3>2. new = Some([sheet EXCEPT !.indices = Append(@, x)]) /\ Len(T) # 0
      BY <2>0, <2>4 DEF parse_line
    <3> HIDE DEF x
    <3>3. sheet' = [files |-> F, tracks |-> T, indices |-> Append(X, x)]
      BY <1>3, <1>6, <3>2, TheSome
    <3>4. x.track = Len(T) /\ Len(T) \in 1 .. Len(T)
      BY <1>3, <3>2 DEF x
    <3>5. Fits(F, T, Append(X, x))
      <4> DEFINE V == Append(X, x)
      <4>1. V \in Seq(IndexType) /\ Len(V) = Len(X) + 1 /\ (\A i \in 1 .. Len(X) : V[i] = X[i]) /\ V[Len(X) + 1] = x
        BY <1>3, <3>1, AppendIs
      <4> HIDE DEF V
      <4>2. \A t \in 1 .. Len(V) : t \in 1 .. Len(X) \/ t = Len(X) + 1
        BY <1>3, <4>1
      <4>3. \A t \in 1 .. Len(V) : V[t].track \in 1 .. Len(T)
        BY <1>3, <3>4, <4>1, <4>2
      <4>4. \A t, u \in 1 .. Len(V) : t < u => V[t].track <= V[u].track
        <5> SUFFICES ASSUME NEW t \in 1 .. Len(V), NEW u \in 1 .. Len(V), t < u
                     PROVE  V[t].track <= V[u].track
          OBVIOUS
        <5>1. t \in 1 .. Len(X) /\ V[t] = X[t] /\ X[t].track <= Len(T)
          BY <1>3, <4>1, <4>2
        <5>2. u \in 1 .. Len(X) => V[u] = X[u] /\ X[t].track <= X[u].track
          BY <1>3, <4>1, <5>1
        <5> QED
          BY <3>4, <4>1, <4>2, <5>1, <5>2
      <4> QED
        BY <1>3, <4>1, <4>3, <4>4 DEF V
    <3> QED
      BY <3>3, <3>5
  <2>5. ASSUME ln.cmd = "REM" PROVE Result
    <3>1. new = Some(sheet)
      BY <2>5 DEF parse_line
    <3> QED
      BY <1>3, <1>6, <3>1, TheSome
  <2>6. ASSUME ln.cmd = "BAD" PROVE Result
    BY <2>0, <2>6 DEF parse_line
  <2>7. Fits(G, U, Y) /\ sheet' = [files |-> G, tracks |-> U, indices |-> Y]
    <3> HIDE DEF Result
    <3>1. Result
      BY <2>1, <2>2, <2>3, <2>4, <2>5, <2>6
    <3> QED
      BY <3>1 DEF Result
  <2> HIDE DEF G, U, Y
  <2>8. DOMAIN G = 1 .. Len(G) /\ DOMAIN U = 1 .. Len(U) /\ DOMAIN Y = 1 .. Len(Y)
    BY <2>7
  <2>9. SheetOK'
    <3>1. sheet' \in [files : Seq(Nat), tracks : Seq(TrackType), indices : Seq(IndexType)]
      BY <2>7
    <3> QED
      BY <2>7, <2>8, <3>1 DEF SheetOK, Files, Tracks, Indices, G, U, Y
  <2> QED
    BY <1>2, <2>9
<1> QED
  BY <1>4, <1>5, <1>6

-----------------------------------------------------------------------------
(***************************************************************************)
(* The disc a plain sheet describes (Disc).                                *)
(***************************************************************************)
LEMMA SheetFacts ==
  ASSUME SheetOK
  PROVE  /\ Files = 1 .. Len(sheet.files) /\ Len(sheet.files) \in Nat
         /\ Tracks = 1 .. Len(sheet.tracks) /\ Len(sheet.tracks) \in Nat
         /\ Indices = 1 .. Len(sheet.indices) /\ Len(sheet.indices) \in Nat
         /\ \A f \in Files : sheet.files[f] \in Nat
         /\ \A t \in Tracks : sheet.tracks[t] \in TrackType
         /\ \A n \in Indices : sheet.indices[n] \in IndexType /\ FileOf(n) \in Files /\ Start(n) \in Nat
         /\ \A n, m \in Indices : n <= m => FileOf(n) <= FileOf(m)
<1>1. sheet.files \in Seq(Nat) /\ sheet.tracks \in Seq(TrackType) /\ sheet.indices \in Seq(IndexType)
  BY DEF SheetOK
<1>2. /\ Files = 1 .. Len(sheet.files) /\ Len(sheet.files) \in Nat
      /\ Tracks = 1 .. Len(sheet.tracks) /\ Len(sheet.tracks) \in Nat
      /\ Indices = 1 .. Len(sheet.indices) /\ Len(sheet.indices) \in Nat
  BY <1>1 DEF Files, Tracks, Indices
<1>3. /\ \A f \in Files : sheet.files[f] \in Nat
      /\ \A t \in Tracks : sheet.tracks[t] \in TrackType
      /\ \A n \in Indices : sheet.indices[n] \in IndexType
  BY <1>1 DEF Files, Tracks, Indices
<1>4. \A n \in Indices : FileOf(n) \in Files /\ Start(n) \in Nat
  <2> TAKE n \in Indices
  <2>1. sheet.indices[n].start \in MsfType
    BY <1>3 DEF IndexType
  <2>2. Start(n) \in Nat
    BY <2>1, SectorOf DEF Start
  <2> QED
    BY <2>2 DEF SheetOK, FileOf
<1>5. ASSUME NEW n \in Indices, NEW m \in Indices, n <= m PROVE FileOf(n) <= FileOf(m)
  <2> DEFINE t == sheet.indices[n].track
             u == sheet.indices[m].track
  <2>1. t \in Tracks /\ u \in Tracks /\ sheet.tracks[t].binary \in Files
    BY DEF SheetOK
  <2>2. t <= u
    <3>1. CASE n = m
      BY <1>2, <2>1, <3>1
    <3>2. CASE n # m
      <4>1. n < m
        BY <1>2, <1>5, <3>2
      <4> QED
        BY <4>1 DEF SheetOK
    <3> QED
      BY <3>1, <3>2
  <2> HIDE DEF t, u
  <2>3. sheet.tracks[t].binary <= sheet.tracks[u].binary
    <3>1. CASE t = u
      BY <1>2, <2>1, <3>1
    <3>2. CASE t # u
      <4>1. t < u
        BY <1>2, <2>1, <2>2, <3>2
      <4> QED
        BY <2>1, <4>1 DEF SheetOK
    <3> QED
      BY <3>1, <3>2
  <2> QED
    BY <2>3 DEF FileOf, t, u
<1> QED
  BY <1>2, <1>3, <1>4, <1>5

LEMMA SizeOf == ASSUME NEW mode PROVE sector_size(mode) \in {2048, 2336, 2352}
BY DEF sector_size

LEMMA SectorsOf ==
  ASSUME SheetOK, NEW f \in Files
  PROVE  Size(f) \in {2048, 2336, 2352} /\ Sectors(f) \in Nat
<1>1. Size(f) \in {2048, 2336, 2352}
  BY SizeOf DEF Size
<1>2. sheet.files[f] \in Nat
  BY SheetFacts
<1>3. \A a \in Nat : a \div 2048 \in Nat /\ a \div 2336 \in Nat /\ a \div 2352 \in Nat
  OBVIOUS
<1> QED
  BY <1>1, <1>2, <1>3 DEF Sectors

LEMMA BeforeIs ==
  ASSUME SheetOK
  PROVE  /\ Before[0] = 150
         /\ \A f \in Files : Before[f] = Before[f - 1] + Sectors(f) /\ Base(f) = Before[f - 1]
         /\ \A f \in 0 .. Len(sheet.files) : Before[f] \in Nat /\ Before[f] >= 150
         /\ \A f, g \in 0 .. Len(sheet.files) : f <= g => Before[f] <= Before[g]
<1> DEFINE n == Len(sheet.files)
           add(f) == Sectors(f)
<1>1. n \in Nat /\ Files = 1 .. n
  BY SheetFacts
<1>2. \A f \in 1 .. n : add(f) \in Nat
  BY <1>1, SectorsOf
<1>3. Before = CHOOSE f : f = [k \in 0 .. n |-> IF k = 0 THEN 150 ELSE f[k - 1] + add(k)]
  BY DEF Before
<1> HIDE DEF n, add
<1>4. Before = [k \in 0 .. n |-> IF k = 0 THEN 150 ELSE Before[k - 1] + add(k)]
  <2> DEFINE step == [q \in (1 .. n) \X Nat |-> q[2] + add(q[1])]
  <2>1. step \in [(1 .. n) \X Nat -> Nat]
    BY <1>2
  <2>2. \A i \in 1 .. n, s \in Nat : step[<<i, s>>] = s + add(i)
    OBVIOUS
  <2> HIDE DEF step
  <2>3. PICK f : Recursion(f, Nat, step, 150, n)
    BY <1>1, <2>1, Recursed
  <2>4. f \in [0 .. n -> Nat] /\ f[0] = 150 /\ \A i \in 1 .. n : f[i] = step[<<i, f[i - 1]>>]
    BY <2>3 DEF Recursion
  <2>5. ASSUME NEW k \in 0 .. n PROVE f[k] = IF k = 0 THEN 150 ELSE f[k - 1] + add(k)
    <3>1. CASE k # 0
      <4>1. k \in 1 .. n /\ k - 1 \in 0 .. n
        BY <1>1, <3>1
      <4> QED
        BY <2>2, <2>4, <3>1, <4>1
    <3> QED
      BY <2>4, <3>1
  <2>6. f = [k \in 0 .. n |-> IF k = 0 THEN 150 ELSE f[k - 1] + add(k)]
    BY <2>4, <2>5
  <2> QED
    BY <1>3, <2>6, Zenon
<1>5. Before[0] = 150 /\ \A k \in 1 .. n : Before[k] = Before[k - 1] + add(k)
  <2>1. ASSUME NEW k \in 1 .. n PROVE Before[k] = Before[k - 1] + add(k)
    <3>1. k \in 0 .. n /\ k # 0
      BY <1>1
    <3> QED
      BY <1>4, <3>1
  <2>2. 0 \in 0 .. n
    BY <1>1
  <2> QED
    BY <1>4, <2>1, <2>2
<1>6. \A k \in 0 .. n : Before[k] \in {b \in Nat : b >= 150}
  <2> DEFINE S == {b \in Nat : b >= 150}
  <2>1. \A k \in 1 .. n : Before[k - 1] \in S => Before[k] \in S
    BY <1>2, <1>5
  <2>2. Before[0] \in S
    BY <1>5
  <2> HIDE DEF S
  <2>3. \A k \in 0 .. n : Before[k] \in S
    BY <1>1, <2>1, <2>2, Reaches
  <2> QED
    BY <2>3 DEF S
<1>7. ASSUME NEW f \in 0 .. n PROVE \A g \in 0 .. n : f <= g => Before[f] <= Before[g]
  <2> DEFINE T == {k \in Nat : f + k <= n => Before[f] <= Before[f + k]}
  <2>1. 0 \in T
    BY <1>1, <1>6
  <2>2. ASSUME NEW k \in T PROVE k + 1 \in T
    <3>1. k \in Nat /\ k + 1 \in Nat
      OBVIOUS
    <3>2. ASSUME f + (k + 1) <= n PROVE Before[f] <= Before[f + (k + 1)]
      <4>1. f + (k + 1) \in 1 .. n /\ (f + (k + 1)) - 1 = f + k /\ f + k \in 0 .. n
        BY <1>1, <3>2
      <4>2. Before[f + (k + 1)] = Before[f + k] + add(f + (k + 1)) /\ Before[f] <= Before[f + k]
        BY <1>5, <4>1
      <4>3. Before[f] \in Nat /\ Before[f + k] \in Nat /\ add(f + (k + 1)) \in Nat
        BY <1>2, <1>6, <4>1
      <4> QED
        BY <4>2, <4>3
    <3> QED
      BY <3>1, <3>2
  <2>3. T \in SUBSET Nat
    OBVIOUS
  <2>4. \A k \in Nat : k \in T
    <3> HIDE DEF T
    <3> QED
      BY <2>1, <2>2, <2>3, SetInduction
  <2>5. ASSUME NEW g \in 0 .. n, f <= g PROVE Before[f] <= Before[g]
    <3>1. g - f \in T /\ f + (g - f) = g /\ g <= n
      BY <1>1, <2>4, <2>5
    <3> QED
      BY <3>1
  <2> QED
    BY <2>5
<1>8. \A f \in Files : Base(f) = Before[f - 1]
  BY DEF Base
<1> QED
  BY <1>1, <1>5, <1>6, <1>7, <1>8 DEF n, add

\* The files of a plain disc are used up one after the other.
LEMMA PlainNeighbours ==
  ASSUME SheetOK, Plain, NEW n \in Indices, n + 1 \in Indices
  PROVE  \/ FileOf(n + 1) = FileOf(n) /\ Start(n) = 0 /\ Start(n) < Start(n + 1)
         \/ FileOf(n + 1) = FileOf(n) + 1 /\ Start(n + 1) = 0
<1> DEFINE f == FileOf(n)
           g == FileOf(n + 1)
<1>1. /\ f \in Files /\ g \in Files /\ f <= g /\ Files = 1 .. Len(sheet.files) /\ Len(sheet.files) \in Nat
      /\ Indices = 1 .. Len(sheet.indices) /\ Len(sheet.indices) \in Nat /\ n \in Nat
  BY SheetFacts
<1>2. PICK p \in InFile(g) : Start(p) = 0 /\ InFile(g) \subseteq {p, p + 1}
  BY <1>1 DEF Plain, PlainFiles
<1>3. p \in Indices /\ n + 1 \in InFile(g)
  BY DEF InFile
<1>4. CASE f = g
  <2>1. n \in InFile(g) /\ (n + 1) - 1 = n
    BY <1>1, <1>4 DEF InFile
  <2>2. n = p
    BY <1>1, <1>2, <1>3, <2>1
  <2>3. Start(n) < Start(n + 1)
    BY <1>1, <1>3, <2>1 DEF Plain, PlainFiles
  <2> QED
    BY <1>2, <1>4, <2>2, <2>3
<1>5. CASE f # g
  <2>1. f < g /\ f + 1 \in Files
    BY <1>1, <1>5
  <2>2. PICK k \in InFile(f + 1) : TRUE
    BY <2>1 DEF Plain, PlainFiles
  <2>3. k \in Indices /\ FileOf(k) = f + 1
    BY <2>2 DEF InFile
  <2>4. ~(k <= n)
    <3>1. k <= n => FileOf(k) <= f
      BY <2>3, SheetFacts
    <3> QED
      BY <1>1, <2>3, <3>1
  <2>5. n + 1 <= k
    BY <1>1, <2>3, <2>4
  <2>6. g <= f + 1
    BY <2>3, <2>5, SheetFacts
  <2>7. g = f + 1
    BY <1>1, <2>1, <2>6
  <2>8. n + 1 = p
    <3>1. n \notin InFile(g)
      BY <1>5 DEF InFile
    <3>2. n + 1 = p \/ n + 1 = p + 1
      BY <1>2, <1>3
    <3>3. p # n
      BY <1>2, <3>1
    <3> QED
      BY <1>1, <1>3, <3>2, <3>3
  <2> QED
    BY <1>2, <2>7, <2>8
<1> QED
  BY <1>4, <1>5

LEMMA PlainEnds ==
  ASSUME SheetOK, Plain
  PROVE  /\ 1 \in Indices /\ FileOf(1) = 1 /\ Start(1) = 0
         /\ FileOf(Len(sheet.indices)) = Len(sheet.files) /\ Len(sheet.indices) \in Indices
<1> DEFINE F == Len(sheet.files)
           N == Len(sheet.indices)
<1>1. F \in Nat /\ F # 0 /\ Files = 1 .. F /\ Indices = 1 .. N /\ N \in Nat
  <2>1. sheet.files \in Seq(Nat) /\ sheet.files # <<>>
    BY DEF SheetOK, Plain
  <2>2. Len(sheet.files) # 0
    BY <2>1
  <2> QED
    BY <2>2, SheetFacts
<1>2. 1 \in Files /\ F \in Files
  BY <1>1
<1>3. PICK p \in InFile(1) : Start(p) = 0 /\ InFile(1) \subseteq {p, p + 1}
  BY <1>2 DEF Plain, PlainFiles
<1>4. PICK q \in InFile(F) : TRUE
  BY <1>2 DEF Plain, PlainFiles
<1>5. p \in Indices /\ FileOf(p) = 1 /\ q \in Indices /\ FileOf(q) = F
  BY DEF InFile
<1>6. 1 \in Indices /\ N \in Indices /\ 1 <= p /\ q <= N
  BY <1>1, <1>5
<1>7. FileOf(1) \in Files /\ FileOf(1) <= 1 /\ FileOf(N) \in Files /\ F <= FileOf(N)
  BY <1>5, <1>6, SheetFacts
<1>8. FileOf(1) = 1 /\ FileOf(N) = F
  BY <1>1, <1>7
<1>9. p = 1
  <2>1. 1 \in InFile(1)
    BY <1>6, <1>8 DEF InFile
  <2> QED
    BY <1>1, <1>3, <1>5, <2>1
<1> QED
  BY <1>3, <1>6, <1>8, <1>9

LEMMA IndexSectors ==
  ASSUME SheetOK, Plain
  PROVE  /\ \A n \in Indices : IndexSector(n) \in Nat /\ IndexSector(n) < Before[FileOf(n)]
                               /\ IndexSector(n) < End /\ IndexSector(n) >= 150
         /\ IndexSector(1) = 150
         /\ \A n, m \in Indices : n < m => IndexSector(n) < IndexSector(m)
<1> DEFINE F == Len(sheet.files)
           N == Len(sheet.indices)
           X(n) == IndexSector(n)
<1>1. F \in Nat /\ Files = 1 .. F /\ Indices = 1 .. N /\ N \in Nat
  BY SheetFacts
<1>2. ASSUME NEW n \in Indices
      PROVE  /\ FileOf(n) \in Files /\ Start(n) \in Nat /\ Start(n) < Sectors(FileOf(n)) /\ Sectors(FileOf(n)) \in Nat
             /\ X(n) = Before[FileOf(n) - 1] + Start(n) /\ Before[FileOf(n) - 1] \in Nat
             /\ Before[FileOf(n) - 1] >= 150
             /\ Before[FileOf(n)] = Before[FileOf(n) - 1] + Sectors(FileOf(n)) /\ Before[FileOf(n)] <= End
             /\ End \in Nat
  <2>1. FileOf(n) \in Files /\ Start(n) \in Nat
    BY SheetFacts
  <2>2. n \in InFile(FileOf(n))
    BY DEF InFile
  <2>3. Start(n) < Sectors(FileOf(n))
    BY <2>1, <2>2 DEF Plain, PlainFiles
  <2>4. FileOf(n) - 1 \in 0 .. F /\ FileOf(n) \in 0 .. F /\ F \in 0 .. F /\ FileOf(n) <= F
    BY <1>1, <2>1
  <2>5. X(n) = Before[FileOf(n) - 1] + Start(n)
    BY <2>1, BeforeIs DEF IndexSector
  <2>6. /\ Before[FileOf(n) - 1] \in Nat /\ Before[FileOf(n) - 1] >= 150 /\ Before[F] \in Nat
        /\ Before[FileOf(n)] <= Before[F]
    BY <2>4, BeforeIs
  <2> QED
    BY <2>1, <2>3, <2>5, <2>6, BeforeIs, SectorsOf DEF End
<1>3. ASSUME NEW n \in Indices
      PROVE  X(n) \in Nat /\ X(n) < Before[FileOf(n)] /\ X(n) < End /\ X(n) >= 150
  BY <1>2
<1>4. X(1) = 150
  BY <1>2, PlainEnds, BeforeIs
<1>5. ASSUME NEW n \in Indices, n + 1 \in Indices PROVE X(n) < X(n + 1)
  <2>1. CASE FileOf(n + 1) = FileOf(n) /\ Start(n) = 0 /\ Start(n) < Start(n + 1)
    BY <1>2, <1>5, <2>1
  <2>2. CASE FileOf(n + 1) = FileOf(n) + 1 /\ Start(n + 1) = 0
    <3>1. X(n + 1) = Before[FileOf(n)]
      <4>1. (FileOf(n) + 1) - 1 = FileOf(n)
        BY <1>1, <1>2
      <4>2. X(n + 1) = Before[(FileOf(n) + 1) - 1] + 0
        BY <1>2, <1>5, <2>2
      <4>3. Before[FileOf(n)] \in Nat
        BY <1>2
      <4> QED
        BY <4>1, <4>2, <4>3
    <3> QED
      BY <1>3, <3>1
  <2> QED
    BY <1>5, <2>1, <2>2, PlainNeighbours
<1>6. ASSUME NEW n \in Indices PROVE \A m \in Indices : n < m => X(n) < X(m)
  <2> DEFINE T == {k \in Nat : n + (k + 1) \in Indices => X(n) < X(n + (k + 1))}
  <2>1. 0 \in T
    <3>1. n + (0 + 1) = n + 1
      OBVIOUS
    <3> QED
      BY <1>5, <3>1
  <2>2. ASSUME NEW k \in T PROVE k + 1 \in T
    <3>1. k \in Nat /\ k + 1 \in Nat /\ n \in Nat
      BY <1>1
    <3>2. ASSUME n + ((k + 1) + 1) \in Indices PROVE X(n) < X(n + ((k + 1) + 1))
      <4>1. n + (k + 1) \in Indices /\ n + ((k + 1) + 1) = (n + (k + 1)) + 1
        BY <1>1, <3>1, <3>2
      <4>2. X(n + (k + 1)) < X(n + ((k + 1) + 1)) /\ X(n) < X(n + (k + 1))
        BY <1>5, <3>2, <4>1
      <4>3. X(n) \in Nat /\ X(n + (k + 1)) \in Nat /\ X(n + ((k + 1) + 1)) \in Nat
        BY <1>3, <3>2, <4>1
      <4> QED
        BY <4>2, <4>3
    <3> QED
      BY <3>1, <3>2
  <2>3. T \in SUBSET Nat
    OBVIOUS
  <2>4. \A k \in Nat : k \in T
    <3> HIDE DEF T
    <3> QED
      BY <2>1, <2>2, <2>3, SetInduction
  <2>5. ASSUME NEW m \in Indices, n < m PROVE X(n) < X(m)
    <3>1. m - n - 1 \in Nat /\ n + ((m - n - 1) + 1) = m
      BY <1>1, <2>5
    <3>2. m - n - 1 \in T
      BY <2>4, <3>1
    <3> QED
      BY <3>1, <3>2
  <2> QED
    BY <2>5
<1> QED
  BY <1>3, <1>4, <1>6

-----------------------------------------------------------------------------
(***************************************************************************)
(* The layout (CueSheet).                                                  *)
(***************************************************************************)
PlacedType ==
  [sector : Nat, index : Nat, track : Nat, format : {"Audio", "Mode1", "Mode2Xa"},
   data : [binary : Nat, offset : Int, mode : Modes]]

PrevType == {None} \cup {Some(x) : x \in IndexType}

LayoutType ==
  [abs : MsfType, file : Nat \ {0}, offset : Int, prev : PrevType,
   taken : Nat, out : {"ok", "error", "panic"}, indices : Seq(PlacedType)]

LEMMA FormatOf == ASSUME NEW mode PROVE track_format(mode) \in {"Audio", "Mode1", "Mode2Xa"}
BY DEF track_format

LEMMA EmptyType == ASSUME NEW s PROVE EmptyLayout(s) \in LayoutType
<1> DEFINE first == {i \in DOMAIN s.tracks : s.tracks[i].num = 1}
           mode  == s.tracks[CHOOSE i \in first : \A j \in first : i <= j].mode
           gap   == [sector |-> 150, index |-> 0, track |-> 0, format |-> track_format(mode), data |-> PreGap]
<1>1. gap \in PlacedType
  BY FormatOf DEF PlacedType, PreGap, Modes
<1>2. The(from_sector(150)) \in MsfType
  <2>1. 150 < Far
    BY SMT DEF Far
  <2> QED
    BY <2>1, FromSector
<1>3. EmptyLayout(s) = [abs |-> The(from_sector(150)), file |-> 1, offset |-> 0, prev |-> None, taken |-> 0,
                        out |-> "ok", indices |-> IF first = {} THEN <<>> ELSE <<gap>>]
  BY DEF EmptyLayout
<1> HIDE DEF first, gap
<1>4. (IF first = {} THEN <<>> ELSE <<gap>>) \in Seq(PlacedType)
  BY <1>1
<1>5. None \in PrevType
  BY DEF PrevType
<1> QED
  BY <1>2, <1>3, <1>4, <1>5 DEF LayoutType

LEMMA LayoutFields ==
  ASSUME NEW l \in LayoutType
  PROVE  /\ l.abs \in MsfType /\ l.file \in Nat \ {0} /\ l.offset \in Int /\ l.taken \in Nat
         /\ l.prev = None \/ \E x \in IndexType : l.prev = Some(x)
         /\ l.prev \in PrevType /\ l.out \in {"ok", "error", "panic"}
         /\ l.indices \in Seq(PlacedType)
         /\ l = [abs |-> l.abs, file |-> l.file, offset |-> l.offset, prev |-> l.prev,
                 taken |-> l.taken, out |-> l.out, indices |-> l.indices]
<1>1. l.prev \in PrevType
  BY DEF LayoutType
<1>2. l.prev = None \/ \E x \in IndexType : l.prev = Some(x)
  BY <1>1 DEF PrevType
<1> QED
  BY <1>1, <1>2 DEF LayoutType

LEMMA Added ==
  ASSUME NEW a \in MsfType, NEW b \in MsfType, checked_add(a, b) # None
  PROVE  The(checked_add(a, b)) \in MsfType
<1>1. sector(a) + sector(b) \in Int
  BY SectorOf
<1> QED
  BY <1>1, FromSectorType DEF checked_add

\* What place makes of the layout, by its parts.
Gap(l, idx) == sector(idx.start) - (IF l.prev = None THEN 0 ELSE sector(The(l.prev).start))
Bytes(l, idx, track) == Gap(l, idx) * sector_size(track.mode)
There(l, idx) == checked_add(l.abs, idx.start)
Placed(l, idx, track) ==
  [sector |-> sector(The(There(l, idx))), index |-> idx.num, track |-> track.num,
   format |-> track_format(track.mode),
   data |-> [binary |-> track.binary, offset |-> l.offset + Bytes(l, idx, track), mode |-> track.mode]]

LEMMA PlaceIs ==
  ASSUME NEW l \in LayoutType, SheetOK, goes_on(sheet, l)
  PROVE  LET n == l.taken + 1
             idx == sheet.indices[n]
             track == sheet.tracks[idx.track]
             new == place(sheet, l)
         IN  /\ n \in Indices /\ FileOf(n) = l.file /\ idx \in IndexType /\ track \in TrackType
             /\ \/ new.out # "ok" /\ new \in LayoutType
                \/ /\ new = [abs |-> The(There(l, idx)), file |-> l.file, offset |-> l.offset + Bytes(l, idx, track),
                             prev |-> Some(idx), taken |-> n, out |-> l.out,
                             indices |-> Append(l.indices, Placed(l, idx, track))]
                   /\ There(l, idx) # None /\ Placed(l, idx, track) \in PlacedType
                   /\ new \in LayoutType
<1> DEFINE n == l.taken + 1
           idx == sheet.indices[n]
           track == sheet.tracks[idx.track]
           new == place(sheet, l)
           out == place_error(sheet.files[l.file] - l.offset, Gap(l, idx), Bytes(l, idx, track), There(l, idx))
<1>0. l.taken \in Nat
  BY LayoutFields
<1>1. n \in Indices /\ FileOf(n) = l.file
  BY <1>0, SheetFacts DEF goes_on, FileOf
<1>2. idx \in IndexType /\ track \in TrackType
  BY <1>1, SheetFacts DEF SheetOK
<1>3. place(sheet, l) = IF out # "ok" THEN [l EXCEPT !.out = out]
                        ELSE [l EXCEPT !.abs = The(There(l, idx)), !.offset = @ + Bytes(l, idx, track),
                                       !.prev = Some(idx), !.taken = @ + 1,
                                       !.indices = Append(@, Placed(l, idx, track))]
  BY DEF place, Gap, Bytes, There, Placed, data_offset
<1> HIDE DEF n, idx, track, out
<1>4. out \in {"ok", "error", "panic"} /\ (out = "ok" => There(l, idx) # None)
  BY DEF out, place_error
<1>5. CASE out # "ok"
  <2>1. new = [l EXCEPT !.out = out]
    BY <1>3, <1>5
  <2>2. new \in LayoutType /\ new.out = out
    BY <1>4, <2>1 DEF LayoutType
  <2> QED
    BY <1>1, <1>2, <1>5, <2>2 DEF n, idx, track
<1>6. CASE out = "ok"
  <2>1. new = [abs |-> The(There(l, idx)), file |-> l.file, offset |-> l.offset + Bytes(l, idx, track),
               prev |-> Some(idx), taken |-> n, out |-> l.out,
               indices |-> Append(l.indices, Placed(l, idx, track))]
    BY <1>3, <1>6 DEF LayoutType, n
  <2>2. The(There(l, idx)) \in MsfType /\ There(l, idx) # None
    BY <1>2, <1>4, <1>6, Added, LayoutFields DEF There, IndexType
  <2>3. l.offset + Bytes(l, idx, track) \in Int
    <3>1. Gap(l, idx) \in Int
      <4>1. sector(idx.start) \in Nat
        BY <1>2, SectorOf DEF IndexType
      <4>2. l.prev # None => sector(The(l.prev).start) \in Nat
        <5>1. CASE l.prev = None
          BY <5>1
        <5>2. CASE \E x \in IndexType : l.prev = Some(x)
          <6>1. PICK x \in IndexType : l.prev = Some(x)
            BY <5>2
          <6>2. The(l.prev) = x /\ x.start \in MsfType
            BY <6>1, TheSome DEF IndexType
          <6> QED
            BY <6>2, SectorOf
        <5> QED
          BY <5>1, <5>2, LayoutFields
      <4> QED
        BY <4>1, <4>2 DEF Gap
    <3>2. sector_size(track.mode) \in {2048, 2336, 2352}
      BY SizeOf
    <3>3. Gap(l, idx) * 2048 \in Int /\ Gap(l, idx) * 2336 \in Int /\ Gap(l, idx) * 2352 \in Int
      BY <3>1
    <3>4. Bytes(l, idx, track) \in Int
      BY <3>2, <3>3 DEF Bytes
    <3> QED
      BY <3>4, LayoutFields
  <2>4. Placed(l, idx, track) \in PlacedType
    <3>1. sector(The(There(l, idx))) \in Nat
      BY <2>2, SectorOf
    <3>2. idx.num \in Nat /\ track.num \in Nat /\ track.binary \in Nat /\ track.mode \in Modes
      <4>1. idx.num \in Bcd /\ track.num \in Bcd /\ track.binary \in Nat /\ track.mode \in Modes
        BY <1>2 DEF IndexType, TrackType
      <4> QED
        BY <4>1, BcdIs
    <3>3. track_format(track.mode) \in {"Audio", "Mode1", "Mode2Xa"}
      BY FormatOf
    <3> QED
      BY <2>3, <3>1, <3>2, <3>3 DEF Placed, PlacedType
  <2>5. Append(l.indices, Placed(l, idx, track)) \in Seq(PlacedType)
    BY <2>4, LayoutFields
  <2>6. n \in Nat /\ Some(idx) \in PrevType
    BY <1>0, <1>2 DEF n, PrevType
  <2>7. l.out \in {"ok", "error", "panic"} /\ l.file \in Nat \ {0}
    BY DEF LayoutType
  <2>8. new \in LayoutType
    BY <2>1, <2>2, <2>3, <2>5, <2>6, <2>7 DEF LayoutType
  <2> QED
    BY <1>1, <1>2, <2>1, <2>2, <2>4, <2>8 DEF n, idx, track
<1> QED
  BY <1>5, <1>6

Left(l) == sheet.files[l.file] - l.offset
LastSize(l) == sector_size(sheet.tracks[The(l.prev).track].mode)
Rest(l) == from_sector(Left(l) \div LastSize(l))

Made(abs, file, offset, prev, taken, out, indices) ==
  [abs |-> abs, file |-> file, offset |-> offset, prev |-> prev, taken |-> taken, out |-> out,
   indices |-> indices]

Advanced(l, x, y, z) == [l EXCEPT !.file = x, !.offset = y, !.prev = z]

LEMMA AdvancedIs ==
  ASSUME NEW abs, NEW file, NEW offset, NEW prev, NEW taken, NEW out, NEW indices,
         NEW l, l = Made(abs, file, offset, prev, taken, out, indices), NEW x, NEW y, NEW z
  PROVE  Advanced(l, x, y, z) = Made(abs, x, y, z, taken, out, indices)
<1> DEFINE p == [l EXCEPT !.file = x]
           q == [p EXCEPT !.offset = y]
           r == [q EXCEPT !.prev = z]
<1>1. Advanced(l, x, y, z) = r
  BY Zenon DEF Advanced
<1>2. p = Made(abs, x, offset, prev, taken, out, indices)
  BY DEF Made
<1> HIDE DEF p
<1>3. q = Made(abs, x, y, prev, taken, out, indices)
  BY <1>2 DEF Made
<1> HIDE DEF q
<1>4. r = Made(abs, x, y, z, taken, out, indices)
  BY <1>3 DEF Made
<1> QED
  BY <1>1, <1>4 DEF p, q

LEMMA FinishIs ==
  ASSUME NEW l \in LayoutType, SheetOK, l.file \in Files
  PROVE  LET new == finish_file(sheet, l)
             next(abs) == [abs |-> abs, file |-> l.file + 1, offset |-> 0, prev |-> None,
                           taken |-> l.taken, out |-> l.out, indices |-> l.indices]
         IN  /\ new \in LayoutType
             /\ \/ new.out # "ok"
                \/ l.prev = None /\ new = next(l.abs)
                \/ /\ l.prev # None /\ Left(l) % LastSize(l) = 0 /\ Rest(l) # None
                   /\ checked_add(The(Rest(l)), l.abs) # None
                   /\ new = next(The(checked_add(The(Rest(l)), l.abs)))
<1> DEFINE new == finish_file(sheet, l)
           next(abs) == [abs |-> abs, file |-> l.file + 1, offset |-> 0, prev |-> None,
                         taken |-> l.taken, out |-> l.out, indices |-> l.indices]
           moved == [l EXCEPT !.file = @ + 1, !.offset = 0, !.prev = None]
           abs == IF Rest(l) = None THEN None ELSE checked_add(The(Rest(l)), l.abs)
<1>1. new = IF l.prev = None THEN moved
            ELSE IF Left(l) % LastSize(l) # 0 \/ abs = None THEN [l EXCEPT !.out = "error"]
            ELSE [moved EXCEPT !.abs = The(abs)]
  BY DEF finish_file, Left, LastSize, Rest
<1>2. ASSUME NEW a \in MsfType PROVE next(a) \in LayoutType
  <2>1. l.file + 1 \in Nat \ {0} /\ l.taken \in Nat /\ l.out \in {"ok", "error", "panic"} /\ l.indices \in Seq(PlacedType)
    BY LayoutFields
  <2>2. None \in PrevType
    BY DEF PrevType
  <2> QED
    BY <2>1, <2>2 DEF LayoutType
<1> HIDE DEF next
<1>3. moved = next(l.abs)
  <2>1. l = Made(l.abs, l.file, l.offset, l.prev, l.taken, l.out, l.indices)
    BY LayoutFields DEF Made
  <2>2. Advanced(l, l.file + 1, 0, None) = Made(l.abs, l.file + 1, 0, None, l.taken, l.out, l.indices)
    BY <2>1, AdvancedIs
  <2>3. moved = Advanced(l, l.file + 1, 0, None)
    BY Zenon DEF Advanced
  <2> QED
    BY <2>2, <2>3 DEF Made, next
<1>4. ASSUME NEW a PROVE [moved EXCEPT !.abs = a] = next(a)
  <2>1. [next(l.abs) EXCEPT !.abs = a] = next(a)
    BY DEF next
  <2> QED
    BY <1>3, <2>1
<1>5. l.abs \in MsfType
  BY LayoutFields
<1> HIDE DEF moved, next, abs
<1>6. CASE l.prev = None
  BY <1>1, <1>2, <1>3, <1>5, <1>6 DEF next
<1>7. CASE l.prev # None /\ (Left(l) % LastSize(l) # 0 \/ abs = None)
  <2>1. new = [l EXCEPT !.out = "error"]
    BY <1>1, <1>7
  <2>2. new \in LayoutType /\ new.out # "ok"
    BY <2>1 DEF LayoutType
  <2> QED
    BY <2>2
<1>8. CASE l.prev # None /\ ~(Left(l) % LastSize(l) # 0 \/ abs = None)
  <2>1. Rest(l) # None /\ abs = checked_add(The(Rest(l)), l.abs) /\ abs # None
    BY <1>8 DEF abs
  <2>2. The(Rest(l)) \in MsfType
    <3>1. Left(l) \in Int
      <4>1. sheet.files[l.file] \in Nat /\ l.offset \in Int
        BY SheetFacts, LayoutFields
      <4> QED
        BY <4>1 DEF Left
    <3>2. LastSize(l) \in {2048, 2336, 2352}
      BY SizeOf DEF LastSize
    <3>3. \A a \in Int : a \div 2048 \in Int /\ a \div 2336 \in Int /\ a \div 2352 \in Int
      OBVIOUS
    <3>4. Left(l) \div LastSize(l) \in Int
      BY <3>1, <3>2, <3>3
    <3> QED
      BY <2>1, <3>4, FromSectorType DEF Rest
  <2>3. The(abs) \in MsfType
    BY <1>5, <2>1, <2>2, Added
  <2>4. new = next(The(abs))
    BY <1>1, <1>4, <1>8
  <2>5. next(The(abs)) \in LayoutType
    BY <1>2, <2>3
  <2> QED
    BY <1>8, <2>1, <2>4, <2>5 DEF next
<1> QED
  BY <1>6, <1>7, <1>8


-----------------------------------------------------------------------------
(***************************************************************************)
(* The layout of a plain sheet.                                            *)
(***************************************************************************)
Sizes == {2048, 2336, 2352}

LEMMA Products ==
  ASSUME NEW d, NEW k, d \in Sizes, k \in Int
  PROVE  k * d \in Int /\ 0 * d = 0
<1>1. CASE d = 2048
  BY <1>1, SMT
<1>2. CASE d = 2336
  BY <1>2, SMT
<1>3. CASE d = 2352
  BY <1>3, SMT
<1> QED
  BY <1>1, <1>2, <1>3 DEF Sizes

LEMMA Factored ==
  ASSUME NEW d, NEW k, NEW m, d \in Sizes, k \in Int, m \in Int
  PROVE  k * d + d * m = (k + m) * d
<1>1. CASE d = 2048
  BY <1>1, SMT
<1>2. CASE d = 2336
  BY <1>2, SMT
<1>3. CASE d = 2352
  BY <1>3, SMT
<1> QED
  BY <1>1, <1>2, <1>3 DEF Sizes

LEMMA Spans ==
  ASSUME NEW a, NEW d, NEW k, a \in Nat, d \in Sizes, k \in Nat, k < a \div d
  PROVE  (a - k * d) \div d = a \div d - k /\ k * d + d <= a
<1>1. CASE d = 2048
  BY <1>1, SMT
<1>2. CASE d = 2336
  BY <1>2, SMT
<1>3. CASE d = 2352
  BY <1>3, SMT
<1> QED
  BY <1>1, <1>2, <1>3 DEF Sizes

TrackOf(n) == sheet.tracks[sheet.indices[n].track]

Entry(n) ==
  [sector |-> IndexSector(n), index |-> sheet.indices[n].num, track |-> TrackOf(n).num,
   format |-> track_format(TrackOf(n).mode),
   data |-> [binary |-> FileOf(n), offset |-> Start(n) * Size(FileOf(n)), mode |-> TrackOf(n).mode]]

\* The last index that is placed is in the file that is laid out.
Inside(l) == l.taken \in Indices /\ FileOf(l.taken) = l.file

LaidPlain(l) ==
  /\ l.taken \in 0 .. Len(sheet.indices) /\ l.file \in 1 .. Len(sheet.files) + 1
  /\ \A n \in Indices : IF n <= l.taken THEN FileOf(n) <= l.file ELSE FileOf(n) >= l.file
  /\ Len(l.indices) = l.taken + 1
  /\ l.indices[1].sector = 150 /\ l.indices[1].index = 0 /\ l.indices[1].track = 0
  /\ \A n \in 1 .. l.taken : l.indices[n + 1] = Entry(n)
  /\ Inside(l) => /\ l.prev = Some(sheet.indices[l.taken]) /\ l.abs = Position(IndexSector(l.taken))
                  /\ l.offset = Start(l.taken) * Size(l.file)
  /\ ~Inside(l) => l.prev = None /\ l.abs = Position(Before[l.file - 1]) /\ l.offset = 0

\* Where an index of a plain sheet and its file are.
LEMMA IndexFacts ==
  ASSUME SheetOK, Plain, NEW n \in Indices
  PROVE  /\ FileOf(n) \in Files /\ Start(n) \in Nat /\ Start(n) < Sectors(FileOf(n)) /\ Sectors(FileOf(n)) \in Nat
         /\ IndexSector(n) = Before[FileOf(n) - 1] + Start(n) /\ IndexSector(n) \in Nat
         /\ Before[FileOf(n) - 1] \in Nat /\ Before[FileOf(n)] \in Nat
         /\ Before[FileOf(n)] = Before[FileOf(n) - 1] + Sectors(FileOf(n))
         /\ Before[FileOf(n) - 1] < Far /\ Before[FileOf(n)] < Far /\ IndexSector(n) < Far
         /\ TrackOf(n).binary = FileOf(n) /\ sector_size(TrackOf(n).mode) = Size(FileOf(n))
         /\ Size(FileOf(n)) \in Sizes /\ sheet.files[FileOf(n)] \in Nat
         /\ TrackOf(n) \in TrackType /\ sheet.indices[n] \in IndexType
         /\ sheet.indices[n].track \in Tracks
<1> DEFINE f == FileOf(n)
           F == Len(sheet.files)
<1>1. f \in Files /\ Start(n) \in Nat /\ sheet.indices[n] \in IndexType /\ Files = 1 .. F /\ F \in Nat
      /\ sheet.files[f] \in Nat
  BY SheetFacts
<1>2. n \in InFile(f)
  BY DEF InFile
<1>3. Start(n) < Sectors(f)
  BY <1>1, <1>2 DEF Plain, PlainFiles
<1>4. sheet.indices[n].track \in Tracks /\ TrackOf(n).binary = f
  BY DEF SheetOK, TrackOf, FileOf
<1>5. TrackOf(n) \in TrackType
  BY <1>4, SheetFacts DEF TrackOf
<1>6. sector_size(TrackOf(n).mode) = Size(f)
  BY <1>1, <1>4 DEF Plain, PlainFiles, TrackOf
<1>7. f - 1 \in 0 .. F /\ f \in 0 .. F /\ F \in 0 .. F /\ f - 1 <= F /\ f <= F
  BY <1>1
<1>8. /\ Before[f - 1] \in Nat /\ Before[f] \in Nat /\ Before[F] \in Nat
      /\ Before[f - 1] <= Before[F] /\ Before[f] <= Before[F]
      /\ Before[f] = Before[f - 1] + Sectors(f) /\ Base(f) = Before[f - 1]
  BY <1>1, <1>7, BeforeIs
<1>9. Before[F] <= Reach
  BY DEF Plain, End
<1>10. Size(f) \in Sizes /\ Sectors(f) \in Nat
  BY <1>1, SectorsOf DEF Sizes
<1>11. IndexSector(n) = Before[f - 1] + Start(n)
  BY <1>8 DEF IndexSector
<1>12. IndexSector(n) \in Nat /\ IndexSector(n) < Before[f]
  BY <1>1, <1>3, <1>8, <1>10, <1>11
<1>13. Before[f - 1] < Far /\ Before[f] < Far /\ IndexSector(n) < Far
  BY <1>8, <1>9, <1>12, Limits
<1> QED
  BY <1>1, <1>3, <1>4, <1>5, <1>6, <1>8, <1>10, <1>11, <1>12, <1>13

LEMMA LaidEmpty ==
  ASSUME SheetOK, Plain
  PROVE  LaidPlain(EmptyLayout(sheet))
<1> DEFINE first == {i \in DOMAIN sheet.tracks : sheet.tracks[i].num = 1}
           mode  == sheet.tracks[CHOOSE i \in first : \A j \in first : i <= j].mode
           gap   == [sector |-> 150, index |-> 0, track |-> 0, format |-> track_format(mode), data |-> PreGap]
           l     == EmptyLayout(sheet)
<1>1. 1 \in Indices /\ Indices = 1 .. Len(sheet.indices) /\ Len(sheet.indices) \in Nat
      /\ Files = 1 .. Len(sheet.files) /\ Len(sheet.files) \in Nat
  BY PlainEnds, SheetFacts
<1>2. \A n \in Indices : FileOf(n) \in Files
  BY SheetFacts
<1>3. first # {}
  <2>1. sheet.indices[1].track \in Tracks /\ Tracks = 1 .. Len(sheet.tracks) /\ Len(sheet.tracks) \in Nat
    BY <1>1, IndexFacts, SheetFacts
  <2>2. 1 \in Tracks
    BY <2>1
  <2>3. sheet.tracks[1].num \in Bcd
    BY <2>2, SheetFacts DEF TrackType
  <2>4. as_binary(sheet.tracks[1].num) = 1
    BY <2>2 DEF Plain, PlainTracks
  <2>5. sheet.tracks[1].num = 1
    BY <2>3, <2>4, BcdIs
  <2> QED
    BY <2>2, <2>5 DEF Tracks
<1>4. l = [abs |-> The(from_sector(150)), file |-> 1, offset |-> 0, prev |-> None, taken |-> 0,
           out |-> "ok", indices |-> <<gap>>]
  BY <1>3 DEF EmptyLayout
<1>5. The(from_sector(150)) = Position(150)
  <2>1. 150 < Far
    BY SMT DEF Far
  <2> QED
    BY <2>1, FromSector
<1> HIDE DEF first
<1>6. l.taken = 0 /\ l.file = 1 /\ l.prev = None /\ l.abs = Position(150) /\ l.offset = 0 /\ l.indices = <<gap>>
  BY <1>4, <1>5
<1>7. Len(l.indices) = 1 /\ l.indices[1].sector = 150 /\ l.indices[1].index = 0 /\ l.indices[1].track = 0
  BY <1>6
<1> HIDE DEF l
<1>8. Before[l.file - 1] = 150
  BY <1>6, BeforeIs
<1>9. ~Inside(l)
  BY <1>1, <1>6 DEF Inside
<1>10. \A n \in Indices : ~(n <= l.taken) /\ FileOf(n) >= l.file
  BY <1>1, <1>2, <1>6
<1>11. l.taken \in 0 .. Len(sheet.indices) /\ l.file \in 1 .. Len(sheet.files) + 1
       /\ \A n \in 1 .. l.taken : FALSE
  BY <1>1, <1>6
<1> QED
  BY <1>6, <1>7, <1>8, <1>9, <1>10, <1>11 DEF LaidPlain, l

LEMMA LaidPlace ==
  ASSUME SheetOK, Plain, NEW l \in LayoutType, LaidPlain(l), goes_on(sheet, l), place(sheet, l).out = "ok"
  PROVE  LaidPlain(place(sheet, l))
<1> DEFINE n == l.taken + 1
           idx == sheet.indices[n]
           track == sheet.tracks[idx.track]
           new == place(sheet, l)
           f == l.file
<1>1. /\ n \in Indices /\ FileOf(n) = f /\ There(l, idx) # None
      /\ new = [abs |-> The(There(l, idx)), file |-> f, offset |-> l.offset + Bytes(l, idx, track),
                prev |-> Some(idx), taken |-> n, out |-> l.out,
                indices |-> Append(l.indices, Placed(l, idx, track))]
      /\ Placed(l, idx, track) \in PlacedType
  BY PlaceIs
<1> HIDE DEF new
<1>2. track = TrackOf(n) /\ sector(idx.start) = Start(n)
  BY DEF TrackOf, Start
<1>3. /\ Start(n) \in Nat /\ IndexSector(n) = Before[f - 1] + Start(n) /\ Before[f - 1] \in Nat
      /\ Before[f - 1] < Far /\ IndexSector(n) \in Nat /\ IndexSector(n) < Far
      /\ TrackOf(n).binary = f /\ sector_size(TrackOf(n).mode) = Size(f) /\ Size(f) \in Sizes
  BY <1>1, IndexFacts
<1>4. /\ Indices = 1 .. Len(sheet.indices) /\ Len(sheet.indices) \in Nat /\ l.taken \in Nat
      /\ Files = 1 .. Len(sheet.files) /\ Len(sheet.files) \in Nat /\ f \in Files
  BY <1>1, SheetFacts, LayoutFields, IndexFacts
\* Whatever was placed before in the file starts it.
<1>5. sector(l.abs) = Before[f - 1] /\ l.offset = 0 /\ Gap(l, idx) = Start(n)
  <2>1. CASE Inside(l)
    <3>1. l.taken \in Indices /\ FileOf(l.taken) = f
      BY <2>1 DEF Inside
    <3>2. f # f + 1
      BY <1>4
    <3>3. Start(l.taken) = 0
      BY <1>1, <3>1, <3>2, PlainNeighbours
    <3>4. IndexSector(l.taken) = Before[f - 1] + 0
      BY <3>1, <3>3, IndexFacts
    <3>5. l.abs = Position(Before[f - 1]) /\ l.offset = 0 * Size(f) /\ l.prev = Some(sheet.indices[l.taken])
      BY <1>3, <2>1, <3>3, <3>4 DEF LaidPlain
    <3>6. l.offset = 0
      BY <1>3, <3>5, Products
    <3>7. l.prev # None /\ sector(The(l.prev).start) = 0
      BY <3>3, <3>5, TheSome DEF Start
    <3>8. Gap(l, idx) = Start(n) - 0
      BY <1>2, <3>7 DEF Gap
    <3> QED
      BY <1>3, <3>5, <3>6, <3>8, FromSector
  <2>2. CASE ~Inside(l)
    <3>1. l.prev = None /\ l.abs = Position(Before[f - 1]) /\ l.offset = 0
      BY <2>2 DEF LaidPlain
    <3>2. Gap(l, idx) = Start(n) - 0
      BY <1>2, <3>1 DEF Gap
    <3> QED
      BY <1>3, <3>1, <3>2, FromSector
  <2> QED
    BY <2>1, <2>2
<1>6. Bytes(l, idx, track) = Start(n) * Size(f)
  BY <1>2, <1>3, <1>5 DEF Bytes
<1>7. l.offset + Bytes(l, idx, track) = Start(n) * Size(f)
  <2>1. Start(n) * Size(f) \in Int
    BY <1>3, Products
  <2> QED
    BY <1>5, <1>6, <2>1
<1>8. The(There(l, idx)) = Position(IndexSector(n)) /\ sector(The(There(l, idx))) = IndexSector(n)
  <2>1. There(l, idx) = from_sector(Before[f - 1] + Start(n))
    BY <1>2, <1>5 DEF There, checked_add
  <2> QED
    BY <1>3, <2>1, FromSector
<1>9. Placed(l, idx, track) = Entry(n)
  BY <1>1, <1>2, <1>3, <1>7, <1>8 DEF Placed, Entry
<1> HIDE DEF idx, track
<1>10. /\ new.abs = Position(IndexSector(n)) /\ new.file = f /\ new.offset = Start(n) * Size(f)
       /\ new.prev = Some(idx) /\ new.taken = n /\ new.indices = Append(l.indices, Entry(n))
  BY <1>1, <1>7, <1>8, <1>9
<1>11. /\ Len(new.indices) = n + 1
       /\ \A i \in 1 .. n : new.indices[i] = l.indices[i]
       /\ new.indices[n + 1] = Entry(n)
  <2>1. l.indices \in Seq(PlacedType) /\ Len(l.indices) = n
    BY LayoutFields DEF LaidPlain
  <2>2. Entry(n) \in PlacedType
    BY <1>1, <1>9
  <2> QED
    BY <1>10, <2>1, <2>2, AppendIs
<1>12. \A i \in 1 .. n : new.indices[i + 1] = Entry(i)
  <2> SUFFICES ASSUME NEW i \in 1 .. n PROVE new.indices[i + 1] = Entry(i)
    OBVIOUS
  <2>1. CASE i = n
    BY <1>11, <2>1
  <2>2. CASE i # n
    <3>1. i \in 1 .. l.taken /\ i + 1 \in 1 .. n
      BY <1>4, <2>2
    <3> QED
      BY <1>11, <3>1 DEF LaidPlain
  <2> QED
    BY <2>1, <2>2
<1>13. \A m \in Indices : IF m <= n THEN FileOf(m) <= f ELSE FileOf(m) >= f
  <2> SUFFICES ASSUME NEW m \in Indices PROVE IF m <= n THEN FileOf(m) <= f ELSE FileOf(m) >= f
    OBVIOUS
  <2>1. m <= n => FileOf(m) <= f
    BY <1>1, SheetFacts
  <2>2. ~(m <= n) => n <= m
    BY <1>1, <1>4
  <2>3. ~(m <= n) => f <= FileOf(m)
    BY <1>1, <2>2, SheetFacts
  <2>4. FileOf(m) \in Nat /\ f \in Nat
    BY <1>4, IndexFacts
  <2> QED
    BY <2>1, <2>3, <2>4
<1>14. /\ n \in 0 .. Len(sheet.indices) /\ f \in 1 .. Len(sheet.files) + 1 /\ 1 \in 1 .. n
  BY <1>1, <1>4
<1>15. Inside(new)
  BY <1>1, <1>10 DEF Inside
<1>16. new.indices[1].sector = 150 /\ new.indices[1].index = 0 /\ new.indices[1].track = 0
  BY <1>11, <1>14 DEF LaidPlain
<1> HIDE DEF n, f
<1> QED
  BY <1>10, <1>11, <1>12, <1>13, <1>14, <1>15, <1>16 DEF LaidPlain, new, idx

LEMMA LaidFinish ==
  ASSUME SheetOK, Plain, NEW l \in LayoutType, LaidPlain(l), ~goes_on(sheet, l), l.file \in Files,
         finish_file(sheet, l).out = "ok"
  PROVE  LaidPlain(finish_file(sheet, l))
<1> DEFINE k == l.taken
           f == l.file
           F == Len(sheet.files)
           N == Len(sheet.indices)
           new == finish_file(sheet, l)
           next(abs) == [abs |-> abs, file |-> f + 1, offset |-> 0, prev |-> None,
                         taken |-> k, out |-> l.out, indices |-> l.indices]
<1>1. /\ Indices = 1 .. N /\ N \in Nat /\ Files = 1 .. F /\ F \in Nat /\ k \in 0 .. N /\ f \in 1 .. F
      /\ \A n \in Indices : IF n <= k THEN FileOf(n) <= f ELSE FileOf(n) >= f
      /\ \A n \in Indices : FileOf(n) \in Files
  BY SheetFacts DEF LaidPlain
<1>2. ASSUME NEW n \in Indices, n > k PROVE FileOf(n) > f
  <2>1. k + 1 \in Indices /\ k + 1 <= n /\ k < N
    BY <1>1, <1>2
  <2>2. FileOf(k + 1) # f
    BY <2>1 DEF goes_on, FileOf
  <2>3. FileOf(k + 1) >= f /\ FileOf(k + 1) <= FileOf(n)
    BY <1>1, <2>1, SheetFacts
  <2>4. FileOf(k + 1) \in Nat /\ FileOf(n) \in Nat
    BY <1>1, <2>1
  <2> QED
    BY <1>1, <2>2, <2>3, <2>4
<1>3. Inside(l)
  <2>1. PICK p \in InFile(f) : TRUE
    BY DEF Plain, PlainFiles
  <2>2. p \in Indices /\ FileOf(p) = f
    BY <2>1 DEF InFile
  <2>3. p <= k
    BY <1>1, <1>2, <2>2
  <2>4. k \in Indices
    BY <1>1, <2>2, <2>3
  <2>5. f <= FileOf(k)
    BY <2>2, <2>3, <2>4, SheetFacts
  <2>6. FileOf(k) <= f /\ FileOf(k) \in Nat
    BY <1>1, <2>4
  <2>7. FileOf(k) = f
    BY <1>1, <2>5, <2>6
  <2> QED
    BY <2>4, <2>7 DEF Inside
<1>4. /\ k \in Indices /\ FileOf(k) = f /\ l.prev = Some(sheet.indices[k]) /\ l.abs = Position(IndexSector(k))
      /\ l.offset = Start(k) * Size(f)
  BY <1>3 DEF LaidPlain, Inside
<1>5. /\ Start(k) \in Nat /\ Start(k) < Sectors(f) /\ Sectors(f) \in Nat
      /\ IndexSector(k) = Before[f - 1] + Start(k) /\ IndexSector(k) \in Nat /\ IndexSector(k) < Far
      /\ Before[f - 1] \in Nat /\ Before[f] = Before[f - 1] + Sectors(f) /\ Before[f] < Far /\ Before[f] \in Nat
      /\ sector_size(TrackOf(k).mode) = Size(f) /\ Size(f) \in Sizes /\ sheet.files[f] \in Nat
  BY <1>4, IndexFacts
<1>6. l.prev # None /\ LastSize(l) = Size(f)
  BY <1>4, <1>5, TheSome DEF LastSize, TrackOf
<1>7. Left(l) \div LastSize(l) = Sectors(f) - Start(k)
  <2>1. Start(k) < sheet.files[f] \div Size(f)
    BY <1>5 DEF Sectors
  <2>2. (sheet.files[f] - Start(k) * Size(f)) \div Size(f) = sheet.files[f] \div Size(f) - Start(k)
    BY <1>5, <2>1, Spans
  <2> QED
    BY <1>4, <1>6, <2>2 DEF Left, Sectors
<1>8. sector(The(Rest(l))) = Sectors(f) - Start(k)
  <2>1. Sectors(f) - Start(k) \in Nat /\ Sectors(f) - Start(k) < Far
    BY <1>5, Limits
  <2> QED
    BY <1>7, <2>1, FromSector DEF Rest
<1>9. The(checked_add(The(Rest(l)), l.abs)) = Position(Before[f])
  <2>1. sector(l.abs) = IndexSector(k)
    BY <1>4, <1>5, FromSector
  <2>2. sector(The(Rest(l))) + sector(l.abs) = Before[f]
    BY <1>5, <1>8, <2>1
  <2>3. checked_add(The(Rest(l)), l.abs) = from_sector(Before[f])
    BY <2>2 DEF checked_add
  <2> QED
    BY <1>5, <2>3, FromSector
<1>10. new = next(Position(Before[f]))
  BY <1>6, <1>9, FinishIs
<1> HIDE DEF new
<1>11. /\ new.abs = Position(Before[f]) /\ new.file = f + 1 /\ new.offset = 0 /\ new.prev = None
       /\ new.taken = k /\ new.indices = l.indices
  BY <1>10
<1>12. (f + 1) - 1 = f /\ f + 1 \in 1 .. F + 1 /\ f # f + 1
  BY <1>1
<1>13. ~Inside(new)
  BY <1>4, <1>11, <1>12 DEF Inside
<1>14. ASSUME NEW n \in Indices PROVE IF n <= k THEN FileOf(n) <= f + 1 ELSE FileOf(n) >= f + 1
  <2>1. FileOf(n) \in Nat /\ f \in Nat /\ (n <= k => FileOf(n) <= f) /\ (~(n <= k) => n > k)
    BY <1>1
  <2> QED
    BY <1>2, <2>1
<1>15. /\ k \in 0 .. N /\ Len(l.indices) = k + 1
       /\ l.indices[1].sector = 150 /\ l.indices[1].index = 0 /\ l.indices[1].track = 0
       /\ \A n \in 1 .. k : l.indices[n + 1] = Entry(n)
  BY DEF LaidPlain
<1> HIDE DEF k, f
<1> QED
  BY <1>11, <1>12, <1>13, <1>14, <1>15 DEF LaidPlain, new

LEMMA Laid ==
  ASSUME SheetOK, NEW l \in LayoutType, l.file <= Len(sheet.files)
  PROVE  /\ lay_out(sheet, l) \in LayoutType
         /\ Plain /\ LaidPlain(l) /\ lay_out(sheet, l).out = "ok" => LaidPlain(lay_out(sheet, l))
<1>1. l.file \in Files
  BY LayoutFields, SheetFacts
<1>2. CASE goes_on(sheet, l)
  <2>1. lay_out(sheet, l) = place(sheet, l)
    BY <1>2 DEF lay_out
  <2> QED
    BY <1>2, <2>1, PlaceIs, LaidPlace
<1>3. CASE ~goes_on(sheet, l)
  <2>1. lay_out(sheet, l) = finish_file(sheet, l)
    BY <1>3 DEF lay_out
  <2> QED
    BY <1>1, <1>3, <2>1, FinishIs, LaidFinish
<1> QED
  BY <1>2, <1>3

\* A plain sheet that is laid out.
LaidOut(l) == LaidPlain(l) /\ l.file = Len(sheet.files) + 1

LEMMA AllLaid ==
  ASSUME SheetOK, Plain, NEW l \in LayoutType, LaidOut(l)
  PROVE  l.taken = Len(sheet.indices) /\ sector(l.abs) = End
<1> DEFINE k == l.taken
           F == Len(sheet.files)
           N == Len(sheet.indices)
<1>1. /\ Indices = 1 .. N /\ N \in Nat /\ Files = 1 .. F /\ F \in Nat /\ k \in 0 .. N /\ l.file = F + 1
      /\ \A n \in Indices : ~(n <= k) => FileOf(n) >= F + 1
      /\ \A n \in Indices : FileOf(n) \in Files
  BY SheetFacts DEF LaidPlain, LaidOut
<1>2. N \in Indices
  BY PlainEnds
<1>3. k = N
  BY <1>1, <1>2
<1>4. ~Inside(l)
  BY <1>1, <1>2, <1>3 DEF Inside
<1>5. l.abs = Position(Before[l.file - 1]) /\ l.file - 1 = F
  BY <1>1, <1>4 DEF LaidPlain, LaidOut
<1>6. Before[F] \in Nat
  BY <1>1, BeforeIs
<1>7. Before[F] < Far
  BY <1>6, Limits DEF Plain, End
<1>8. sector(l.abs) = Before[F]
  BY <1>5, <1>6, <1>7, FromSector
<1> QED
  BY <1>3, <1>8 DEF End

-----------------------------------------------------------------------------
(***************************************************************************)
(* The lookup of a plain disc.                                             *)
(***************************************************************************)
LookupOf(l) == IndexLookup(l.indices, sector(l.abs))

LEMMA AnyLookup ==
  ASSUME NEW l \in LayoutType
  PROVE  IsLookup(LookupOf(l)) /\ LookupOf(l).lead_out \in Nat
<1>1. l.indices \in Seq(PlacedType) /\ l.abs \in MsfType
  BY LayoutFields
<1>2. HasSectors(Len(l.indices), l.indices) /\ Len(l.indices) \in Nat
  <2>1. Len(l.indices) \in Nat /\ DOMAIN l.indices = 1 .. Len(l.indices)
        /\ \A i \in 1 .. Len(l.indices) : l.indices[i] \in PlacedType
    BY <1>1
  <2> QED
    BY <2>1 DEF HasSectors, PlacedType
<1>3. IsLookup(LookupOf(l))
  BY <1>2, LookupIsSorted DEF LookupOf
<1>4. LookupOf(l).lead_out = sector(l.abs)
  BY DEF LookupOf, IndexLookup
<1> QED
  BY <1>1, <1>3, <1>4, SectorOf

\* The indices of the sheet, after the pregap.
IsDisc(lookup) ==
  LET N == Len(sheet.indices)
  IN  /\ lookup.len = N + 1 /\ lookup.lead_out = End /\ DOMAIN lookup.indices = 0 .. N
      /\ lookup.indices[0].sector = 150 /\ lookup.indices[0].index = 0 /\ lookup.indices[0].track = 0
      /\ \A n \in Indices : lookup.indices[n] = Entry(n)

LEMMA DiscLookup ==
  ASSUME SheetOK, Plain, NEW l \in LayoutType, LaidOut(l)
  PROVE  IsDisc(LookupOf(l))
<1> DEFINE N == Len(sheet.indices)
           q == l.indices
           lookup == LookupOf(l)
<1>1. /\ l.taken = N /\ sector(l.abs) = End /\ Indices = 1 .. N /\ N \in Nat
      /\ Len(q) = N + 1 /\ q[1].sector = 150 /\ q[1].index = 0 /\ q[1].track = 0
      /\ \A n \in 1 .. N : q[n + 1] = Entry(n)
  BY AllLaid, SheetFacts DEF LaidOut, LaidPlain
<1>2. q \in Seq(PlacedType)
  BY LayoutFields
<1>3. HasSectors(Len(q), q) /\ Len(q) \in Nat
  <2>1. Len(q) \in Nat /\ DOMAIN q = 1 .. Len(q) /\ \A i \in 1 .. Len(q) : q[i] \in PlacedType
    BY <1>2
  <2> QED
    BY <2>1 DEF HasSectors, PlacedType
<1>4. \A n \in 1 .. N : q[n + 1].sector = IndexSector(n)
  <2>1. \A n : Entry(n).sector = IndexSector(n)
    BY DEF Entry
  <2> HIDE DEF q
  <2> QED
    BY <1>1, <2>1
<1>5. ASSUME NEW a \in 1 .. N + 1, NEW b \in 1 .. N + 1, a < b PROVE q[a].sector <= q[b].sector
  <2>1. b - 1 \in 1 .. N /\ (b - 1) + 1 = b
    BY <1>1, <1>5
  <2>2. q[b].sector = IndexSector(b - 1)
    BY <1>4, <2>1
  <2>3. CASE a = 1
    BY <1>1, <2>1, <2>2, <2>3, IndexSectors
  <2>4. CASE a # 1
    <3>1. a - 1 \in 1 .. N /\ (a - 1) + 1 = a /\ a - 1 < b - 1
      BY <1>1, <1>5, <2>4
    <3>2. q[a].sector = IndexSector(a - 1)
      BY <1>4, <3>1
    <3>3. IndexSector(a - 1) < IndexSector(b - 1) /\ IndexSector(a - 1) \in Nat /\ IndexSector(b - 1) \in Nat
      BY <1>1, <2>1, <3>1, IndexSectors
    <3> QED
      BY <2>2, <3>2, <3>3
  <2> QED
    BY <2>3, <2>4
<1>6. lookup.indices = [i \in 0 .. Len(q) - 1 |-> q[i + 1]]
  BY <1>1, <1>3, <1>5, LookupIsSorted DEF LookupOf
<1>7. lookup.len = Len(q) /\ lookup.lead_out = End
  BY <1>1 DEF LookupOf, IndexLookup
<1> HIDE DEF lookup, q
<1>8. Len(q) - 1 = N /\ 0 \in 0 .. N /\ 0 + 1 = 1 /\ \A n \in 1 .. N : n \in 0 .. N
  BY <1>1
<1>9. lookup.indices[0] = q[1] /\ \A n \in 1 .. N : lookup.indices[n] = q[n + 1]
  BY <1>6, <1>8
<1>10. DOMAIN lookup.indices = 0 .. N
  BY <1>6, <1>8
<1> QED
  BY <1>1, <1>7, <1>9, <1>10 DEF IsDisc, lookup

\* What a plain track has.
LEMMA TrackFacts ==
  ASSUME SheetOK, Plain, NEW n \in Indices
  PROVE  LET t == sheet.indices[n].track
             num == sheet.indices[n].num
         IN  /\ t \in Tracks /\ t \in Nat /\ t >= 1 /\ t <= 99 /\ as_binary(TrackOf(n).num) = t /\ TrackOf(n).num \in Bcd
             /\ TrackOf(n).num = The(bcd_from_binary(t))
             /\ num \in {0, 1}
             /\ num = 0 => n + 1 \in Indices /\ sheet.indices[n + 1].track = t /\ sheet.indices[n + 1].num = 1
             /\ num = 1 => OfTrack(t) \subseteq {n - 1, n}
<1> DEFINE t == sheet.indices[n].track
           num == sheet.indices[n].num
<1>1. t \in Tracks /\ TrackOf(n) \in TrackType
  BY IndexFacts
<1>2. Tracks = 1 .. Len(sheet.tracks) /\ Len(sheet.tracks) \in Nat /\ Indices = 1 .. Len(sheet.indices)
      /\ Len(sheet.indices) \in Nat
  BY SheetFacts
<1>3. t \in Nat /\ t >= 1 /\ t <= 99
  BY <1>1, <1>2 DEF Plain, PlainTracks
<1>4. as_binary(TrackOf(n).num) = t /\ TrackOf(n).num \in Bcd
  BY <1>1 DEF Plain, PlainTracks, TrackOf, TrackType
<1>5. TrackOf(n).num = The(bcd_from_binary(t))
  BY <1>4, BcdIs
<1>6. PICK m \in OfTrack(t) : /\ sheet.indices[m].num = 1 /\ OfTrack(t) \subseteq {m - 1, m}
                              /\ m - 1 \in OfTrack(t) => sheet.indices[m - 1].num = 0
  BY <1>1 DEF Plain, PlainTracks
<1>7. n \in OfTrack(t) /\ m \in Indices /\ sheet.indices[m].track = t
  BY DEF OfTrack
<1>8. CASE n = m
  BY <1>1, <1>3, <1>4, <1>5, <1>6, <1>8
<1>9. CASE n = m - 1
  <2>1. num = 0 /\ m = n + 1
    BY <1>2, <1>6, <1>7, <1>9
  <2> QED
    BY <1>1, <1>3, <1>4, <1>5, <1>6, <1>7, <2>1
<1> QED
  BY <1>6, <1>7, <1>8, <1>9

LEMMA DiscByTrack ==
  ASSUME SheetOK, Plain, NEW lookup, IsDisc(lookup)
  PROVE  ByTrack(lookup)
<1> DEFINE N == Len(sheet.indices)
           K(i) == lookup.indices[i].track
           X(i) == lookup.indices[i].index
<1>1. /\ N \in Nat /\ Indices = 1 .. N /\ lookup.len = N + 1 /\ lookup.len - 1 = N /\ lookup.len \in Nat
      /\ DOMAIN lookup.indices = 0 .. N /\ K(0) = 0 /\ X(0) = 0
  BY SheetFacts DEF IsDisc
<1>2. ASSUME NEW n \in Indices
      PROVE  /\ K(n) = TrackOf(n).num /\ X(n) = sheet.indices[n].num /\ K(n) \in Bcd /\ K(n) \in Nat /\ K(n) # 0
             /\ X(n) \in {0, 1} /\ as_binary(K(n)) = sheet.indices[n].track
             /\ sheet.indices[n].track \in Nat
  <2>1. lookup.indices[n] = Entry(n)
    BY DEF IsDisc
  <2>2. K(n) = TrackOf(n).num /\ X(n) = sheet.indices[n].num
    BY <2>1 DEF Entry
  <2>3. TrackOf(n).num \in Bcd /\ as_binary(TrackOf(n).num) = sheet.indices[n].track
        /\ sheet.indices[n].track \in Nat /\ sheet.indices[n].track >= 1 /\ sheet.indices[n].num \in {0, 1}
    BY TrackFacts
  <2>4. TrackOf(n).num \in Nat /\ TrackOf(n).num # 0
    BY <2>3, BcdIs
  <2> QED
    BY <2>2, <2>3, <2>4
<1> HIDE DEF K, X
<1>3. ASSUME NEW n \in Indices, NEW m \in Indices, n < m
      PROVE  K(n) < K(m) \/ (K(n) = K(m) /\ X(n) < X(m))
  <2> DEFINE t == sheet.indices[n].track
             u == sheet.indices[m].track
  <2>1. t <= u
    BY <1>3 DEF SheetOK
  <2>2. K(n) < K(m) <=> t < u
    BY <1>2, BcdOrder
  <2>3. K(n) = K(m) <=> t = u
    BY <1>2, BcdOrder
  <2>4. CASE t = u
    <3>1. n \in OfTrack(u) /\ m \in OfTrack(u) /\ n \in OfTrack(t) /\ m \in OfTrack(t)
      BY <2>4 DEF OfTrack
    <3>2. X(n) # 1
      <4>1. sheet.indices[n].num = 1 => m \in {n - 1, n}
        BY <3>1, TrackFacts
      <4> QED
        BY <1>1, <1>2, <1>3, <4>1
    <3>3. X(m) # 0
      <4>1. sheet.indices[m].num = 0 => m + 1 \in Indices /\ sheet.indices[m + 1].track = u /\ sheet.indices[m + 1].num = 1
        BY TrackFacts
      <4>2. ASSUME sheet.indices[m].num = 0 PROVE FALSE
        <5>1. OfTrack(u) \subseteq {(m + 1) - 1, m + 1}
          BY <4>1, <4>2, TrackFacts
        <5> QED
          BY <1>1, <1>3, <3>1, <5>1
      <4> QED
        BY <1>2, <4>2
    <3>4. X(n) = 0 /\ X(m) = 1
      BY <1>2, <3>2, <3>3
    <3> QED
      BY <2>3, <2>4, <3>4
  <2>5. CASE t # u
    <3>1. t \in Nat /\ u \in Nat
      BY <1>2
    <3> QED
      BY <2>1, <2>2, <2>5, <3>1
  <2> QED
    BY <2>4, <2>5
<1>4. ASSUME NEW i \in 0 .. N, NEW j \in 0 .. N, i < j
      PROVE  K(i) < K(j) \/ (K(i) = K(j) /\ X(i) < X(j))
  <2>1. j \in Indices
    BY <1>1, <1>4
  <2>2. CASE i = 0
    BY <1>1, <1>2, <2>1, <2>2
  <2>3. CASE i # 0
    <3>1. i \in Indices
      BY <1>1, <2>3
    <3> QED
      BY <1>3, <1>4, <2>1, <3>1
  <2> QED
    BY <2>2, <2>3
<1>5. \A i \in 0 .. N : K(i) \in Nat /\ X(i) \in Nat
  <2> SUFFICES ASSUME NEW i \in 0 .. N PROVE K(i) \in Nat /\ X(i) \in Nat
    OBVIOUS
  <2>1. i = 0 \/ i \in Indices
    BY <1>1
  <2> QED
    BY <1>1, <1>2, <2>1
<1> QED
  BY <1>1, <1>4, <1>5 DEF ByTrack, K, X

\* The table of contents of a plain disc.
LEMMA PlainToc ==
  ASSUME SheetOK, Plain, NEW lookup, IsDisc(lookup)
  PROVE  LET toc == build_toc(lookup)
         IN  /\ DOMAIN toc = Tracks
             /\ \A t \in Tracks : \A one \in OfTrack(t) : sheet.indices[one].num = 1 =>
                  /\ toc[t].start = IndexSector(one)
                  /\ toc[t].start + toc[t].length =
                       IF one = Len(sheet.indices) THEN End ELSE IndexSector(one + 1)
<1> DEFINE N == Len(sheet.indices)
           T == Len(sheet.tracks)
           num(t) == The(bcd_from_binary(t))
           entry == [n \in 1 .. 99 |-> track_len(lookup, num(n))]
           missing == {n \in 1 .. 99 : entry[n] = None}
           toc == build_toc(lookup)
           after(n) == IF n = N THEN End ELSE IndexSector(n + 1)
           Of(n) == [start |-> IndexSector(n), length |-> after(n) - IndexSector(n)]
<1>1. /\ N \in Nat /\ Indices = 1 .. N /\ lookup.len - 1 = N /\ DOMAIN lookup.indices = 0 .. N
      /\ Tracks = 1 .. T /\ T \in Nat /\ T <= 99 /\ lookup.lead_out = End
      /\ lookup.indices[0].track = 0
  BY SheetFacts DEF IsDisc, Plain, PlainTracks
<1>2. ASSUME NEW n \in Indices
      PROVE  /\ lookup.indices[n].track = TrackOf(n).num /\ lookup.indices[n].index = sheet.indices[n].num
             /\ lookup.indices[n].sector = IndexSector(n)
             /\ TrackOf(n).num \in Bcd /\ as_binary(TrackOf(n).num) = sheet.indices[n].track
  <2>1. lookup.indices[n] = Entry(n)
    BY DEF IsDisc
  <2> QED
    BY <2>1, TrackFacts DEF Entry
<1>3. \A t \in 1 .. 99 : num(t) \in Bcd /\ as_binary(num(t)) = t /\ num(t) \in Nat /\ num(t) # 0
  <2> SUFFICES ASSUME NEW t \in 1 .. 99 PROVE num(t) \in Bcd /\ as_binary(num(t)) = t /\ num(t) \in Nat /\ num(t) # 0
    OBVIOUS
  <2>1. t \in 0 .. 153
    OBVIOUS
  <2>2. num(t) \in Bcd /\ as_binary(num(t)) = t
    BY <2>1, BcdOf
  <2> HIDE DEF num
  <2> QED
    BY <2>2, BcdIs
<1> HIDE DEF num
<1>4. ByTrack(lookup)
  BY DiscByTrack
<1>5. ASSUME NEW n \in Indices PROVE after(n) \in Nat /\ after(n) - IndexSector(n) >= 0 /\ after(n) < Far
  <2>0. End \in Nat /\ End < Far /\ IndexSector(n) \in Nat /\ IndexSector(n) < End
    <3>1. End \in Nat
      BY SheetFacts, BeforeIs DEF End
    <3> QED
      BY <3>1, Limits, IndexSectors DEF Plain
  <2>1. CASE n = N
    BY <2>0, <2>1
  <2>2. CASE n # N
    <3>1. n + 1 \in Indices
      BY <1>1, <2>2
    <3>2. IndexSector(n + 1) \in Nat /\ IndexSector(n + 1) < End /\ IndexSector(n) < IndexSector(n + 1)
      BY <1>1, <3>1, IndexSectors
    <3> QED
      BY <2>0, <2>2, <3>2, Limits
  <2> QED
    BY <2>1, <2>2
<1>6. ASSUME NEW t \in Tracks, NEW one \in OfTrack(t), sheet.indices[one].num = 1
      PROVE  entry[t] = Some(Of(one))
  <2>1. one \in Indices /\ sheet.indices[one].track = t /\ t \in 1 .. 99
    BY <1>1 DEF OfTrack
  <2>2. TrackOf(one).num = num(t)
    BY <2>1, TrackFacts DEF num
  <2>3. one \in 0 .. lookup.len - 1 /\ lookup.indices[one].track = num(t) /\ lookup.indices[one].index = 1
    BY <1>1, <1>2, <1>6, <2>1, <2>2
  <2>4. get_from_track(lookup, num(t), 1) = Some(one)
    <3>1. num(t) \in Nat /\ 1 \in Nat
      BY <1>3, <2>1
    <3> QED
      BY <1>4, <2>3, <3>1, FromTrack
  <2>5. track_end(lookup, one) = after(one)
    <3> DEFINE others == {j \in DOMAIN lookup.indices : j > one /\ lookup.indices[j].track # lookup.indices[one].track}
    <3>1. \A j \in Indices : j > one => sheet.indices[j].track # t
      <4> SUFFICES ASSUME NEW j \in Indices, j > one, sheet.indices[j].track = t PROVE FALSE
        OBVIOUS
      <4>1. OfTrack(t) \subseteq {one - 1, one}
        BY <1>6, <2>1, TrackFacts
      <4>2. j \in OfTrack(t)
        BY DEF OfTrack
      <4> QED
        BY <1>1, <2>1, <4>1, <4>2
    <3>2. \A j \in Indices : j > one => lookup.indices[j].track # lookup.indices[one].track
      <4> SUFFICES ASSUME NEW j \in Indices, j > one PROVE lookup.indices[j].track # lookup.indices[one].track
        OBVIOUS
      <4> QED
        BY <1>2, <2>1, <3>1
    <3>3. others = {j \in 0 .. N : j > one}
      <4>1. \A j \in 0 .. N : j > one => j \in Indices
        BY <1>1, <2>1
      <4> QED
        BY <1>1, <3>2, <4>1
    <3>4. track_end(lookup, one) = IF others = {} THEN lookup.lead_out
                                   ELSE lookup.indices[CHOOSE j \in others : \A k \in others : j <= k].sector
      BY DEF track_end
    <3> HIDE DEF others
    <3>5. CASE one = N
      <4>1. others = {}
        BY <1>1, <3>3, <3>5
      <4> QED
        BY <1>1, <3>4, <3>5, <4>1
    <3>6. CASE one # N
      <4>1. one + 1 \in Indices /\ one + 1 \in others /\ \A k \in others : one + 1 <= k
        BY <1>1, <2>1, <3>3, <3>6
      <4>2. \A j \in others : (\A k \in others : j <= k) => j = one + 1
        BY <1>1, <2>1, <3>3, <4>1
      <4>3. (CHOOSE j \in others : \A k \in others : j <= k) = one + 1
        BY <4>1, <4>2
      <4>4. track_end(lookup, one) = lookup.indices[one + 1].sector
        BY <3>4, <4>1, <4>3
      <4> QED
        BY <1>2, <3>6, <4>1, <4>4
    <3> QED
      BY <3>5, <3>6
  <2>6. track_len(lookup, num(t)) = Some(Of(one))
    <3> DEFINE i == get_from_track(lookup, num(t), 1)
               first == lookup.indices[The(i)].sector
               length == track_end(lookup, The(i)) - first
    <3>1. i # None /\ The(i) = one
      BY <2>4, TheSome
    <3>2. first = IndexSector(one) /\ length = after(one) - IndexSector(one)
      BY <1>2, <2>1, <2>5, <3>1
    <3>3. track_len(lookup, num(t)) =
            IF i = None THEN None
            ELSE IF length >= 0 /\ from_sector(length) = None THEN None
            ELSE Some([start |-> first, length |-> length])
      BY DEF track_len
    <3> HIDE DEF i, first, length
    <3>4. length \in Nat /\ length < Far
      <4>1. after(one) \in Nat /\ IndexSector(one) \in Nat /\ after(one) - IndexSector(one) >= 0 /\ after(one) < Far
        BY <1>5, <2>1, IndexSectors
      <4> HIDE DEF after
      <4> QED
        BY <3>2, <4>1, Limits
    <3>5. from_sector(length) # None
      BY <3>4, FromSector
    <3> QED
      BY <3>1, <3>2, <3>3, <3>5
  <2> QED
    BY <2>1, <2>6
<1>7. ASSUME NEW t \in 1 .. 99, t \notin Tracks PROVE entry[t] = None
  <2>1. ASSUME NEW i \in 0 .. lookup.len - 1 PROVE lookup.indices[i].track # num(t)
    <3>1. CASE i = 0
      BY <1>1, <1>3, <3>1
    <3>2. CASE i # 0
      <4>1. i \in Indices
        BY <1>1, <3>2
      <4>2. sheet.indices[i].track \in Tracks
        BY <4>1, IndexFacts
      <4> QED
        BY <1>2, <1>3, <1>7, <4>1, <4>2
    <3> QED
      BY <3>1, <3>2
  <2>2. get_from_track(lookup, num(t), 1) = None
    BY <1>3, <1>4, <2>1, FromTrack
  <2>3. track_len(lookup, num(t)) = None
    BY <2>2 DEF track_len
  <2> QED
    BY <2>3
<1>8. ASSUME NEW t \in Tracks PROVE \E one \in OfTrack(t) : sheet.indices[one].num = 1
  BY DEF Plain, PlainTracks
<1>9. \A t \in 1 .. 99 : entry[t] = None <=> t \notin Tracks
  BY <1>6, <1>7, <1>8, TheSome
<1>10. toc = [n \in {k \in 1 .. 99 : \A m \in missing : k < m} |-> The(entry[n])]
  BY DEF build_toc, num
<1> HIDE DEF entry, toc, T, N, missing
<1>11. T \in Nat /\ T <= 99
  BY <1>1
<1>12. \A n \in 1 .. 99 : n \notin Tracks <=> n > T
  BY <1>1
<1>13. missing = {n \in 1 .. 99 : n > T}
  <2>1. \A n \in 1 .. 99 : entry[n] = None <=> n > T
    BY <1>9, <1>12
  <2> QED
    BY <2>1 DEF missing
<1>14. {k \in 1 .. 99 : \A m \in missing : k < m} = 1 .. T
  <2>1. ASSUME NEW k \in 1 .. 99, \A m \in missing : k < m PROVE k <= T
    <3>1. k \notin missing
      BY <2>1
    <3> QED
      BY <1>11, <1>13, <3>1
  <2>2. ASSUME NEW k \in 1 .. T PROVE k \in 1 .. 99 /\ \A m \in missing : k < m
    BY <1>11, <1>13
  <2>3. \A k \in 1 .. 99 : (\A m \in missing : k < m) <=> k <= T
    BY <1>11, <2>1, <2>2
  <2>4. {k \in 1 .. 99 : \A m \in missing : k < m} = {k \in 1 .. 99 : k <= T}
    BY <2>3
  <2>5. {k \in 1 .. 99 : k <= T} = 1 .. T
    BY <1>11
  <2> QED
    BY <2>4, <2>5
<1>15. toc = [n \in 1 .. T |-> The(entry[n])]
  BY <1>10, <1>14
<1>16. ASSUME NEW t \in Tracks, NEW one \in OfTrack(t), sheet.indices[one].num = 1
       PROVE  toc[t].start = IndexSector(one) /\ toc[t].start + toc[t].length = after(one)
  <2>1. toc[t] = Of(one)
    BY <1>1, <1>6, <1>15, <1>16, TheSome
  <2>2. toc[t].start = IndexSector(one) /\ toc[t].length = after(one) - IndexSector(one)
    BY <2>1
  <2>3. one \in Indices
    BY DEF OfTrack
  <2>4. after(one) \in Nat /\ IndexSector(one) \in Nat
    BY <1>5, <2>3, IndexSectors
  <2> HIDE DEF after
  <2> QED
    BY <2>2, <2>4
<1> QED
  BY <1>1, <1>15, <1>16 DEF toc, N, T

-----------------------------------------------------------------------------
(***************************************************************************)
(* Reading a sector (Disc).                                                *)
(***************************************************************************)
LEMMA FileOfSector ==
  ASSUME SheetOK, Plain, NEW n \in Indices, NEW s \in Nat, IndexSector(n) <= s, s < End,
         n < Len(sheet.indices) => s < IndexSector(n + 1)
  PROVE  s < Before[FileOf(n)] /\ FileAt(s) = FileOf(n) /\ Base(FileOf(n)) = Before[FileOf(n) - 1]
<1> DEFINE f == FileOf(n)
           F == Len(sheet.files)
           N == Len(sheet.indices)
<1>1. /\ Files = 1 .. F /\ F \in Nat /\ Indices = 1 .. N /\ N \in Nat /\ f \in Files
      /\ IndexSector(n) = Before[f - 1] + Start(n) /\ Start(n) \in Nat
      /\ Before[f - 1] \in Nat /\ Before[f] \in Nat /\ Base(f) = Before[f - 1]
  BY SheetFacts, IndexFacts, BeforeIs
<1>2. s < Before[f]
  <2>1. CASE n = N
    BY <1>1, <2>1, PlainEnds DEF End
  <2>2. CASE n # N
    <3>1. n + 1 \in Indices /\ n < N
      BY <1>1, <2>2
    <3>2. CASE FileOf(n + 1) = f
      <4>1. IndexSector(n + 1) < Before[f] /\ IndexSector(n + 1) \in Nat
        BY <3>1, <3>2, IndexSectors
      <4> QED
        BY <1>1, <3>1, <4>1
    <3>3. CASE FileOf(n + 1) = f + 1 /\ Start(n + 1) = 0
      <4>1. (f + 1) - 1 = f
        BY <1>1
      <4>2. IndexSector(n + 1) = Before[f] + 0
        BY <3>1, <3>3, <4>1, IndexFacts
      <4> QED
        BY <1>1, <3>1, <4>2
    <3> QED
      BY <3>1, <3>2, <3>3, PlainNeighbours
  <2> QED
    BY <2>1, <2>2
<1>3. s \in Base(f) .. Before[f] - 1
  BY <1>1, <1>2
<1>4. ASSUME NEW g \in Files, s \in Base(g) .. Before[g] - 1 PROVE g = f
  <2>1. Base(g) = Before[g - 1] /\ Before[g - 1] \in Nat /\ Before[g] \in Nat
        /\ f - 1 \in 0 .. F /\ f \in 0 .. F /\ g - 1 \in 0 .. F /\ g \in 0 .. F
    <3>1. f - 1 \in 0 .. F /\ f \in 0 .. F /\ g - 1 \in 0 .. F /\ g \in 0 .. F
      BY <1>1
    <3> QED
      BY <3>1, BeforeIs
  <2>2. CASE g < f
    <3>1. g <= f - 1
      BY <1>1, <2>2
    <3>2. Before[g] <= Before[f - 1]
      BY <2>1, <3>1, BeforeIs
    <3> QED
      BY <1>1, <1>3, <1>4, <2>1, <3>2
  <2>3. CASE f < g
    <3>1. f <= g - 1
      BY <1>1, <2>3
    <3>2. Before[f] <= Before[g - 1]
      BY <2>1, <3>1, BeforeIs
    <3> QED
      BY <1>1, <1>3, <1>4, <2>1, <3>2
  <2> QED
    BY <1>1, <2>2, <2>3
<1>5. FileAt(s) = f
  BY <1>1, <1>3, <1>4 DEF FileAt
<1> QED
  BY <1>1, <1>2, <1>5

\* The sector at a position is in the last index before it.
InIndex(read, s) ==
  LET all == image.lookup.indices
      i == read.at
  IN  /\ read.sector = s /\ all[i].sector <= s
      /\ \A j \in DOMAIN all : all[j].sector > all[i].sector => all[j].sector > s
      /\ Plain => \E n \in Indices :
           /\ IndexSector(n) <= s
           /\ n < Len(sheet.indices) => s < IndexSector(n + 1)
           /\ read.index = sheet.indices[n].num
           /\ read.track = sheet.tracks[sheet.indices[n].track].num

MountOK ==
  /\ image.lookup = LookupOf(layout) /\ image.toc = build_toc(image.lookup)
  /\ Plain => LaidOut(layout)

LEMMA SectorRead ==
  ASSUME SheetOK, layout \in LayoutType, MountOK, NEW s \in Nat, s < Far, load_sector(Position(s)) # None
  PROVE  InIndex(The(load_sector(Position(s))), s)
<1> DEFINE msf == Position(s)
           lookup == image.lookup
           all == lookup.indices
           found == get_from_msf(lookup, msf)
           i == The(found)
           read == The(load_sector(msf))
           N == Len(sheet.indices)
<1>1. /\ found # None /\ i \in DOMAIN all
      /\ load_sector(msf) = Some([sector |-> sector(msf), at |-> i, data |-> The(sector_data(i, msf)),
                                  track |-> all[i].track, index |-> all[i].index,
                                  track_msf |-> The(track_msf(i, msf))])
  BY DEF load_sector
<1>2. read.sector = sector(msf) /\ read.at = i /\ read.track = all[i].track /\ read.index = all[i].index
  BY <1>1, TheSome
<1>3. sector(msf) = s
  BY FromSector
<1>4. IsLookup(lookup) /\ lookup.lead_out \in Nat
  BY AnyLookup DEF MountOK
<1> HIDE DEF msf, read, all, lookup
<1>5. DOMAIN all = 0 .. lookup.len - 1 /\ lookup.len \in Nat
  BY <1>4 DEF IsLookup, all
<1>6. i # -1
  BY <1>1, <1>5
<1>7. all[i].sector <= s /\ \A j \in DOMAIN all : all[j].sector > all[i].sector => all[j].sector > s
  BY <1>1, <1>3, <1>4, <1>5, <1>6, FromMsf DEF all
<1>8. ASSUME Plain
      PROVE  \E n \in Indices :
               /\ IndexSector(n) <= s
               /\ n < N => s < IndexSector(n + 1)
               /\ all[i].index = sheet.indices[n].num
               /\ all[i].track = sheet.tracks[sheet.indices[n].track].num
  <2>1. /\ lookup.len = N + 1 /\ DOMAIN all = 0 .. N /\ all[0].sector = 150
        /\ \A n \in Indices : all[n] = Entry(n)
    BY <1>8, DiscLookup DEF MountOK, IsDisc, all, lookup
  <2>2. Indices = 1 .. N /\ N \in Nat /\ N >= 1 /\ 1 \in Indices
    BY <1>8, SheetFacts, PlainEnds
  <2>3. \A n \in Indices : all[n].sector = IndexSector(n) /\ IndexSector(n) \in Nat /\ IndexSector(n) >= 150
    <3>1. \A n : Entry(n).sector = IndexSector(n)
      BY DEF Entry
    <3> QED
      BY <1>8, <2>1, <3>1, IndexSectors
  <2>4. s >= 150
    <3>1. i = 0 \/ i \in Indices
      BY <1>1, <2>1, <2>2
    <3> QED
      BY <1>7, <2>1, <2>3, <3>1
  <2>5. i >= 1
    <3>1. all[1].sector <= s
      BY <1>8, <2>2, <2>3, <2>4, IndexSectors
    <3>2. lookup.len >= 2
      BY <2>1, <2>2
    <3> QED
      BY <1>1, <1>3, <1>4, <3>1, <3>2, FromMsf DEF all
  <2>6. i \in Indices
    BY <1>1, <2>1, <2>2, <2>5
  <2>7. all[i] = Entry(i) /\ IndexSector(i) <= s
    BY <1>7, <2>1, <2>3, <2>6
  <2>8. ASSUME i < N PROVE s < IndexSector(i + 1)
    <3>1. i + 1 \in Indices /\ i + 1 \in DOMAIN all /\ i < i + 1
      BY <2>1, <2>2, <2>6, <2>8
    <3>2. all[i + 1].sector > all[i].sector
      BY <1>8, <2>3, <2>6, <3>1, IndexSectors
    <3>3. all[i + 1].sector > s
      BY <1>7, <3>1, <3>2
    <3> QED
      BY <2>3, <3>1, <3>3
  <2>9. all[i].index = sheet.indices[i].num /\ all[i].track = sheet.tracks[sheet.indices[i].track].num
    BY <2>7 DEF Entry, TrackOf
  <2> QED
    BY <2>6, <2>7, <2>8, <2>9
<1> HIDE DEF i, found
<1> QED
  BY <1>2, <1>3, <1>7, <1>8 DEF InIndex, read, msf, all, lookup

\* A sector of a plain data disc is read from its place in its file.
LEMMA PlainRead ==
  ASSUME SheetOK, layout \in LayoutType, MountOK, Plain, Data, NEW s \in Nat, s >= 150, s < End
  PROVE  LET read == load_sector(Position(s))
             f == FileAt(s)
         IN  read # None /\ The(read).data = [binary |-> f, offset |-> (s - Base(f)) * Size(f)]
<1> DEFINE msf == Position(s)
           lookup == image.lookup
           all == lookup.indices
           found == get_from_msf(lookup, msf)
           n == The(found)
           idx == all[n]
           N == Len(sheet.indices)
           f == FileOf(n)
<1>1. End < Far /\ End \in Nat /\ s < Far
  <2>1. End \in Nat
    BY SheetFacts, BeforeIs DEF End
  <2> QED
    BY <2>1, Limits DEF Plain
<1>2. sector(msf) = s
  BY <1>1, FromSector
<1>3. IsLookup(lookup) /\ IsDisc(lookup) /\ ByTrack(lookup)
  BY AnyLookup, DiscLookup, DiscByTrack DEF MountOK
<1>4. load_sector(msf) =
        IF found = None THEN None
        ELSE IF n \notin DOMAIN all THEN None
        ELSE IF None \in {track_msf(n, msf), sector_data(n, msf)} THEN None
        ELSE IF idx.format = "Audio" THEN None
        ELSE Some([sector |-> sector(msf), at |-> n, data |-> The(sector_data(n, msf)),
                   track |-> idx.track, index |-> idx.index, track_msf |-> The(track_msf(n, msf))])
  BY DEF load_sector
<1> HIDE DEF msf
<1>5. /\ lookup.len = N + 1 /\ lookup.len - 1 = N /\ DOMAIN all = 0 .. N /\ all[0].sector = 150 /\ lookup.lead_out = End
      /\ (\A m \in Indices : all[m] = Entry(m))
      /\ Indices = 1 .. N /\ N \in Nat /\ N >= 1 /\ 1 \in Indices
  BY <1>3, SheetFacts, PlainEnds DEF IsDisc
<1>6. \A m \in Indices : all[m].sector = IndexSector(m) /\ IndexSector(m) \in Nat
  <2>1. \A m : Entry(m).sector = IndexSector(m)
    BY DEF Entry
  <2> QED
    BY <1>5, <2>1, IndexSectors
<1> HIDE DEF all, lookup
<1>7. found # None /\ n \in -1 .. N /\ n >= 1
  <2>1. all[1].sector <= s
    BY <1>5, <1>6, IndexSectors
  <2>2. lookup.len >= 2 /\ lookup.lead_out \in Nat /\ ~(s > lookup.lead_out) /\ sector(msf) \in Nat
    BY <1>1, <1>2, <1>5
  <2>3. found # None /\ n \in -1 .. lookup.len - 1
    BY <1>2, <1>3, <2>2, FromMsf
  <2>4. n >= 1
    BY <1>2, <1>3, <2>1, <2>2, <2>3, FromMsf DEF all
  <2> QED
    BY <1>5, <2>3, <2>4
<1>8. n \in Indices /\ n \in DOMAIN all /\ n \in 0 .. lookup.len - 1
  BY <1>5, <1>7
<1>9. all[n].sector <= s /\ \A j \in DOMAIN all : all[j].sector > all[n].sector => all[j].sector > s
  <2>1. n # -1 /\ lookup.lead_out \in Nat /\ sector(msf) \in Nat /\ DOMAIN all = 0 .. lookup.len - 1
    BY <1>1, <1>2, <1>5, <1>7
  <2> QED
    BY <1>2, <1>3, <1>7, <2>1, FromMsf DEF all
<1>10. idx = Entry(n) /\ IndexSector(n) <= s /\ IndexSector(n) \in Nat
  BY <1>5, <1>6, <1>8, <1>9
<1>11. ASSUME n < N
       PROVE  s < IndexSector(n + 1) /\ n + 1 \in DOMAIN all /\ all[n + 1].sector = IndexSector(n + 1)
              /\ IndexSector(n + 1) \in Nat /\ IndexSector(n + 1) < Far
  <2>1. n + 1 \in Indices /\ n + 1 \in DOMAIN all /\ n < n + 1
    BY <1>5, <1>8, <1>11
  <2>2. all[n + 1].sector > all[n].sector
    BY <1>6, <1>8, <2>1, IndexSectors
  <2>3. all[n + 1].sector > s
    BY <1>9, <2>1, <2>2
  <2> QED
    BY <1>6, <2>1, <2>3, IndexFacts
<1> HIDE DEF n, found
<1>12. s < Before[f] /\ FileAt(s) = f /\ Base(f) = Before[f - 1]
  BY <1>8, <1>10, <1>11, FileOfSector
<1>13. /\ idx.index = sheet.indices[n].num /\ idx.track = TrackOf(n).num /\ idx.sector = IndexSector(n)
       /\ idx.format = track_format(TrackOf(n).mode)
       /\ idx.data = [binary |-> f, offset |-> Start(n) * Size(f), mode |-> TrackOf(n).mode]
  BY <1>10 DEF Entry
<1>14. /\ f \in Files /\ Start(n) \in Nat /\ Start(n) < Sectors(f) /\ Sectors(f) \in Nat
       /\ IndexSector(n) = Before[f - 1] + Start(n) /\ Before[f - 1] \in Nat /\ Before[f] \in Nat
       /\ Before[f] = Before[f - 1] + Sectors(f)
       /\ sector_size(TrackOf(n).mode) = Size(f) /\ Size(f) \in Sizes /\ sheet.files[f] \in Nat
       /\ TrackOf(n) \in TrackType /\ sheet.indices[n].track \in Tracks
  BY <1>8, IndexFacts
<1>15. sheet.indices[n].num \in {0, 1}
       /\ (sheet.indices[n].num = 0 => n + 1 \in Indices)
  BY <1>8, TrackFacts
<1> HIDE DEF idx, f
<1>16. track_msf(n, msf) # None
  <2> DEFINE one == IF idx.index = 1 THEN Some(n) ELSE get_from_track(lookup, idx.track, 1)
             at(k) == IF k < 0 THEN None ELSE from_sector(k)
  <2>1. track_msf(n, msf) =
          IF idx.index = 0
            THEN IF n + 1 \notin DOMAIN all THEN None
                 ELSE at(all[n + 1].sector - sector(msf))
            ELSE IF one = None THEN None ELSE at(sector(msf) - all[The(one)].sector)
    BY DEF track_msf, idx, all, lookup
  <2>2. \A k \in Nat : k < Far => at(k) # None
    BY FromSector
  <2> HIDE DEF at, one
  <2>3. CASE idx.index = 0
    <3>1. n < N
      BY <1>5, <1>8, <1>13, <1>15, <2>3
    <3>2. all[n + 1].sector - sector(msf) \in Nat /\ all[n + 1].sector - sector(msf) < Far
      BY <1>1, <1>2, <1>11, <3>1, Limits
    <3> QED
      BY <1>11, <2>1, <2>2, <2>3, <3>1, <3>2
  <2>4. CASE idx.index = 1
    <3>1. one = Some(n)
      BY <2>4 DEF one
    <3>2. one # None /\ The(one) = n
      BY <3>1, TheSome
    <3>3. sector(msf) - all[The(one)].sector \in Nat /\ sector(msf) - all[The(one)].sector < Far
      BY <1>1, <1>2, <1>6, <1>8, <1>10, <3>2, Limits
    <3> QED
      BY <2>1, <2>2, <2>4, <3>2, <3>3
  <2> QED
    BY <1>13, <1>15, <2>3, <2>4
<1>17. sector_data(n, msf) = Some([binary |-> f, offset |-> (s - Base(f)) * Size(f)])
  <2> DEFINE size == sector_size(idx.data.mode)
             start == idx.data.offset + size * (sector(msf) - idx.sector)
             k == s - Base(f)
  <2>1. sector_data(n, msf) = IF idx.data = PreGap THEN Some([binary |-> 0, offset |-> 0])
                              ELSE IF start + size > sheet.files[idx.data.binary] THEN None
                              ELSE Some([binary |-> idx.data.binary, offset |-> start])
    BY DEF sector_data, idx, all, lookup
  <2>2. idx.data.binary = f /\ idx.data.offset = Start(n) * Size(f) /\ idx.data.mode = TrackOf(n).mode
    BY <1>13
  <2>3. size = Size(f)
    BY <1>14, <2>2
  <2>4. idx.data # PreGap
    <3>1. f # 0
      BY <1>14, SheetFacts
    <3>2. PreGap.binary = 0
      BY DEF PreGap
    <3> QED
      BY <2>2, <3>1, <3>2
  <2>5. k \in Nat /\ k < Sectors(f) /\ s - IndexSector(n) \in Int /\ Start(n) + (s - IndexSector(n)) = k
    BY <1>10, <1>12, <1>14
  <2> HIDE DEF k, size
  <2>6. start = Start(n) * Size(f) + Size(f) * (s - IndexSector(n))
    BY <1>2, <1>13, <2>2, <2>3
  <2>7. Start(n) * Size(f) + Size(f) * (s - IndexSector(n)) = k * Size(f)
    <3>1. Start(n) \in Int
      BY <1>14
    <3>2. Start(n) * Size(f) + Size(f) * (s - IndexSector(n)) = (Start(n) + (s - IndexSector(n))) * Size(f)
      BY <1>14, <2>5, <3>1, Factored
    <3> QED
      BY <2>5, <3>2
  <2>8. k * Size(f) + Size(f) <= sheet.files[f] /\ k * Size(f) \in Int /\ Size(f) \in Int
    <3>1. k < sheet.files[f] \div Size(f)
      BY <2>5 DEF Sectors
    <3>2. Size(f) \in Int
      BY <1>14 DEF Sizes
    <3>3. k * Size(f) \in Int
      BY <1>14, <2>5, Products
    <3> QED
      BY <1>14, <2>5, <3>1, <3>2, <3>3, Spans
  <2>9. ~(start + size > sheet.files[idx.data.binary])
    BY <1>14, <2>2, <2>3, <2>6, <2>7, <2>8
  <2>10. start = k * Size(f)
    BY <2>6, <2>7
  <2> HIDE DEF start
  <2> QED
    BY <2>1, <2>2, <2>4, <2>9, <2>10 DEF k
<1>18. idx.format # "Audio"
  <2>1. TrackOf(n).mode # "AUDIO"
    BY <1>14 DEF Data, TrackOf
  <2> QED
    BY <1>13, <2>1 DEF track_format
<1>19. load_sector(msf) # None /\ The(load_sector(msf)).data = The(sector_data(n, msf))
  <2>1. sector_data(n, msf) # None
    BY <1>17, TheSome
  <2>2. load_sector(msf) = Some([sector |-> sector(msf), at |-> n, data |-> The(sector_data(n, msf)),
                   track |-> idx.track, index |-> idx.index, track_msf |-> The(track_msf(n, msf))])
    BY <1>4, <1>7, <1>8, <1>16, <1>18, <2>1 DEF found, n, idx, all, lookup
  <2> QED
    BY <2>2, TheSome
<1>20. The(sector_data(n, msf)) = [binary |-> f, offset |-> (s - Base(f)) * Size(f)]
  BY <1>17, TheSome
<1> QED
  BY <1>12, <1>19, <1>20 DEF msf

-----------------------------------------------------------------------------
(***************************************************************************)
(* The invariant.                                                          *)
(***************************************************************************)
\* The layout is done and the image was mounted.
Opened == phase = "mounted" \/ reads > 0

\* The drive, as long as the reads go well.
DriveOK ==
  /\ target \in Nat /\ reads \in Nat
  /\ phase # "panicked" => target + reads < Reach /\ position = Position(target + reads)
  /\ reads = 0 => last = Nothing
  /\ phase \in {"parsing", "opened"} => reads = 0

DiscInv ==
  /\ SheetOK /\ SourceOK /\ layout \in LayoutType
  /\ phase = "opened" /\ Plain => LaidPlain(layout)
  /\ Opened => MountOK
  /\ DriveOK
  /\ ReadsTheDisc /\ SectorIsInIndex

\* What stays of the sheet while it does not change.
LEMMA SameSheet ==
  ASSUME sheet' = sheet
  PROVE  /\ SheetOK => SheetOK'
         /\ Plain' = Plain /\ Data' = Data /\ End' = End
         /\ Len(sheet.files)' = Len(sheet.files)
<1>1. SheetOK => SheetOK'
  BY DEF SheetOK, Files, Tracks, Indices
<1>2. Plain' = Plain /\ End' = End
  BY DEF Plain, PlainTracks, PlainFiles, End, Before, Sectors, Size, OfTrack, InFile, Start, FileOf,
         Files, Tracks, Indices
<1>3. Data' = Data
  BY DEF Data, Tracks
<1> QED
  BY <1>1, <1>2, <1>3

LEMMA SameLaid ==
  ASSUME sheet' = sheet
  PROVE  LaidPlain(layout)' = LaidPlain(layout') /\ LaidOut(layout)' = LaidOut(layout')
BY SMT DEF LaidOut, LaidPlain, Inside, Entry, TrackOf, IndexSector, Base, Before, Sectors, Size, Start, FileOf,
           Files, Tracks, Indices

\* What the properties say of a read.
Reading(s, ph, pos, read, n) ==
  LET f == FileAt(s)
  IN  n > 0 /\ Plain /\ Data /\ s \in 150 .. End - 1 =>
        /\ ph = "mounted" /\ sector(pos) = s
        /\ read.data = [binary |-> f, offset |-> (s - Base(f)) * Size(f)]

LEMMA SameReads ==
  ASSUME sheet' = sheet
  PROVE  /\ image' = image => SectorIsInIndex' = (last' # Nothing => InIndex(last', last'.sector))
         /\ ReadsTheDisc' = Reading(target' + reads', phase', position', last', reads')
<1>1. ASSUME image' = image PROVE SectorIsInIndex' = (last' # Nothing => InIndex(last', last'.sector))
  BY <1>1, SMT DEF SectorIsInIndex, InIndex, Plain, PlainTracks, PlainFiles, End, IndexSector, Base, Before, Sectors, Size, OfTrack,
         InFile, Start, FileOf, Files, Tracks, Indices
<1>2. ReadsTheDisc' = Reading(target' + reads', phase', position', last', reads')
  BY SMT DEF ReadsTheDisc, Reading, FileAt, Data, Plain, PlainTracks, PlainFiles, End, IndexSector, Base, Before, Sectors, Size, OfTrack,
         InFile, Start, FileOf, Files, Tracks, Indices
<1> QED
  BY <1>1, <1>2

LEMMA ReadsNow ==
  /\ SectorIsInIndex = (last # Nothing => InIndex(last, last.sector))
  /\ ReadsTheDisc = Reading(target + reads, phase, position, last, reads)
BY DEF SectorIsInIndex, InIndex, ReadsTheDisc, Reading

LEMMA SameMount ==
  ASSUME sheet' = sheet, image' = image, layout' = layout, MountOK
  PROVE  MountOK'
<1>1. LaidOut(layout)' = LaidOut(layout)
  <2>1. LaidOut(layout)' = LaidOut(layout')
    BY SameLaid
  <2> QED
    BY <2>1, SMT
<1>2. Plain' = Plain
  BY SameSheet
<1>3. LookupOf(layout)' = LookupOf(layout)
  BY DEF LookupOf
<1> QED
  BY <1>1, <1>2, <1>3 DEF MountOK

\* Before the first read.
LEMMA Unread ==
  ASSUME reads = 0, last = Nothing
  PROVE  ReadsTheDisc /\ SectorIsInIndex
BY DEF ReadsTheDisc, SectorIsInIndex

LEMMA DiscStart == DiscInit => DiscInv
<1> SUFFICES ASSUME DiscInit PROVE DiscInv
  OBVIOUS
<1>1. SheetOK /\ SourceOK
  BY InitSheet
<1>2. layout \in LayoutType
  BY EmptyType DEF DiscInit
<1>3. phase = "parsing" /\ reads = 0 /\ last = Nothing /\ target = 0 /\ position = MsfOf(0, 0, 0)
  BY DEF DiscInit
<1>4. Position(0) = MsfOf(0, 0, 0)
  <2>1. The(bcd_from_binary(0)) = 0
    <3>1. bcd_from_binary(0) = Some(0)
      BY DEF bcd_from_binary
    <3> QED
      BY <3>1, TheSome
  <2>2. Minute(0) = 0 /\ Second(0) = 0 /\ Frame(0) = 0
    BY DEF Minute, Second, Frame
  <2> QED
    BY <2>1, <2>2 DEF Position
<1>5. DriveOK
  <2>1. target + reads = 0 /\ 0 < Reach
    BY <1>3, Limits
  <2> QED
    BY <1>3, <1>4, <2>1 DEF DriveOK
<1>6. ReadsTheDisc /\ SectorIsInIndex
  BY <1>3, Unread
<1>7. ~Opened
  BY <1>3 DEF Opened
<1> QED
  BY <1>1, <1>2, <1>3, <1>5, <1>6, <1>7 DEF DiscInv

LEMMA ParseStep ==
  ASSUME DiscInv, Parse
  PROVE  DiscInv'
<1>1. SheetOK' /\ SourceOK'
  BY ParseSheet DEF DiscInv
<1>2. phase = "parsing" /\ phase' \in {"parsing", "rejected"}
      /\ UNCHANGED <<layout, image, position, target, last, reads>>
  BY DEF Parse
<1>3. reads' = 0 /\ last' = Nothing
  BY <1>2 DEF DiscInv, DriveOK
<1>4. DriveOK'
  BY <1>2, <1>3 DEF DiscInv, DriveOK
<1>5. (ReadsTheDisc /\ SectorIsInIndex)'
  BY <1>3 DEF ReadsTheDisc, SectorIsInIndex
<1>6. ~Opened'
  BY <1>2, <1>3 DEF Opened
<1>7. layout' \in LayoutType
  BY <1>2 DEF DiscInv
<1> QED
  BY <1>1, <1>2, <1>4, <1>5, <1>6, <1>7 DEF DiscInv

LEMMA OpenStep ==
  ASSUME DiscInv, Open
  PROVE  DiscInv'
<1>1. /\ phase = "parsing" /\ phase' \in {"opened", "rejected"}
      /\ layout' = EmptyLayout(sheet) \/ (phase' = "rejected" /\ layout' = layout)
      /\ UNCHANGED <<source, line, sheet, image, position, target, last, reads>>
  BY DEF Open
<1>2. reads' = 0 /\ last' = Nothing
  BY <1>1 DEF DiscInv, DriveOK
<1>3. SheetOK' /\ SourceOK' /\ Plain' = Plain
  BY <1>1, SameSheet DEF DiscInv, SourceOK
<1>4. layout' \in LayoutType
  BY <1>1, EmptyType DEF DiscInv
<1>5. phase' = "opened" /\ Plain' => LaidPlain(layout)'
  <2>1. Plain => LaidPlain(EmptyLayout(sheet))
    BY LaidEmpty DEF DiscInv
  <2>2. LaidPlain(layout)' = LaidPlain(layout')
    BY <1>1, SameLaid
  <2> QED
    BY <1>1, <1>3, <2>1, <2>2
<1>6. DriveOK'
  BY <1>1, <1>2 DEF DiscInv, DriveOK
<1>7. (ReadsTheDisc /\ SectorIsInIndex)'
  BY <1>2 DEF ReadsTheDisc, SectorIsInIndex
<1>8. ~Opened'
  BY <1>1, <1>2 DEF Opened
<1> QED
  BY <1>3, <1>4, <1>5, <1>6, <1>7, <1>8 DEF DiscInv

LEMMA LayOutStep ==
  ASSUME DiscInv, LayOut
  PROVE  DiscInv'
<1> DEFINE new == lay_out(sheet, layout)
<1>1. /\ phase = "opened" /\ layout.file <= Len(sheet.files) /\ layout' = new
      /\ phase' = [ok |-> "opened", error |-> "rejected", panic |-> "panicked"][layout'.out]
      /\ UNCHANGED <<source, line, sheet, image, position, target, last, reads>>
  BY DEF LayOut
<1>2. reads' = 0 /\ last' = Nothing
  BY <1>1 DEF DiscInv, DriveOK
<1>3. SheetOK' /\ SourceOK' /\ Plain' = Plain
  BY <1>1, SameSheet DEF DiscInv, SourceOK
<1>4. new \in LayoutType /\ (Plain /\ new.out = "ok" => LaidPlain(new))
  BY <1>1, Laid DEF DiscInv
<1> HIDE DEF new
<1>5. new.out \in {"ok", "error", "panic"}
  BY <1>4, LayoutFields
<1>6. phase' \in {"opened", "rejected", "panicked"} /\ (phase' = "opened" => new.out = "ok")
  BY <1>1, <1>5
<1>7. phase' = "opened" /\ Plain' => LaidPlain(layout)'
  <2>1. LaidPlain(layout)' = LaidPlain(layout')
    BY <1>1, SameLaid
  <2> QED
    BY <1>1, <1>3, <1>4, <1>6, <2>1
<1>8. DriveOK'
  BY <1>1, <1>2, <1>6 DEF DiscInv, DriveOK
<1>9. (ReadsTheDisc /\ SectorIsInIndex)'
  BY <1>2 DEF ReadsTheDisc, SectorIsInIndex
<1>10. ~Opened'
  BY <1>2, <1>6 DEF Opened
<1> QED
  BY <1>1, <1>3, <1>4, <1>7, <1>8, <1>9, <1>10 DEF DiscInv

LEMMA MountStep ==
  ASSUME DiscInv, Mount
  PROVE  DiscInv'
<1>1. /\ phase = "opened" /\ layout.file > Len(sheet.files) /\ phase' \in {"panicked", "mounted"}
      /\ image' = [toc |-> build_toc(LookupOf(layout)), lookup |-> LookupOf(layout)]
      /\ UNCHANGED <<source, line, sheet, layout, position, target, last, reads>>
  BY DEF Mount, LookupOf
<1>2. reads' = 0 /\ last' = Nothing
  BY <1>1 DEF DiscInv, DriveOK
<1>3. SheetOK' /\ SourceOK' /\ Plain' = Plain /\ layout' \in LayoutType
  BY <1>1, SameSheet DEF DiscInv, SourceOK
<1>4. Plain => LaidOut(layout)
  <2>1. ASSUME Plain PROVE LaidOut(layout)
    <3>1. LaidPlain(layout)
      BY <1>1, <2>1 DEF DiscInv
    <3>2. layout.file \in 1 .. Len(sheet.files) + 1 /\ Len(sheet.files) \in Nat
      BY <3>1, SheetFacts DEF LaidPlain, DiscInv
    <3>3. layout.file = Len(sheet.files) + 1
      BY <1>1, <3>2
    <3> QED
      BY <3>1, <3>3 DEF LaidOut
  <2> QED
    BY <2>1
<1>5. LaidOut(layout) => LaidOut(layout)'
  <2>1. LaidOut(layout)' = LaidOut(layout')
    BY <1>1, SameLaid
  <2> QED
    BY <1>1, <2>1
<1>6. MountOK'
  <2>1. image'.lookup = LookupOf(layout) /\ image'.toc = build_toc(LookupOf(layout))
    BY <1>1
  <2>2. LookupOf(layout)' = LookupOf(layout)
    BY <1>1 DEF LookupOf
  <2> QED
    BY <1>3, <1>4, <1>5, <2>1, <2>2 DEF MountOK
<1>7. DriveOK'
  BY <1>1, <1>2 DEF DiscInv, DriveOK
<1>8. (ReadsTheDisc /\ SectorIsInIndex)'
  BY <1>2 DEF ReadsTheDisc, SectorIsInIndex
<1> QED
  BY <1>1, <1>3, <1>6, <1>7, <1>8 DEF DiscInv

LEMMA SeekStep ==
  ASSUME DiscInv, Seek
  PROVE  DiscInv'
<1>1. /\ phase = "mounted" /\ reads = 0 /\ UNCHANGED <<source, line, sheet, phase, layout, image, last, reads>>
      /\ \E s \in Seeks : position' = The(from_sector(s)) /\ target' = s
  BY DEF Seek
<1>2. PICK s \in Seeks : position' = The(from_sector(s)) /\ target' = s
  BY <1>1
<1>3. s \in Nat /\ s < Reach /\ s < Far
  BY DiscAssumption, Limits
<1>4. position' = Position(s)
  BY <1>2, <1>3, FromSector
<1>5. last' = Nothing /\ reads' = 0
  BY <1>1 DEF DiscInv, DriveOK
<1>6. DriveOK'
  <2>1. target' + reads' = s
    BY <1>2, <1>3, <1>5
  <2> QED
    BY <1>1, <1>2, <1>3, <1>4, <1>5, <2>1 DEF DriveOK
<1>7. SheetOK' /\ SourceOK' /\ layout' \in LayoutType
  BY <1>1, SameSheet DEF DiscInv, SourceOK
<1>8. MountOK'
  BY <1>1, SameMount DEF DiscInv, Opened
<1>9. (ReadsTheDisc /\ SectorIsInIndex)'
  BY <1>5 DEF ReadsTheDisc, SectorIsInIndex
<1> QED
  BY <1>1, <1>6, <1>7, <1>8, <1>9 DEF DiscInv

LEMMA ReadStep ==
  ASSUME DiscInv, Read
  PROVE  DiscInv'
<1> DEFINE s == target + reads
           next == next_sector(position)
           read == load_sector(The(next))
<1>1. /\ phase = "mounted" /\ reads' = reads + 1
      /\ IF next = None
           THEN phase' = "panicked" /\ UNCHANGED <<position, last>>
           ELSE /\ position' = The(next)
                /\ IF read = None THEN phase' = "panicked" /\ last' = Nothing
                                  ELSE last' = The(read) /\ UNCHANGED phase
      /\ UNCHANGED <<source, line, sheet, layout, image, target>>
  BY DEF Read
<1>2. /\ target \in Nat /\ reads \in Nat /\ s < Reach /\ position = Position(s) /\ s \in Nat
      /\ target' = target /\ target' \in Nat /\ reads' \in Nat /\ reads' > 0 /\ target' + reads' = s + 1
  BY <1>1 DEF DiscInv, DriveOK
<1>3. next = IF s = Reach - 1 THEN None ELSE Some(Position(s + 1))
  <2>1. s \in 0 .. Reach - 1
    BY <1>2, Limits
  <2> QED
    BY <1>2, <2>1, NextSector
<1>4. SheetOK' /\ SourceOK' /\ layout' \in LayoutType
  BY <1>1, SameSheet DEF DiscInv, SourceOK
<1>5. SheetOK /\ layout \in LayoutType /\ MountOK /\ MountOK'
  BY <1>1, SameMount DEF DiscInv, Opened
<1> HIDE DEF s, next, read
<1>6. CASE next = None
  <2>1. phase' = "panicked" /\ position' = position /\ last' = last /\ s = Reach - 1
    BY <1>1, <1>3, <1>6, TheSome
  <2>2. DriveOK'
    BY <1>2, <2>1 DEF DriveOK
  <2>3. SectorIsInIndex'
    <3>1. last # Nothing => InIndex(last, last.sector)
      BY ReadsNow DEF DiscInv
    <3>2. SectorIsInIndex' = (last' # Nothing => InIndex(last', last'.sector))
      BY <1>1, SameReads
    <3> QED
      BY <2>1, <3>1, <3>2
  <2>4. ReadsTheDisc'
    <3>1. ASSUME Plain, s + 1 \in 150 .. End - 1 PROVE FALSE
      <4>1. End \in Nat /\ End <= Reach
        BY <1>5, <3>1, SheetFacts, BeforeIs DEF Plain, End
      <4>2. s + 1 = Reach /\ Reach \in Nat
        BY <2>1, Limits
      <4> QED
        BY <3>1, <4>1, <4>2
    <3>2. Reading(s + 1, phase', position', last', reads')
      BY <3>1 DEF Reading
    <3>3. ReadsTheDisc' = Reading(target' + reads', phase', position', last', reads')
      BY <1>1, SameReads
    <3> QED
      BY <1>2, <3>2, <3>3
  <2> QED
    BY <1>1, <1>4, <1>5, <2>1, <2>2, <2>3, <2>4 DEF DiscInv
<1>7. CASE next # None
  <2>1. s # Reach - 1 /\ The(next) = Position(s + 1) /\ position' = Position(s + 1)
    BY <1>1, <1>3, <1>7, TheSome
  <2>2. s + 1 \in Nat /\ s + 1 < Reach /\ s + 1 < Far
    BY <1>2, <2>1, Limits
  <2>3. read = load_sector(Position(s + 1))
    BY <2>1 DEF read
  <2>4. DriveOK'
    BY <1>1, <1>2, <1>7, <2>1, <2>2 DEF DriveOK
  <2>5. phase' \in {"panicked", "mounted"}
    BY <1>1, <1>7
  <2>6. SectorIsInIndex'
    <3>1. CASE read = None
      BY <1>1, <1>7, <3>1 DEF SectorIsInIndex
    <3>2. CASE read # None
      <4>1. last' = The(read) /\ InIndex(last', s + 1)
        BY <1>1, <1>5, <1>7, <2>2, <2>3, <3>2, SectorRead
      <4>2. last'.sector = s + 1
        BY <4>1 DEF InIndex
      <4>3. SectorIsInIndex' = (last' # Nothing => InIndex(last', last'.sector))
        BY <1>1, SameReads
      <4> QED
        BY <4>1, <4>2, <4>3
    <3> QED
      BY <3>1, <3>2
  <2>7. ReadsTheDisc'
    <3> DEFINE f == FileAt(s + 1)
    <3>1. ASSUME Plain, Data, s + 1 \in 150 .. End - 1
          PROVE  /\ phase' = "mounted" /\ sector(position') = s + 1
                 /\ last'.data = [binary |-> f, offset |-> ((s + 1) - Base(f)) * Size(f)]
      <4>1. s + 1 >= 150 /\ s + 1 < End
        <5>1. End \in Nat
          BY <1>5, SheetFacts, BeforeIs DEF End
        <5> QED
          BY <3>1, <5>1
      <4>2. read # None /\ The(read).data = [binary |-> f, offset |-> ((s + 1) - Base(f)) * Size(f)]
        BY <1>5, <2>2, <2>3, <3>1, <4>1, PlainRead
      <4>3. phase' = "mounted" /\ last' = The(read)
        BY <1>1, <1>7, <4>2
      <4>4. sector(position') = s + 1
        BY <2>1, <2>2, FromSector
      <4> QED
        BY <4>2, <4>3, <4>4
    <3>2. Reading(s + 1, phase', position', last', reads')
      BY <3>1 DEF Reading
    <3>3. ReadsTheDisc' = Reading(target' + reads', phase', position', last', reads')
      BY <1>1, SameReads
    <3> QED
      BY <1>2, <3>2, <3>3
  <2> QED
    BY <1>1, <1>4, <1>5, <2>4, <2>5, <2>6, <2>7 DEF DiscInv
<1> QED
  BY <1>6, <1>7

LEMMA DiscStutter ==
  ASSUME DiscInv, UNCHANGED disc_vars
  PROVE  DiscInv'
<1>1. /\ source' = source /\ line' = line /\ sheet' = sheet /\ phase' = phase /\ layout' = layout /\ image' = image
      /\ position' = position /\ target' = target /\ last' = last /\ reads' = reads
  BY DEF disc_vars
<1>2. SheetOK' /\ SourceOK' /\ layout' \in LayoutType /\ Plain' = Plain
  BY <1>1, SameSheet DEF DiscInv, SourceOK
<1>3. phase' = "opened" /\ Plain' => LaidPlain(layout)'
  <2>1. LaidPlain(layout)' = LaidPlain(layout')
    BY <1>1, SameLaid
  <2> QED
    BY <1>1, <1>2, <2>1 DEF DiscInv
<1>4. Opened' => MountOK'
  BY <1>1, SameMount DEF DiscInv, Opened
<1>5. DriveOK'
  BY <1>1 DEF DiscInv, DriveOK
<1>6. (ReadsTheDisc /\ SectorIsInIndex)'
  <2>1. /\ SectorIsInIndex' = (last' # Nothing => InIndex(last', last'.sector))
        /\ ReadsTheDisc' = Reading(target' + reads', phase', position', last', reads')
    BY <1>1, SameReads
  <2>2. /\ last # Nothing => InIndex(last, last.sector)
        /\ Reading(target + reads, phase, position, last, reads)
    BY ReadsNow DEF DiscInv
  <2> QED
    BY <1>1, <2>1, <2>2
<1> QED
  BY <1>2, <1>3, <1>4, <1>5, <1>6 DEF DiscInv

LEMMA DiscInvariant == DiscSpec => []DiscInv
<1>1. DiscInv /\ [DiscNext]_disc_vars => DiscInv'
  BY ParseStep, OpenStep, LayOutStep, MountStep, SeekStep, ReadStep, DiscStutter DEF DiscNext
<1> QED
  BY <1>1, DiscStart, PTL DEF DiscSpec

\* Whatever the sheet, every sector of a plain data disc is read from the bytes at
\* its place in the files, and in order (`load_sector`, `Msf::next_sector`).
THEOREM DiscIsRead == DiscSpec => []ReadsTheDisc
<1>1. DiscInv => ReadsTheDisc
  BY DEF DiscInv
<1> QED
  BY <1>1, DiscInvariant, PTL

\* Whatever the sheet, the index a sector is read from is the last that starts at
\* or before it, and on a plain disc it is the one of the sheet (`get_from_msf`).
THEOREM SectorsAreFound == DiscSpec => []SectorIsInIndex
<1>1. DiscInv => SectorIsInIndex
  BY DEF DiscInv
<1> QED
  BY <1>1, DiscInvariant, PTL

\* The table of contents of every plain disc is that of its sheet (`build_toc`).
THEOREM TocIsRight == DiscSpec => []TocIsTheSheet
<1>1. ASSUME DiscInv PROVE TocIsTheSheet
  <2> SUFFICES ASSUME phase = "mounted", Plain PROVE TocIsTheSheet
    BY DEF TocIsTheSheet
  <2>1. SheetOK /\ layout \in LayoutType /\ MountOK
    BY <1>1 DEF DiscInv, Opened
  <2>2. IsDisc(image.lookup) /\ image.toc = build_toc(image.lookup)
    BY <2>1, DiscLookup DEF MountOK
  <2> QED
    BY <2>1, <2>2, PlainToc DEF TocIsTheSheet
<1> QED
  BY <1>1, DiscInvariant, PTL

=============================================================================
