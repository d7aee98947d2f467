---------------------------- MODULE IoPortProofs ----------------------------
(***************************************************************************)
(* Proofs about IoPort, for every set of bytes and control words the guest *)
(* may store, and every way of waiting: the port has the one event its     *)
(* state names, the bytes go out in order, and, for a guest that deselects *)
(* a slot before it selects the other, one device talks at a time.  Then   *)
(* about MemCard, one of its cards with the file behind it.                *)
(*                                                                         *)
(* Fields of which only their being there matters are said to be what they *)
(* are: p \in [f : {p.f}, ...] makes p a record without a type for f.      *)
(***************************************************************************)
EXTENDS IoPort, MemCard, SequenceTheorems, TLAPS

Byte == 0 .. 255
Talking == {"IdHigh", "ButtonsLow", "ButtonsHigh"}
PadType == [state : {"Idle", "Ready"} \cup Talking, buttons : SUBSET Buttons]

SeqNames == {"read", "write", "id"}
Running == {st \in [seq : SeqNames, step : 1 .. 11, offset : 0 .. SECTOR_SIZE] :
              /\ st.seq = "write" => st.step <= 9
              /\ st.seq = "id" => st.step <= 8}
CardStates == {Idle, Command, Panicked} \cup Running

CardOK(c) ==
  /\ c \in [flash : {c.flash}, state : {c.state}, addr : {c.addr}, last_byte : {c.last_byte},
            has_written : {c.has_written}, changed : {c.changed},
            write_sector : {c.write_sector}, error : {c.error}]
  /\ c.state \in CardStates

StateType == {IdleState} \cup [name : {"InTrans", "WaitingForAck"}, id : Ids]

IsPort(p) ==
  p \in [state : StateType, active : {"none", "pad", "card"}, control : SUBSET ControlBits,
         status : {p.status}, rx : {p.rx}, tx : SUBSET Byte, tx_val : Byte, irq : {p.irq}]

IsSys(s) ==
  s \in [port : {s.port}, pads : [Slots -> SUBSET PadType], cards : [Slots -> {s.cards[1], s.cards[2]}],
         events : {s.events}, guest : {s.guest}]

\* The parts of a step's result.
Sound(s) == IsSys(s) /\ IsPort(s.port) /\ \A n \in Slots : \A c \in s.cards[n] : CardOK(c)

-----------------------------------------------------------------------------
\* Some answer of each kind, and what a card's answer leaves of its state.
IsAnswer(a) == a \in [card : {a.card}, out : {a.out}, ack : BOOLEAN]

Fit(a) == IsAnswer(a) /\ CardOK(a.card) /\ (~a.ack => a.card.state \in {Idle, Panicked})

LEMMA AnswerFit ==
  ASSUME NEW c, CardOK(c), NEW out, NEW ack \in BOOLEAN, ~ack => c.state \in {Idle, Panicked}
  PROVE  Fit(answer(c, out, ack))
BY DEF Fit, IsAnswer, answer

LEMMA SetCardState ==
  ASSUME NEW c, CardOK(c), NEW st \in CardStates, NEW val
  PROVE  /\ CardOK([c EXCEPT !.state = st]) /\ [c EXCEPT !.state = st].state = st
         /\ CardOK([c EXCEPT !.last_byte = val]) /\ [c EXCEPT !.last_byte = val].state = c.state
         /\ CardOK([c EXCEPT !.state = st, !.last_byte = val])
         /\ [c EXCEPT !.state = st, !.last_byte = val].state = st
BY DEF CardOK

LEMMA EndFit ==
  ASSUME NEW c, CardOK(c), NEW out, NEW ack \in BOOLEAN
  PROVE  Fit(end(c, out, ack))
<1>1. Idle \in CardStates
  BY DEF CardStates
<1> QED
  BY <1>1, SetCardState, AnswerFit DEF end

\* A step that has a next one.
LEMMA StepFit ==
  ASSUME NEW c, CardOK(c), c.state \in Running,
         c.state.step < (IF c.state.seq = "read" THEN 11 ELSE IF c.state.seq = "write" THEN 9 ELSE 8),
         NEW val, NEW out
  PROVE  Fit(step(c, val, out))
<1> DEFINE n == c.state.step + 1
           st == [c.state EXCEPT !.step = n, !.offset = 0]
<1>0. n \in 1 .. 11 /\ (c.state.seq = "write" => n <= 9) /\ (c.state.seq = "id" => n <= 8)
  BY DEF Running, SeqNames
<1>1. st \in Running
  <2> HIDE DEF n
  <2>1. c.state \in [seq : SeqNames, step : 1 .. 11, offset : 0 .. SECTOR_SIZE] /\ 0 \in 0 .. SECTOR_SIZE
    BY CardAssumption DEF Running
  <2>2. /\ st \in [seq : SeqNames, step : 1 .. 11, offset : 0 .. SECTOR_SIZE]
        /\ st.seq = c.state.seq /\ st.step = n
    BY <1>0, <2>1
  <2> QED
    BY <1>0, <2>2 DEF Running
<1>2. st \in CardStates
  BY <1>1 DEF CardStates
<1>3. next(c) = [c EXCEPT !.state = st]
  BY DEF next, CardOK, Running
<1> HIDE DEF st
<1>4. CardOK([c EXCEPT !.state = st])
  BY <1>2, SetCardState
<1>5. CardOK([next(c) EXCEPT !.last_byte = val])
  BY <1>3, <1>4, <1>2, SetCardState
<1> QED
  BY <1>5, AnswerFit DEF step

LastStep(seq) == IF seq = "read" THEN 11 ELSE IF seq = "write" THEN 9 ELSE 8
Middle == {"CardId1", "CardId2", "AddrHi", "AddrLo", "Ack1", "Ack2", "ConfirmAddrHi",
           "ConfirmAddrLo", "Checksum", "Rest1", "Rest2", "Rest3"}

\* Where a card can be in a sequence, and which steps have a next one.
LEMMA StepNames ==
  ASSUME NEW st \in Running
  PROVE  LET name == Steps[st.seq][st.step]
         IN  /\ st.seq \in DOMAIN Steps
             /\ name \in Middle \cup {"Data"} => st.step < LastStep(st.seq)
             /\ \/ name \in Middle \cup {"Rest4"}
                \/ name \in {"Data", "End"} /\ st.seq \in {"read", "write"}
<1>1. CASE st.seq = "read"
  BY <1>1 DEF Running, Steps, LastStep, Middle
<1>2. CASE st.seq = "write"
  BY <1>2 DEF Running, Steps, LastStep, Middle
<1>3. CASE st.seq = "id"
  BY <1>3 DEF Running, Steps, LastStep, Middle
<1> QED
  BY <1>1, <1>2, <1>3 DEF Running, SeqNames


\* The offset of a read or a write moves within the step.
LEMMA OffsetFit ==
  ASSUME NEW c, CardOK(c), c.state \in Running, NEW o \in 0 .. SECTOR_SIZE, NEW val, NEW out
  PROVE  Fit(answer([c EXCEPT !.state.offset = o, !.last_byte = val], out, TRUE))
<1> DEFINE st == [c.state EXCEPT !.offset = o]
<1>1. st \in Running
  <2>1. c.state \in [seq : SeqNames, step : 1 .. 11, offset : 0 .. SECTOR_SIZE]
    BY DEF Running
  <2>2. /\ st \in [seq : SeqNames, step : 1 .. 11, offset : 0 .. SECTOR_SIZE]
        /\ st.seq = c.state.seq /\ st.step = c.state.step
    BY <2>1
  <2> QED
    BY <2>2 DEF Running
<1>2. [c EXCEPT !.state.offset = o, !.last_byte = val] = [c EXCEPT !.state = st, !.last_byte = val]
  BY DEF CardOK, Running
<1> HIDE DEF st
<1> QED
  BY <1>1, <1>2, SetCardState, AnswerFit DEF CardStates

LEMMA ReadFit ==
  ASSUME NEW c, CardOK(c), c.state \in Running, c.state.step < LastStep(c.state.seq), NEW val
  PROVE  Fit(read_data(c, val))
<1> DEFINE o == IF c.state.offset = 0 THEN WRAPPED ELSE c.state.offset - 1
<1>1. o \in 0 .. SECTOR_SIZE
  BY CardAssumption DEF Running, WRAPPED
<1>2. Fit(answer([c EXCEPT !.state = Panicked], 0, FALSE))
  BY SetCardState, AnswerFit DEF CardStates
<1>3. Fit(answer([c EXCEPT !.state.offset = o, !.last_byte = val], c.flash[c.addr][c.state.offset], TRUE))
  BY <1>1, OffsetFit
<1>4. Fit(step(c, val, c.flash[c.addr][SECTOR_SIZE - 1]))
  BY StepFit DEF LastStep
<1> QED
  BY <1>2, <1>3, <1>4 DEF read_data

LEMMA WriteFit ==
  ASSUME NEW c, CardOK(c), c.state \in Running, c.state.step < LastStep(c.state.seq), NEW val
  PROVE  Fit(write_data(c, val))
<1> DEFINE h == c.has_written \/ c.state.offset < SECTOR_SIZE - 1
           w == [c.write_sector EXCEPT ![c.state.offset] = val]
           stored == [c EXCEPT !.write_sector = w, !.has_written = h]
           o == c.state.offset + 1
<1>1. c.state.offset < SECTOR_SIZE - 1 => o \in 0 .. SECTOR_SIZE
  BY CardAssumption DEF Running
<1>2. \/ write_data(c, val) = step(stored, val, c.last_byte)
      \/ /\ c.state.offset < SECTOR_SIZE - 1
         /\ write_data(c, val)
              = answer([stored EXCEPT !.state.offset = stored.state.offset + 1, !.last_byte = val], c.last_byte, TRUE)
  BY DEF write_data
<1> HIDE DEF h, w
<1>3. CardOK(stored) /\ stored.state = c.state
  BY DEF CardOK
<1> HIDE DEF stored
<1>4. Fit(step(stored, val, c.last_byte))
  BY <1>3, StepFit DEF LastStep
<1>5. c.state.offset < SECTOR_SIZE - 1 =>
        Fit(answer([stored EXCEPT !.state.offset = stored.state.offset + 1, !.last_byte = val], c.last_byte, TRUE))
  BY <1>1, <1>3, OffsetFit
<1> QED
  BY <1>2, <1>4, <1>5

LEMMA WriteEndFit ==
  ASSUME NEW c, CardOK(c) PROVE Fit(write_end(c))
<1> DEFINE f == [c.flash EXCEPT ![c.addr] = c.write_sector]
           h == c.changed \/ c.flash[c.addr] # c.write_sector
           copy == [c EXCEPT !.flash = f, !.changed = h]
<1>1. \/ write_end(c) = end(c, 255, TRUE)
      \/ \E out : write_end(c) = end(save(copy), out, TRUE)
  BY DEF write_end
<1> HIDE DEF f, h
<1>2. CardOK(save(copy))
  BY DEF save, CardOK
<1> QED
  BY <1>1, <1>2, EndFit


LEMMA SetAddr ==
  ASSUME NEW c, CardOK(c), NEW val
  PROVE  /\ CardOK(set_hi(c, val)) /\ set_hi(c, val).state = c.state
         /\ CardOK(set_lo(c, val)) /\ set_lo(c, val).state = c.state
<1>1. ASSUME NEW a PROVE CardOK([c EXCEPT !.addr = a]) /\ [c EXCEPT !.addr = a].state = c.state
  BY DEF CardOK
<1> QED
  BY <1>1 DEF set_hi, set_lo

LEMMA BeginFit ==
  ASSUME NEW c, CardOK(c), NEW val, NEW q \in SeqNames
  PROVE  Fit(begin(c, val, q))
<1> DEFINE st == [seq |-> q, step |-> 1, offset |-> 0]
<1>1. st \in CardStates
  BY CardAssumption DEF CardStates, Running
<1>2. begin(c, val, q) = answer([c EXCEPT !.state = st, !.last_byte = val], flags(c), TRUE)
  BY DEF begin
<1> HIDE DEF st
<1> DEFINE d == [c EXCEPT !.state = st, !.last_byte = val]
<1>3. CardOK(d) /\ d.state = st
  BY <1>1 DEF CardOK
<1> HIDE DEF d
<1>4. Fit(answer(d, flags(c), TRUE))
  BY <1>3, AnswerFit
<1> QED
  BY <1>2, <1>4 DEF d

\* A card that does not acknowledge is out of its sequence.
LEMMA CardTransferFit ==
  ASSUME NEW c, CardOK(c), c.state # Panicked, NEW val
  PROVE  Fit(card_transfer(c, val))
<1>1. CASE c.state = Idle
  <2>1. c.state.seq = "idle" /\ Command \in CardStates /\ \A n : ~at(c, n)
    BY <1>1 DEF Idle, CardStates, at, Steps
  <2>2. \/ card_transfer(c, val) = answer([c EXCEPT !.state = Command, !.last_byte = val], 255, TRUE)
        \/ card_transfer(c, val) = answer([c EXCEPT !.last_byte = val], 255, FALSE)
    <3> DEFINE A == answer([c EXCEPT !.state = Command, !.last_byte = val], 255, TRUE)
               B == answer([c EXCEPT !.last_byte = val], 255, FALSE)
    <3>1. card_transfer(c, val) = IF val = 129 THEN A ELSE B
      BY <2>1, Zenon DEF card_transfer
    <3> HIDE DEF A, B
    <3>2. card_transfer(c, val) = A \/ card_transfer(c, val) = B
      BY <3>1
    <3> QED
      BY <3>2 DEF A, B
  <2>3. Fit(answer([c EXCEPT !.state = Command, !.last_byte = val], 255, TRUE))
    BY <2>1, SetCardState, AnswerFit
  <2>4. Fit(answer([c EXCEPT !.last_byte = val], 255, FALSE))
    BY <1>1, <2>1, SetCardState, AnswerFit
  <2> QED
    BY <2>2, <2>3, <2>4
<1>2. CASE c.state = Command
  <2>1. c.state.seq = "command" /\ \A n : ~at(c, n)
    BY <1>2 DEF Command, at, Steps
  <2>2. card_transfer(c, val) = command(c, val)
    BY <2>1 DEF card_transfer
  <2>3. \/ \E q \in SeqNames : card_transfer(c, val) = begin(c, val, q)
        \/ card_transfer(c, val) = end(c, flags(c), FALSE)
    BY <2>2 DEF command, SeqNames
  <2> QED
    BY <2>3, BeginFit, EndFit
<1>3. CASE c.state \in Running
  <2> DEFINE seq == c.state.seq
             name == Steps[seq][c.state.step]
  <2>1. /\ seq \in DOMAIN Steps /\ seq \notin {"idle", "command"}
        /\ name \in Middle \cup {"Data"} => c.state.step < LastStep(seq)
        /\ \/ name \in Middle \cup {"Rest4"}
           \/ name \in {"Data", "End"} /\ seq \in {"read", "write"}
    BY <1>3, StepNames DEF Running, SeqNames
  <2>2. ASSUME NEW n PROVE at(c, n) <=> name = n
    BY <2>1 DEF at
  <2> HIDE DEF name
  <2>3. CASE name \in Middle
    <3>1. \/ \E out : card_transfer(c, val) = step(c, val, out)
          \/ card_transfer(c, val) = step(set_hi(c, val), val, 0)
          \/ card_transfer(c, val) = step(set_lo(c, val), val, c.last_byte)
      BY <2>1, <2>2, <2>3 DEF card_transfer, Middle
    <3>2. c.state.step < LastStep(c.state.seq)
      BY <2>1, <2>3
    <3> QED
      BY <1>3, <3>1, <3>2, StepFit, SetAddr DEF LastStep
  <2>4. CASE name = "Data"
    <3>1. card_transfer(c, val) = IF seq = "read" THEN read_data(c, val) ELSE write_data(c, val)
      BY <2>1, <2>2, <2>4 DEF card_transfer, Middle
    <3> QED
      BY <1>3, <2>1, <2>4, <3>1, ReadFit, WriteFit
  <2>5. CASE name = "End"
    <3>1. card_transfer(c, val) = IF seq = "read" THEN end(c, 71, TRUE) ELSE write_end(c)
      BY <2>1, <2>2, <2>5 DEF card_transfer
    <3> QED
      BY <3>1, EndFit, WriteEndFit
  <2>6. CASE name = "Rest4"
    <3>1. card_transfer(c, val) = end(c, 128, TRUE)
      BY <2>1, <2>2, <2>6 DEF card_transfer
    <3> QED
      BY <3>1, EndFit
  <2> QED
    BY <2>1, <2>3, <2>4, <2>5, <2>6
<1> QED
  BY <1>1, <1>2, <1>3 DEF CardOK, CardStates

\* Likewise a pad, which may be waiting for the second byte of its address.
PadFit(a) == a.pad \in PadType /\ a.ack \in BOOLEAN /\ (~a.ack => a.pad.state \notin Talking)

LEMMA PadAnswerFit ==
  ASSUME NEW q \in PadType, NEW st \in {"Idle", "Ready"} \cup Talking, NEW out, NEW ack \in BOOLEAN,
         ~ack => st \notin Talking
  PROVE  PadFit(pad_answer(q, st, out, ack))
BY DEF pad_answer, PadType, PadFit

LEMMA PadTransferFit ==
  ASSUME NEW p \in PadType, NEW val
  PROVE  PadFit(pad_transfer(p, val))
<1>2. CASE p.state = "Idle" /\ val = 1
  <2>1. pad_transfer(p, val) = pad_answer(p, "Ready", 255, TRUE)
    BY <1>2 DEF pad_transfer
  <2>2. "Ready" \in {"Idle", "Ready"} \cup Talking
    OBVIOUS
  <2> QED
    BY PadAnswerFit, <2>1, <2>2
<1>3. CASE p.state = "Ready" /\ val = 66
  <2>1. pad_transfer(p, val) = pad_answer(p, "IdHigh", 65, TRUE)
    BY <1>3 DEF pad_transfer
  <2> QED
    BY PadAnswerFit, <2>1 DEF Talking
<1>4. CASE p.state = "IdHigh"
  <2>1. pad_transfer(p, val) = pad_answer(p, "ButtonsLow", 90, TRUE)
    BY <1>4 DEF pad_transfer
  <2> QED
    BY PadAnswerFit, <2>1 DEF Talking
<1>5. CASE p.state = "ButtonsLow"
  <2> DEFINE q == [p EXCEPT !.buttons = @ \ {L3, R3}]
  <2>1. pad_transfer(p, val) = pad_answer(q, "ButtonsHigh", button_byte(q, 0), TRUE)
    BY <1>5 DEF pad_transfer
  <2>2. q \in PadType
    BY DEF PadType
  <2> HIDE DEF q
  <2> QED
    BY PadAnswerFit, <2>1, <2>2 DEF Talking
<1>6. CASE p.state = "ButtonsHigh"
  <2>1. pad_transfer(p, val) = pad_answer(p, "Idle", button_byte(p, 1), FALSE)
    BY <1>6 DEF pad_transfer
  <2> QED
    BY PadAnswerFit, <2>1 DEF Talking
<1>7. CASE /\ p.state \notin Talking
           /\ ~(p.state = "Idle" /\ val = 1) /\ ~(p.state = "Ready" /\ val = 66)
  <2>1. pad_transfer(p, val) = pad_answer(p, p.state, 255, FALSE)
    BY <1>7 DEF pad_transfer, Talking
  <2>2. p.state \in {"Idle", "Ready"} \cup Talking
    BY DEF PadType
  <2> QED
    BY PadAnswerFit, <1>7, <2>1, <2>2
<1> QED
  BY <1>2, <1>3, <1>4, <1>5, <1>6, <1>7 DEF Talking


-----------------------------------------------------------------------------
\* One of the devices is asked: the others and the port are left alone, and a
\* device that does not acknowledge is out of its sequence.
IsTry(a) == a \in [sys : {a.sys}, out : {a.out}, ack : BOOLEAN]
Kept(s, t) == t.port = s.port /\ t.events = s.events /\ t.guest = s.guest
Others(f, g, n) == \A m \in Slots : m # n => g[m] = f[m]

PadTried(s, a) ==
  /\ IsTry(a) /\ Sound(a.sys) /\ Kept(s, a.sys) /\ a.sys.cards = s.cards
  /\ Others(s.pads, a.sys.pads, slot(s))
  /\ ~a.ack => \A p \in a.sys.pads[slot(s)] : p.state \notin Talking

CardTried(s, a) ==
  /\ IsTry(a) /\ Sound(a.sys) /\ Kept(s, a.sys) /\ a.sys.pads = s.pads
  /\ Others(s.cards, a.sys.cards, slot(s))
  /\ ~a.ack => \A c \in a.sys.cards[slot(s)] : c.state \in {Idle, Panicked}

LEMMA SlotType == ASSUME NEW s PROVE slot(s) \in Slots
BY DEF slot, Slots

LEMMA TheIn == ASSUME NEW o, o # None PROVE The(o) \in o
BY DEF The, None

LEMMA TryPad ==
  ASSUME NEW s, Sound(s) PROVE PadTried(s, try_pad(s))
<1> DEFINE n == slot(s)
<1>1. n \in Slots /\ IsSys(s)
  BY SlotType DEF Sound
<1>2. CASE s.pads[n] = None
  <2>1. try_pad(s) = [sys |-> s, out |-> 255, ack |-> FALSE]
    BY <1>2 DEF try_pad
  <2> QED
    BY <1>2, <2>1 DEF PadTried, IsTry, Kept, Others, None
<1>3. CASE s.pads[n] # None
  <2> DEFINE a == pad_transfer(The(s.pads[n]), s.port.tx_val)
             t == [s EXCEPT !.pads[n] = Some(a.pad)]
  <2>1. try_pad(s) = [sys |-> t, out |-> a.out, ack |-> a.ack]
    BY <1>3 DEF try_pad
  <2>2. PadFit(a)
    <3>1. The(s.pads[n]) \in PadType
      BY <1>1, <1>3, TheIn DEF IsSys
    <3> QED
      BY <3>1, PadTransferFit
  <2> HIDE DEF a, n
  <2>3. Some(a.pad) \in SUBSET PadType
    BY <2>2 DEF PadFit, Some
  <2>4. /\ IsSys(t) /\ Kept(s, t) /\ t.cards = s.cards /\ t.pads[n] = Some(a.pad)
        /\ Others(s.pads, t.pads, n)
    BY <1>1, <2>3 DEF IsSys, Kept, Others
  <2> HIDE DEF t
  <2>5. Sound(t)
    BY <2>4 DEF Sound, Kept
  <2>6. ~a.ack => \A p \in t.pads[n] : p.state \notin Talking
    BY <2>2, <2>4 DEF PadFit, Some
  <2>7. IsTry(try_pad(s)) /\ try_pad(s).sys = t /\ (try_pad(s).ack <=> a.ack)
    BY <2>1, <2>2 DEF IsTry, PadFit
  <2> QED
    BY <2>4, <2>5, <2>6, <2>7 DEF PadTried, n
<1> QED
  BY <1>2, <1>3

LEMMA TryCard ==
  ASSUME NEW s, Sound(s), \A c \in s.cards[slot(s)] : c.state # Panicked
  PROVE  CardTried(s, try_card(s))
<1> DEFINE n == slot(s)
<1>1. n \in Slots /\ IsSys(s) /\ \A m \in Slots : \A c \in s.cards[m] : CardOK(c)
  BY SlotType DEF Sound
<1>2. CASE s.cards[n] = None
  <2>1. try_card(s) = [sys |-> s, out |-> 255, ack |-> FALSE]
    BY <1>2 DEF try_card
  <2> QED
    BY <1>2, <2>1 DEF CardTried, IsTry, Kept, Others, None
<1>3. CASE s.cards[n] # None
  <2> DEFINE a == card_transfer(The(s.cards[n]), s.port.tx_val)
             t == [s EXCEPT !.cards[n] = Some(a.card)]
  <2>1. try_card(s) = [sys |-> t, out |-> a.out, ack |-> a.ack]
    BY <1>3 DEF try_card
  <2>2. Fit(a)
    BY <1>1, <1>3, TheIn, CardTransferFit
  <2> HIDE DEF a, n
  <2>4. /\ IsSys(t) /\ Kept(s, t) /\ t.pads = s.pads /\ t.cards[n] = Some(a.card)
        /\ Others(s.cards, t.cards, n)
    BY <1>1 DEF IsSys, Kept, Others, Slots
  <2> HIDE DEF t
  <2>5. \A m \in Slots : \A c \in t.cards[m] : CardOK(c)
    BY <1>1, <2>2, <2>4 DEF Others, Fit, Some
  <2>6. Sound(t)
    BY <2>4, <2>5 DEF Sound, Kept
  <2>7. ~a.ack => \A c \in t.cards[n] : c.state \in {Idle, Panicked}
    BY <2>2, <2>4 DEF Fit, Some
  <2>8. IsTry(try_card(s)) /\ try_card(s).sys = t /\ (try_card(s).ack <=> a.ack)
    BY <2>1, <2>2 DEF IsTry, Fit, IsAnswer
  <2> QED
    BY <2>4, <2>6, <2>7, <2>8 DEF CardTried, n
<1> QED
  BY <1>2, <1>3


-----------------------------------------------------------------------------
\* What OneDeviceTalks says of a step's result, were `a` the active device in slot n.
Turn(s, a, n) ==
  \A m \in Slots :
    /\ \A p \in s.pads[m] : p.state \in Talking => a = "pad" /\ m = n
    /\ \A c \in s.cards[m] : c.state # Idle => a = "card" /\ m = n
Alive(s) == \A n \in Slots : \A c \in s.cards[n] : c.state # Panicked

Activate(a, device) == IF a.ack THEN [a EXCEPT !.sys.port.active = device] ELSE a

LEMMA ActivateFacts ==
  ASSUME NEW a, IsTry(a), Sound(a.sys), NEW device \in {"pad", "card"}
  PROVE  LET b == Activate(a, device)
         IN  /\ IsTry(b) /\ Sound(b.sys) /\ b.ack = a.ack
             /\ b.sys.pads = a.sys.pads /\ b.sys.cards = a.sys.cards
             /\ b.sys.events = a.sys.events /\ b.sys.guest = a.sys.guest
             /\ b.sys.port = [a.sys.port EXCEPT !.active = b.sys.port.active]
             /\ a.ack => b.sys.port.active = device
<1> DEFINE p == [a.sys.port EXCEPT !.active = device]
           t == [a.sys EXCEPT !.port = p]
           b == [a EXCEPT !.sys = t]
<1>1. IsPort(p) /\ p.active = device /\ p = [a.sys.port EXCEPT !.active = p.active]
  BY DEF Sound, IsPort
<1>2. a.sys.port = [a.sys.port EXCEPT !.active = a.sys.port.active]
  BY DEF Sound, IsPort
<1>3. [a EXCEPT !.sys.port.active = device] = b
  BY DEF IsTry, Sound, IsSys
<1> HIDE DEF p
<1>4. IsSys(t) /\ t.port = p /\ t.pads = a.sys.pads /\ t.cards = a.sys.cards
      /\ t.events = a.sys.events /\ t.guest = a.sys.guest
  BY DEF Sound, IsSys
<1> HIDE DEF t
<1>5. IsTry(b) /\ b.sys = t /\ b.ack = a.ack
  BY DEF IsTry
<1>6. Sound(t)
  BY <1>1, <1>4 DEF Sound
<1> HIDE DEF b
<1>7. CASE a.ack
  <2>1. Activate(a, device) = b
    BY <1>3, <1>7 DEF Activate
  <2> QED
    BY <1>1, <1>4, <1>5, <1>6, <2>1 DEF p
<1>8. CASE ~a.ack
  <2>1. Activate(a, device) = a
    BY <1>8 DEF Activate
  <2> QED
    BY <1>2, <1>8, <2>1
<1> QED
  BY <1>7, <1>8

Exchanged(s, e) ==
  /\ IsTry(e) /\ Sound(e.sys) /\ e.sys.events = s.events /\ e.sys.guest = s.guest
  /\ e.sys.port = [s.port EXCEPT !.active = e.sys.port.active]
  /\ Turn(s, s.port.active, slot(s)) /\ Alive(e.sys)
       => Turn(e.sys, IF e.ack THEN e.sys.port.active ELSE "none", slot(s))

LEMMA ExchangeFacts ==
  ASSUME NEW s, Sound(s), Alive(s)
  PROVE  Exchanged(s, exchange(s))
<1> DEFINE p == try_pad(s)
           c == try_card(p.sys)
           d == try_card(s)
           n == slot(s)
<1>1. n \in Slots /\ IsPort(s.port) /\ s.port.active \in {"none", "pad", "card"}
  BY SlotType DEF Sound, IsPort
<1>2. s.port = [s.port EXCEPT !.active = s.port.active]
  BY <1>1 DEF IsPort
<1>3. PadTried(s, p)
  BY TryPad
<1>4. CardTried(s, d)
  BY <1>1, TryCard DEF Alive
<1>5. exchange(s) =
        IF s.port.active = "pad" THEN p
        ELSE IF s.port.active = "card" THEN d
        ELSE IF p.ack \/ s.cards[n] = None THEN Activate(p, "pad")
        ELSE IF c.ack \/ s.pads[n] = None THEN Activate(c, "card")
        ELSE [p EXCEPT !.sys = c.sys]
  BY <1>1 DEF exchange, Activate
<1> HIDE DEF p
<1>6. CardTried(p.sys, c) /\ slot(p.sys) = n
  <2>1. Sound(p.sys) /\ p.sys.cards = s.cards /\ slot(p.sys) = n
    BY <1>3 DEF PadTried, Kept, slot, has
  <2>2. \A x \in p.sys.cards[slot(p.sys)] : x.state # Panicked
    BY <1>1, <2>1 DEF Alive
  <2> QED
    BY <2>1, <2>2, TryCard
<1> HIDE DEF c, d
<1>7. CASE s.port.active = "pad"
  <2>1. exchange(s) = p
    BY <1>5, <1>7
  <2>2. Turn(s, s.port.active, n) => Turn(p.sys, IF p.ack THEN p.sys.port.active ELSE "none", n)
    BY <1>3, <1>7 DEF Turn, PadTried, Kept, Others, IsTry
  <2> QED
    BY <1>2, <1>3, <2>1, <2>2 DEF Exchanged, PadTried, Kept
<1>8. CASE s.port.active = "card"
  <2>1. exchange(s) = d
    BY <1>5, <1>8
  <2>2. Turn(s, s.port.active, n) /\ Alive(d.sys)
          => Turn(d.sys, IF d.ack THEN d.sys.port.active ELSE "none", n)
    BY <1>4, <1>8 DEF Turn, CardTried, Kept, Others, IsTry, Alive
  <2> QED
    BY <1>2, <1>4, <2>1, <2>2 DEF Exchanged, CardTried, Kept
<1>9. CASE s.port.active = "none" /\ (p.ack \/ s.cards[n] = None)
  <2> DEFINE b == Activate(p, "pad")
  <2>1. exchange(s) = b
    BY <1>5, <1>9
  <2>2. /\ IsTry(b) /\ Sound(b.sys) /\ b.ack = p.ack
        /\ b.sys.pads = p.sys.pads /\ b.sys.cards = p.sys.cards
        /\ b.sys.events = p.sys.events /\ b.sys.guest = p.sys.guest
        /\ b.sys.port = [p.sys.port EXCEPT !.active = b.sys.port.active]
        /\ p.ack => b.sys.port.active = "pad"
    BY <1>3, ActivateFacts DEF PadTried
  <2> HIDE DEF b
  <2>3. Turn(s, s.port.active, n) => Turn(b.sys, IF b.ack THEN b.sys.port.active ELSE "none", n)
    BY <1>3, <1>9, <2>2 DEF Turn, PadTried, Others
  <2> QED
    BY <1>3, <2>1, <2>2, <2>3 DEF Exchanged, PadTried, Kept
<1>10. CASE s.port.active = "none" /\ ~p.ack /\ s.cards[n] # None /\ (c.ack \/ s.pads[n] = None)
  <2> DEFINE b == Activate(c, "card")
  <2>1. exchange(s) = b
    BY <1>5, <1>10
  <2>2. /\ IsTry(b) /\ Sound(b.sys) /\ b.ack = c.ack
        /\ b.sys.pads = c.sys.pads /\ b.sys.cards = c.sys.cards
        /\ b.sys.events = c.sys.events /\ b.sys.guest = c.sys.guest
        /\ b.sys.port = [c.sys.port EXCEPT !.active = b.sys.port.active]
        /\ c.ack => b.sys.port.active = "card"
    BY <1>6, ActivateFacts DEF CardTried
  <2> HIDE DEF b
  <2>3. Turn(s, s.port.active, n) /\ Alive(b.sys)
          => Turn(b.sys, IF b.ack THEN b.sys.port.active ELSE "none", n)
    BY <1>3, <1>6, <1>10, <2>2 DEF Turn, PadTried, CardTried, Others, Alive
  <2> QED
    BY <1>3, <1>6, <2>1, <2>2, <2>3 DEF Exchanged, PadTried, CardTried, Kept
<1>11. CASE s.port.active = "none" /\ ~p.ack /\ s.cards[n] # None /\ ~c.ack /\ s.pads[n] # None
  <2> DEFINE b == [p EXCEPT !.sys = c.sys]
  <2>1. exchange(s) = b
    BY <1>5, <1>11
  <2>2. IsTry(b) /\ b.sys = c.sys /\ ~b.ack
    BY <1>3, <1>11 DEF IsTry, PadTried
  <2> HIDE DEF b
  <2>3. Turn(s, s.port.active, n) /\ Alive(b.sys) => Turn(b.sys, "none", n)
    BY <1>3, <1>6, <1>11, <2>2 DEF Turn, PadTried, CardTried, Others, Alive
  <2>4. Sound(b.sys) /\ b.sys.port = s.port /\ b.sys.events = s.events /\ b.sys.guest = s.guest
    BY <1>3, <1>6, <2>2 DEF PadTried, CardTried, Kept
  <2> QED
    BY <1>2, <2>1, <2>2, <2>3, <2>4 DEF Exchanged
<1> QED
  BY <1>1, <1>7, <1>8, <1>9, <1>10, <1>11


-----------------------------------------------------------------------------
\* The parts of the inductive invariant, of a step's result.
InTransfer(p) == IF p.state.name = "InTrans" THEN <<p.tx_val>> ELSE <<>>
Waiting(p) == IF p.tx = None THEN <<>> ELSE <<The(p.tx)>>
InOrder(s) == s.guest = InTransfer(s.port) \o Waiting(s.port)

EventNamed(s) ==
  s.events = IF s.port.state = IdleState THEN {}
             ELSE {[id |-> s.port.state.id, callback |-> s.port.state.name]}

\* A transfer is under way only while a slot is selected.
Selected(s) == s.port.state # IdleState => {"select", "tx_enabled"} \subseteq s.port.control

\* Without a selection, nobody is within a sequence.
Quiet(s) == \A m \in Slots :
  /\ \A p \in s.pads[m] : p.state \notin Talking
  /\ \A c \in s.cards[m] : c.state = Idle
TakesTurns(s) ==
  Deselects /\ Alive(s) =>
    Turn(s, s.port.active, slot(s)) /\ ("select" \notin s.port.control => Quiet(s))

Core(s) == Sound(s) /\ InOrder(s) /\ EventNamed(s)
Good(s) == Core(s) /\ Selected(s) /\ TakesTurns(s)

\* Within a callback: its event was taken out of the schedule.
Mid(s) == Sound(s) /\ InOrder(s) /\ s.events = {} /\ Selected(s) /\ TakesTurns(s)

LEMMA StateNames ==
  ASSUME NEW st \in StateType
  PROVE  /\ st.name \in {"Idle", "InTrans", "WaitingForAck"} /\ (st = IdleState <=> st.name = "Idle")
         /\ st # IdleState => st.id \in Ids
BY DEF StateType, IdleState

LEMMA Sequences1 ==
  ASSUME NEW v \in Byte, NEW w \in Byte
  PROVE  /\ without_first(<<v>> \o <<>>) = <<>> /\ without_first(<<v>> \o <<w>>) = <<w>>
         /\ <<>> \o <<w>> = <<w>> /\ <<w>> \o <<>> = <<w>> /\ <<>> \o <<>> = <<>>
         /\ Append(<<v>> \o <<>>, w) = <<v>> \o <<w>> /\ Append(<<>> \o <<>>, w) = <<>> \o <<w>>
<1>1. <<>> \o <<w>> = <<w>> /\ <<w>> \o <<>> = <<w>> /\ <<v>> \o <<>> = <<v>> /\ <<>> \o <<>> = <<>>
  OBVIOUS
<1>2. <<v>> \o <<w>> = <<v, w>>
  <2> DEFINE a == <<v>> \o <<w>>
             b == <<v, w>>
  <2>1. a \in Seq(Byte) /\ b \in Seq(Byte) /\ Len(a) = 2 /\ Len(b) = 2
    OBVIOUS
  <2>2. a[1] = b[1] /\ a[2] = b[2]
    OBVIOUS
  <2> HIDE DEF a, b
  <2>3. \A i \in 1 .. Len(a) : a[i] = b[i]
    BY <2>1, <2>2
  <2>4. a = b
    BY <2>1, <2>3, SeqEqual
  <2> QED
    BY <2>4 DEF a, b
<1>3. Tail(<<v>>) = <<>> /\ Tail(<<v, w>>) = <<w>> /\ <<v>> # <<>> /\ <<v, w>> # <<>>
  OBVIOUS
<1>4. without_first(<<v>>) = <<>> /\ without_first(<<v, w>>) = <<w>>
  BY <1>3 DEF without_first
<1>5. Append(<<v>>, w) = <<v>> \o <<w>> /\ Append(<<>>, w) = <<>> \o <<w>>
  BY AppendIsConcat
<1> QED
  BY <1>1, <1>2, <1>4, <1>5

LEMMA WaitingType ==
  ASSUME NEW p, IsPort(p)
  PROVE  /\ p.tx_val \in Byte /\ (p.tx # None => The(p.tx) \in Byte)
         /\ without_first(<<p.tx_val>> \o Waiting(p)) = Waiting(p) /\ <<>> \o Waiting(p) = Waiting(p)
<1>1. p.tx_val \in Byte /\ (p.tx # None => The(p.tx) \in Byte)
  BY TheIn DEF IsPort
<1> QED
  BY <1>1, Sequences1 DEF Waiting

\* The byte in transfer is taken off what no device has seen.
LEMMA TakeByte ==
  ASSUME NEW s, Sound(s), InOrder(s)
  PROVE  (IF s.port.state.name = "InTrans" THEN without_first(s.guest) ELSE s.guest) = Waiting(s.port)
BY WaitingType DEF Sound, InOrder, InTransfer

LEMMA ScheduleFacts ==
  ASSUME NEW s, Sound(s), s.events = {}, NEW name \in {"InTrans", "WaitingForAck"}
  PROVE  LET t == schedule(s, name)
         IN  /\ Sound(t) /\ EventNamed(t)
             /\ t.pads = s.pads /\ t.cards = s.cards /\ t.guest = s.guest
             /\ t.port = [s.port EXCEPT !.state = t.port.state]
             /\ t.port.state.name = name /\ t.port.state # IdleState
<1> DEFINE id == CHOOSE i \in Ids : i # s.port.state.id /\ \A e \in s.events : e.id # i
           st == [name |-> name, id |-> id]
           p == [s.port EXCEPT !.state = st]
           t == [s EXCEPT !.events = {[id |-> id, callback |-> name]}, !.port = p]
<1>1. id \in Ids
  <2>1. \E i \in Ids : i # s.port.state.id /\ \A e \in s.events : e.id # i
    <3>1. 1 \in Ids /\ 2 \in Ids /\ (1 # s.port.state.id \/ 2 # s.port.state.id)
      BY DEF Ids
    <3> QED
      BY <3>1
  <2> QED
    BY <2>1
<1>2. st \in StateType /\ st.name = name /\ st.id = id /\ st # IdleState
  BY <1>1 DEF StateType, IdleState
<1>3. s.events \cup {[id |-> id, callback |-> name]} = {[id |-> id, callback |-> name]}
  OBVIOUS
<1> HIDE DEF id
<1>4. schedule(s, name) = t
  BY <1>3 DEF schedule, id, Sound, IsSys
<1> HIDE DEF st
<1>5. IsPort(p) /\ p.state = st
  BY <1>2 DEF Sound, IsPort
<1> HIDE DEF p
<1>6. /\ IsSys(t) /\ t.port = p /\ t.events = {[id |-> id, callback |-> name]}
      /\ t.pads = s.pads /\ t.cards = s.cards /\ t.guest = s.guest
  BY DEF Sound, IsSys
<1> HIDE DEF t
<1>7. Sound(t)
  BY <1>5, <1>6 DEF Sound
<1>8. EventNamed(t)
  BY <1>2, <1>5, <1>6 DEF EventNamed
<1>9. t.port = [s.port EXCEPT !.state = t.port.state]
  BY <1>5, <1>6 DEF p
<1> QED
  BY <1>2, <1>4, <1>5, <1>6, <1>7, <1>8, <1>9

LEMMA UnscheduleFacts ==
  ASSUME NEW s, Sound(s), EventNamed(s)
  PROVE  LET t == unschedule(s)
         IN  /\ Sound(t) /\ t.events = {} /\ t.port = s.port
             /\ t.pads = s.pads /\ t.cards = s.cards /\ t.guest = s.guest
<1> DEFINE ev == {e \in s.events : e.id # s.port.state.id}
           t == [s EXCEPT !.events = ev]
<1>1. ev = {}
  BY DEF EventNamed
<1>2. unschedule(s) = t
  BY DEF unschedule
<1> HIDE DEF ev
<1>3. /\ IsSys(t) /\ t.events = ev /\ t.port = s.port
      /\ t.pads = s.pads /\ t.cards = s.cards /\ t.guest = s.guest
  BY DEF Sound, IsSys
<1> HIDE DEF t
<1>4. Sound(t)
  BY <1>3 DEF Sound
<1> QED
  BY <1>1, <1>2, <1>3, <1>4

\* What does not change the devices, the active one or the selection.
LEMMA TurnsKept ==
  ASSUME NEW s, NEW t, TakesTurns(s), t.pads = s.pads, t.cards = s.cards,
         t.port.active = s.port.active, t.port.control = s.port.control
  PROVE  TakesTurns(t)
BY DEF TakesTurns, Alive, Turn, Quiet, slot, has


-----------------------------------------------------------------------------
\* The byte goes from the buffer into the transfer.
LEMMA BeginGood ==
  ASSUME NEW s, Sound(s), InOrder(s), s.events = {}, s.port.state = IdleState, can_begin_transfer(s),
         TakesTurns(s)
  PROVE  Good(begin_transfer(s))
<1> DEFINE v == The(s.port.tx)
           p == [s.port EXCEPT !.tx = None, !.tx_val = v]
           u == [s EXCEPT !.port = p]
           t == schedule(u, "InTrans")
<1>1. v \in Byte /\ s.port.tx # None /\ IsPort(s.port)
  BY WaitingType DEF Sound, can_begin_transfer
<1>2. begin_transfer(s) = t
  BY DEF begin_transfer, Sound, IsSys
<1>3. s.guest = <<v>>
  BY <1>1, Sequences1 DEF InOrder, InTransfer, Waiting, IdleState
<1> HIDE DEF v
<1>4. /\ IsPort(p) /\ p.tx = None /\ p.tx_val = v /\ p.active = s.port.active
      /\ p.control = s.port.control /\ p.state = s.port.state
  BY <1>1 DEF IsPort, None
<1> HIDE DEF p
<1>5. /\ IsSys(u) /\ u.port = p /\ u.events = s.events
      /\ u.pads = s.pads /\ u.cards = s.cards /\ u.guest = s.guest
  BY DEF Sound, IsSys
<1> HIDE DEF u
<1>6. Sound(u)
  BY <1>4, <1>5 DEF Sound
<1>7. /\ Sound(t) /\ EventNamed(t)
      /\ t.pads = s.pads /\ t.cards = s.cards /\ t.guest = s.guest
      /\ t.port = [p EXCEPT !.state = t.port.state]
      /\ t.port.state.name = "InTrans" /\ t.port.state # IdleState
  BY <1>5, <1>6, ScheduleFacts
<1> HIDE DEF t
<1>8. t.port.tx = None /\ t.port.tx_val = v /\ t.port.active = s.port.active /\ t.port.control = s.port.control
  BY <1>4, <1>7 DEF IsPort
<1>9. InOrder(t)
  BY <1>1, <1>3, <1>7, <1>8, Sequences1 DEF InOrder, InTransfer, Waiting
<1>10. Selected(t)
  BY <1>8 DEF Selected, can_begin_transfer, has
<1>11. TakesTurns(t)
  BY <1>7, <1>8, TurnsKept
<1> QED
  BY <1>2, <1>7, <1>9, <1>10, <1>11 DEF Good, Core

\* The transfer ends: without an acknowledgement no device is active.
LEMMA TransferGood ==
  ASSUME NEW s, Mid(s), Alive(s), s.port.state.name = "InTrans"
  PROVE  Good(transfer(s))
<1> DEFINE e == exchange(s)
           q == [e.sys.port EXCEPT !.rx = Some(e.out)]
           g == without_first(e.sys.guest)
           t == [e.sys EXCEPT !.port = q, !.guest = g]
           w == schedule(t, "WaitingForAck")
           z == [t EXCEPT !.port.state = IdleState, !.port.active = "none"]
<1>1. Sound(s) /\ IsPort(s.port)
  BY DEF Mid, Sound
<1>2. Exchanged(s, e)
  BY <1>1, ExchangeFacts
<1> HIDE DEF e
<1>3. /\ IsTry(e) /\ Sound(e.sys) /\ e.sys.events = s.events /\ e.sys.guest = s.guest
      /\ IsPort(e.sys.port) /\ e.sys.port = [s.port EXCEPT !.active = e.sys.port.active]
  BY <1>2 DEF Exchanged, Sound
<1>4. transfer(s) = IF e.ack THEN w ELSE z
  BY <1>3 DEF transfer, e, Sound, IsSys
<1>5. g = Waiting(s.port)
  BY <1>1, <1>3, TakeByte DEF Mid
<1>6. /\ e.sys.port.tx = s.port.tx /\ e.sys.port.state = s.port.state
      /\ e.sys.port.control = s.port.control /\ Waiting(e.sys.port) = Waiting(s.port)
  BY <1>1, <1>3 DEF IsPort, Waiting
<1>7. /\ IsPort(q) /\ q.tx = s.port.tx /\ q.state = s.port.state
      /\ q.control = s.port.control /\ q.active = e.sys.port.active
  BY <1>3, <1>6 DEF IsPort
<1> HIDE DEF q, g
<1>8. /\ IsSys(t) /\ t.port = q /\ t.events = {} /\ t.guest = g
      /\ t.pads = e.sys.pads /\ t.cards = e.sys.cards
  BY <1>3 DEF Sound, IsSys, Mid
<1> HIDE DEF t
<1>9. Sound(t)
  BY <1>3, <1>7, <1>8 DEF Sound
<1>10. {"select", "tx_enabled"} \subseteq s.port.control
  BY DEF Mid, Selected, IdleState
<1>11. Deselects /\ Alive(t) => Turn(t, IF e.ack THEN e.sys.port.active ELSE "none", slot(s))
  BY <1>2, <1>8 DEF Exchanged, Mid, TakesTurns, Alive, Turn
<1>12. CASE e.ack
  <2>1. /\ Sound(w) /\ EventNamed(w)
        /\ w.pads = t.pads /\ w.cards = t.cards /\ w.guest = t.guest
        /\ w.port = [t.port EXCEPT !.state = w.port.state]
        /\ w.port.state.name = "WaitingForAck" /\ w.port.state # IdleState
    BY <1>8, <1>9, ScheduleFacts
  <2> HIDE DEF w
  <2>2. w.port.tx = s.port.tx /\ w.port.active = e.sys.port.active /\ w.port.control = s.port.control
    BY <1>7, <1>8, <2>1 DEF IsPort
  <2>3. InOrder(w)
    BY <1>1, <1>5, <1>8, <2>1, <2>2, WaitingType DEF InOrder, InTransfer, Waiting
  <2>4. Selected(w)
    BY <1>10, <2>2 DEF Selected
  <2>5. TakesTurns(w)
    BY <1>10, <1>11, <1>12, <2>1, <2>2 DEF TakesTurns, Alive, Turn, slot, has
  <2> QED
    BY <1>4, <1>12, <2>1, <2>3, <2>4, <2>5 DEF Good, Core
<1>13. CASE ~e.ack
  <2> DEFINE r == [q EXCEPT !.state = IdleState, !.active = "none"]
  <2>1. z = [t EXCEPT !.port = r]
    BY <1>8 DEF IsSys
  <2>2. IsPort(r) /\ r.state = IdleState /\ r.active = "none" /\ r.tx = s.port.tx /\ r.control = s.port.control
    BY <1>7 DEF IsPort, StateType
  <2> HIDE DEF r, z
  <2>3. /\ IsSys(z) /\ z.port = r /\ z.events = {} /\ z.guest = g
        /\ z.pads = t.pads /\ z.cards = t.cards
    BY <1>8, <2>1 DEF IsSys
  <2>4. Sound(z)
    BY <1>9, <2>2, <2>3 DEF Sound
  <2>5. InOrder(z) /\ EventNamed(z)
    <3>1. InTransfer(r) = <<>> /\ Waiting(r) = Waiting(s.port)
      BY <2>2 DEF InTransfer, Waiting, IdleState
    <3>2. <<>> \o Waiting(s.port) = Waiting(s.port)
      BY <1>1, WaitingType
    <3> QED
      BY <1>5, <2>2, <2>3, <3>1, <3>2 DEF InOrder, EventNamed
  <2>6. Selected(z)
    BY <2>2, <2>3 DEF Selected
  <2>7. TakesTurns(z)
    BY <1>10, <1>11, <1>13, <2>2, <2>3 DEF TakesTurns, Alive, Turn, slot, has
  <2> QED
    BY <1>4, <1>13, <2>4, <2>5, <2>6, <2>7 DEF Good, Core
<1> QED
  BY <1>3, <1>12, <1>13 DEF IsTry


LEMMA AckGood ==
  ASSUME NEW s, Mid(s), s.port.state.name = "WaitingForAck"
  PROVE  Good(ack_input(s))
<1> DEFINE b == has(s, "ack_irq_enabled")
           st == s.port.status \cup {"ack"} \cup (IF b THEN {"irq"} ELSE {})
           p == [s.port EXCEPT !.state = IdleState, !.status = st, !.irq = b]
           t == [s EXCEPT !.port = p]
<1>1. Sound(s) /\ IsPort(s.port) /\ IsSys(s)
  BY DEF Mid, Sound
<1>2. ack_input(s) = IF can_begin_transfer(t) THEN begin_transfer(t) ELSE t
  BY <1>1 DEF ack_input, IsSys
<1> HIDE DEF b, st
<1>3. /\ IsPort(p) /\ p.state = IdleState /\ p.tx = s.port.tx
      /\ p.active = s.port.active /\ p.control = s.port.control
  BY <1>1 DEF IsPort, StateType
<1> HIDE DEF p
<1>4. /\ IsSys(t) /\ t.port = p /\ t.events = {} /\ t.guest = s.guest
      /\ t.pads = s.pads /\ t.cards = s.cards
  BY <1>1 DEF IsSys, Mid
<1> HIDE DEF t
<1>5. Sound(t)
  BY <1>1, <1>3, <1>4 DEF Sound
<1>6. InOrder(t)
  BY <1>3, <1>4 DEF Mid, InOrder, InTransfer, Waiting, IdleState
<1>7. EventNamed(t) /\ Selected(t)
  BY <1>3, <1>4 DEF EventNamed, Selected
<1>8. TakesTurns(t)
  BY <1>3, <1>4, TurnsKept DEF Mid
<1>9. can_begin_transfer(t) => Good(begin_transfer(t))
  BY <1>3, <1>4, <1>5, <1>6, <1>8, BeginGood
<1> QED
  BY <1>2, <1>5, <1>6, <1>7, <1>8, <1>9 DEF Good, Core

LEMMA EarlyGood ==
  ASSUME NEW s, Good(s), Alive(s)
  PROVE  Good(do_transfer_early(s))
<1> DEFINE t == unschedule(s)
<1>1. Sound(s) /\ s.port.state \in StateType
  BY DEF Good, Core, Sound, IsPort
<1>2. /\ Sound(t) /\ t.events = {} /\ t.port = s.port
      /\ t.pads = s.pads /\ t.cards = s.cards /\ t.guest = s.guest
  BY <1>1, UnscheduleFacts DEF Good, Core
<1>3. \/ s.port.state.name = "InTrans" /\ do_transfer_early(s) = transfer(t)
      \/ s.port.state.name = "WaitingForAck" /\ do_transfer_early(s) = ack_input(t)
      \/ do_transfer_early(s) = s
  BY DEF do_transfer_early
<1> HIDE DEF t
<1>4. Mid(t) /\ Alive(t)
  BY <1>2, TurnsKept DEF Mid, Good, Core, InOrder, Selected, Alive
<1> QED
  BY <1>2, <1>3, <1>4, TransferGood, AckGood

\* An event that fires is the one the state names.
LEMMA FireGood ==
  ASSUME NEW s, Good(s), Alive(s), NEW e \in s.events
  PROVE  LET t == [s EXCEPT !.events = @ \ {e}]
         IN  Good(IF e.callback = "InTrans" THEN transfer(t) ELSE ack_input(t))
<1> DEFINE ev == s.events \ {e}
           t == [s EXCEPT !.events = ev]
<1>1. IsSys(s) /\ IsPort(s.port) /\ s.port.state \in StateType
  BY DEF Good, Core, Sound, IsPort
<1>2. ev = {} /\ e.callback = s.port.state.name /\ s.port.state # IdleState
  BY DEF Good, Core, EventNamed
<1> HIDE DEF ev
<1>3. /\ IsSys(t) /\ t.events = {} /\ t.port = s.port
      /\ t.pads = s.pads /\ t.cards = s.cards /\ t.guest = s.guest
  BY <1>1, <1>2 DEF IsSys
<1> HIDE DEF t
<1>4. Mid(t) /\ Alive(t)
  BY <1>3, TurnsKept DEF Mid, Good, Core, Sound, InOrder, Selected, Alive
<1>5. s.port.state.name \in {"InTrans", "WaitingForAck"}
  BY <1>1, <1>2, StateNames
<1>6. Good(IF e.callback = "InTrans" THEN transfer(t) ELSE ack_input(t))
  BY <1>2, <1>3, <1>4, <1>5, TransferGood, AckGood
<1> QED
  BY <1>6 DEF t, ev

\* A byte is stored while the buffer is empty.
LEMMA StoreTxGood ==
  ASSUME NEW s, Good(s), s.port.tx = None, NEW val \in Bytes
  PROVE  Good(store_tx(s, val))
<1> DEFINE p == [s.port EXCEPT !.tx = Some(val)]
           g == Append(s.guest, val)
           t == [s EXCEPT !.port = p, !.guest = g]
<1>1. IsSys(s) /\ IsPort(s.port) /\ val \in Byte
  BY IoPortAssumption DEF Good, Core, Sound, Byte
<1>2. store_tx(s, val) = IF can_begin_transfer(t) /\ ~is_transmitting(t) THEN begin_transfer(t) ELSE t
  BY <1>1 DEF store_tx, IsSys
<1>3. The(Some(val)) = val /\ Some(val) # None /\ Some(val) \in SUBSET Byte
  BY <1>1 DEF The, Some, None
<1>4. /\ IsPort(p) /\ p.tx = Some(val) /\ p.tx_val = s.port.tx_val /\ p.state = s.port.state
      /\ p.active = s.port.active /\ p.control = s.port.control
  BY <1>1, <1>3 DEF IsPort
<1> HIDE DEF p
<1>5. g = InTransfer(p) \o Waiting(p)
  <2>1. s.guest = InTransfer(s.port) \o <<>>
    BY DEF Good, Core, InOrder, Waiting
  <2>2. InTransfer(p) = InTransfer(s.port) /\ Waiting(p) = <<val>>
    BY <1>3, <1>4 DEF InTransfer, Waiting
  <2>3. s.port.tx_val \in Byte
    BY <1>1 DEF IsPort
  <2> QED
    BY <1>1, <2>1, <2>2, <2>3, Sequences1 DEF InTransfer
<1> HIDE DEF g
<1>6. /\ IsSys(t) /\ t.port = p /\ t.events = s.events /\ t.guest = g
      /\ t.pads = s.pads /\ t.cards = s.cards
  BY <1>1 DEF IsSys
<1> HIDE DEF t
<1>7. Sound(t) /\ InOrder(t) /\ EventNamed(t) /\ Selected(t)
  BY <1>4, <1>5, <1>6 DEF Good, Core, Sound, InOrder, EventNamed, Selected
<1>8. TakesTurns(t)
  BY <1>4, <1>6, TurnsKept DEF Good
<1>9. ~is_transmitting(t) => t.port.state = IdleState /\ t.events = {}
  BY <1>4, <1>7, StateNames DEF is_transmitting, Sound, IsPort, EventNamed
<1>10. can_begin_transfer(t) /\ ~is_transmitting(t) => Good(begin_transfer(t))
  BY <1>7, <1>8, <1>9, BeginGood
<1> QED
  BY <1>2, <1>7, <1>8, <1>10 DEF Good, Core


-----------------------------------------------------------------------------
LEMMA StopFacts ==
  ASSUME NEW s, Core(s)
  PROVE  LET t == stop_transfer(s)
         IN  /\ Core(t) /\ t.port.state = IdleState /\ t.events = {}
             /\ t.port = [s.port EXCEPT !.state = IdleState] /\ t.pads = s.pads /\ t.cards = s.cards
<1> DEFINE u == unschedule(s)
           p == [s.port EXCEPT !.state = IdleState]
           g == IF s.port.state.name = "InTrans" THEN without_first(s.guest) ELSE s.guest
           t == [u EXCEPT !.port = p, !.guest = g]
<1>1. IsPort(s.port) /\ g = Waiting(s.port)
  BY TakeByte DEF Core, Sound
<1>2. /\ Sound(u) /\ u.events = {} /\ u.port = s.port
      /\ u.pads = s.pads /\ u.cards = s.cards /\ u.guest = s.guest
  BY UnscheduleFacts DEF Core
<1> HIDE DEF u
<1>3. stop_transfer(s) = t
  BY <1>2 DEF stop_transfer, u, Sound, IsSys
<1>4. IsPort(p) /\ p.state = IdleState /\ p.tx = s.port.tx
  BY <1>1 DEF IsPort, StateType
<1> HIDE DEF p, g
<1>5. /\ IsSys(t) /\ t.port = p /\ t.events = {} /\ t.guest = g
      /\ t.pads = s.pads /\ t.cards = s.cards
  BY <1>2 DEF Sound, IsSys
<1> HIDE DEF t
<1>6. Sound(t) /\ EventNamed(t)
  BY <1>2, <1>4, <1>5 DEF Sound, EventNamed
<1>7. InOrder(t)
  <2>1. InTransfer(p) = <<>> /\ Waiting(p) = Waiting(s.port)
    BY <1>4 DEF InTransfer, Waiting, IdleState
  <2>2. <<>> \o Waiting(s.port) = Waiting(s.port)
    BY <1>1, WaitingType
  <2> QED
    BY <1>1, <1>5, <2>1, <2>2 DEF InOrder
<1> QED
  BY <1>3, <1>4, <1>5, <1>6, <1>7 DEF Core, p

LEMMA ResetDevicesFacts ==
  ASSUME NEW s, Sound(s)
  PROVE  LET t == reset_device_states(s)
         IN  Sound(t) /\ Quiet(t) /\ Kept(s, t)
<1> DEFINE a == [n \in Slots |-> {reset_pad(p) : p \in s.pads[n]}]
           b == [n \in Slots |-> {reset_card(c) : c \in s.cards[n]}]
           t == [s EXCEPT !.pads = a, !.cards = b]
<1>1. IsSys(s) /\ \A n \in Slots : s.pads[n] \in SUBSET PadType
  BY DEF Sound, IsSys
<1>2. ASSUME NEW p \in PadType PROVE reset_pad(p) \in PadType /\ reset_pad(p).state = "Idle"
  BY DEF PadType, reset_pad
<1>3. a \in [Slots -> SUBSET PadType] /\ \A n \in Slots : \A p \in a[n] : p.state \notin Talking
  BY <1>1, <1>2 DEF Talking
<1>4. ASSUME NEW c, CardOK(c) PROVE CardOK(reset_card(c)) /\ reset_card(c).state = Idle
  BY <1>4 DEF CardOK, reset_card, CardStates
<1>5. \A n \in Slots : \A c \in b[n] : CardOK(c) /\ c.state = Idle
  BY <1>4 DEF Sound
<1>6. b \in [Slots -> {b[1], b[2]}]
  BY DEF Slots
<1>7. reset_device_states(s) = t
  BY DEF reset_device_states
<1> HIDE DEF a, b
<1>8. IsSys(t) /\ Kept(s, t) /\ t.pads = a /\ t.cards = b
  BY <1>1, <1>3, <1>6 DEF IsSys, Kept
<1> HIDE DEF t
<1>9. Sound(t) /\ Quiet(t)
  BY <1>3, <1>5, <1>8 DEF Sound, Quiet, Kept
<1> QED
  BY <1>7, <1>8, <1>9

\* Only the port's registers change.
WithPort(s, p, g) == [s EXCEPT !.port = p, !.guest = g]

LEMMA SetPort ==
  ASSUME NEW s, Sound(s), NEW p, IsPort(p), NEW g
  PROVE  LET t == WithPort(s, p, g)
         IN  /\ Sound(t) /\ t.port = p /\ t.events = s.events /\ t.guest = g
             /\ t.pads = s.pads /\ t.cards = s.cards
<1> DEFINE t == WithPort(s, p, g)
<1>1. /\ IsSys(t) /\ t.port = p /\ t.events = s.events /\ t.guest = g
      /\ t.pads = s.pads /\ t.cards = s.cards
  BY DEF Sound, IsSys, WithPort
<1> HIDE DEF t
<1>2. Sound(t)
  BY <1>1 DEF Sound
<1> QED
  BY <1>1, <1>2 DEF t

LEMMA QuietTurns ==
  ASSUME NEW s, NEW t, Quiet(s), t.pads = s.pads, t.cards = s.cards
  PROVE  TakesTurns(t) /\ Quiet(t)
BY DEF Quiet, TakesTurns, Turn


\* What the guest promises of a control word, when it deselects.
Polite(s, val) ==
  Deselects /\ {"select"} \subseteq val \cap s.port.control
    => ("slot2" \in val <=> "slot2" \in s.port.control)

LEMMA StoreControlGood ==
  ASSUME NEW s, Good(s), NEW val \in Controls, Polite(s, val)
  PROVE  Good(store_control(s, val))
<1> DEFINE stored == [s EXCEPT !.port.control = val]
           off == reset_device_states(stop_transfer(stored))
           cleared == [off EXCEPT !.port.active = "none", !.port.status = {}, !.port.control = {},
                                  !.port.tx = None, !.port.rx = None, !.guest = <<>>]
           reset == IF "reset" \notin val THEN stored ELSE cleared
           idle == [reset_device_states(reset) EXCEPT !.port.active = "none"]
           chosen == IF has(reset, "select") THEN reset ELSE idle
<1>1. /\ Sound(s) /\ IsSys(s) /\ IsPort(s.port) /\ val \in SUBSET ControlBits
      /\ InOrder(s) /\ EventNamed(s) /\ TakesTurns(s)
  BY IoPortAssumption DEF Good, Core, Sound
<1>2. store_control(s, val) =
        IF ~has(chosen, "select") \/ ~has(chosen, "tx_enabled") THEN stop_transfer(chosen)
        ELSE IF ~is_transmitting(chosen) /\ can_begin_transfer(chosen) THEN begin_transfer(chosen)
        ELSE chosen
  BY DEF store_control
<1>3. /\ Core(stored) /\ stored.pads = s.pads /\ stored.cards = s.cards
      /\ stored.port.active = s.port.active /\ stored.port.control = val
  <2> DEFINE p == [s.port EXCEPT !.control = val]
             t == WithPort(s, p, s.guest)
  <2>1. /\ IsPort(p) /\ p.control = val /\ p.active = s.port.active /\ p.state = s.port.state
        /\ p.tx = s.port.tx /\ p.tx_val = s.port.tx_val
    BY <1>1 DEF IsPort
  <2>2. stored = t
    BY <1>1 DEF IsSys, WithPort
  <2> HIDE DEF p, stored
  <2>3. /\ Sound(t) /\ t.port = p /\ t.events = s.events /\ t.guest = s.guest
        /\ t.pads = s.pads /\ t.cards = s.cards
    BY <1>1, <2>1, SetPort
  <2> HIDE DEF t
  <2>4. InOrder(t) /\ EventNamed(t)
    BY <1>1, <2>1, <2>3 DEF InOrder, InTransfer, Waiting, EventNamed
  <2> QED
    BY <2>1, <2>2, <2>3, <2>4 DEF Core
<1> HIDE DEF stored
<1>4. Core(cleared) /\ Quiet(cleared) /\ cleared.port.control = {}
  <2> DEFINE h == stop_transfer(stored)
             p == [off.port EXCEPT !.active = "none", !.status = {}, !.control = {}, !.tx = None, !.rx = None]
             t == WithPort(off, p, <<>>)
  <2>1. Core(h) /\ h.port.state = IdleState /\ h.events = {}
    BY <1>3, StopFacts
  <2> HIDE DEF h
  <2>2. Sound(off) /\ Quiet(off) /\ Kept(h, off)
    BY <2>1, ResetDevicesFacts DEF Core, h
  <2> HIDE DEF off
  <2>3. IsPort(off.port) /\ off.port.state = IdleState /\ off.events = {} /\ IsSys(off)
    BY <2>1, <2>2 DEF Sound, Kept
  <2>4. cleared = t
    BY <2>3 DEF IsSys, WithPort
  <2>5. IsPort(p) /\ p.state = IdleState /\ p.tx = None /\ p.control = {}
    BY <2>3 DEF IsPort, None
  <2> HIDE DEF p, cleared
  <2>6. /\ Sound(t) /\ t.port = p /\ t.events = {} /\ t.guest = <<>>
        /\ t.pads = off.pads /\ t.cards = off.cards
    BY <2>2, <2>3, <2>5, SetPort
  <2> HIDE DEF t
  <2>7. InOrder(t)
    <3>1. InTransfer(p) = <<>> /\ Waiting(p) = <<>> /\ <<>> \o <<>> = <<>>
      BY <2>5 DEF InTransfer, Waiting, IdleState
    <3> QED
      BY <2>6, <3>1 DEF InOrder
  <2>8. EventNamed(t) /\ Quiet(t)
    BY <2>2, <2>5, <2>6, QuietTurns DEF EventNamed
  <2> QED
    BY <2>4, <2>5, <2>6, <2>7, <2>8 DEF Core
<1> HIDE DEF cleared
<1>5. Core(reset)
  BY <1>3, <1>4
<1>6. has(reset, "select") => TakesTurns(reset)
  <2>1. CASE "reset" \in val
    BY <1>4, <2>1, QuietTurns
  <2>2. CASE "reset" \notin val
    <3>1. reset = stored
      BY <2>2
    <3>2. ASSUME "select" \in val, Deselects, Alive(stored) PROVE Turn(stored, stored.port.active, slot(stored))
      <4>1. Alive(s)
        BY <1>3, <3>2 DEF Alive
      <4>2. Turn(s, s.port.active, slot(s)) /\ ("select" \notin s.port.control => Quiet(s))
        BY <1>1, <3>2, <4>1 DEF TakesTurns
      <4>3. CASE "select" \in s.port.control
        <5>1. slot(stored) = slot(s)
          BY <1>3, <3>2, <4>3 DEF Polite, slot, has
        <5> QED
          BY <1>3, <4>2, <5>1 DEF Turn
      <4>4. CASE "select" \notin s.port.control
        BY <1>3, <4>2, <4>4 DEF Turn, Quiet
      <4> QED
        BY <4>3, <4>4
    <3> QED
      BY <1>3, <3>1, <3>2 DEF TakesTurns, has
  <2> QED
    BY <2>1, <2>2
<1> HIDE DEF reset
<1>7. Core(idle) /\ Quiet(idle)
  <2> DEFINE h == reset_device_states(reset)
             p == [h.port EXCEPT !.active = "none"]
             t == WithPort(h, p, h.guest)
  <2>1. Sound(h) /\ Quiet(h) /\ Kept(reset, h)
    BY <1>5, ResetDevicesFacts DEF Core
  <2> HIDE DEF h
  <2>2. InOrder(h) /\ EventNamed(h) /\ IsPort(h.port) /\ IsSys(h)
    BY <1>5, <2>1 DEF Core, Kept, InOrder, EventNamed, Sound
  <2>3. idle = t
    BY <2>2 DEF h, IsSys, WithPort
  <2>4. IsPort(p) /\ p.state = h.port.state /\ p.tx = h.port.tx /\ p.tx_val = h.port.tx_val
    BY <2>2 DEF IsPort
  <2> HIDE DEF p, idle
  <2>5. /\ Sound(t) /\ t.port = p /\ t.events = h.events /\ t.guest = h.guest
        /\ t.pads = h.pads /\ t.cards = h.cards
    BY <2>1, <2>4, SetPort
  <2> HIDE DEF t
  <2>6. InOrder(t) /\ EventNamed(t)
    BY <2>2, <2>4, <2>5 DEF InOrder, InTransfer, Waiting, EventNamed
  <2>7. Quiet(t)
    BY <2>1, <2>5, QuietTurns
  <2> QED
    BY <2>3, <2>5, <2>6, <2>7 DEF Core
<1> HIDE DEF idle
<1>8. Core(chosen) /\ TakesTurns(chosen)
  BY <1>5, <1>6, <1>7, QuietTurns
<1> HIDE DEF chosen
<1>9. Good(stop_transfer(chosen))
  <2> DEFINE t == stop_transfer(chosen)
  <2>1. /\ Core(t) /\ t.port.state = IdleState
        /\ t.port = [chosen.port EXCEPT !.state = IdleState] /\ t.pads = chosen.pads /\ t.cards = chosen.cards
    BY <1>8, StopFacts
  <2> HIDE DEF t
  <2>2. t.port.active = chosen.port.active /\ t.port.control = chosen.port.control
    BY <1>8, <2>1 DEF Core, Sound, IsPort
  <2>3. TakesTurns(t) /\ Selected(t)
    BY <1>8, <2>1, <2>2, TurnsKept DEF Selected
  <2>4. Good(t)
    BY <2>1, <2>3 DEF Good
  <2> QED
    BY <2>4 DEF t
<1>10. ~is_transmitting(chosen) /\ can_begin_transfer(chosen) => Good(begin_transfer(chosen))
  <2>1. ~is_transmitting(chosen) => chosen.port.state = IdleState /\ chosen.events = {}
    BY <1>8, StateNames DEF Core, is_transmitting, Sound, IsPort, EventNamed
  <2> QED
    BY <1>8, <2>1, BeginGood DEF Core
<1>11. has(chosen, "select") /\ has(chosen, "tx_enabled") => Good(chosen)
  BY <1>8 DEF Good, Selected, has
<1> QED
  BY <1>2, <1>9, <1>10, <1>11


-----------------------------------------------------------------------------
State == [port |-> port, pads |-> pads, cards |-> cards, events |-> events, guest |-> guest]

Inv == Good(State)

LEMMA StateFields ==
  /\ State.port = port /\ State.pads = pads /\ State.cards = cards
  /\ State.events = events /\ State.guest = guest
BY DEF State

\* A register that the invariant does not look at.
LEMMA OtherRegister ==
  ASSUME NEW s, Good(s), NEW p, IsPort(p), p.state = s.port.state, p.tx = s.port.tx,
         p.tx_val = s.port.tx_val, p.active = s.port.active, p.control = s.port.control
  PROVE  Good([s EXCEPT !.port = p])
<1> DEFINE t == WithPort(s, p, s.guest)
<1>1. /\ Sound(t) /\ t.port = p /\ t.events = s.events /\ t.guest = s.guest
      /\ t.pads = s.pads /\ t.cards = s.cards
  BY SetPort DEF Good, Core
<1>2. [s EXCEPT !.port = p] = t
  BY DEF WithPort, Good, Core, Sound, IsSys
<1> HIDE DEF t
<1>3. InOrder(t) /\ EventNamed(t) /\ Selected(t)
  BY <1>1 DEF Good, Core, InOrder, InTransfer, Waiting, EventNamed, Selected
<1>4. TakesTurns(t)
  BY <1>1, TurnsKept DEF Good
<1> QED
  BY <1>1, <1>2, <1>3, <1>4 DEF Good, Core

LEMMA SysGood ==
  ASSUME Inv, Runs
  PROVE  /\ Good(Sys) /\ Alive(Sys) /\ Sys.port.tx = port.tx /\ Sys.port.control = port.control
         /\ Sys.events = events
<1> DEFINE p == [port EXCEPT !.irq = FALSE]
<1>1. IsPort(port)
  BY StateFields DEF Inv, Good, Core, Sound
<1>2. /\ IsPort(p) /\ p.state = port.state /\ p.tx = port.tx
      /\ p.tx_val = port.tx_val /\ p.active = port.active /\ p.control = port.control
  BY <1>1 DEF IsPort
<1>0. Sys = [port |-> p, pads |-> pads, cards |-> cards, events |-> events, guest |-> guest]
  BY DEF Sys
<1> HIDE DEF p
<1>3. Sys = [State EXCEPT !.port = p] /\ Sys.port = p /\ Sys.cards = cards /\ Sys.events = events
  BY <1>0 DEF State
<1>4. Good(Sys)
  BY <1>2, <1>3, OtherRegister, StateFields DEF Inv
<1>5. Alive(Sys)
  BY <1>3 DEF Alive, Runs
<1> QED
  BY <1>2, <1>3, <1>4, <1>5

LEMMA BecomeGood ==
  ASSUME NEW s, Good(s), Become(s) PROVE Inv'
<1>1. State' = [port |-> s.port, pads |-> s.pads, cards |-> s.cards, events |-> s.events, guest |-> s.guest]
  BY DEF State, Become
<1>2. State' = s
  BY <1>1 DEF Good, Core, Sound, IsSys
<1> QED
  BY <1>2 DEF Inv

LEMMA InitInv == ASSUME Init PROVE Inv
<1>1. IsPort(port) /\ port.state = IdleState /\ port.tx = None
  BY DEF Init, IsPort, StateType, None, Byte
<1>2. new_pad \in PadType /\ new_pad.state = "Idle"
  BY DEF new_pad, PadType
<1>3. CardOK(new_card(Erased)) /\ new_card(Erased).state = Idle
  BY DEF new_card, CardOK, CardStates
<1>4. pads \in [Slots -> SUBSET PadType] /\ \A m \in Slots : \A p \in pads[m] : p.state \notin Talking
  BY <1>2 DEF Init, Some, Talking
<1>5. \A m \in Slots : \A c \in cards[m] : CardOK(c) /\ c.state = Idle
  BY <1>3 DEF Init, Some, None
<1>6. cards \in [Slots -> {cards[1], cards[2]}]
  BY DEF Init, Slots
<1>7. IsSys(State)
  BY <1>4, <1>6 DEF IsSys, State
<1>8. Sound(State) /\ Quiet(State)
  BY <1>1, <1>4, <1>5, <1>7, StateFields DEF Sound, Quiet
<1>9. InOrder(State)
  <2>1. InTransfer(port) = <<>> /\ Waiting(port) = <<>> /\ <<>> \o <<>> = <<>>
    BY <1>1 DEF InTransfer, Waiting, IdleState
  <2> QED
    BY <2>1, StateFields DEF InOrder, Init
<1>10. EventNamed(State) /\ Selected(State)
  BY <1>1, StateFields DEF EventNamed, Selected, Init
<1>11. TakesTurns(State)
  BY <1>8, QuietTurns
<1> QED
  BY <1>8, <1>9, <1>10, <1>11 DEF Inv, Good, Core

LEMMA NextInv == ASSUME Inv, Next PROVE Inv'
<1>1. CASE StoreTx
  <2>1. Runs /\ port.tx = None
    BY <1>1 DEF StoreTx, tx_ready, tx_done
  <2>2. PICK val \in Bytes : Become(store_tx(Sys, val))
    BY <1>1 DEF StoreTx
  <2>3. Good(store_tx(Sys, val))
    BY <2>1, SysGood, StoreTxGood
  <2> QED
    BY <2>2, <2>3, BecomeGood
<1>2. CASE StoreControl
  <2>1. PICK val \in Controls :
          /\ Deselects /\ {"select"} \subseteq val \cap port.control
               => ("slot2" \in val <=> "slot2" \in port.control)
          /\ Become(store_control(Sys, val))
    BY <1>2 DEF StoreControl
  <2>2. Good(Sys) /\ Polite(Sys, val)
    BY <1>2, <2>1, SysGood DEF StoreControl, Polite
  <2>3. Good(store_control(Sys, val))
    BY <2>2, StoreControlGood
  <2> QED
    BY <2>1, <2>3, BecomeGood
<1>3. CASE LoadRx
  <2> DEFINE s == do_transfer_early(Sys)
             p == [s.port EXCEPT !.rx = None]
  <2>1. Good(s)
    BY <1>3, SysGood, EarlyGood DEF LoadRx
  <2>2. Become([s EXCEPT !.port = p])
    BY <1>3 DEF LoadRx
  <2> HIDE DEF s
  <2>3. /\ IsPort(p) /\ p.state = s.port.state /\ p.tx = s.port.tx
        /\ p.tx_val = s.port.tx_val /\ p.active = s.port.active /\ p.control = s.port.control
    BY <2>1 DEF Good, Core, Sound, IsPort
  <2> HIDE DEF p
  <2> QED
    BY <2>1, <2>2, <2>3, OtherRegister, BecomeGood
<1>4. CASE LoadStatus
  <2> DEFINE s == do_transfer_early(Sys)
             st == s.port.status \ {"ack"}
             p == [s.port EXCEPT !.status = st]
  <2>1. Good(s)
    BY <1>4, SysGood, EarlyGood DEF LoadStatus
  <2>2. Become([s EXCEPT !.port = p])
    BY <1>4 DEF LoadStatus
  <2> HIDE DEF s, st
  <2>3. /\ IsPort(p) /\ p.state = s.port.state /\ p.tx = s.port.tx
        /\ p.tx_val = s.port.tx_val /\ p.active = s.port.active /\ p.control = s.port.control
    BY <2>1 DEF Good, Core, Sound, IsPort
  <2> HIDE DEF p
  <2> QED
    BY <2>1, <2>2, <2>3, OtherRegister, BecomeGood
<1>5. CASE Fire
  <2>1. PICK e \in events :
          LET s == [Sys EXCEPT !.events = @ \ {e}]
          IN  Become(IF e.callback = "InTrans" THEN transfer(s) ELSE ack_input(s))
    BY <1>5 DEF Fire
  <2> DEFINE s == [Sys EXCEPT !.events = @ \ {e}]
             r == IF e.callback = "InTrans" THEN transfer(s) ELSE ack_input(s)
  <2>2. Good(Sys) /\ Alive(Sys) /\ e \in Sys.events
    BY <1>5, SysGood DEF Fire
  <2>3. Good(r)
    BY <2>2, FireGood
  <2>4. Become(r)
    BY <2>1
  <2> HIDE DEF r
  <2> QED
    BY <2>3, <2>4, BecomeGood
<1>6. CASE PlugPad
  <2>1. PICK n \in Slots, q \in {None, Some(new_pad)} : pads' = [pads EXCEPT ![n] = q]
    BY <1>6 DEF PlugPad
  <2>2. UNCHANGED <<port, cards, events, guest>>
    BY <1>6 DEF PlugPad
  <2>3. q \in SUBSET PadType /\ \A p \in q : p.state \notin Talking
    BY DEF None, Some, new_pad, PadType, Talking
  <2>4. IsSys(State) /\ pads \in [Slots -> SUBSET PadType]
    BY StateFields DEF Inv, Good, Core, Sound, IsSys
  <2>5. /\ pads' \in [Slots -> SUBSET PadType]
        /\ \A m \in Slots : \A p \in pads'[m] : p \in pads[m] \/ p.state \notin Talking
    BY <2>1, <2>3, <2>4
  <2>6. State' = [State EXCEPT !.pads = pads']
    BY <2>2 DEF State
  <2>7. /\ State'.port = State.port /\ State'.cards = State.cards
        /\ State'.events = State.events /\ State'.guest = State.guest /\ State'.pads = pads'
    BY <2>2 DEF State
  <2>8. IsSys(State')
    BY <2>4, <2>5, <2>6 DEF IsSys
  <2>9. Sound(State')
    BY <2>7, <2>8 DEF Inv, Good, Core, Sound
  <2>10. InOrder(State') /\ EventNamed(State') /\ Selected(State')
    BY <2>7 DEF Inv, Good, Core, InOrder, EventNamed, Selected
  <2>11. TakesTurns(State')
    BY <2>5, <2>7, StateFields DEF Inv, Good, TakesTurns, Alive, Turn, Quiet, slot, has
  <2> QED
    BY <2>9, <2>10, <2>11 DEF Inv, Good, Core
<1>7. CASE PressButton
  <2>1. PICK n \in Slots, b \in Pressable, pressed \in BOOLEAN :
          pads' = [pads EXCEPT ![n] = {set_button(p, b, pressed) : p \in @}]
    BY <1>7 DEF PressButton
  <2>2. UNCHANGED <<port, cards, events, guest>>
    BY <1>7 DEF PressButton
  <2>3. pads \in [Slots -> SUBSET PadType]
    BY StateFields DEF Inv, Good, Core, Sound, IsSys
  <2>4. {set_button(p, b, pressed) : p \in pads[n]} = pads[n]
    BY DEF set_button
  <2>5. pads' = pads
    BY <2>1, <2>3, <2>4
  <2>6. State' = State
    BY <2>2, <2>5 DEF State
  <2> QED
    BY <2>6 DEF Inv
<1>8. CASE Halted
  <2>1. State' = State
    BY <1>8 DEF Halted, vars, State
  <2> QED
    BY <2>1 DEF Inv
<1> QED
  BY <1>1, <1>2, <1>3, <1>4, <1>5, <1>6, <1>7, <1>8 DEF Next

THEOREM Invariance == Spec => []Inv
<1>1. Init => Inv
  BY InitInv
<1>2. Inv /\ [Next]_vars => Inv'
  <2>1. ASSUME Inv, UNCHANGED vars PROVE Inv'
    <3>1. State' = State
      BY <2>1 DEF vars, State
    <3> QED
      BY <2>1, <3>1 DEF Inv
  <2> QED
    BY <2>1, NextInv
<1> QED
  BY <1>1, <1>2, PTL DEF Spec

(* However loads of the registers end a transfer early and stores to the    *)
(* control register stop it, the schedule holds the event the port's state  *)
(* names and no other: none is left behind to end a later transfer.         *)
THEOREM NoEventLeftBehind == Spec => []OneEvent
<1>1. Inv => OneEvent
  BY StateFields DEF Inv, Good, Core, EventNamed, OneEvent
<1> QED
  BY <1>1, Invariance, PTL

(* What the devices have yet to see is the byte in transfer and the one in  *)
(* the buffer, in the order the guest stored them, for a guest that waits   *)
(* for either of the two status bits.                                       *)
THEOREM BytesGoOutInOrder == Spec => []BytesInOrder
<1>1. Inv => BytesInOrder
  BY StateFields DEF Inv, Good, Core, InOrder, InTransfer, Waiting, BytesInOrder
<1> QED
  BY <1>1, Invariance, PTL

(* For a guest that deselects a slot before it selects the other: whatever  *)
(* it sends, and whatever is plugged in or out, a pad or card within its    *)
(* sequence is the active device of the selected slot.                      *)
THEOREM DevicesTakeTurns ==
  ASSUME Deselects PROVE Spec => []OneDeviceTalks
<1>1. Inv => OneDeviceTalks
  <2> SUFFICES ASSUME Inv, Runs, NEW s \in Slots
               PROVE  /\ \A p \in pads[s] : p.state \in Talking => port.active = "pad" /\ s = slot(Sys)
                      /\ \A c \in cards[s] : c.state # Idle => port.active = "card" /\ s = slot(Sys)
    BY DEF OneDeviceTalks, Talking
  <2>1. Alive(State)
    BY StateFields DEF Alive, Runs
  <2>2. Turn(State, State.port.active, slot(State))
    BY <2>1 DEF Inv, Good, TakesTurns
  <2>3. slot(Sys) = slot(State)
    BY SysGood, StateFields DEF slot, has
  <2> QED
    BY <2>2, <2>3, StateFields DEF Turn
<1> QED
  BY <1>1, Invariance, PTL

-----------------------------------------------------------------------------
(***************************************************************************)
(* A memory card by itself (MemCard), for every size of sector and flash   *)
(* and every byte it may be sent: the flash holds whole sectors, and the   *)
(* card knows that it was changed.                                         *)
(***************************************************************************)
CardByte == 0 .. BYTE - 1
Sector == [Offset -> CardByte]
Flash == [0 .. Sectors - 1 -> Sector]

StepType == [seq : {"read", "write", "id"}, step : 1 .. 11, offset : 0 .. SECTOR_SIZE]
InSequence == {st \in StepType : st.step <= LastStep(st.seq)}
CardStateType == {Idle, Command, Panicked} \cup InSequence

\* Fields of which only their being there matters are said to be what they are.
CardType(c) ==
  c \in [flash : Flash, state : CardStateType, addr : Nat, last_byte : {c.last_byte},
         has_written : {c.has_written}, changed : BOOLEAN, write_sector : Sector,
         error : {c.error}]

GuestOK(g) ==
  g \in [data : {g.data}, sector : {g.sector}, written : {g.written}, writes : {g.writes}]

\* The first n bytes of the sector are those the guest sent.
Filled(w, d, n) == d \in Seq(CardByte) /\ Len(d) = n /\ \A o \in 0 .. n - 1 : w[o] = d[o + 1]

\* How far the card and the guest have come in a write, in the order of its steps:
\* 4 is AddrLo, 5 is Data.
Progress(c, g) ==
  c.state.seq = "write" =>
    /\ c.state.step <= 4 => g.data = <<>>
    /\ c.state.step = 4 => g.sector = c.addr \div BYTE
    /\ c.state.step >= 5 => g.sector = c.addr
    /\ c.state.step = 5 => c.state.offset \in Offset /\ Filled(c.write_sector, g.data, c.state.offset)
    /\ c.state.step >= 6 => Filled(c.write_sector, g.data, SECTOR_SIZE)

Whole(c, g, f) == c.flash = g.written /\ (c.flash # f => c.changed)

CardInv ==
  /\ CardType(card) /\ GuestOK(sender) /\ file \in Flash
  /\ Progress(card, sender) /\ Whole(card, sender, file)

-----------------------------------------------------------------------------
\* The address of two bytes.
LEMMA HiOfSum ==
  ASSUME NEW v \in Nat, NEW r \in CardByte
  PROVE  (v * BYTE + r) \div BYTE = v
<1> DEFINE q == (v * BYTE + r) \div BYTE
<1>1. BYTE \in Nat /\ BYTE > 0 /\ r \in Nat /\ r < BYTE /\ v * BYTE \in Nat
  BY CardAssumption DEF CardByte
<1>2. q \in Int /\ q * BYTE <= v * BYTE + r /\ v * BYTE + r < (q + 1) * BYTE
  BY <1>1
<1> HIDE DEF q
<1>3. ~(q >= v + 1)
  <2>1. q >= v + 1 => q * BYTE >= (v + 1) * BYTE
    BY <1>1, <1>2
  <2> QED
    BY <1>1, <1>2, <2>1
<1>4. ~(q + 1 <= v)
  <2>1. q + 1 <= v => (q + 1) * BYTE <= v * BYTE
    BY <1>1, <1>2
  <2> QED
    BY <1>1, <1>2, <2>1
<1> QED
  BY <1>2, <1>3, <1>4 DEF q

LEMMA AddrSet ==
  ASSUME NEW c, CardType(c), NEW val \in CardByte
  PROVE  /\ CardType(set_hi(c, val)) /\ CardType(set_lo(c, val))
         /\ set_hi(c, val) = [c EXCEPT !.addr = set_hi(c, val).addr]
         /\ set_hi(c, val).addr \div BYTE = val
         /\ set_lo(c, val) = [c EXCEPT !.addr = set_lo(c, val).addr]
         /\ set_lo(c, val).addr = (c.addr \div BYTE) * BYTE + val
<1> DEFINE h == val * BYTE + (c.addr % BYTE)
           l == (c.addr \div BYTE) * BYTE + val
<1>1. c.addr \in Nat /\ val \in Nat /\ BYTE \in Nat /\ BYTE > 0
  BY CardAssumption DEF CardType, CardByte
<1>2. c.addr % BYTE \in CardByte /\ c.addr \div BYTE \in Nat
  BY <1>1 DEF CardByte
<1>3. val * BYTE \in Nat /\ (c.addr \div BYTE) * BYTE \in Nat
  BY <1>1, <1>2
<1>4. h \in Nat /\ l \in Nat
  BY <1>1, <1>2, <1>3 DEF CardByte
<1>5. h \div BYTE = val
  BY <1>1, <1>2, HiOfSum
<1>6. set_hi(c, val) = [c EXCEPT !.addr = h] /\ set_lo(c, val) = [c EXCEPT !.addr = l]
  BY DEF set_hi, set_lo
<1> HIDE DEF h, l
<1>7. ASSUME NEW a \in Nat
      PROVE  CardType([c EXCEPT !.addr = a]) /\ [c EXCEPT !.addr = a].addr = a
  BY DEF CardType
<1>8. set_hi(c, val).addr = h /\ set_lo(c, val).addr = l /\ CardType(set_hi(c, val)) /\ CardType(set_lo(c, val))
  BY <1>4, <1>6, <1>7
<1> QED
  BY <1>5, <1>6, <1>8 DEF l

\* What a step of a sequence leaves alone.
Same(c, d) ==
  /\ CardType(d) /\ d.flash = c.flash /\ d.changed = c.changed
  /\ d.addr = c.addr /\ d.write_sector = c.write_sector

LEMMA SetState ==
  ASSUME NEW c, CardType(c), NEW st \in CardStateType
  PROVE  Same(c, [c EXCEPT !.state = st]) /\ [c EXCEPT !.state = st].state = st
BY DEF CardType, Same

LEMMA SetLastByte ==
  ASSUME NEW c, CardType(c), NEW val
  PROVE  Same(c, [c EXCEPT !.last_byte = val]) /\ [c EXCEPT !.last_byte = val].state = c.state
BY DEF CardType, Same

LEMMA SetBoth ==
  ASSUME NEW c, CardType(c), NEW st \in CardStateType, NEW val
  PROVE  /\ Same(c, [c EXCEPT !.state = st, !.last_byte = val])
         /\ [c EXCEPT !.state = st, !.last_byte = val].state = st
BY DEF CardType, Same

LEMMA AnswerFields ==
  ASSUME NEW c, NEW out, NEW ack
  PROVE  answer(c, out, ack).card = c /\ answer(c, out, ack).out = out
BY DEF answer

\* The next step of a sequence.
StepOf(st, seq, n, o) == st \in InSequence /\ st.seq = seq /\ st.step = n /\ st.offset = o

LEMMA StepFacts ==
  ASSUME NEW c, CardType(c), c.state \in InSequence, c.state.step < LastStep(c.state.seq), NEW val, NEW out
  PROVE  /\ Same(c, step(c, val, out).card)
         /\ StepOf(step(c, val, out).card.state, c.state.seq, c.state.step + 1, 0)
<1> DEFINE n == c.state.step + 1
           st == [c.state EXCEPT !.step = n, !.offset = 0]
<1>1. c.state \in StepType /\ c.state.step \in 1 .. 11 /\ 0 \in 0 .. SECTOR_SIZE
  BY CardAssumption DEF InSequence, StepType
<1>2. n \in 1 .. 11 /\ n <= LastStep(c.state.seq)
  BY <1>1 DEF LastStep
<1>3. next(c) = [c EXCEPT !.state = st]
  BY <1>1 DEF next, CardType, StepType
<1> HIDE DEF n
<1>4. st \in StepType /\ st.seq = c.state.seq /\ st.step = n /\ st.offset = 0
  BY <1>1, <1>2 DEF StepType
<1>5. StepOf(st, c.state.seq, n, 0)
  BY <1>2, <1>4 DEF InSequence, StepOf
<1>6. st \in CardStateType
  BY <1>5 DEF CardStateType, StepOf
<1> HIDE DEF st
<1>8. Same(c, next(c)) /\ next(c).state = st
  BY <1>3, <1>6, SetState
<1>9. Same(next(c), [next(c) EXCEPT !.last_byte = val]) /\ [next(c) EXCEPT !.last_byte = val].state = st
  BY <1>8, SetLastByte DEF Same
<1>10. step(c, val, out).card = [next(c) EXCEPT !.last_byte = val]
  BY AnswerFields DEF step
<1> QED
  BY <1>5, <1>8, <1>9, <1>10 DEF Same, n

LEMMA EndFacts ==
  ASSUME NEW c, CardType(c), NEW out, NEW ack
  PROVE  Same(c, end(c, out, ack).card) /\ end(c, out, ack).card.state = Idle
<1>1. Idle \in CardStateType
  BY DEF CardStateType
<1>2. end(c, out, ack).card = [c EXCEPT !.state = Idle]
  BY AnswerFields DEF end
<1>3. Same(c, [c EXCEPT !.state = Idle]) /\ [c EXCEPT !.state = Idle].state = Idle
  BY <1>1, SetState
<1> QED
  BY <1>2, <1>3

AtOffset(c, o, val) == [c EXCEPT !.state.offset = o, !.last_byte = val]

LEMMA OffsetFacts ==
  ASSUME NEW c, CardType(c), c.state \in InSequence, NEW o \in 0 .. SECTOR_SIZE, NEW val
  PROVE  /\ Same(c, AtOffset(c, o, val))
         /\ StepOf(AtOffset(c, o, val).state, c.state.seq, c.state.step, o)
<1> DEFINE st == [c.state EXCEPT !.offset = o]
<1>1. c.state \in StepType /\ c.state.step <= LastStep(c.state.seq)
  BY DEF InSequence
<1>2. AtOffset(c, o, val) = [c EXCEPT !.state = st, !.last_byte = val]
  BY <1>1 DEF CardType, StepType, AtOffset
<1>3. st \in StepType /\ st.seq = c.state.seq /\ st.step = c.state.step /\ st.offset = o
  BY <1>1 DEF StepType
<1>4. StepOf(st, c.state.seq, c.state.step, o)
  BY <1>1, <1>3 DEF InSequence, StepOf
<1>5. st \in CardStateType
  BY <1>4 DEF CardStateType, StepOf
<1> HIDE DEF st
<1>6. /\ Same(c, [c EXCEPT !.state = st, !.last_byte = val])
      /\ [c EXCEPT !.state = st, !.last_byte = val].state = st
  BY <1>5, SetBoth
<1> QED
  BY <1>2, <1>4, <1>6


-----------------------------------------------------------------------------
\* Where a card can be in a sequence, and which steps have a next one.
LEMMA SequenceSteps ==
  ASSUME NEW st \in InSequence
  PROVE  LET name == Steps[st.seq][st.step]
         IN  /\ st.seq \in DOMAIN Steps /\ st.seq \notin {"idle", "command"}
             /\ name \in Middle \cup {"Data"} => st.step < LastStep(st.seq)
             /\ \/ name \in Middle \cup {"Rest4"}
                \/ name \in {"Data", "End"} /\ st.seq \in {"read", "write"}
<1>1. CASE st.seq = "read"
  BY <1>1 DEF InSequence, StepType, Steps, LastStep, Middle
<1>2. CASE st.seq = "write"
  BY <1>2 DEF InSequence, StepType, Steps, LastStep, Middle
<1>3. CASE st.seq = "id"
  BY <1>3 DEF InSequence, StepType, Steps, LastStep, Middle
<1> QED
  BY <1>1, <1>2, <1>3 DEF InSequence, StepType

LEMMA WriteNames ==
  ASSUME NEW st \in InSequence, st.seq = "write"
  PROVE  LET name == Steps[st.seq][st.step]
         IN  /\ st.step \in 1 .. 9
             /\ st.step \in {1, 2} => name \in {"CardId1", "CardId2"}
             /\ st.step = 3 => name = "AddrHi"
             /\ st.step = 4 => name = "AddrLo"
             /\ st.step = 5 => name = "Data"
             /\ st.step \in {6, 7, 8} => name \in {"Checksum", "Ack1", "Ack2"}
             /\ st.step = 9 => name = "End"
BY DEF InSequence, StepType, Steps, LastStep

LEMMA AtNames ==
  ASSUME NEW c, c.state \in InSequence
  PROVE  /\ \A n : at(c, n) <=> Steps[c.state.seq][c.state.step] = n
         /\ c.state \notin {Idle, Command}
<1>1. c.state.seq \in DOMAIN Steps /\ c.state.seq \notin {"idle", "command"}
  BY SequenceSteps
<1>2. c.state \notin {Idle, Command}
  BY <1>1 DEF Idle, Command
<1> QED
  BY <1>1, <1>2 DEF at

\* Outside of a write nothing is stored, and none is begun.
Harmless(c, d) ==
  CardType(d) /\ d.flash = c.flash /\ d.changed = c.changed /\ d.state.seq # "write"

LEMMA ReadHarmless ==
  ASSUME NEW c, CardType(c), c.state \in InSequence, c.state.step < LastStep(c.state.seq),
         c.state.seq = "read", NEW val
  PROVE  Harmless(c, read_data(c, val).card)
<1> DEFINE o == IF c.state.offset = 0 THEN WRAPPED ELSE c.state.offset - 1
           w == AtOffset(c, o, val)
           p == [c EXCEPT !.state = Panicked]
<1>1. o \in 0 .. SECTOR_SIZE
  BY CardAssumption DEF InSequence, StepType, WRAPPED
<1>2. read_data(c, val).card \in {p, w, step(c, val, c.flash[c.addr][SECTOR_SIZE - 1]).card}
  <2>1. \/ read_data(c, val) = answer(p, 0, FALSE)
        \/ read_data(c, val) = answer(w, c.flash[c.addr][c.state.offset], TRUE)
        \/ read_data(c, val) = step(c, val, c.flash[c.addr][SECTOR_SIZE - 1])
    BY DEF read_data, AtOffset
  <2> HIDE DEF p, w
  <2> QED
    BY <2>1 DEF answer
<1> HIDE DEF o
<1>3. Harmless(c, w)
  BY <1>1, OffsetFacts DEF Harmless, Same, StepOf
<1>4. Harmless(c, p)
  <2>1. Panicked \in CardStateType /\ Panicked.seq # "write"
    BY DEF CardStateType, Panicked
  <2>2. Same(c, p) /\ p.state = Panicked
    BY <2>1, SetState
  <2> QED
    BY <2>1, <2>2 DEF Harmless, Same
<1>5. Harmless(c, step(c, val, c.flash[c.addr][SECTOR_SIZE - 1]).card)
  BY StepFacts DEF Harmless, Same, StepOf
<1> QED
  BY <1>2, <1>3, <1>4, <1>5

LEMMA OtherSequences ==
  ASSUME NEW c, CardType(c), c.state \in InSequence, c.state.seq # "write", NEW val \in CardByte
  PROVE  Harmless(c, card_transfer(c, val).card)
<1> DEFINE seq == c.state.seq
           name == Steps[seq][c.state.step]
<1>1. /\ seq \in DOMAIN Steps /\ seq \notin {"idle", "command", "write"}
      /\ name \in Middle \cup {"Data"} => c.state.step < LastStep(seq)
      /\ \/ name \in Middle \cup {"Rest4"}
         \/ name \in {"Data", "End"} /\ seq = "read"
  BY SequenceSteps
<1>2. \A n : at(c, n) <=> name = n
  BY AtNames
<1> HIDE DEF name
<1>3. CASE name \in Middle
  <2>1. \/ \E out : card_transfer(c, val) = step(c, val, out)
        \/ card_transfer(c, val) = step(set_hi(c, val), val, 0)
        \/ card_transfer(c, val) = step(set_lo(c, val), val, c.last_byte)
    BY <1>1, <1>2, <1>3 DEF card_transfer, Middle
  <2>2. c.state.step < LastStep(c.state.seq)
    BY <1>1, <1>3
  <2>3. ASSUME NEW d, CardType(d), d.state = c.state, d.flash = c.flash, d.changed = c.changed, NEW out
        PROVE  Harmless(c, step(d, val, out).card)
    BY <2>2, <2>3, StepFacts DEF Harmless, Same, StepOf
  <2>4. /\ CardType(set_hi(c, val)) /\ set_hi(c, val).state = c.state
        /\ set_hi(c, val).flash = c.flash /\ set_hi(c, val).changed = c.changed
        /\ CardType(set_lo(c, val)) /\ set_lo(c, val).state = c.state
        /\ set_lo(c, val).flash = c.flash /\ set_lo(c, val).changed = c.changed
    BY AddrSet DEF CardType
  <2> QED
    BY <2>1, <2>3, <2>4
<1>4. CASE name = "Data"
  <2>1. card_transfer(c, val) = read_data(c, val) /\ c.state.step < LastStep(c.state.seq) /\ c.state.seq = "read"
    BY <1>1, <1>2, <1>4 DEF card_transfer, Middle
  <2> QED
    BY <2>1, ReadHarmless
<1>5. CASE name \in {"End", "Rest4"}
  <2>1. PICK out : card_transfer(c, val) = end(c, out, TRUE)
    BY <1>1, <1>2, <1>5 DEF card_transfer, Middle
  <2>2. Idle.seq # "write"
    BY DEF Idle
  <2>3. Same(c, end(c, out, TRUE).card) /\ end(c, out, TRUE).card.state = Idle
    BY EndFacts
  <2> QED
    BY <2>1, <2>2, <2>3 DEF Harmless, Same
<1> QED
  BY <1>1, <1>3, <1>4, <1>5


-----------------------------------------------------------------------------
\* The guest's view: only the last of a write changes what it knows to be written.
LEMMA WatchFacts ==
  ASSUME GuestOK(sender), NEW val, NEW out
  PROVE  /\ GuestOK(Watch(val, out))
         /\ ~(at(card, "End") /\ card.state.seq = "write") => Watch(val, out).written = sender.written
<1> DEFINE seq == card.state.seq
           byte == IF seq = "read" THEN out ELSE val
           data == sender.data
           whole == [o \in Offset |-> IF o < Len(data) THEN data[o + 1] ELSE 0]
           wr == IF sender.sector \in DOMAIN sender.written
                 THEN [sender.written EXCEPT ![sender.sector] = whole] ELSE sender.written
           n == sender.writes + 1
           sec == sender.sector * BYTE + val
           app == Append(data, byte)
           last == at(card, "End") /\ seq = "write"
           g1 == [sender EXCEPT !.data = <<>>]
           g2 == [sender EXCEPT !.sector = val]
           g3 == [sender EXCEPT !.sector = sec]
           g4 == [sender EXCEPT !.data = app]
           g5 == [sender EXCEPT !.data = <<>>, !.sector = 0]
           g6 == [sender EXCEPT !.written = wr, !.writes = n, !.data = <<>>, !.sector = 0]
<1>1. Watch(val, out) \in {g1, g2, g3, g4, g5, sender} \/ (last /\ Watch(val, out) = g6)
  BY DEF Watch
<1> HIDE DEF wr, n, sec, app, last
<1>2. GuestOK(g1) /\ g1.written = sender.written
  BY DEF GuestOK
<1>3. GuestOK(g2) /\ g2.written = sender.written
  BY DEF GuestOK
<1>4. GuestOK(g3) /\ g3.written = sender.written
  BY DEF GuestOK
<1>5. GuestOK(g4) /\ g4.written = sender.written
  BY DEF GuestOK
<1>6. GuestOK(g5) /\ g5.written = sender.written
  BY DEF GuestOK
<1>7. GuestOK(g6)
  BY DEF GuestOK
<1> HIDE DEF g1, g2, g3, g4, g5, g6
<1>8. GuestOK(Watch(val, out)) /\ (~last => Watch(val, out).written = sender.written)
  BY <1>1, <1>2, <1>3, <1>4, <1>5, <1>6, <1>7
<1> QED
  BY <1>8 DEF last

\* The bytes the guest sends within a sequence.
LEMMA InputType ==
  ASSUME card.state \in InSequence, NEW val \in Inputs PROVE val \in CardByte
<1>1. card.state \notin {Idle, Command}
  BY AtNames
<1>2. val \in Hi \cup Lo \cup Data
  BY <1>1 DEF Inputs
<1> QED
  BY <1>2, MemCardAssumption DEF CardByte

\* Out of a write, or at its beginning.
LEMMA NotWriting ==
  ASSUME CardInv, NEW d, CardType(d), d.flash = card.flash, d.changed = card.changed,
         NEW g, GuestOK(g), g.written = sender.written,
         d.state.seq = "write" => d.state.step <= 2 /\ g.data = <<>>
  PROVE  CardType(d) /\ GuestOK(g) /\ Progress(d, g) /\ Whole(d, g, file)
<1>1. d.state.seq = "write" => d.state.step \in 1 .. 2
  <2>1. d.state \in CardStateType
    BY DEF CardType
  <2>2. d.state.seq = "write" => d.state \in InSequence
    BY <2>1 DEF CardStateType, Idle, Command, Panicked
  <2> QED
    BY <2>2 DEF InSequence, StepType
<1>2. Progress(d, g)
  BY <1>1 DEF Progress
<1>3. Whole(d, g, file)
  BY DEF CardInv, Whole
<1> QED
  BY <1>2, <1>3


-----------------------------------------------------------------------------
\* One more byte of the sector.
LEMMA FillOne ==
  ASSUME NEW w \in Sector, NEW d, NEW o \in Offset, Filled(w, d, o), NEW val \in CardByte
  PROVE  /\ [w EXCEPT ![o] = val] \in Sector
         /\ Filled([w EXCEPT ![o] = val], Append(d, val), o + 1)
<1> DEFINE x == [w EXCEPT ![o] = val]
           e == Append(d, val)
<1>1. o \in Nat /\ o < SECTOR_SIZE /\ d \in Seq(CardByte) /\ Len(d) = o
  BY CardAssumption DEF Offset, Filled
<1>2. x \in Sector
  BY DEF Sector
<1>3. e \in Seq(CardByte) /\ Len(e) = o + 1 /\ (\A i \in 1 .. o : e[i] = d[i]) /\ e[o + 1] = val
  BY <1>1, AppendProperties
<1> HIDE DEF e
<1>4. ASSUME NEW i \in 0 .. o PROVE x[i] = e[i + 1]
  <2>1. i \in Offset
    BY <1>1, CardAssumption DEF Offset
  <2>2. CASE i = o
    BY <1>3, <2>2 DEF Sector
  <2>3. CASE i # o
    <3>1. i \in 0 .. o - 1 /\ i + 1 \in 1 .. o
      BY <1>1, <2>3
    <3> QED
      BY <1>3, <2>1, <2>3, <3>1 DEF Sector, Filled
  <2> QED
    BY <2>2, <2>3
<1>5. (o + 1) - 1 = o
  BY <1>1
<1>6. Filled(x, e, o + 1)
  BY <1>3, <1>4, <1>5 DEF Filled
<1> QED
  BY <1>2, <1>6 DEF e

LEMMA WriteDataFacts ==
  ASSUME NEW c, CardType(c), c.state \in InSequence, c.state.seq = "write", c.state.step = 5,
         c.state.offset \in Offset, NEW val \in CardByte
  PROVE  LET d == write_data(c, val).card
         IN  /\ CardType(d) /\ d.flash = c.flash /\ d.changed = c.changed /\ d.addr = c.addr
             /\ d.write_sector = [c.write_sector EXCEPT ![c.state.offset] = val]
             /\ IF c.state.offset < SECTOR_SIZE - 1
                THEN StepOf(d.state, "write", 5, c.state.offset + 1)
                ELSE StepOf(d.state, "write", 6, 0)
<1> DEFINE o == c.state.offset
           h == c.has_written \/ o < SECTOR_SIZE - 1
           w == [c.write_sector EXCEPT ![o] = val]
           stored == [c EXCEPT !.write_sector = w, !.has_written = h]
           on == AtOffset(stored, stored.state.offset + 1, val)
<1>1. w \in Sector /\ c.state \in CardStateType
  BY DEF CardType, Sector
<1>2. IF o < SECTOR_SIZE - 1 THEN write_data(c, val) = answer(on, c.last_byte, TRUE)
      ELSE write_data(c, val) = step(stored, val, c.last_byte)
  BY DEF write_data, AtOffset
<1> HIDE DEF h, w
<1>3. /\ CardType(stored) /\ stored.state = c.state /\ stored.flash = c.flash
      /\ stored.changed = c.changed /\ stored.addr = c.addr /\ stored.write_sector = w
  BY <1>1 DEF CardType
<1> HIDE DEF stored
<1>4. CASE o < SECTOR_SIZE - 1
  <2>1. write_data(c, val).card = on
    BY <1>2, <1>4 DEF answer
  <2>2. o + 1 \in 0 .. SECTOR_SIZE
    BY <1>4, CardAssumption DEF Offset
  <2>3. Same(stored, on) /\ StepOf(on.state, "write", 5, o + 1)
    BY <1>3, <2>2, OffsetFacts
  <2> HIDE DEF on
  <2> QED
    BY <1>3, <1>4, <2>1, <2>3 DEF Same, w
<1>5. CASE ~(o < SECTOR_SIZE - 1)
  <2> DEFINE d == step(stored, val, c.last_byte).card
  <2>1. write_data(c, val).card = d
    BY <1>2, <1>5
  <2>2. stored.state.step < LastStep(stored.state.seq) /\ stored.state.step + 1 = 6
    BY <1>3 DEF LastStep
  <2>3. Same(stored, d) /\ StepOf(d.state, "write", 6, 0)
    BY <1>3, <2>2, StepFacts
  <2> HIDE DEF d
  <2> QED
    BY <1>3, <1>5, <2>1, <2>3 DEF Same, w
<1> QED
  BY <1>4, <1>5

\* The end of a write: the sector goes to the flash, if there is one of that number.
LEMMA WriteEndFacts ==
  ASSUME NEW c, CardType(c)
  PROVE  LET d == write_end(c).card
         IN  /\ CardType(d) /\ d.state = Idle
             /\ IF c.addr >= Sectors THEN d.flash = c.flash /\ d.changed = c.changed
                ELSE /\ d.flash = [c.flash EXCEPT ![c.addr] = c.write_sector]
                     /\ d.changed = (c.changed \/ c.flash[c.addr] # c.write_sector)
<1> DEFINE f == [c.flash EXCEPT ![c.addr] = c.write_sector]
           h == c.changed \/ c.flash[c.addr] # c.write_sector
           copy == [c EXCEPT !.flash = f, !.changed = h]
           saved == save(copy)
<1>1. \/ c.addr >= Sectors /\ write_end(c) = end(c, 255, TRUE)
      \/ ~(c.addr >= Sectors) /\ \E out : write_end(c) = end(saved, out, TRUE)
  BY DEF write_end
<1>2. f \in Flash /\ h \in BOOLEAN
  BY DEF CardType, Flash
<1> HIDE DEF f, h
<1>3. CardType(saved) /\ saved.flash = f /\ saved.changed = h
  BY <1>2 DEF save, CardType
<1> HIDE DEF saved
<1>4. ASSUME NEW out PROVE Same(saved, end(saved, out, TRUE).card) /\ end(saved, out, TRUE).card.state = Idle
  BY <1>3, EndFacts
<1>5. Same(c, end(c, 255, TRUE).card) /\ end(c, 255, TRUE).card.state = Idle
  BY EndFacts
<1>6. CASE c.addr >= Sectors
  BY <1>1, <1>5, <1>6 DEF Same
<1>7. CASE ~(c.addr >= Sectors)
  <2>1. PICK out : write_end(c) = end(saved, out, TRUE)
    BY <1>1, <1>7
  <2>2. LET d == write_end(c).card
        IN  CardType(d) /\ d.state = Idle /\ d.flash = f /\ d.changed = h
    BY <1>3, <1>4, <2>1 DEF Same
  <2> QED
    BY <1>7, <2>2 DEF f, h
<1> QED
  BY <1>6, <1>7

-----------------------------------------------------------------------------
After(d, g) == CardType(d) /\ GuestOK(g) /\ Progress(d, g) /\ Whole(d, g, file)

\* What the guest notes of a step of a write.
LEMMA WriteWatch ==
  ASSUME GuestOK(sender), card.state \in InSequence, card.state.seq = "write", NEW val, NEW out
  PROVE  LET g == Watch(val, out)
             n == card.state.step
         IN  /\ n \in {1, 2, 6, 7, 8} => g = sender
             /\ n = 3 => g.sector = val /\ g.data = sender.data
             /\ n = 4 => g.sector = sender.sector * BYTE + val /\ g.data = sender.data
             /\ n = 5 => g.sector = sender.sector /\ g.data = Append(sender.data, val)
<1> DEFINE name == Steps[card.state.seq][card.state.step]
           n == card.state.step
           sec == sender.sector * BYTE + val
           app == Append(sender.data, val)
<1>1. /\ n \in 1 .. 9
      /\ n \in {1, 2} => name \in {"CardId1", "CardId2"}
      /\ n = 3 => name = "AddrHi"
      /\ n = 4 => name = "AddrLo"
      /\ n = 5 => name = "Data"
      /\ n \in {6, 7, 8} => name \in {"Checksum", "Ack1", "Ack2"}
  BY WriteNames
<1>2. (\A m : at(card, m) <=> name = m) /\ card.state \notin {Idle, Command}
  BY AtNames
<1> HIDE DEF name
<1>3. CASE n \in {1, 2, 6, 7, 8}
  BY <1>1, <1>2, <1>3 DEF Watch
<1>4. CASE n = 3
  <2>1. Watch(val, out) = [sender EXCEPT !.sector = val]
    BY <1>1, <1>2, <1>4 DEF Watch
  <2> QED
    BY <1>4, <2>1 DEF GuestOK
<1>5. CASE n = 4
  <2>1. Watch(val, out) = [sender EXCEPT !.sector = sec]
    BY <1>1, <1>2, <1>5 DEF Watch
  <2>2. sec = sender.sector * BYTE + val
    OBVIOUS
  <2> HIDE DEF sec
  <2>3. Watch(val, out).sector = sec /\ Watch(val, out).data = sender.data
    BY <2>1 DEF GuestOK
  <2> QED
    BY <1>5, <2>2, <2>3
<1>6. CASE n = 5
  <2>1. Watch(val, out) = [sender EXCEPT !.data = app]
    BY <1>1, <1>2, <1>6 DEF Watch
  <2>2. app = Append(sender.data, val)
    OBVIOUS
  <2> HIDE DEF app
  <2>3. Watch(val, out).sector = sender.sector /\ Watch(val, out).data = app
    BY <2>1 DEF GuestOK
  <2> QED
    BY <1>6, <2>2, <2>3
<1> QED
  BY <1>1, <1>3, <1>4, <1>5, <1>6

\* The steps of a write before its data: the address.
LEMMA WriteAddress ==
  ASSUME CardInv, card.state \in InSequence, card.state.seq = "write", card.state.step \in 1 .. 4, NEW val \in CardByte
  PROVE  LET a == card_transfer(card, val) IN After(a.card, Watch(val, a.out))
<1> DEFINE n == card.state.step
           name == Steps[card.state.seq][card.state.step]
           a == card_transfer(card, val)
           d == a.card
           g == Watch(val, a.out)
<1>1. CardType(card) /\ GuestOK(sender) /\ card.addr \in Nat
  BY DEF CardInv, CardType
<1>2. n < LastStep(card.state.seq)
  BY DEF LastStep
<1>3. /\ n \in {1, 2} => name \in {"CardId1", "CardId2"}
      /\ n = 3 => name = "AddrHi"
      /\ n = 4 => name = "AddrLo"
  BY WriteNames
<1>4. \A m : at(card, m) <=> name = m
  BY AtNames
<1>5. GuestOK(g) /\ g.written = sender.written
  <2>1. ~at(card, "End")
    BY <1>3, <1>4
  <2> QED
    BY <1>1, <2>1, WatchFacts
<1> HIDE DEF name
<1>6. CASE n \in {1, 2}
  <2>1. PICK out : a = step(card, val, out)
    BY <1>3, <1>4, <1>6 DEF card_transfer
  <2>2. Same(card, d) /\ StepOf(d.state, "write", n + 1, 0)
    BY <1>1, <1>2, <2>1, StepFacts
  <2>3. g.data = <<>>
    <3>1. sender.data = <<>>
      BY <1>6 DEF CardInv, Progress
    <3>2. g = sender
      BY <1>1, <1>6, WriteWatch
    <3> QED
      BY <3>1, <3>2
  <2> HIDE DEF d, g, a
  <2>4. d.state.step \in {2, 3}
    BY <1>6, <2>2 DEF StepOf
  <2>5. Progress(d, g)
    BY <2>3, <2>4 DEF Progress
  <2>9. After(d, g)
    BY <1>5, <2>2, <2>5 DEF After, Same, Whole, CardInv
  <2> QED
    BY <2>9 DEF a, d, g
<1>7. CASE n = 3
  <2> DEFINE h == set_hi(card, val)
  <2>1. a = step(h, val, 0)
    BY <1>3, <1>4, <1>7 DEF card_transfer
  <2>2. CardType(h) /\ h = [card EXCEPT !.addr = h.addr] /\ h.addr \div BYTE = val
    BY <1>1, AddrSet
  <2> HIDE DEF h
  <2>3. h.state = card.state /\ h.flash = card.flash /\ h.changed = card.changed
    BY <1>1, <2>2 DEF CardType
  <2>4. Same(h, d) /\ StepOf(d.state, "write", 4, 0)
    BY <1>2, <1>7, <2>1, <2>2, <2>3, StepFacts
  <2>5. g.data = <<>> /\ g.sector = val
    <3>1. sender.data = <<>>
      BY <1>7 DEF CardInv, Progress
    <3> QED
      BY <1>1, <1>7, <3>1, WriteWatch
  <2> HIDE DEF d, g, a
  <2>6. Progress(d, g)
    BY <2>2, <2>4, <2>5 DEF Progress, StepOf, Same
  <2>9. After(d, g)
    BY <1>5, <2>3, <2>4, <2>6 DEF After, Same, Whole, CardInv
  <2> QED
    BY <2>9 DEF a, d, g
<1>8. CASE n = 4
  <2> DEFINE h == set_lo(card, val)
  <2>1. a = step(h, val, card.last_byte)
    BY <1>3, <1>4, <1>8 DEF card_transfer
  <2>2. CardType(h) /\ h = [card EXCEPT !.addr = h.addr] /\ h.addr = (card.addr \div BYTE) * BYTE + val
    BY <1>1, AddrSet
  <2> HIDE DEF h
  <2>3. h.state = card.state /\ h.flash = card.flash /\ h.changed = card.changed
    BY <1>1, <2>2 DEF CardType
  <2>4. Same(h, d) /\ StepOf(d.state, "write", 5, 0)
    BY <1>2, <1>8, <2>1, <2>2, <2>3, StepFacts
  <2>5. g.data = <<>> /\ g.sector = h.addr
    <3>1. sender.data = <<>> /\ sender.sector = card.addr \div BYTE
      BY <1>8 DEF CardInv, Progress
    <3>2. g.sector = sender.sector * BYTE + val /\ g.data = sender.data
      BY <1>1, <1>8, WriteWatch
    <3> HIDE DEF g
    <3> QED
      BY <2>2, <3>1, <3>2
  <2> HIDE DEF d, g, a
  <2>6. Filled(d.write_sector, g.data, 0)
    BY <2>5 DEF Filled
  <2>7. 0 \in Offset
    BY CardAssumption DEF Offset
  <2>8. Progress(d, g)
    BY <2>4, <2>5, <2>6, <2>7 DEF Progress, StepOf, Same
  <2>9. After(d, g)
    BY <1>5, <2>3, <2>4, <2>8 DEF After, Same, Whole, CardInv
  <2> QED
    BY <2>9 DEF a, d, g
<1> QED
  BY <1>6, <1>7, <1>8

\* The data of a write.
LEMMA WriteData ==
  ASSUME CardInv, card.state \in InSequence, card.state.seq = "write", card.state.step = 5, NEW val \in CardByte
  PROVE  LET a == card_transfer(card, val) IN After(a.card, Watch(val, a.out))
<1> DEFINE o == card.state.offset
           name == Steps[card.state.seq][card.state.step]
           a == card_transfer(card, val)
           d == a.card
           g == Watch(val, a.out)
           w == [card.write_sector EXCEPT ![o] = val]
<1>1. CardType(card) /\ GuestOK(sender) /\ card.write_sector \in Sector
  BY DEF CardInv, CardType
<1>2. o \in Offset /\ Filled(card.write_sector, sender.data, o) /\ sender.sector = card.addr
  BY DEF CardInv, Progress
<1>3. name = "Data" /\ \A m : at(card, m) <=> name = m
  BY WriteNames, AtNames
<1>4. GuestOK(g) /\ g.written = sender.written
  BY <1>1, <1>3, WatchFacts
<1>5. g.sector = sender.sector /\ g.data = Append(sender.data, val)
  BY <1>1, WriteWatch
<1>6. a = write_data(card, val)
  BY <1>3 DEF card_transfer
<1>7. /\ CardType(d) /\ d.flash = card.flash /\ d.changed = card.changed /\ d.addr = card.addr
      /\ d.write_sector = w
      /\ IF o < SECTOR_SIZE - 1 THEN StepOf(d.state, "write", 5, o + 1)
         ELSE StepOf(d.state, "write", 6, 0)
  BY <1>1, <1>2, <1>6, WriteDataFacts
<1>8. Filled(w, Append(sender.data, val), o + 1)
  BY <1>1, <1>2, FillOne
<1>9. Filled(d.write_sector, g.data, o + 1)
  BY <1>5, <1>7, <1>8
<1> HIDE DEF d, g, a, w
<1>10. CASE o < SECTOR_SIZE - 1
  <2>1. o + 1 \in Offset
    BY <1>2, <1>10, CardAssumption DEF Offset
  <2>2. Progress(d, g)
    BY <1>2, <1>5, <1>7, <1>9, <1>10, <2>1 DEF Progress, StepOf
  <2>3. After(d, g)
    BY <1>4, <1>7, <2>2 DEF After, Whole, CardInv
  <2> QED
    BY <2>3 DEF a, d, g
<1>11. CASE ~(o < SECTOR_SIZE - 1)
  <2>1. o + 1 = SECTOR_SIZE
    BY <1>2, <1>11, CardAssumption DEF Offset
  <2>2. Progress(d, g)
    BY <1>2, <1>5, <1>7, <1>9, <1>11, <2>1 DEF Progress, StepOf
  <2>3. After(d, g)
    BY <1>4, <1>7, <2>2 DEF After, Whole, CardInv
  <2> QED
    BY <2>3 DEF a, d, g
<1> QED
  BY <1>10, <1>11

\* The steps of a write between its data and its end.
LEMMA WriteAck ==
  ASSUME CardInv, card.state \in InSequence, card.state.seq = "write", card.state.step \in 6 .. 8, NEW val \in CardByte
  PROVE  LET a == card_transfer(card, val) IN After(a.card, Watch(val, a.out))
<1> DEFINE n == card.state.step
           name == Steps[card.state.seq][card.state.step]
           a == card_transfer(card, val)
           d == a.card
           g == Watch(val, a.out)
<1>1. CardType(card) /\ GuestOK(sender) /\ n < LastStep(card.state.seq)
  BY DEF CardInv, LastStep
<1>2. name \in {"Checksum", "Ack1", "Ack2"} /\ \A m : at(card, m) <=> name = m
  BY WriteNames, AtNames
<1>3. g = sender
  BY <1>1, WriteWatch
<1> HIDE DEF name
<1>4. PICK out : a = step(card, val, out)
  BY <1>2 DEF card_transfer
<1>5. Same(card, d) /\ StepOf(d.state, "write", n + 1, 0)
  BY <1>1, <1>4, StepFacts
<1> HIDE DEF d, g, a
<1>6. d.state.step \in {7, 8, 9}
  BY <1>5 DEF StepOf
<1>7. Progress(d, g)
  BY <1>3, <1>5, <1>6 DEF Progress, Same, CardInv
<1>8. After(d, g)
  BY <1>1, <1>3, <1>5, <1>7 DEF After, Same, Whole, CardInv
<1> QED
  BY <1>8 DEF a, d, g

\* The end of a write: what the guest sent is what the flash has.
LEMMA WriteEnd ==
  ASSUME CardInv, card.state \in InSequence, card.state.seq = "write", card.state.step = 9, NEW val \in CardByte
  PROVE  LET a == card_transfer(card, val) IN After(a.card, Watch(val, a.out))
<1> DEFINE name == Steps[card.state.seq][card.state.step]
           a == card_transfer(card, val)
           d == a.card
           g == Watch(val, a.out)
           data == sender.data
           whole == [o \in Offset |-> IF o < Len(data) THEN data[o + 1] ELSE 0]
           valid == sender.sector \in DOMAIN sender.written
           wr == IF valid THEN [sender.written EXCEPT ![sender.sector] = whole] ELSE sender.written
           n == sender.writes + 1
<1>1. /\ CardType(card) /\ GuestOK(sender) /\ card.write_sector \in Sector
      /\ card.flash \in Flash /\ card.addr \in Nat /\ card.changed \in BOOLEAN
  BY DEF CardInv, CardType
<1>2. Filled(card.write_sector, data, SECTOR_SIZE) /\ sender.sector = card.addr
  BY DEF CardInv, Progress
<1>3. sender.written = card.flash /\ (card.flash # file => card.changed)
  BY DEF CardInv, Whole
<1>4. name = "End" /\ (\A m : at(card, m) <=> name = m) /\ card.state \notin {Idle, Command}
  BY WriteNames, AtNames
<1>5. whole = card.write_sector
  <2>1. ASSUME NEW o \in Offset PROVE whole[o] = card.write_sector[o]
    <3>1. o \in 0 .. SECTOR_SIZE - 1 /\ o < SECTOR_SIZE
      BY CardAssumption DEF Offset
    <3> QED
      BY <1>2, <3>1 DEF Filled
  <2> QED
    BY <1>1, <2>1 DEF Sector
<1>6. valid <=> card.addr < Sectors
  <2>1. DOMAIN sender.written = 0 .. Sectors - 1
    BY <1>1, <1>3 DEF Flash
  <2> QED
    BY <1>1, <1>2, <2>1, CardAssumption
<1>7. g = [sender EXCEPT !.written = wr, !.writes = n, !.data = <<>>, !.sector = 0]
  BY <1>4 DEF Watch
<1> HIDE DEF whole, valid
<1>8. wr = IF card.addr < Sectors THEN [card.flash EXCEPT ![card.addr] = card.write_sector] ELSE card.flash
  BY <1>2, <1>3, <1>5, <1>6
<1> HIDE DEF wr, n
<1>9. GuestOK(g) /\ g.written = wr
  BY <1>1, <1>7 DEF GuestOK
<1>10. a = write_end(card)
  BY <1>4 DEF card_transfer
<1>11. /\ CardType(d) /\ d.state = Idle
       /\ IF card.addr >= Sectors THEN d.flash = card.flash /\ d.changed = card.changed
          ELSE /\ d.flash = [card.flash EXCEPT ![card.addr] = card.write_sector]
               /\ d.changed = (card.changed \/ card.flash[card.addr] # card.write_sector)
  BY <1>1, <1>10, WriteEndFacts
<1> HIDE DEF a, d, g
<1>12. Progress(d, g)
  BY <1>11 DEF Progress, Idle
<1>13. CASE card.addr >= Sectors
  <2>1. wr = card.flash
    BY <1>1, <1>8, <1>13, CardAssumption
  <2>2. Whole(d, g, file)
    BY <1>3, <1>9, <1>11, <1>13, <2>1 DEF Whole
  <2>3. After(d, g)
    BY <1>9, <1>11, <1>12, <2>2 DEF After
  <2> QED
    BY <2>3 DEF a, d, g
<1>14. CASE card.addr < Sectors
  <2>1. ~(card.addr >= Sectors)
    BY <1>1, <1>14, CardAssumption
  <2> DEFINE f == [card.flash EXCEPT ![card.addr] = card.write_sector]
  <2>2. wr = f /\ d.flash = f /\ d.changed = (card.changed \/ card.flash[card.addr] # card.write_sector)
    BY <1>8, <1>11, <1>14, <2>1
  <2>3. card.flash[card.addr] = card.write_sector => f = card.flash
    BY <1>1 DEF Flash
  <2> HIDE DEF f
  <2>4. f # file => card.changed \/ card.flash[card.addr] # card.write_sector
    BY <1>3, <2>3
  <2>5. Whole(d, g, file)
    BY <1>9, <2>2, <2>4 DEF Whole
  <2>6. After(d, g)
    BY <1>9, <1>11, <1>12, <2>5 DEF After
  <2> QED
    BY <2>6 DEF a, d, g
<1> QED
  BY <1>1, <1>13, <1>14, CardAssumption

-----------------------------------------------------------------------------
\* Out of any sequence, and at its first byte.
Begun(c, val, q) == [c EXCEPT !.state = [seq |-> q, step |-> 1, offset |-> 0], !.last_byte = val]

LEMMA BegunFacts ==
  ASSUME NEW c, CardType(c), NEW val, NEW q \in {"read", "id", "write"}
  PROVE  Same(c, Begun(c, val, q)) /\ Begun(c, val, q).state.step = 1
<1> DEFINE st == [seq |-> q, step |-> 1, offset |-> 0]
<1>1. st \in CardStateType /\ st.step = 1
  BY CardAssumption DEF CardStateType, InSequence, StepType, LastStep
<1>2. Begun(c, val, q) = [c EXCEPT !.state = st, !.last_byte = val]
  BY DEF Begun
<1> HIDE DEF st
<1>3. /\ Same(c, [c EXCEPT !.state = st, !.last_byte = val])
      /\ [c EXCEPT !.state = st, !.last_byte = val].state = st
  BY <1>1, SetBoth
<1> QED
  BY <1>1, <1>2, <1>3

In(c, q) == c.state.seq = q

LEMMA Outside ==
  ASSUME NEW c, In(c, "idle") \/ In(c, "command")
  PROVE  \A n : ~at(c, n)
BY DEF In, at, Steps

LEMMA IdleFacts ==
  ASSUME NEW c, CardType(c), In(c, "idle"), NEW val
  PROVE  LET d == card_transfer(c, val).card IN Same(c, d) /\ d.state.seq # "write"
<1> DEFINE c1 == [c EXCEPT !.state = Command, !.last_byte = val]
           c2 == [c EXCEPT !.last_byte = val]
           d == card_transfer(c, val).card
<1>1. Command \in CardStateType /\ Command.seq = "command"
  BY DEF Command, CardStateType
<1>2. card_transfer(c, val) = answer(c1, 255, TRUE) \/ card_transfer(c, val) = answer(c2, 255, FALSE)
  <2>1. (\A n : ~at(c, n)) /\ c.state.seq = "idle"
    BY Outside DEF In
  <2>2. val = 129 => card_transfer(c, val) = answer(c1, 255, TRUE)
    BY <2>1 DEF card_transfer
  <2>3. val # 129 => card_transfer(c, val) = answer(c2, 255, FALSE)
    BY <2>1 DEF card_transfer
  <2> QED
    BY <2>2, <2>3
<1>3. Same(c, c1) /\ c1.state = Command
  BY <1>1, SetBoth
<1>4. Same(c, c2) /\ c2.state = c.state
  BY SetLastByte
<1> HIDE DEF c1, c2
<1>5. d = c1 \/ d = c2
  BY <1>2 DEF answer
<1> QED
  BY <1>1, <1>3, <1>4, <1>5 DEF In

LEMMA CommandFacts ==
  ASSUME NEW c, CardType(c), In(c, "command"), NEW val
  PROVE  LET d == card_transfer(c, val).card
         IN  Same(c, d) /\ (d.state.seq = "write" => d.state.step = 1)
<1> DEFINE d == card_transfer(c, val).card
           none == end(c, flags(c), FALSE)
<1>1. \/ \E q \in {"read", "id", "write"} : card_transfer(c, val) = begin(c, val, q)
      \/ card_transfer(c, val) = none
  <2>1. (\A n : ~at(c, n)) /\ c.state.seq = "command"
    BY Outside DEF In
  <2>2. card_transfer(c, val) = command(c, val)
    BY <2>1 DEF card_transfer
  <2> QED
    BY <2>2 DEF command
<1>2. Same(c, none.card) /\ none.card.state = Idle
  BY EndFacts
<1>3. Idle.seq # "write"
  BY DEF Idle
<1> HIDE DEF none
<1>4. CASE card_transfer(c, val) = none
  BY <1>2, <1>3, <1>4
<1>5. ASSUME NEW q \in {"read", "id", "write"}, card_transfer(c, val) = begin(c, val, q)
      PROVE  Same(c, d) /\ d.state.step = 1
  <2>1. begin(c, val, q).card = Begun(c, val, q)
    BY DEF answer, begin, Begun
  <2> QED
    BY <1>5, <2>1, BegunFacts
<1> QED
  BY <1>1, <1>4, <1>5

\* A sequence is begun with no data sent yet.
LEMMA BeginSequence ==
  ASSUME CardInv, card.state = Idle \/ card.state = Command, NEW val
  PROVE  LET a == card_transfer(card, val) IN After(a.card, Watch(val, a.out))
<1> DEFINE a == card_transfer(card, val)
           d == a.card
           g == Watch(val, a.out)
<1>1. CardType(card) /\ GuestOK(sender)
  BY DEF CardInv
<1>2. Idle.seq = "idle" /\ Command.seq = "command"
  BY DEF Idle, Command
<1>3. (card.state = Idle => In(card, "idle")) /\ (card.state = Command => In(card, "command"))
  BY <1>2 DEF In
<1>4. \A m : ~at(card, m)
  BY <1>3, Outside
<1>5. GuestOK(g) /\ g.written = sender.written
  BY <1>1, <1>4, WatchFacts
<1>6. CASE card.state = Idle
  <2>1. Same(card, d) /\ d.state.seq # "write"
    BY <1>1, <1>3, <1>6, IdleFacts
  <2> HIDE DEF a, d, g
  <2>2. After(d, g)
    BY <1>5, <2>1, NotWriting DEF After, Same
  <2> QED
    BY <2>2 DEF a, d, g
<1>7. CASE card.state = Command
  <2>1. g = [sender EXCEPT !.data = <<>>]
    BY <1>4, <1>7 DEF Watch
  <2>2. Same(card, d) /\ (d.state.seq = "write" => d.state.step = 1)
    BY <1>1, <1>3, <1>7, CommandFacts
  <2> HIDE DEF a, d, g
  <2>3. g.data = <<>>
    BY <1>1, <2>1 DEF GuestOK
  <2>4. d.state.seq = "write" => d.state.step <= 2
    BY <2>2
  <2>5. After(d, g)
    BY <1>5, <2>2, <2>3, <2>4, NotWriting DEF After, Same
  <2> QED
    BY <2>5 DEF a, d, g
<1> QED
  BY <1>6, <1>7

LEMMA TransferInv == CardInv /\ Transfer => CardInv'
<1> SUFFICES ASSUME CardInv, Transfer PROVE CardInv'
  OBVIOUS
<1>1. PICK val \in Inputs : LET a == card_transfer(card, val) IN card' = a.card /\ sender' = Watch(val, a.out)
  BY DEF Transfer
<1> DEFINE a == card_transfer(card, val)
<1>2. card.state = Idle \/ card.state = Command \/ card.state \in InSequence
  BY DEF CardInv, CardType, CardStateType, Transfer
<1>3. After(a.card, Watch(val, a.out))
  <2>1. CASE card.state = Idle \/ card.state = Command
    BY <2>1, BeginSequence
  <2>2. CASE card.state \in InSequence /\ card.state.seq # "write"
    <3> DEFINE g == Watch(val, a.out)
    <3>1. val \in CardByte /\ CardType(card) /\ GuestOK(sender)
      BY <2>2, InputType DEF CardInv
    <3>2. Harmless(card, a.card)
      BY <2>2, <3>1, OtherSequences
    <3>3. GuestOK(g) /\ g.written = sender.written
      BY <2>2, <3>1, WatchFacts
    <3> HIDE DEF a, g
    <3>4. After(a.card, g)
      BY <3>2, <3>3, NotWriting DEF After, Harmless
    <3> QED
      BY <3>4 DEF g
  <2>3. CASE card.state \in InSequence /\ card.state.seq = "write"
    <3>1. val \in CardByte /\ card.state.step \in 1 .. 9
      BY <2>3, InputType, WriteNames
    <3>2. card.state.step \in 1 .. 4 \/ card.state.step = 5 \/ card.state.step \in 6 .. 8 \/ card.state.step = 9
      BY <3>1
    <3>3. CASE card.state.step \in 1 .. 4
      BY <2>3, <3>1, <3>3, WriteAddress
    <3>4. CASE card.state.step = 5
      BY <2>3, <3>1, <3>4, WriteData
    <3>5. CASE card.state.step \in 6 .. 8
      BY <2>3, <3>1, <3>5, WriteAck
    <3>6. CASE card.state.step = 9
      BY <2>3, <3>1, <3>6, WriteEnd
    <3> QED
      BY <3>2, <3>3, <3>4, <3>5, <3>6
  <2> QED
    BY <1>2, <2>1, <2>2, <2>3
<1>4. card' = a.card /\ sender' = Watch(val, a.out) /\ file' = file
  BY <1>1 DEF Transfer
<1> HIDE DEF a
<1> QED
  BY <1>3, <1>4 DEF CardInv, After, Progress, Whole

LEMMA DeselectInv == CardInv /\ Deselect => CardInv'
<1> SUFFICES ASSUME CardInv, Deselect PROVE CardInv'
  OBVIOUS
<1>1. CardType(card) /\ GuestOK(sender) /\ Idle \in CardStateType /\ Idle.seq # "write"
  BY DEF CardInv, CardStateType, Idle
<1>2. CardType(card') /\ card'.flash = card.flash /\ card'.changed = card.changed /\ card'.state = Idle
  BY <1>1 DEF Deselect, reset_card, CardType
<1>3. GuestOK(sender') /\ sender'.written = sender.written
  BY <1>1 DEF Deselect, GuestOK
<1>4. After(card', sender')
  BY <1>1, <1>2, <1>3, NotWriting DEF After
<1> QED
  BY <1>4 DEF CardInv, After, Progress, Whole, Deselect

LEMMA NewCard ==
  ASSUME NEW f \in Flash
  PROVE  CardType(new_card(f)) /\ new_card(f).flash = f /\ new_card(f).state.seq = "idle"
BY CardAssumption DEF new_card, CardType, CardStateType, Idle, Sector, CardByte, Offset

LEMMA LoadFromInv == CardInv /\ LoadFrom => CardInv'
<1> SUFFICES ASSUME CardInv, LoadFrom PROVE CardInv'
  OBVIOUS
<1>1. file \in Flash /\ GuestOK(sender) /\ file' = file
  BY DEF CardInv, LoadFrom
<1>2. CardType(card') /\ card'.flash = file /\ card'.state.seq = "idle"
  BY <1>1, NewCard DEF LoadFrom
<1>3. GuestOK(sender') /\ sender'.written = file
  BY <1>1 DEF LoadFrom, GuestOK
<1> QED
  BY <1>1, <1>2, <1>3 DEF CardInv, Progress, Whole

LEMMA CardInitInv == CardInit => CardInv
<1> SUFFICES ASSUME CardInit PROVE CardInv
  OBVIOUS
<1>1. Erased \in Flash
  BY CardAssumption DEF Erased, Flash, Sector, CardByte, Offset
<1>2. CardType(card) /\ card.flash = Erased /\ card.state.seq = "idle"
  BY <1>1, NewCard DEF CardInit
<1>3. GuestOK(sender) /\ sender.written = Erased
  BY DEF CardInit, GuestOK
<1> QED
  BY <1>1, <1>2, <1>3 DEF CardInit, CardInv, Progress, Whole

(* The inductive invariant of a card and its guest holds in every state: in *)
(* a write the card's buffer and the guest's data agree as far as they have *)
(* come (memcard.rs, `transfer`).                                           *)
THEOREM CardInvariance == CardSpec => []CardInv
<1>1. CardInv /\ [CardNext]_card_vars => CardInv'
  <2> SUFFICES ASSUME CardInv, [CardNext]_card_vars PROVE CardInv'
    OBVIOUS
  <2>1. CASE Transfer
    BY <2>1, TransferInv
  <2>2. CASE Deselect
    BY <2>2, DeselectInv
  <2>3. CASE LoadFrom
    BY <2>3, LoadFromInv
  <2>4. CASE UNCHANGED card_vars
    BY <2>4 DEF card_vars, CardInv, Progress, Whole
  <2> QED
    BY <2>1, <2>2, <2>3, <2>4 DEF CardNext
<1> QED
  BY <1>1, CardInitInv, PTL DEF CardSpec

(* For every size of sector and flash and any bytes sent, each sector of    *)
(* the flash is as the last write that came to its end sent it, however     *)
(* many were broken off by a deselect or a reload, and a flash that differs *)
(* from its file is known to be changed (memcard.rs:56-61, `transfer`).     *)
THEOREM FlashStaysWhole == CardSpec => []FlashIsWhole
<1>1. CardInv => FlashIsWhole
  BY DEF CardInv, Whole, FlashIsWhole
<1> QED
  BY <1>1, CardInvariance, PTL
=============================================================================
