------------------------------- MODULE IoPort -------------------------------
(***************************************************************************)
(* The port of the game pads and memory cards (io_port/mod.rs): its        *)
(* registers, the byte in transfer and the event that ends it, with the    *)
(* devices in its two slots.  The guest stores and loads the registers,    *)
(* the scheduler fires the port's events, the host plugs devices in and    *)
(* out and presses buttons.                                                *)
(*                                                                         *)
(* The port's durations depend on registers the guest sets freely, so an   *)
(* event may fire at any time after it was scheduled.  Ids are never       *)
(* reused (module Schedule), so one that is not in use stands for a fresh  *)
(* one.  A register is the set of its bits that are set.                   *)
(***************************************************************************)
EXTENDS CardProtocol, PadProtocol, Sequences, Option

CONSTANTS Controls,   \* what the guest stores to the control register
          Bytes,      \* what it stores to the transmit buffer
          Pressable,  \* the buttons the host presses
          Cards,      \* the slots that have a memory card
          HotPlugs,   \* the host plugs pads in and out while the guest runs
          Waits,      \* the status bit the guest waits for before it sends: "ready" or "done"
          Deselects   \* the guest selects a slot only after it deselected the last

Slots == {1, 2}
ControlBits == {"tx_enabled", "select", "rx_enabled", "ack", "reset", "ack_irq_enabled", "slot2"}

ASSUME IoPortAssumption ==
  /\ Controls \subseteq SUBSET (ControlBits \ {"rx_enabled"})
  /\ Bytes \subseteq 0 .. 255 /\ Cards \subseteq Slots /\ Pressable \subseteq Buttons
  /\ HotPlugs \in BOOLEAN /\ Waits \in {"ready", "done"} /\ Deselects \in BOOLEAN

VARIABLES port,     \* the IoPort
          pads,     \* GamePads: by slot, {} or the one pad
          cards,    \* MemCards: by slot, {} or the one card
          events,   \* the port's events in the schedule
          guest     \* the bytes the guest has stored and no device has seen

vars == <<port, pads, cards, events, guest>>

NoEvent == 0
Ids == 1 .. 3
IdleState == [name |-> "Idle", id |-> NoEvent]

Init ==
  /\ port = [state |-> IdleState, active |-> "none", control |-> {}, status |-> {},
             rx |-> None, tx |-> None, tx_val |-> 0,
             irq |-> FALSE]         \* whether this step triggered Event::Irq
  /\ pads = [s \in Slots |-> Some(new_pad)]
  /\ cards = [s \in Slots |-> IF s \in Cards THEN Some(new_card(Erased)) ELSE None]
  /\ events = {} /\ guest = <<>>

-----------------------------------------------------------------------------
\* One step of the port works on all it can reach.
Sys == [port |-> [port EXCEPT !.irq = FALSE], pads |-> pads, cards |-> cards,
        events |-> events, guest |-> guest]

Become(s) ==
  /\ port' = s.port /\ pads' = s.pads /\ cards' = s.cards /\ events' = s.events
  /\ guest' = s.guest

without_first(bytes) == IF bytes = <<>> THEN bytes ELSE Tail(bytes)

has(s, bit) == bit \in s.port.control
slot(s) == IF has(s, "slot2") THEN 2 ELSE 1
is_transmitting(s) == s.port.state.name # "Idle"

\* An event with an id nobody holds.
schedule(s, name) ==
  LET id == CHOOSE i \in Ids : i # s.port.state.id /\ \A e \in s.events : e.id # i
  IN  [s EXCEPT !.events = @ \cup {[id |-> id, callback |-> name]},
                !.port.state = [name |-> name, id |-> id]]

unschedule(s) == [s EXCEPT !.events = {e \in @ : e.id # s.port.state.id}]

can_begin_transfer(s) == s.port.tx # None /\ has(s, "select") /\ has(s, "tx_enabled")

\* Fault: the byte stays in the buffer.
Fault_begin_transfer(s) == schedule([s EXCEPT !.port.tx_val = The(s.port.tx)], "InTrans")

\* The first statement, `control.0.set_bit(2, true)`, sets a bit of a copy.
begin_transfer(s) ==
  schedule([s EXCEPT !.port.tx = None, !.port.tx_val = The(s.port.tx)], "InTrans")

\* Fault: the event stays in the schedule.
Fault_stop_transfer(s) ==
  [s EXCEPT !.port.state = IdleState,
            !.guest = IF s.port.state.name = "InTrans" THEN without_first(@) ELSE @]

\* A byte in transfer is dropped.
stop_transfer(s) ==
  [unschedule(s) EXCEPT !.port.state = IdleState,
                        !.guest = IF s.port.state.name = "InTrans" THEN without_first(@) ELSE @]

\* Fault: the cards are forgotten.
Fault_reset_device_states(s) ==
  [s EXCEPT !.pads = [n \in Slots |-> {reset_pad(p) : p \in s.pads[n]}]]

reset_device_states(s) ==
  [s EXCEPT !.pads = [n \in Slots |-> {reset_pad(p) : p \in s.pads[n]}],
            !.cards = [n \in Slots |-> {reset_card(c) : c \in s.cards[n]}]]

-----------------------------------------------------------------------------
\* The answers of the devices: a device that is not there answers 0xff.
try_pad(s) ==
  IF s.pads[slot(s)] = None THEN [sys |-> s, out |-> 255, ack |-> FALSE]
  ELSE LET a == pad_transfer(The(s.pads[slot(s)]), s.port.tx_val)
       IN  [sys |-> [s EXCEPT !.pads[slot(s)] = Some(a.pad)], out |-> a.out, ack |-> a.ack]

try_card(s) ==
  IF s.cards[slot(s)] = None THEN [sys |-> s, out |-> 255, ack |-> FALSE]
  ELSE LET a == card_transfer(The(s.cards[slot(s)]), s.port.tx_val)
       IN  [sys |-> [s EXCEPT !.cards[slot(s)] = Some(a.card)], out |-> a.out, ack |-> a.ack]

\* Without an active device the pad is asked first, and then the card; the
\* one that acknowledges becomes active.
exchange(s) ==
  LET p == try_pad(s)
      c == try_card(p.sys)
      activate(a, device) == IF a.ack THEN [a EXCEPT !.sys.port.active = device] ELSE a
  IN  CASE s.port.active = "pad"  -> p
        [] s.port.active = "card" -> try_card(s)
        [] OTHER -> IF p.ack \/ s.cards[slot(s)] = None THEN activate(p, "pad")
                    ELSE IF c.ack \/ s.pads[slot(s)] = None THEN activate(c, "card")
                    ELSE [p EXCEPT !.sys = c.sys]

transfer(s) ==
  LET e == exchange(s)
      t == [e.sys EXCEPT !.port.rx = Some(e.out), !.guest = without_first(@)]
  IN  IF e.ack THEN schedule(t, "WaitingForAck")
      ELSE [t EXCEPT !.port.state = IdleState, !.port.active = "none"]

ack_input(s) ==
  LET t == [s EXCEPT
              !.port.state = IdleState,
              !.port.status = @ \cup {"ack"} \cup (IF has(s, "ack_irq_enabled") THEN {"irq"} ELSE {}),
              !.port.irq = has(s, "ack_irq_enabled")]
  IN  IF can_begin_transfer(t) THEN begin_transfer(t) ELSE t

do_transfer_early(s) ==
  CASE s.port.state.name = "InTrans"       -> transfer(unschedule(s))
    [] s.port.state.name = "WaitingForAck" -> ack_input(unschedule(s))
    [] OTHER                               -> s

-----------------------------------------------------------------------------
\* Fault: a byte waits until the control register is stored.
Fault_store_tx(s, val) ==
  [s EXCEPT !.port.tx = Some(val),
            !.guest = Append(IF s.port.tx = None THEN @ ELSE SubSeq(@, 1, Len(@) - 1), val)]

\* Register 0.  A byte that waits in the buffer is overwritten.
store_tx(s, val) ==
  LET t == [s EXCEPT
              !.port.tx = Some(val),
              !.guest = Append(IF s.port.tx = None THEN @ ELSE SubSeq(@, 1, Len(@) - 1), val)]
  IN  IF can_begin_transfer(t) /\ ~is_transmitting(t) THEN begin_transfer(t) ELSE t

\* Register 10.  `ack` clears bit 0 of the status, which is not stored.
store_control(s, val) ==
  LET stored == [s EXCEPT !.port.control = val]
      reset  == IF "reset" \notin val THEN stored
                ELSE [reset_device_states(stop_transfer(stored)) EXCEPT
                        !.port.active = "none", !.port.status = {}, !.port.control = {},
                        !.port.tx = None, !.port.rx = None, !.guest = <<>>]
      chosen == IF has(reset, "select") THEN reset
                ELSE [reset_device_states(reset) EXCEPT !.port.active = "none"]
  IN  IF ~has(chosen, "select") \/ ~has(chosen, "tx_enabled") THEN stop_transfer(chosen)
      ELSE IF ~is_transmitting(chosen) /\ can_begin_transfer(chosen) THEN begin_transfer(chosen)
      ELSE chosen

\* A memory card that is read past its end panics, and with it the emulator.
Runs == \A n \in Slots : \A c \in cards[n] : c.state # Panicked

tx_ready == port.tx = None
tx_done == port.tx = None /\ ~is_transmitting(Sys)

\* A guest that waits for its status bit saw it in an earlier load.
StoreTx ==
  /\ Runs
  /\ IF Waits = "ready" THEN tx_ready ELSE tx_done
  /\ \E val \in Bytes : Become(store_tx(Sys, val))

StoreControl ==
  /\ Runs
  /\ \E val \in Controls :
       /\ Deselects /\ {"select"} \subseteq val \cap port.control
            => ("slot2" \in val <=> "slot2" \in port.control)
       /\ Become(store_control(Sys, val))

LoadRx ==
  /\ Runs
  /\ Become([do_transfer_early(Sys) EXCEPT !.port.rx = None])

LoadStatus ==
  /\ Runs
  /\ Become([do_transfer_early(Sys) EXCEPT !.port.status = @ \ {"ack"}])

\* The CPU loop hands an event to its callback.
Fire ==
  /\ Runs
  /\ \E e \in events :
       LET s == [Sys EXCEPT !.events = @ \ {e}]
       IN  Become(IF e.callback = "InTrans" THEN transfer(s) ELSE ack_input(s))

\* The host changes what is plugged in, between two runs of the guest.
PlugPad ==
  /\ Runs /\ HotPlugs
  /\ \E s \in Slots, p \in {None, Some(new_pad)} : pads' = [pads EXCEPT ![s] = p]
  /\ UNCHANGED <<port, cards, events, guest>>

PressButton ==
  /\ Runs
  /\ \E s \in Slots, b \in Pressable, pressed \in BOOLEAN :
       /\ pads[s] # None
       /\ pads' = [pads EXCEPT ![s] = {set_button(p, b, pressed) : p \in @}]
  /\ UNCHANGED <<port, cards, events, guest>>

\* Nothing happens after a panic.
Halted == ~Runs /\ UNCHANGED vars

Next ==
  StoreTx \/ StoreControl \/ LoadRx \/ LoadStatus \/ Fire \/ PlugPad \/ PressButton \/ Halted

\* The CPU loop delivers every event in the end, once its time has come:
\* WF_vars(Fire), with ENABLED written out.
Fairness == []<>(events = {} \/ ~Runs) \/ []<><<Fire>>_vars

Spec == Init /\ [][Next]_vars /\ Fairness
-----------------------------------------------------------------------------
(* The state names the one event of the port that is scheduled, and none    *)
(* when it is idle.  An event that was left behind would end a later        *)
(* transfer before its time.                                                *)
OneEvent ==
  events = IF port.state = IdleState THEN {}
           ELSE {[id |-> port.state.id, callback |-> port.state.name]}

(* The bytes the devices have yet to see are those in transfer and in the   *)
(* buffer, in the order the guest stored them: none is sent twice, and none *)
(* is lost but by a reset or the end of the selection.                      *)
BytesInOrder ==
  guest = (IF port.state.name = "InTrans" THEN <<port.tx_val>> ELSE <<>>)
          \o (IF port.tx = None THEN <<>> ELSE <<The(port.tx)>>)

(* A device that is within its sequence is the active one, in the selected  *)
(* slot: it gets the next byte, and no other device does.  This is for a    *)
(* guest that deselects a slot before it selects the other.                 *)
OneDeviceTalks ==
  Runs =>
    \A s \in Slots :
      /\ \A p \in pads[s] : p.state \in {"IdHigh", "ButtonsLow", "ButtonsHigh"}
                              => port.active = "pad" /\ s = slot(Sys)
      /\ \A c \in cards[s] : c.state # Idle => port.active = "card" /\ s = slot(Sys)

(* A stored byte goes to a device in the end, unless the guest ends the     *)
(* transfer (mod.rs:57-58: the transmit buffer is "cleared when send").     *)
Enabled == {"select", "tx_enabled"} \subseteq port.control
ByteIsSent == (guest # <<>> /\ Enabled) ~> (guest = <<>> \/ ~Enabled \/ ~Runs)
=============================================================================
