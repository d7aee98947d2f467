----------------------------- MODULE EventQueue -----------------------------
(***************************************************************************)
(* The data of splst_core's scheduler (schedule.rs): the clock, the heap   *)
(* of pending events and the cached time of the next one, as one record,   *)
(* with one operator per method of `Schedule`.  The device modules keep    *)
(* such a record as a variable and apply these operators to it.            *)
(*                                                                         *)
(* Times are whole numbers (SysTime counts 1/65536 CPU cycles).  The heap  *)
(* is a set of entries: std's BinaryHeap promises only that `pop` returns  *)
(* an entry that no other precedes, so ties are left open.                 *)
(*                                                                         *)
(* A definition named Fault_... is a faulty variant of the one after it:   *)
(* a mistake that the properties of the models are shown to catch.         *)
(***************************************************************************)
EXTENDS Integers

CONSTANTS Event,   \* what an entry carries: the callbacks and interrupts
          NEVER    \* Timestamp::NEVER, above every time that is reached

ASSUME NeverAssumption == NEVER \in Nat

STARTUP == 0                            \* Timestamp::STARTUP

\* RepeatMode: zero for Once, the interval for Repeat(interval).
Once == 0

EventEntry == [event: Event, ready: Nat, mode: Nat, id: Nat]

ScheduleState ==
  [now: Nat, next_event: Nat, next_event_id: Nat, events: SUBSET EventEntry]

new == [now |-> STARTUP, next_event |-> NEVER, next_event_id |-> 0, events |-> {}]

-----------------------------------------------------------------------------
\* Fault: the heap's order is not reversed, so the latest entry is on top.
Fault_heads(events) == {e \in events : \A f \in events : e.ready >= f.ready}

\* The entries that BinaryHeap may have on top: those ready first.
heads(events) == {e \in events : \A f \in events : e.ready <= f.ready}

\* `update_next_event`: the time of the entry on top of the heap.
peek_ready(events) ==
  IF events = {} THEN NEVER ELSE (CHOOSE e \in heads(events) : TRUE).ready

update_next_event(s) == [s EXCEPT !.next_event = peek_ready(s.events)]

entry(s, event, ready, mode) ==
  [event |-> event, ready |-> ready, mode |-> mode, id |-> s.next_event_id]

get_event_id(s) == [s EXCEPT !.next_event_id = @ + 1]

push(s, e) == [s EXCEPT !.events = @ \cup {e}]

\* Fault: the cached time is not refreshed.
Fault_push_event(s, e) == push(get_event_id(s), e)

\* `push_event` with a fresh id, which is the caller's handle for the event.
push_event(s, e) == update_next_event(push(get_event_id(s), e))

schedule_repeat(s, time, event) == push_event(s, entry(s, event, s.now + time, time))

schedule(s, time, event) == push_event(s, entry(s, event, s.now + time, Once))

\* The trigger operations put the entry ahead of all others, and set the
\* cache to STARTUP without looking at the heap.
push_trigger(s, e) == [push(get_event_id(s), e) EXCEPT !.next_event = STARTUP]

trigger_repeat(s, time, event) == push_trigger(s, entry(s, event, STARTUP, time))

trigger(s, event) == push_trigger(s, entry(s, event, STARTUP, Once))

\* `get_pending_event` finds an event only if the cached time has come.
has_pending_event(s) == s.next_event <= s.now

\* Fault: a repeating entry is pushed again with its old time.
Fault_get_pending_event(s, e) ==
  update_next_event([s EXCEPT !.events = IF e.mode = Once THEN @ \ {e} ELSE @])

\* It pops entry e from the top of the heap and pushes it again, one interval
\* later, if it repeats.
get_pending_event(s, e) ==
  LET again == IF e.mode = Once THEN {} ELSE {[e EXCEPT !.ready = @ + e.mode]}
  IN  update_next_event([s EXCEPT !.events = (@ \ {e}) \cup again])

unschedule(s, id) ==
  update_next_event([s EXCEPT !.events = {e \in @ : e.id # id}])

\* `trigger_early` for an entry e of the heap.  A repeating entry stays, with
\* its interval counted from now; the event itself gets a second, new id.
trigger_early(s, e) ==
  LET t     == trigger(unschedule(s, e.id), e.event)
      again == IF e.mode = Once THEN {} ELSE {[e EXCEPT !.ready = s.now + e.mode]}
  IN  [t EXCEPT !.events = @ \cup again]

\* `repeat_every` changes the interval of entry e and leaves its next time.
repeat_every(s, time, e) ==
  [s EXCEPT !.events = (@ \ {e}) \cup {[e EXCEPT !.mode = time]}]

\* `time_until_event` of an entry of the heap (saturating).
time_until_event(s, e) == IF e.ready <= s.now THEN 0 ELSE e.ready - s.now

advance(s, time) == [s EXCEPT !.now = @ + time]

skip_to(s, time) == [s EXCEPT !.now = IF @ < time THEN time ELSE @]
=============================================================================
