------------------------------ MODULE Schedule ------------------------------
(***************************************************************************)
(* The scheduler as a state machine: its methods (schedule.rs), called in  *)
(* any order by the CPU loop, the instructions and the event callbacks.    *)
(***************************************************************************)
EXTENDS EventQueue, Option

CONSTANTS Intervals,   \* the intervals callers pass
          MaxEvents,   \* bound: events scheduled over a run
          Horizon      \* bound: the time a run may reach

\* A repeating event has no zero interval, and time does not reach NEVER
\* (the comment in get_pending_event: overflow "isn't allowed to happend").
ASSUME ScheduleAssumption ==
  /\ Intervals \subseteq Nat \ {0}
  /\ MaxEvents \in Nat
  /\ Horizon \in Nat /\ Horizon < NEVER

VARIABLES sched,       \* the Schedule
          out,         \* what the last get_pending_event returned
          delivered    \* history: the id and ready time of every event returned

vars == <<sched, out, delivered>>

\* Option<Event>: no element, or the one entry.

Init == sched = new /\ out = None /\ delivered = {}

Room == sched.next_event_id < MaxEvents

\* A change of the queue made by a method that returns no event.
Set(s) == sched' = s /\ UNCHANGED <<out, delivered>>

ScheduleRepeat == Room /\ \E t \in Intervals, ev \in Event : Set(schedule_repeat(sched, t, ev))

ScheduleOnce == Room /\ \E t \in Intervals \cup {0}, ev \in Event : Set(schedule(sched, t, ev))

TriggerRepeat == Room /\ \E t \in Intervals, ev \in Event : Set(trigger_repeat(sched, t, ev))

Trigger == Room /\ \E ev \in Event : Set(trigger(sched, ev))

\* With an id that names no entry, these three leave the queue as it is.
TriggerEarly == Room /\ \E e \in sched.events : Set(trigger_early(sched, e))

RepeatEvery == \E t \in Intervals, e \in sched.events : Set(repeat_every(sched, t, e))

Unschedule == \E id \in 0 .. sched.next_event_id - 1 : Set(unschedule(sched, id))

\* get_pending_event pops: the heap is not empty, or `unwrap` panics.
GetPendingEvent ==
  /\ has_pending_event(sched)
  /\ \E e \in heads(sched.events) :
       /\ sched' = get_pending_event(sched, e)
       /\ out' = Some(e)
       /\ delivered' = delivered \cup {<<e.id, e.ready>>}

GetNoEvent ==
  /\ ~has_pending_event(sched)
  /\ out' = None
  /\ UNCHANGED <<sched, delivered>>

Advance == \E t \in Intervals : sched.now + t <= Horizon /\ Set(advance(sched, t))

SkipTo == \E t \in Intervals : t <= Horizon /\ Set(skip_to(sched, t))

Next ==
  \/ ScheduleRepeat \/ ScheduleOnce \/ TriggerRepeat \/ Trigger
  \/ TriggerEarly \/ RepeatEvery \/ Unschedule
  \/ GetPendingEvent \/ GetNoEvent \/ Advance \/ SkipTo

Spec == Init /\ [][Next]_vars

-----------------------------------------------------------------------------
\* The scheduler's fields have their types and the clock stays in bounds.
TypeOK ==
  /\ sched \in ScheduleState
  /\ sched.now <= Horizon
  /\ out \in SUBSET EventEntry
  /\ delivered \in SUBSET (Nat \X Nat)

\* The cached `next_event` is the time of the earliest entry, or NEVER: the
\* trigger operations and `repeat_every`, which skip `update_next_event`,
\* never leave it stale (schedule.rs:22-25, 157, 187).
NextEventExact == sched.next_event = peek_ready(sched.events)

\* `events.pop().unwrap()` in get_pending_event cannot fail: the cached time
\* has come only if some entry is due (schedule.rs:120-125).
PopIsSafe == has_pending_event(sched) => \E e \in sched.events : e.ready <= sched.now

\* An EventId names at most one entry, and ids still to be handed out name none.
UniqueIds ==
  /\ \A e, f \in sched.events : e.id = f.id => e = f
  /\ \A e \in sched.events : e.id < sched.next_event_id

\* No occurrence of an event is delivered twice: the entry under an id is
\* later than every occurrence already returned for that id, through any mix
\* of repeats, early triggers and changed intervals.
NoRepeatedDelivery ==
  /\ \A d \in delivered : d[1] < sched.next_event_id
  /\ \A d \in delivered, e \in sched.events : d[1] = e.id => d[2] < e.ready

\* "It may not be triggered at this exact time, but not before": what
\* get_pending_event returned was due (schedule.rs:296-297).
NeverEarly == \A d \in delivered : d[2] <= sched.now

Ids(s) == {e.id : e \in s.events}

\* "If the event type is Once, the ID is only valid until the event is
\* triggered": an id that has left the queue, by delivery, cancellation or an
\* early trigger, never names an entry again (schedule.rs:226-229).
RetiredIdsStayRetired ==
  [][\A i \in 0 .. sched.next_event_id - 1 : i \in Ids(sched') => i \in Ids(sched)]_vars

\* The cache and the heap are invisible: the scheduler implements the set of
\* deadlines, so `get_pending_event` says None only if nothing is due and
\* otherwise returns a due event that no pending event precedes.
Abstract == INSTANCE AbstractSchedule WITH
  now <- sched.now, queue <- sched.events, next_id <- sched.next_event_id

ImplementsDeadlines == Abstract!Spec

=============================================================================
