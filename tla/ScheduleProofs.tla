--------------------------- MODULE ScheduleProofs ---------------------------
(***************************************************************************)
(* Proofs about Schedule, for all sets of events and intervals and all     *)
(* bounds: the invariants, the action property and the refinement.         *)
(***************************************************************************)
EXTENDS Schedule, TLAPS, WellFoundedInduction, NaturalsInduction

\* A heap that is not empty has an entry on top.
LEMMA HeadsExist ==
  ASSUME NEW events \in SUBSET EventEntry, events # {}
  PROVE  heads(events) # {}
<1> DEFINE T == {e.ready : e \in events}
           R == OpToRel(<, Nat)
<1>1. T \subseteq Nat /\ T # {}
  BY DEF EventEntry
<1>2. IsWellFoundedOn(R, Nat)
  BY NatLessThanWellFounded
<1> HIDE DEF T, R
<1>3. PICK x \in T : \A y \in T : ~(<<y, x>> \in R)
  BY <1>1, <1>2, WFMin
<1>4. ASSUME NEW y \in T, y < x PROVE FALSE
  <2>1. y \in Nat /\ x \in Nat
    BY <1>1
  <2>2. <<y, x>> \in R
    BY <1>4, <2>1, Zenon DEF R, OpToRel
  <2> QED
    BY <1>3, <2>2, Zenon
<1>5. \A y \in T : x <= y
  BY <1>1, <1>4
<1> QED
  BY <1>3, <1>5 DEF heads, T

\* All the entries on top have the same time, which is the cached one.
LEMMA PeekReady ==
  ASSUME NEW events \in SUBSET EventEntry, events # {}
  PROVE  /\ peek_ready(events) \in Nat
         /\ \A e \in events : peek_ready(events) <= e.ready
         /\ \E e \in heads(events) : peek_ready(events) = e.ready
         /\ \A e \in heads(events) : peek_ready(events) = e.ready
<1> DEFINE h == CHOOSE e \in heads(events) : TRUE
<1>1. h \in heads(events)
  BY HeadsExist
<1>2. peek_ready(events) = h.ready
  BY DEF peek_ready
<1> HIDE DEF h
<1> QED
  BY <1>1, <1>2 DEF heads, EventEntry

LEMMA PeekType ==
  ASSUME NEW events \in SUBSET EventEntry
  PROVE  peek_ready(events) \in Nat
BY PeekReady, NeverAssumption DEF peek_ready

\* A time that an entry has and none precedes is the time on top.
LEMMA PeekIs ==
  ASSUME NEW events \in SUBSET EventEntry, NEW e \in events,
         \A f \in events : e.ready <= f.ready
  PROVE  peek_ready(events) = e.ready
<1>1. e \in heads(events)
  BY DEF heads
<1> QED
  BY <1>1, PeekReady

\* The same, when the entries have the same times as those of another heap.
LEMMA PeekSame ==
  ASSUME NEW S \in SUBSET EventEntry, NEW T \in SUBSET EventEntry,
         \A e \in S : \E f \in T : f.ready = e.ready,
         \A f \in T : \E e \in S : e.ready = f.ready
  PROVE  peek_ready(S) = peek_ready(T)
<1>1. CASE S = {}
  <2>1. T = {}
    BY <1>1
  <2> QED
    BY <1>1, <2>1
<1>2. CASE S # {}
  <2>1. PICK e \in heads(S) : peek_ready(S) = e.ready
    BY <1>2, PeekReady
  <2>2. e \in S /\ \A g \in S : e.ready <= g.ready
    BY <2>1 DEF heads
  <2>3. PICK f \in T : f.ready = e.ready
    BY <2>2
  <2>4. \A g \in T : f.ready <= g.ready
    BY <2>2, <2>3
  <2> QED
    BY <2>1, <2>3, <2>4, PeekIs
<1> QED
  BY <1>1, <1>2

-----------------------------------------------------------------------------
\* The conjunction of the invariants is inductive.  NoRepeatedDelivery needs
\* NeverEarly (an early trigger restarts the interval at `now`, after every
\* occurrence so far), which needs NextEventExact (what is popped is due).
Inv == TypeOK /\ NextEventExact /\ UniqueIds /\ NoRepeatedDelivery /\ NeverEarly

LEMMA InitInv == Init => Inv
<1> SUFFICES ASSUME Init PROVE Inv
  OBVIOUS
<1>1. sched = [now |-> 0, next_event |-> NEVER, next_event_id |-> 0, events |-> {}]
      /\ out = {} /\ delivered = {}
  BY DEF Init, new, STARTUP, None
<1>2. TypeOK
  BY <1>1, NeverAssumption, ScheduleAssumption DEF TypeOK, ScheduleState
<1>3. NextEventExact
  BY <1>1 DEF NextEventExact, peek_ready
<1>4. UniqueIds /\ NoRepeatedDelivery /\ NeverEarly
  BY <1>1 DEF UniqueIds, NoRepeatedDelivery, NeverEarly
<1> QED
  BY <1>2, <1>3, <1>4 DEF Inv

\* What the operations do to the fields of a schedule.
LEMMA EventIdFields ==
  ASSUME NEW s \in ScheduleState
  PROVE  get_event_id(s) = [now |-> s.now, next_event |-> s.next_event,
                            next_event_id |-> s.next_event_id + 1, events |-> s.events]
BY DEF get_event_id, ScheduleState

LEMMA EventsFields ==
  ASSUME NEW s \in ScheduleState, NEW E \in SUBSET EventEntry
  PROVE  [s EXCEPT !.events = E] = [now |-> s.now, next_event |-> s.next_event,
                                    next_event_id |-> s.next_event_id, events |-> E]
BY DEF ScheduleState

LEMMA NextEventFields ==
  ASSUME NEW s \in ScheduleState, NEW n \in Nat
  PROVE  [s EXCEPT !.next_event = n] = [now |-> s.now, next_event |-> n,
                                        next_event_id |-> s.next_event_id, events |-> s.events]
BY DEF ScheduleState

LEMMA UpdateFields ==
  ASSUME NEW s \in ScheduleState
  PROVE  update_next_event(s) = [now |-> s.now, next_event |-> peek_ready(s.events),
                                 next_event_id |-> s.next_event_id, events |-> s.events]
<1>1. peek_ready(s.events) \in Nat
  BY PeekType DEF ScheduleState
<1> QED
  BY <1>1, NextEventFields DEF update_next_event

LEMMA PushFields ==
  ASSUME NEW s \in ScheduleState, NEW e \in EventEntry
  PROVE  /\ push_event(s, e) = [now |-> s.now, next_event |-> peek_ready(s.events \cup {e}),
                                next_event_id |-> s.next_event_id + 1,
                                events |-> s.events \cup {e}]
         /\ push_trigger(s, e) = [now |-> s.now, next_event |-> 0,
                                  next_event_id |-> s.next_event_id + 1,
                                  events |-> s.events \cup {e}]
<1> DEFINE g == get_event_id(s)
           t == push(g, e)
<1>1. g = [now |-> s.now, next_event |-> s.next_event,
           next_event_id |-> s.next_event_id + 1, events |-> s.events]
  BY EventIdFields
<1> HIDE DEF g
<1>2. g \in ScheduleState /\ g.events \cup {e} \in SUBSET EventEntry
  BY <1>1 DEF ScheduleState
<1>3. t = [now |-> s.now, next_event |-> s.next_event,
           next_event_id |-> s.next_event_id + 1, events |-> s.events \cup {e}]
  <2>1. [g EXCEPT !.events = g.events \cup {e}] =
          [now |-> g.now, next_event |-> g.next_event,
           next_event_id |-> g.next_event_id, events |-> g.events \cup {e}]
    BY <1>2, EventsFields
  <2> QED
    BY <1>1, <2>1 DEF push
<1>4. t \in ScheduleState
  BY <1>2, <1>3 DEF ScheduleState
<1> HIDE DEF t
<1>5. push_event(s, e) = update_next_event(t)
  BY DEF push_event, t, g
<1>6. push_trigger(s, e) = [t EXCEPT !.next_event = STARTUP]
  BY DEF push_trigger, t, g
<1>7. [t EXCEPT !.next_event = STARTUP] =
        [now |-> t.now, next_event |-> 0, next_event_id |-> t.next_event_id, events |-> t.events]
  BY <1>4, NextEventFields DEF STARTUP
<1> QED
  BY <1>3, <1>4, <1>5, <1>6, <1>7, UpdateFields

\* Adding an entry under the next id keeps the invariant, whether the cache is
\* recomputed or set to STARTUP for an entry that is ready since startup.
LEMMA PushInv ==
  ASSUME Inv, NEW e \in EventEntry, e.id = sched.next_event_id,
         UNCHANGED <<out, delivered>>,
         sched' = push_event(sched, e) \/ (sched' = push_trigger(sched, e) /\ e.ready = 0)
  PROVE  Inv'
<1> USE DEF Inv
<1>1. sched \in ScheduleState /\ sched.events \cup {e} \in SUBSET EventEntry
  BY DEF TypeOK, ScheduleState
<1>2. sched' = [now |-> sched.now, next_event |-> peek_ready(sched.events \cup {e}),
                next_event_id |-> sched.next_event_id + 1, events |-> sched.events \cup {e}]
  <2>1. CASE sched' = push_event(sched, e)
    BY <1>1, <2>1, PushFields
  <2>2. CASE sched' = push_trigger(sched, e) /\ e.ready = 0
    <3>1. \A f \in sched.events \cup {e} : e.ready <= f.ready
      BY <1>1, <2>2 DEF EventEntry
    <3>2. peek_ready(sched.events \cup {e}) = 0
      BY <1>1, <2>2, <3>1, PeekIs
    <3> QED
      BY <1>1, <2>2, <3>2, PushFields
  <2> QED
    BY <2>1, <2>2
<1>3. sched' \in ScheduleState
  BY <1>1, <1>2, PeekType DEF ScheduleState
<1>4. TypeOK'
  BY <1>1, <1>2, <1>3 DEF TypeOK
<1>5. NextEventExact'
  BY <1>1, <1>2 DEF NextEventExact
<1>6. UniqueIds'
  BY <1>1, <1>2 DEF UniqueIds, ScheduleState, EventEntry
<1>7. NoRepeatedDelivery'
  BY <1>1, <1>2 DEF TypeOK, NoRepeatedDelivery, ScheduleState, EventEntry
<1>8. NeverEarly'
  BY <1>1, <1>2 DEF NeverEarly
<1> QED
  BY <1>4, <1>5, <1>6, <1>7, <1>8

\* An entry built for the next id.
LEMMA EntryType ==
  ASSUME Inv, NEW ev \in Event, NEW r \in Nat, NEW m \in Nat
  PROVE  /\ entry(sched, ev, r, m) \in EventEntry
         /\ entry(sched, ev, r, m).id = sched.next_event_id
         /\ entry(sched, ev, r, m).ready = r
BY DEF entry, EventEntry, Inv, TypeOK, ScheduleState

\* A method that returns no event and replaces entries by later ones, or by
\* none, under the same ids keeps the invariant.
LEMMA ReplaceInv ==
  ASSUME Inv, UNCHANGED <<out, delivered>>, NEW E \in SUBSET EventEntry,
         sched' = [now |-> sched.now, next_event |-> peek_ready(E),
                   next_event_id |-> sched.next_event_id, events |-> E],
         \A f, g \in E : f.id = g.id => f = g,
         \A f \in E : \E e \in sched.events : e.id = f.id /\ e.ready <= f.ready
  PROVE  Inv'
<1> USE DEF Inv
<1>1. sched \in ScheduleState /\ peek_ready(E) \in Nat
  BY PeekType DEF TypeOK
<1>2. sched' \in ScheduleState
  BY <1>1 DEF ScheduleState
<1>3. TypeOK' /\ NextEventExact' /\ NeverEarly'
  BY <1>2 DEF TypeOK, NextEventExact, NeverEarly
<1>4. UniqueIds'
  BY <1>1 DEF UniqueIds
<1>5. NoRepeatedDelivery'
  <2>1. \A d \in delivered : d[1] < sched'.next_event_id
    BY DEF NoRepeatedDelivery
  <2>2. ASSUME NEW d \in delivered, NEW f \in E, d[1] = f.id
        PROVE  d[2] < f.ready
    <3>1. PICK e \in sched.events : e.id = f.id /\ e.ready <= f.ready
      OBVIOUS
    <3>2. d[2] < e.ready
      BY <2>2, <3>1 DEF NoRepeatedDelivery
    <3>3. d[2] \in Nat /\ e.ready \in Nat /\ f.ready \in Nat
      BY <1>1 DEF TypeOK, ScheduleState, EventEntry
    <3> QED
      BY <3>1, <3>2, <3>3
  <2> QED
    BY <2>1, <2>2 DEF NoRepeatedDelivery
<1> QED
  BY <1>3, <1>4, <1>5

LEMMA RepeatEveryInv == Inv /\ RepeatEvery => Inv'
<1> SUFFICES ASSUME Inv, NEW t \in Intervals, NEW e \in sched.events,
                    Set(repeat_every(sched, t, e))
             PROVE  Inv'
  BY DEF RepeatEvery
<1> DEFINE f == [e EXCEPT !.mode = t]
           E == (sched.events \ {e}) \cup {f}
<1>1. sched \in ScheduleState /\ e \in EventEntry /\ t \in Nat
  BY ScheduleAssumption DEF Inv, TypeOK, ScheduleState
<1>2. f \in EventEntry /\ f.id = e.id /\ f.ready = e.ready
  BY <1>1 DEF EventEntry
<1> HIDE DEF f
<1>3. E \in SUBSET EventEntry
  BY <1>1, <1>2 DEF ScheduleState
<1>4. peek_ready(E) = peek_ready(sched.events)
  <2>1. \A g \in sched.events : \E h \in E : h.ready = g.ready
    BY <1>2
  <2>2. \A g \in E : \E h \in sched.events : h.ready = g.ready
    BY <1>2
  <2>3. sched.events \in SUBSET EventEntry
    BY <1>1 DEF ScheduleState
  <2> HIDE DEF E
  <2> QED
    BY <1>3, <2>1, <2>2, <2>3, PeekSame
<1>5. sched' = [sched EXCEPT !.events = E]
  BY DEF Set, repeat_every, f
<1>6. [sched EXCEPT !.events = E] =
        [now |-> sched.now, next_event |-> sched.next_event,
         next_event_id |-> sched.next_event_id, events |-> E]
  BY <1>1, <1>3, EventsFields
<1>7. sched.next_event = peek_ready(E)
  BY <1>4 DEF Inv, NextEventExact
<1>8. \A g, h \in E : g.id = h.id => g = h
  BY <1>2 DEF Inv, UniqueIds
<1>9. \A g \in E : \E h \in sched.events : h.id = g.id /\ h.ready <= g.ready
  BY <1>1, <1>2 DEF EventEntry, ScheduleState
<1>10. UNCHANGED <<out, delivered>>
  BY DEF Set
<1> HIDE DEF E
<1> QED
  BY <1>3, <1>5, <1>6, <1>7, <1>8, <1>9, <1>10, ReplaceInv

LEMMA UnscheduleInv == Inv /\ Unschedule => Inv'
<1> SUFFICES ASSUME Inv, NEW id \in 0 .. sched.next_event_id - 1,
                    Set(unschedule(sched, id))
             PROVE  Inv'
  BY DEF Unschedule
<1> DEFINE E == {e \in sched.events : e.id # id}
<1>1. sched \in ScheduleState /\ E \in SUBSET EventEntry
  BY DEF Inv, TypeOK, ScheduleState
<1>2. \A g, h \in E : g.id = h.id => g = h
  BY DEF Inv, UniqueIds
<1>3. \A g \in E : \E h \in sched.events : h.id = g.id /\ h.ready <= g.ready
  BY <1>1 DEF EventEntry, ScheduleState
<1>4. sched' = update_next_event([sched EXCEPT !.events = E]) /\ UNCHANGED <<out, delivered>>
  BY DEF Set, unschedule
<1> HIDE DEF E
<1>5. [sched EXCEPT !.events = E] =
        [now |-> sched.now, next_event |-> sched.next_event,
         next_event_id |-> sched.next_event_id, events |-> E]
  BY <1>1, EventsFields
<1>6. [sched EXCEPT !.events = E] \in ScheduleState
  BY <1>1, <1>5 DEF ScheduleState
<1>7. sched' = [now |-> sched.now, next_event |-> peek_ready(E),
                next_event_id |-> sched.next_event_id, events |-> E]
  BY <1>4, <1>5, <1>6, UpdateFields
<1> QED
  BY <1>1, <1>2, <1>3, <1>4, <1>7, ReplaceInv

\* unschedule, as the fields of its result.
LEMMA UnscheduleFields ==
  ASSUME NEW s \in ScheduleState, NEW id
  PROVE  LET E == {e \in s.events : e.id # id}
         IN  /\ unschedule(s, id) = [now |-> s.now, next_event |-> peek_ready(E),
                                     next_event_id |-> s.next_event_id, events |-> E]
             /\ unschedule(s, id) \in ScheduleState
<1> DEFINE E == {e \in s.events : e.id # id}
           t == [s EXCEPT !.events = E]
<1>1. E \in SUBSET EventEntry
  BY DEF ScheduleState
<1>2. unschedule(s, id) = update_next_event(t)
  BY DEF unschedule
<1> HIDE DEF E
<1>3. t = [now |-> s.now, next_event |-> s.next_event,
           next_event_id |-> s.next_event_id, events |-> E]
  BY <1>1, EventsFields
<1>4. t \in ScheduleState /\ t.events = E
  BY <1>1, <1>3 DEF ScheduleState
<1> HIDE DEF t
<1>5. update_next_event(t) = [now |-> t.now, next_event |-> peek_ready(t.events),
                              next_event_id |-> t.next_event_id, events |-> t.events]
  BY <1>4, UpdateFields
<1>6. unschedule(s, id) = [now |-> s.now, next_event |-> peek_ready(E),
                           next_event_id |-> s.next_event_id, events |-> E]
  BY <1>2, <1>3, <1>5
<1>7. unschedule(s, id) \in ScheduleState
  BY <1>1, <1>6, PeekType DEF ScheduleState
<1> QED
  BY <1>6, <1>7 DEF E

\* What stays of a repeating entry after it has run: the entry, one interval
\* after time r.
Again(e, r) == IF e.mode = Once THEN {} ELSE {[e EXCEPT !.ready = r + e.mode]}

LEMMA AgainFacts ==
  ASSUME NEW e \in EventEntry, NEW r \in Nat
  PROVE  /\ Again(e, r) \in SUBSET EventEntry
         /\ \A f \in Again(e, r) : f.id = e.id /\ f.ready > r
         /\ \A f, g \in Again(e, r) : f = g
BY DEF Again, EventEntry, Once

\* The state after an early trigger: the entries that are left, the repeating
\* entry with a new time, and the triggered one under the next id.
LEMMA TriggerEarlyFields ==
  ASSUME Inv, NEW e \in sched.events
  PROVE  LET n == entry(unschedule(sched, e.id), e.event, 0, 0)
         IN  /\ n \in EventEntry /\ n.id = sched.next_event_id /\ n.ready = 0
             /\ trigger_early(sched, e) =
                  [now |-> sched.now, next_event |-> 0,
                   next_event_id |-> sched.next_event_id + 1,
                   events |-> (sched.events \ {e}) \cup {n} \cup Again(e, sched.now)]
<1> DEFINE u == unschedule(sched, e.id)
           n == entry(u, e.event, 0, 0)
           t == push_trigger(u, n)
           A == Again(e, sched.now)
<1>1. sched \in ScheduleState /\ e \in EventEntry
  BY DEF Inv, TypeOK, ScheduleState
<1>2. {f \in sched.events : f.id # e.id} = sched.events \ {e}
  BY DEF Inv, UniqueIds
<1>3. /\ u = [now |-> sched.now, next_event |-> peek_ready(sched.events \ {e}),
              next_event_id |-> sched.next_event_id, events |-> sched.events \ {e}]
      /\ u \in ScheduleState
  BY <1>1, <1>2, UnscheduleFields
<1> HIDE DEF u
<1>4. n \in EventEntry /\ n.id = sched.next_event_id /\ n.ready = 0
  BY <1>1, <1>3 DEF entry, EventEntry, ScheduleState
<1>5. t = [now |-> sched.now, next_event |-> 0, next_event_id |-> sched.next_event_id + 1,
           events |-> (sched.events \ {e}) \cup {n}]
  <2> HIDE DEF n
  <2>1. push_trigger(u, n) = [now |-> u.now, next_event |-> 0,
                              next_event_id |-> u.next_event_id + 1,
                              events |-> u.events \cup {n}]
    BY <1>3, <1>4, PushFields
  <2> QED
    BY <1>3, <2>1
<1>6. trigger_early(sched, e) = [t EXCEPT !.events = t.events \cup A]
  BY DEF trigger_early, trigger, Again, u, STARTUP, Once
<1>7. A \in SUBSET EventEntry
  BY <1>1, AgainFacts DEF ScheduleState
<1> HIDE DEF n, A
<1>8. t \in ScheduleState
  BY <1>1, <1>4, <1>5 DEF ScheduleState
<1> HIDE DEF t
<1>9. t.events \cup A \in SUBSET EventEntry
  BY <1>7, <1>8 DEF ScheduleState
<1>10. [t EXCEPT !.events = t.events \cup A] =
         [now |-> t.now, next_event |-> t.next_event,
          next_event_id |-> t.next_event_id, events |-> t.events \cup A]
  BY <1>8, <1>9, EventsFields
<1> QED
  BY <1>4, <1>5, <1>6, <1>10 DEF n, A, u

LEMMA TriggerEarlyInv == Inv /\ TriggerEarly => Inv'
<1> SUFFICES ASSUME Inv, NEW e \in sched.events, Set(trigger_early(sched, e))
             PROVE  Inv'
  BY DEF TriggerEarly
<1> DEFINE n == entry(unschedule(sched, e.id), e.event, 0, 0)
           A == Again(e, sched.now)
           E == (sched.events \ {e}) \cup {n} \cup A
<1>1. sched \in ScheduleState /\ e \in EventEntry /\ sched.now \in Nat /\ e.id \in Nat
  BY DEF Inv, TypeOK, ScheduleState, EventEntry
<1>2. /\ n \in EventEntry /\ n.id = sched.next_event_id /\ n.ready = 0
      /\ sched' = [now |-> sched.now, next_event |-> 0,
                   next_event_id |-> sched.next_event_id + 1, events |-> E]
  BY TriggerEarlyFields DEF Set
<1>3. /\ A \in SUBSET EventEntry
      /\ \A f \in A : f.id = e.id /\ f.ready > sched.now
      /\ \A f, g \in A : f = g
  BY <1>1, AgainFacts
<1>4. UNCHANGED <<out, delivered>>
  BY DEF Set
<1> HIDE DEF n, A
<1>5. E \in SUBSET EventEntry
  BY <1>1, <1>2, <1>3 DEF ScheduleState
<1>6. TypeOK'
  BY <1>1, <1>2, <1>4, <1>5 DEF Inv, TypeOK, ScheduleState
<1>7. NextEventExact'
  <2>1. n \in E /\ \A f \in E : n.ready <= f.ready
    BY <1>2, <1>5 DEF EventEntry
  <2>2. peek_ready(E) = n.ready
    BY <1>5, <2>1, PeekIs
  <2> QED
    BY <1>2, <2>2 DEF NextEventExact
<1>8. UniqueIds'
  <2>1. \A f \in sched.events : f.id < sched.next_event_id /\ f.id \in Nat
    BY <1>1 DEF Inv, UniqueIds, ScheduleState, EventEntry
  <2>2. sched.next_event_id \in Nat
    BY <1>1 DEF ScheduleState
  <2>3. \A f \in E : f.id < sched.next_event_id + 1
    BY <1>2, <1>3, <2>1, <2>2
  <2>4. \A f, g \in sched.events : f.id = g.id => f = g
    BY DEF Inv, UniqueIds
  <2>5. \A f, g \in E : f.id = g.id => f = g
    BY <1>2, <1>3, <2>1, <2>2, <2>4
  <2> QED
    BY <1>2, <2>3, <2>5 DEF UniqueIds
<1>9. NoRepeatedDelivery'
  <2>1. \A d \in delivered : /\ d[1] \in Nat /\ d[2] \in Nat
                             /\ d[1] < sched.next_event_id /\ d[2] <= sched.now
    BY DEF Inv, TypeOK, NoRepeatedDelivery, NeverEarly
  <2>2. ASSUME NEW d \in delivered, NEW f \in E, d[1] = f.id PROVE d[2] < f.ready
    <3>1. CASE f \in sched.events
      BY <2>2, <3>1 DEF Inv, NoRepeatedDelivery
    <3>2. CASE f = n
      BY <1>1, <1>2, <2>1, <2>2, <3>2 DEF ScheduleState
    <3>3. CASE f \in A
      BY <1>1, <1>3, <1>5, <2>1, <3>3 DEF EventEntry
    <3> QED
      BY <3>1, <3>2, <3>3
  <2>3. \A d \in delivered : d[1] < sched.next_event_id + 1
    BY <1>1, <2>1 DEF ScheduleState
  <2> QED
    BY <1>2, <1>4, <2>2, <2>3 DEF NoRepeatedDelivery
<1>10. NeverEarly'
  BY <1>2, <1>4 DEF Inv, NeverEarly
<1> QED
  BY <1>6, <1>7, <1>8, <1>9, <1>10 DEF Inv

\* What get_pending_event pops, and the state it leaves.
LEMMA PendingFields ==
  ASSUME Inv, has_pending_event(sched), NEW e \in heads(sched.events)
  PROVE  /\ e \in sched.events /\ e.ready <= sched.now
         /\ \A f \in sched.events : e.ready <= f.ready
         /\ LET E == (sched.events \ {e}) \cup Again(e, e.ready)
            IN  /\ E \in SUBSET EventEntry
                /\ get_pending_event(sched, e) =
                     [now |-> sched.now, next_event |-> peek_ready(E),
                      next_event_id |-> sched.next_event_id, events |-> E]
<1> DEFINE E == (sched.events \ {e}) \cup Again(e, e.ready)
           t == [sched EXCEPT !.events = E]
<1>1. sched \in ScheduleState /\ sched.events \in SUBSET EventEntry
  BY DEF Inv, TypeOK, ScheduleState
<1>2. e \in sched.events /\ \A f \in sched.events : e.ready <= f.ready
  BY DEF heads
<1>3. e.ready <= sched.now
  <2>1. peek_ready(sched.events) = e.ready
    BY <1>1, <1>2, PeekReady
  <2> QED
    BY <2>1 DEF has_pending_event, Inv, NextEventExact
<1>4. e \in EventEntry /\ e.ready \in Nat
  BY <1>1, <1>2 DEF EventEntry
<1>5. E \in SUBSET EventEntry
  BY <1>1, <1>4, AgainFacts
<1>6. get_pending_event(sched, e) = update_next_event(t)
  BY DEF get_pending_event, Again
<1> HIDE DEF E
<1>7. t = [now |-> sched.now, next_event |-> sched.next_event,
           next_event_id |-> sched.next_event_id, events |-> E]
  BY <1>1, <1>5, EventsFields
<1>8. t \in ScheduleState
  BY <1>1, <1>5, <1>7 DEF ScheduleState
<1> HIDE DEF t
<1>9. get_pending_event(sched, e) = [now |-> sched.now, next_event |-> peek_ready(E),
                                     next_event_id |-> sched.next_event_id, events |-> E]
  BY <1>6, <1>7, <1>8, UpdateFields
<1> QED
  BY <1>2, <1>3, <1>5, <1>9 DEF E

LEMMA PendingInv == Inv /\ GetPendingEvent => Inv'
<1> SUFFICES ASSUME Inv, has_pending_event(sched), NEW e \in heads(sched.events),
                    sched' = get_pending_event(sched, e), out' = Some(e),
                    delivered' = delivered \cup {<<e.id, e.ready>>}
             PROVE  Inv'
  BY DEF GetPendingEvent
<1> DEFINE A == Again(e, e.ready)
           E == (sched.events \ {e}) \cup A
<1>1. sched \in ScheduleState /\ sched.events \in SUBSET EventEntry
  BY DEF Inv, TypeOK, ScheduleState
<1>2. e \in sched.events /\ e.ready <= sched.now
  BY PendingFields
<1>3. /\ E \in SUBSET EventEntry
      /\ sched' = [now |-> sched.now, next_event |-> peek_ready(E),
                   next_event_id |-> sched.next_event_id, events |-> E]
  BY PendingFields
<1>4. e \in EventEntry /\ e.ready \in Nat /\ e.id \in Nat
  BY <1>1, <1>2 DEF EventEntry
<1>5. /\ \A f \in A : f.id = e.id /\ f.ready > e.ready
      /\ \A f, g \in A : f = g
  BY <1>4, AgainFacts
<1> HIDE DEF A
<1>6. TypeOK'
  <2>1. sched' \in ScheduleState
    BY <1>1, <1>3, PeekType DEF ScheduleState
  <2>2. out' \in SUBSET EventEntry
    BY <1>4 DEF Some
  <2>3. delivered' \in SUBSET (Nat \X Nat)
    BY <1>4 DEF Inv, TypeOK
  <2> QED
    BY <1>3, <2>1, <2>2, <2>3 DEF Inv, TypeOK
<1>7. NextEventExact'
  BY <1>3 DEF NextEventExact
<1>8. UniqueIds'
  <2>1. \A f \in sched.events : f.id < sched.next_event_id
    BY DEF Inv, UniqueIds
  <2>2. \A f, g \in sched.events : f.id = g.id => f = g
    BY DEF Inv, UniqueIds
  <2>3. \A f \in E : f.id < sched.next_event_id
    BY <1>2, <1>5, <2>1
  <2>4. \A f, g \in E : f.id = g.id => f = g
    BY <1>2, <1>5, <2>2
  <2> QED
    BY <1>3, <2>3, <2>4 DEF UniqueIds
<1>9. NoRepeatedDelivery'
  <2>1. \A d \in delivered : d[1] < sched.next_event_id /\ d[1] \in Nat /\ d[2] \in Nat
    BY DEF Inv, TypeOK, NoRepeatedDelivery
  <2>2. \A d \in delivered, f \in sched.events : d[1] = f.id => d[2] < f.ready
    BY DEF Inv, NoRepeatedDelivery
  <2>3. e.id < sched.next_event_id
    BY <1>2 DEF Inv, UniqueIds
  <2>4. \A d \in delivered' : d[1] < sched.next_event_id
    BY <2>1, <2>3
  <2>5. ASSUME NEW d \in delivered', NEW f \in E, d[1] = f.id PROVE d[2] < f.ready
    <3>1. f.ready \in Nat
      BY <1>3 DEF EventEntry
    <3>2. CASE f \in sched.events \ {e}
      <4>1. f.id # e.id
        BY <1>2, <3>2 DEF Inv, UniqueIds
      <4>2. d \in delivered
        BY <2>5, <4>1
      <4> QED
        BY <2>2, <2>5, <3>2, <4>2
    <3>3. CASE f \in A
      <4>1. CASE d \in delivered
        <5>1. d[2] < e.ready
          BY <1>2, <1>5, <2>2, <2>5, <3>3, <4>1
        <5> QED
          BY <1>4, <1>5, <2>1, <3>1, <3>3, <4>1, <5>1
      <4>2. CASE d = <<e.id, e.ready>>
        BY <1>5, <3>3, <4>2, <3>1, <1>4
      <4> QED
        BY <4>1, <4>2
    <3> QED
      BY <3>2, <3>3
  <2> QED
    BY <1>3, <2>4, <2>5 DEF NoRepeatedDelivery
<1>10. NeverEarly'
  BY <1>2, <1>3 DEF Inv, NeverEarly
<1> QED
  BY <1>6, <1>7, <1>8, <1>9, <1>10 DEF Inv

\* Time passes: only the clock changes, and forward.
LEMMA PassInv ==
  ASSUME Inv, NEW n \in Nat, sched.now <= n, n <= Horizon,
         sched' = [sched EXCEPT !.now = n], UNCHANGED <<out, delivered>>
  PROVE  Inv'
<1>1. sched \in ScheduleState
  BY DEF Inv, TypeOK
<1>2. sched' = [now |-> n, next_event |-> sched.next_event,
                next_event_id |-> sched.next_event_id, events |-> sched.events]
  BY <1>1 DEF ScheduleState
<1>3. TypeOK'
  BY <1>1, <1>2 DEF Inv, TypeOK, ScheduleState
<1>4. NextEventExact' /\ UniqueIds' /\ NoRepeatedDelivery'
  BY <1>2 DEF Inv, NextEventExact, UniqueIds, NoRepeatedDelivery
<1>5. NeverEarly'
  <2>1. \A d \in delivered : d[2] \in Nat /\ d[2] <= sched.now
    BY DEF Inv, TypeOK, NeverEarly
  <2> QED
    BY <1>1, <1>2, <2>1 DEF NeverEarly, ScheduleState
<1> QED
  BY <1>3, <1>4, <1>5 DEF Inv

LEMMA InvStep == Inv /\ [Next]_vars => Inv'
<1> SUFFICES ASSUME Inv, [Next]_vars PROVE Inv'
  OBVIOUS
<1>0. sched \in ScheduleState /\ sched.now \in Nat /\ Intervals \subseteq Nat /\ Horizon \in Nat
  BY ScheduleAssumption DEF Inv, TypeOK, ScheduleState
<1>1. CASE ScheduleRepeat
  <2>1. PICK t \in Intervals, ev \in Event : Set(schedule_repeat(sched, t, ev))
    BY <1>1 DEF ScheduleRepeat
  <2>2. sched.now + t \in Nat /\ t \in Nat
    BY <1>0
  <2> QED
    BY <2>1, <2>2, EntryType, PushInv DEF Set, schedule_repeat
<1>2. CASE ScheduleOnce
  <2>1. PICK t \in Intervals \cup {0}, ev \in Event : Set(schedule(sched, t, ev))
    BY <1>2 DEF ScheduleOnce
  <2>2. sched.now + t \in Nat /\ Once \in Nat
    BY <1>0 DEF Once
  <2> QED
    BY <2>1, <2>2, EntryType, PushInv DEF Set, schedule
<1>3. CASE TriggerRepeat
  <2>1. PICK t \in Intervals, ev \in Event : Set(trigger_repeat(sched, t, ev))
    BY <1>3 DEF TriggerRepeat
  <2>2. STARTUP = 0 /\ STARTUP \in Nat /\ t \in Nat
    BY <1>0 DEF STARTUP
  <2> QED
    BY <2>1, <2>2, EntryType, PushInv DEF Set, trigger_repeat
<1>4. CASE Trigger
  <2>1. PICK ev \in Event : Set(trigger(sched, ev))
    BY <1>4 DEF Trigger
  <2>2. STARTUP = 0 /\ STARTUP \in Nat /\ Once \in Nat
    BY DEF STARTUP, Once
  <2> QED
    BY <2>1, <2>2, EntryType, PushInv DEF Set, trigger
<1>5. CASE TriggerEarly
  BY <1>5, TriggerEarlyInv
<1>6. CASE RepeatEvery
  BY <1>6, RepeatEveryInv
<1>7. CASE Unschedule
  BY <1>7, UnscheduleInv
<1>8. CASE GetPendingEvent
  BY <1>8, PendingInv
<1>9. CASE GetNoEvent
  BY <1>9 DEF GetNoEvent, None, Inv, TypeOK, NextEventExact, UniqueIds, NoRepeatedDelivery, NeverEarly
<1>10. CASE Advance
  <2>1. PICK t \in Intervals : sched.now + t <= Horizon /\ Set(advance(sched, t))
    BY <1>10 DEF Advance
  <2>2. sched.now + t \in Nat /\ sched.now <= sched.now + t
    BY <1>0
  <2> QED
    BY <2>1, <2>2, PassInv DEF Set, advance
<1>11. CASE SkipTo
  <2>1. PICK t \in Intervals : t <= Horizon /\ Set(skip_to(sched, t))
    BY <1>11 DEF SkipTo
  <2> DEFINE n == IF sched.now < t THEN t ELSE sched.now
  <2>2. n \in Nat /\ sched.now <= n /\ n <= Horizon
    BY <1>0, <2>1 DEF Inv, TypeOK
  <2>3. sched' = [sched EXCEPT !.now = n] /\ UNCHANGED <<out, delivered>>
    BY <2>1 DEF Set, skip_to
  <2> HIDE DEF n
  <2> QED
    BY <2>2, <2>3, PassInv
<1>12. CASE UNCHANGED vars
  BY <1>12 DEF vars, Inv, TypeOK, NextEventExact, UniqueIds, NoRepeatedDelivery, NeverEarly
<1> QED
  BY <1>1, <1>2, <1>3, <1>4, <1>5, <1>6, <1>7, <1>8, <1>9, <1>10, <1>11, <1>12 DEF Next

\* The scheduler's invariants hold in every reachable state.
THEOREM Invariants == Spec => []Inv
<1> QED
  BY InitInv, InvStep, PTL DEF Spec

\* Every field of the scheduler keeps its type, whatever is called in whatever
\* order (schedule.rs).
THEOREM TypeCorrect == Spec => []TypeOK
<1>1. Inv => TypeOK
  BY DEF Inv
<1> QED
  BY <1>1, Invariants, PTL

\* The cached time of the next event is never stale.
THEOREM CacheIsExact == Spec => []NextEventExact
<1>1. Inv => NextEventExact
  BY DEF Inv
<1> QED
  BY <1>1, Invariants, PTL

\* The `unwrap` of the popped entry in get_pending_event cannot fail.
THEOREM PopNeverPanics == Spec => []PopIsSafe
<1>1. Inv => PopIsSafe
  <2> SUFFICES ASSUME Inv, has_pending_event(sched)
               PROVE  \E e \in sched.events : e.ready <= sched.now
    BY DEF PopIsSafe
  <2>1. sched \in ScheduleState /\ sched.now <= Horizon /\ sched.next_event = peek_ready(sched.events)
    BY DEF Inv, TypeOK, NextEventExact
  <2>2. sched.events # {}
    BY <2>1, NeverAssumption, ScheduleAssumption DEF has_pending_event, peek_ready, ScheduleState
  <2>3. PICK e \in heads(sched.events) : peek_ready(sched.events) = e.ready
    BY <2>1, <2>2, PeekReady DEF ScheduleState
  <2> QED
    BY <2>1, <2>3 DEF has_pending_event, heads
<1> QED
  BY <1>1, Invariants, PTL

\* Ids are unique, and no occurrence of an event is delivered twice or early.
THEOREM DeliveredOnceAndOnTime == Spec => [](UniqueIds /\ NoRepeatedDelivery /\ NeverEarly)
<1>1. Inv => UniqueIds /\ NoRepeatedDelivery /\ NeverEarly
  BY DEF Inv
<1> QED
  BY <1>1, Invariants, PTL

-----------------------------------------------------------------------------
\* Each step is a step of the abstract schedule, and reuses no id.
Retires == \A i \in 0 .. sched.next_event_id - 1 : i \in Ids(sched') => i \in Ids(sched)

\* A method that adds an entry under the next id.
LEMMA PushImplements ==
  ASSUME Inv, NEW e \in EventEntry, e.id = sched.next_event_id, UNCHANGED out,
         sched' = push_event(sched, e) \/ sched' = push_trigger(sched, e)
  PROVE  Abstract!Add /\ Retires
<1>1. sched \in ScheduleState /\ sched.next_event_id \in Nat
  BY DEF Inv, TypeOK, ScheduleState
<1>2. /\ sched'.now = sched.now /\ sched'.events = sched.events \cup {e}
      /\ sched'.next_event_id = sched.next_event_id + 1
  <2>1. \/ sched' = [now |-> sched.now, next_event |-> peek_ready(sched.events \cup {e}),
                     next_event_id |-> sched.next_event_id + 1, events |-> sched.events \cup {e}]
        \/ sched' = [now |-> sched.now, next_event |-> 0,
                     next_event_id |-> sched.next_event_id + 1, events |-> sched.events \cup {e}]
    BY <1>1, PushFields
  <2> QED
    BY <2>1
<1>3. Abstract!Add
  BY <1>2 DEF Abstract!Add
<1>4. Retires
  BY <1>1, <1>2 DEF Retires, Ids
<1> QED
  BY <1>3, <1>4

LEMMA StepImplements ==
  Inv /\ [Next]_vars => [Abstract!Next]_(Abstract!vars) /\ (Retires \/ UNCHANGED vars)
<1> SUFFICES ASSUME Inv, [Next]_vars
             PROVE  (Abstract!Next \/ UNCHANGED Abstract!vars) /\ (Retires \/ UNCHANGED vars)
  BY Zenon
<1> USE DEF Abstract!Next
<1>0. /\ sched \in ScheduleState /\ sched.now \in Nat /\ sched.next_event_id \in Nat
      /\ sched.events \in SUBSET EventEntry
      /\ Intervals \subseteq Nat /\ Horizon \in Nat
  BY ScheduleAssumption DEF Inv, TypeOK, ScheduleState
<1>1. CASE ScheduleRepeat
  <2>1. PICK t \in Intervals, ev \in Event : Set(schedule_repeat(sched, t, ev))
    BY <1>1 DEF ScheduleRepeat
  <2>2. sched.now + t \in Nat /\ t \in Nat
    BY <1>0
  <2> QED
    BY <2>1, <2>2, EntryType, PushImplements DEF Set, schedule_repeat
<1>2. CASE ScheduleOnce
  <2>1. PICK t \in Intervals \cup {0}, ev \in Event : Set(schedule(sched, t, ev))
    BY <1>2 DEF ScheduleOnce
  <2>2. sched.now + t \in Nat /\ Once \in Nat
    BY <1>0 DEF Once
  <2> QED
    BY <2>1, <2>2, EntryType, PushImplements DEF Set, schedule
<1>3. CASE TriggerRepeat
  <2>1. PICK t \in Intervals, ev \in Event : Set(trigger_repeat(sched, t, ev))
    BY <1>3 DEF TriggerRepeat
  <2>2. STARTUP \in Nat /\ t \in Nat
    BY <1>0 DEF STARTUP
  <2> QED
    BY <2>1, <2>2, EntryType, PushImplements DEF Set, trigger_repeat
<1>4. CASE Trigger
  <2>1. PICK ev \in Event : Set(trigger(sched, ev))
    BY <1>4 DEF Trigger
  <2>2. STARTUP \in Nat /\ Once \in Nat
    BY DEF STARTUP, Once
  <2> QED
    BY <2>1, <2>2, EntryType, PushImplements DEF Set, trigger
<1>5. CASE TriggerEarly
  <2>1. PICK e \in sched.events : Set(trigger_early(sched, e))
    BY <1>5 DEF TriggerEarly
  <2> DEFINE n == entry(unschedule(sched, e.id), e.event, 0, 0)
             A == Again(e, sched.now)
  <2>2. /\ n.id = sched.next_event_id
        /\ sched' = [now |-> sched.now, next_event |-> 0,
                     next_event_id |-> sched.next_event_id + 1,
                     events |-> (sched.events \ {e}) \cup {n} \cup A]
    BY <2>1, TriggerEarlyFields DEF Set
  <2>3. (\A f \in A : f.id = e.id) /\ (\A f, g \in A : f = g)
    BY <1>0, AgainFacts
  <2> HIDE DEF n, A
  <2>4. out' = out
    BY <2>1 DEF Set
  <2>5. Abstract!Hasten
    <3>1. CASE A = {}
      BY <2>2, <2>4, <3>1 DEF Abstract!Hasten
    <3>2. CASE A # {}
      <4>1. PICK g \in A : A = {g} /\ g.id = e.id
        BY <2>3, <3>2
      <4>2. sched'.events = (sched.events \ {e}) \cup {n, g}
        BY <2>2, <4>1
      <4> QED
        BY <2>2, <2>4, <4>1, <4>2 DEF Abstract!Hasten
    <3> QED
      BY <3>1, <3>2
  <2>6. Retires
    BY <1>0, <2>2, <2>3 DEF Retires, Ids
  <2> QED
    BY <2>5, <2>6
<1>6. CASE RepeatEvery
  <2>1. PICK t \in Intervals, e \in sched.events : Set(repeat_every(sched, t, e))
    BY <1>6 DEF RepeatEvery
  <2> DEFINE f == [e EXCEPT !.mode = t]
  <2>2. f.id = e.id /\ f \in EventEntry
    BY <1>0 DEF EventEntry
  <2>3. sched' = [sched EXCEPT !.events = (sched.events \ {e}) \cup {f}] /\ out' = out
    BY <2>1 DEF Set, repeat_every
  <2> HIDE DEF f
  <2>4. (sched.events \ {e}) \cup {f} \in SUBSET EventEntry
    BY <1>0, <2>2
  <2>5. sched' = [now |-> sched.now, next_event |-> sched.next_event,
                  next_event_id |-> sched.next_event_id,
                  events |-> (sched.events \ {e}) \cup {f}]
    BY <1>0, <2>3, <2>4, EventsFields
  <2>6. Abstract!Change
    BY <2>2, <2>3, <2>5 DEF Abstract!Change
  <2>7. Retires
    BY <2>2, <2>5 DEF Retires, Ids
  <2> QED
    BY <2>6, <2>7
<1>7. CASE Unschedule
  <2>1. PICK id \in 0 .. sched.next_event_id - 1 : Set(unschedule(sched, id))
    BY <1>7 DEF Unschedule
  <2>2. /\ sched'.now = sched.now /\ sched'.next_event_id = sched.next_event_id
        /\ sched'.events = {e \in sched.events : e.id # id} /\ out' = out
    <3> DEFINE E == {e \in sched.events : e.id # id}
    <3>1. sched' = [now |-> sched.now, next_event |-> peek_ready(E),
                    next_event_id |-> sched.next_event_id, events |-> E]
      BY <1>0, <2>1, UnscheduleFields DEF Set
    <3> HIDE DEF E
    <3>2. sched'.now = sched.now /\ sched'.next_event_id = sched.next_event_id /\ sched'.events = E
      BY <3>1
    <3> QED
      BY <2>1, <3>2 DEF E, Set
  <2>3. Retires
    BY <2>2 DEF Retires, Ids
  <2>4. CASE \E e \in sched.events : e.id = id
    <3>1. PICK e \in sched.events : e.id = id
      BY <2>4
    <3>2. sched'.events = sched.events \ {e}
      BY <2>2, <3>1 DEF Inv, UniqueIds
    <3>3. Abstract!Change
      BY <2>2, <3>2 DEF Abstract!Change
    <3> QED
      BY <2>3, <3>3
  <2>5. CASE ~ \E e \in sched.events : e.id = id
    <3>1. UNCHANGED Abstract!vars
      BY <2>2, <2>5 DEF Abstract!vars
    <3> QED
      BY <2>3, <3>1
  <2> QED
    BY <2>4, <2>5
<1>8. CASE GetPendingEvent
  <2>1. PICK e \in heads(sched.events) : /\ has_pending_event(sched)
                                         /\ sched' = get_pending_event(sched, e)
                                         /\ out' = Some(e)
    BY <1>8 DEF GetPendingEvent
  <2> DEFINE A == Again(e, e.ready)
  <2>2. /\ e \in sched.events /\ e.ready <= sched.now
        /\ \A f \in sched.events : e.ready <= f.ready
    BY <2>1, PendingFields
  <2>3. /\ sched'.now = sched.now /\ sched'.next_event_id = sched.next_event_id
        /\ sched'.events = (sched.events \ {e}) \cup A
    <3> DEFINE E == (sched.events \ {e}) \cup A
    <3>1. sched' = [now |-> sched.now, next_event |-> peek_ready(E),
                    next_event_id |-> sched.next_event_id, events |-> E]
      BY <2>1, PendingFields
    <3> HIDE DEF E
    <3>2. sched'.now = sched.now /\ sched'.next_event_id = sched.next_event_id /\ sched'.events = E
      BY <3>1
    <3> QED
      BY <3>2 DEF E
  <2>4. e \in EventEntry /\ e.ready \in Nat
    BY <1>0, <2>2 DEF EventEntry
  <2>5. (\A f \in A : f.id = e.id /\ f.ready > e.ready) /\ (\A f, g \in A : f = g)
    BY <2>4, AgainFacts
  <2> HIDE DEF A
  <2>6. Abstract!Deliver
    <3>1. CASE A = {}
      BY <2>1, <2>2, <2>3, <3>1 DEF Abstract!Deliver, Abstract!Due, Abstract!Some, Some
    <3>2. CASE A # {}
      <4>1. PICK g \in A : A = {g} /\ g.id = e.id /\ g.ready > e.ready
        BY <2>5, <3>2
      <4> QED
        BY <2>1, <2>2, <2>3, <4>1 DEF Abstract!Deliver, Abstract!Due, Abstract!Some, Some
    <3> QED
      BY <3>1, <3>2
  <2>7. Retires
    BY <2>2, <2>3, <2>5 DEF Retires, Ids
  <2> QED
    BY <2>6, <2>7
<1>9. CASE GetNoEvent
  <2>1. \A e \in sched.events : ~(e.ready <= sched.now)
    <3> SUFFICES ASSUME NEW e \in sched.events, e.ready <= sched.now PROVE FALSE
      OBVIOUS
    <3>1. peek_ready(sched.events) <= e.ready /\ peek_ready(sched.events) \in Nat
      BY <1>0, PeekReady
    <3>2. e.ready \in Nat
      BY <1>0 DEF EventEntry
    <3> QED
      BY <1>0, <1>9, <3>1, <3>2 DEF GetNoEvent, has_pending_event, Inv, NextEventExact
  <2>2. Abstract!Refuse
    BY <1>9, <2>1 DEF GetNoEvent, Abstract!Refuse, Abstract!Due, Abstract!None, None
  <2>3. Retires
    BY <1>9 DEF GetNoEvent, Retires
  <2> QED
    BY <2>2, <2>3
<1>10. CASE Advance
  <2>1. PICK t \in Intervals : Set(advance(sched, t))
    BY <1>10 DEF Advance
  <2>2. sched' = [sched EXCEPT !.now = sched.now + t] /\ out' = out
    BY <2>1 DEF Set, advance
  <2>3. /\ sched'.now = sched.now + t /\ sched'.events = sched.events
        /\ sched'.next_event_id = sched.next_event_id
    BY <1>0, <2>2 DEF ScheduleState
  <2>4. Abstract!Pass
    BY <1>0, <2>2, <2>3 DEF Abstract!Pass
  <2>5. Retires
    BY <2>3 DEF Retires, Ids
  <2> QED
    BY <2>4, <2>5
<1>11. CASE SkipTo
  <2>1. PICK t \in Intervals : Set(skip_to(sched, t))
    BY <1>11 DEF SkipTo
  <2> DEFINE n == IF sched.now < t THEN t ELSE sched.now
  <2>2. n \in Nat /\ n >= sched.now
    BY <1>0
  <2>3. sched' = [sched EXCEPT !.now = n] /\ out' = out
    BY <2>1 DEF Set, skip_to
  <2> HIDE DEF n
  <2>4. /\ sched'.now = n /\ sched'.events = sched.events
        /\ sched'.next_event_id = sched.next_event_id
    BY <1>0, <2>3 DEF ScheduleState
  <2>5. Abstract!Pass
    BY <2>2, <2>3, <2>4 DEF Abstract!Pass
  <2>6. Retires
    BY <2>4 DEF Retires, Ids
  <2> QED
    BY <2>5, <2>6
<1>12. CASE UNCHANGED vars
  BY <1>12 DEF vars, Abstract!vars
<1> QED
  BY <1>1, <1>2, <1>3, <1>4, <1>5, <1>6, <1>7, <1>8, <1>9, <1>10, <1>11, <1>12 DEF Next

\* An id that left the queue never names an entry again.
THEOREM IdsStayRetired == Spec => RetiredIdsStayRetired
<1>1. Inv /\ [Next]_vars => [Retires]_vars
  BY StepImplements
<1> QED
  BY <1>1, Invariants, PTL DEF Spec, RetiredIdsStayRetired, Retires

\* The scheduler with its heap and cached time implements the set of deadlines.
THEOREM Implements == Spec => ImplementsDeadlines
<1>1. Init => Abstract!Init
  BY DEF Init, new, STARTUP, None, Abstract!Init, Abstract!None
<1>2. Inv /\ [Next]_vars => [Abstract!Next]_(Abstract!vars)
  BY StepImplements
<1> QED
  BY <1>1, <1>2, Invariants, PTL DEF Spec, ImplementsDeadlines, Abstract!Spec
=============================================================================
