------------------------------- MODULE Timer -------------------------------
(***************************************************************************)
(* One of the three timers (timer.rs) with its events, as the CPU loop     *)
(* drives it.  A timer is brought up to date when one of its registers is  *)
(* accessed and when its update event fires, which it schedules for the    *)
(* time it predicts its next interrupt.                                    *)
(*                                                                         *)
(* Times are counted from now: `since` is the time since last_update, and  *)
(* an event is its remaining delay, zero once it is due.  The mode         *)
(* register is the set of its bits that are set.                           *)
(***************************************************************************)
EXTENDS Integers

CONSTANTS Ids,        \* the timers, one of which is followed: "tmr1" and "tmr2"
          MAX,        \* u16::MAX
          DIV,        \* cycles per tick of "div8" (8)
          LINE,       \* cycles of a scanline, which ends with a horizontal blank
          REARM,      \* cycles until the master flag is set again (20)
          Modes,      \* what the guest stores to the mode register
          Values,     \* what it stores to counter and target
          MaxCycles,  \* bound: cycles an instruction takes before or after its access
          MaxStores   \* bound: stores the guest makes

Bits == {"sync", "sync1", "sync2", "reset", "on_target", "on_overflow", "repeat",
         "toggle", "alt", "master", "target", "overflow"}

ASSUME TimerAssumption ==
  /\ Ids \subseteq {"tmr1", "tmr2"}
  /\ MAX \in Nat \ {0} /\ DIV \in Nat \ {0} /\ REARM \in Nat \ {0} /\ LINE \in Nat \ {0}
  /\ Modes \subseteq SUBSET (Bits \ {"master", "target", "overflow"})
  /\ Values \subseteq 0 .. MAX
  /\ MaxCycles \in Nat /\ MaxStores \in Nat

VARIABLES tmr,      \* the Timer, its time since last_update and its events
          stores,   \* how many stores were made
          odd       \* parity of the turns of the CPU loop, each of which is a step

vars == <<tmr, stores, odd>>

NoEvent == -1                    \* next_update: None, or an event that has fired
Delays == 0 .. MAX * DIV

\* Bound: the longest an idle timer goes without an update.  It exceeds every
\* prediction, so it only binds while no update event is queued.
MaxSince == MAX * DIV + 2 * MaxCycles

new(id) ==
  [id |-> id, mode |-> {}, counter |-> 0, target |-> 0, has_triggered |-> FALSE, since |-> 0,
   next_update |-> NoEvent,            \* the run_timer event next_update names
   stale |-> [d \in Delays |-> 0],     \* run_timer events next_update does not name
   rearm |-> [d \in 0 .. REARM |-> 0], \* enable_irq_master_flag events
   line |-> IF id = "tmr1" THEN LINE ELSE NoEvent,   \* the GPU's end_of_scanline event
   irq |-> FALSE]                      \* whether this step triggered Event::Irq

Init == tmr \in {new(id) : id \in Ids} /\ stores = 0 /\ odd = FALSE

-----------------------------------------------------------------------------
\* Mode.
has(s, bit) == bit \in s.mode
set(s, bit, val) == [s EXCEPT !.mode = IF val THEN @ \cup {bit} ELSE @ \ {bit}]

\* Each timer has its own second clock.  (That of timer 0, the dot clock,
\* converts times as "div8" does, by another factor.)
clock_source(s) ==
  CASE ~has(s, "alt")                   -> "system"
    [] has(s, "alt") /\ s.id = "tmr1"   -> "hblank"
    [] OTHER                            -> "div8"

\* Sync modes 0 and 3 of timer 2.
stopped(s) == s.id = "tmr2" /\ has(s, "sync") /\ (has(s, "sync1") <=> has(s, "sync2"))

time_to_ticks(s, time) ==
  CASE clock_source(s) = "system" -> time
    [] clock_source(s) = "div8"   -> time \div DIV
    [] clock_source(s) = "hblank" -> 0

ticks_to_time(s, ticks) == IF clock_source(s) = "div8" THEN ticks * DIV ELSE ticks

\* Fault: outside of toggle mode the flag is cleared for good.
Fault_trigger_irq(s) ==
  IF ~has(s, "repeat") /\ s.has_triggered THEN s
  ELSE set([s EXCEPT !.has_triggered = TRUE, !.irq = @ \/ has(s, "master")],
           "master", has(s, "toggle") /\ ~has(s, "master"))

\* Interrupts once or on every occasion; the master flag is toggled, or
\* cleared until an event sets it again.
trigger_irq(s) ==
  LET fired == [s EXCEPT !.has_triggered = TRUE, !.irq = @ \/ has(s, "master")]
  IN  IF ~has(s, "repeat") /\ s.has_triggered THEN s
      ELSE IF has(s, "toggle") THEN set(fired, "master", ~has(s, "master"))
      ELSE set([fired EXCEPT !.rearm[REARM] = @ + 1], "master", FALSE)

target_reached(s) ==
  LET reached == set([s EXCEPT !.counter = IF has(s, "reset") THEN 0 ELSE @], "target", TRUE)
  IN  IF has(s, "on_target") THEN trigger_irq(reached) ELSE reached

\* `overflowing_add` on u16; on overflow the target was passed if it was ahead.
add_to_counter(s, add) ==
  LET value == (s.counter + add) % (MAX + 1)
      moved == [s EXCEPT !.counter = value]
      hit   == IF s.target > s.counter THEN target_reached(moved) ELSE moved
      over  == IF has(hit, "on_overflow") THEN trigger_irq(hit) ELSE hit
  IN  IF s.counter + add > MAX THEN set(over, "overflow", TRUE)
      ELSE IF value >= s.target THEN target_reached(moved)
      ELSE moved

\* `run`: the ticks in portions of u16::MAX.
run(s, ticks) ==
  LET part[n \in Nat] ==     \* after n whole portions
        IF n = 0 THEN s ELSE add_to_counter(part[n - 1], MAX)
  IN  add_to_counter(part[ticks \div MAX], ticks % MAX)

update_timer(s) ==
  LET t == [s EXCEPT !.since = 0]
  IN  IF clock_source(s) = "hblank" THEN t ELSE run(t, time_to_ticks(s, s.since))

\* predict_next_irq: {} for None, or the one time.
predict_next_irq(s) ==
  LET target == IF has(s, "on_target") /\ s.counter < s.target THEN s.target ELSE MAX
      none   == \/ ~has(s, "on_overflow") /\ ~has(s, "on_target")
                \/ ~has(s, "repeat") /\ s.has_triggered
                \/ clock_source(s) = "hblank"
                \/ stopped(s)
  IN  IF none THEN {} ELSE {ticks_to_time(s, target - s.counter)}

\* Fault: the event is not moved when there is one already.
Fault_schedule_next_run(s) ==
  LET next == predict_next_irq(s)
  IN  IF next = {} \/ s.next_update # NoEvent THEN s
      ELSE [s EXCEPT !.next_update = CHOOSE time \in next : TRUE]

\* The old event is unscheduled only when a new one replaces it.
schedule_next_run(s) ==
  LET next == predict_next_irq(s)
  IN  IF next # {} THEN [s EXCEPT !.next_update = CHOOSE time \in next : TRUE]
      ELSE IF s.next_update = NoEvent THEN s
      ELSE [s EXCEPT !.stale[s.next_update] = @ + 1, !.next_update = NoEvent]

run_timer(s) == schedule_next_run(update_timer(s))

-----------------------------------------------------------------------------
\* Time passes, cycle by cycle: what is due stays due.
Later(bag, k) ==
  LET aged[n \in Nat] ==
        IF n = 0 THEN bag
        ELSE [d \in DOMAIN bag |->
                IF d = 0 THEN aged[n - 1][0] + aged[n - 1][1]
                ELSE IF d + 1 \in DOMAIN bag THEN aged[n - 1][d + 1] ELSE 0]
  IN  aged[k]

left(delay, k) == IF delay = NoEvent THEN delay ELSE IF delay <= k THEN 0 ELSE delay - k

pass(s, k) ==
  [s EXCEPT !.since = @ + k,
            !.next_update = left(@, k),
            !.line = left(@, k),
            !.stale = Later(@, k),
            !.rearm = Later(@, k)]

\* A step starts with no interrupt triggered.
start == [tmr EXCEPT !.irq = FALSE]

NothingDue == tmr.next_update # 0 /\ tmr.stale[0] = 0 /\ tmr.rearm[0] = 0 /\ tmr.line # 0

\* The CPU loop dispatches Event::Timer(run_timer) ...
RunTimer ==
  /\ \/ /\ tmr.next_update = 0
        /\ tmr' = run_timer([start EXCEPT !.next_update = NoEvent])
     \/ /\ tmr.stale[0] > 0
        /\ tmr' = run_timer([start EXCEPT !.stale[0] = @ - 1])
  /\ UNCHANGED stores /\ odd' = ~odd

\* ... and Event::Timer(enable_irq_master_flag).
EnableIrqMasterFlag ==
  /\ tmr.rearm[0] > 0
  /\ tmr' = set([start EXCEPT !.rearm[0] = @ - 1], "master", TRUE)
  /\ UNCHANGED stores /\ odd' = ~odd

\* The GPU reports a horizontal blank.
Hblank ==
  /\ tmr.line = 0
  /\ LET s == [start EXCEPT !.line = LINE]
     IN  tmr' = IF clock_source(s) = "hblank" THEN run(s, 1) ELSE s
  /\ UNCHANGED stores /\ odd' = ~odd

\* With no event due, an instruction that does not touch the timer is executed.
Instruction ==
  /\ NothingDue
  /\ \E k \in 1 .. MaxCycles : tmr.since + k <= MaxSince /\ tmr' = pass(start, k)
  /\ UNCHANGED stores /\ odd' = ~odd

\* `load`: reading the mode register resets its two "reached" bits.
load(s, reg) ==
  LET t == update_timer(s)
  IN  schedule_next_run(
        IF reg = "mode" THEN set(set(t, "target", FALSE), "overflow", FALSE) ELSE t)

\* An instruction that loads a register, j cycles after it began.
Load ==
  /\ NothingDue
  /\ \E reg \in {"counter", "mode"}, j \in 0 .. MaxCycles, k \in 1 .. MaxCycles :
       tmr' = pass(load(pass(start, j), reg), k)
  /\ UNCHANGED stores /\ odd' = ~odd

\* `store`: the mode's bits are added to those already set, and the master
\* flag is set.
store(s, reg, val) ==
  LET t == update_timer(s)
  IN  schedule_next_run(
        CASE reg = "counter" -> [t EXCEPT !.counter = val, !.has_triggered = FALSE]
          [] reg = "target"  -> [t EXCEPT !.target = val]
          [] reg = "mode"    -> set([t EXCEPT !.counter = 0, !.has_triggered = FALSE,
                                             !.mode = @ \cup val], "master", TRUE))

Store ==
  /\ NothingDue /\ stores < MaxStores
  /\ \E j \in 0 .. MaxCycles, k \in 1 .. MaxCycles :
       \/ \E val \in Values, reg \in {"counter", "target"} :
            tmr' = pass(store(pass(start, j), reg, val), k)
       \/ \E val \in Modes : tmr' = pass(store(pass(start, j), "mode", val), k)
  /\ stores' = stores + 1 /\ odd' = ~odd

Next == RunTimer \/ EnableIrqMasterFlag \/ Hblank \/ Instruction \/ Load \/ Store

\* The loop goes on: due events are dispatched, otherwise instructions run.
\* Every step is one of its turns, and there always is a next one.
LoopTurn == odd' = ~odd

Spec == Init /\ [][Next]_vars /\ WF_odd(LoopTurn)

-----------------------------------------------------------------------------

CanInterrupt == has(tmr, "on_target") \/ has(tmr, "on_overflow")

\* "Otherwise, it will be set all the time except a few cycles after an
\* interrupt" (timer.rs:180-181): outside of toggle mode a cleared master flag
\* has an event on its way that sets it, whatever stores and interrupts
\* came in between.
MasterFlagReturns ==
  CanInterrupt /\ ~has(tmr, "toggle") /\ ~has(tmr, "master") =>
    \E d \in 0 .. REARM : tmr.rearm[d] > 0

Queued == {d \in Delays : tmr.stale[d] > 0} \cup ({tmr.next_update} \ {NoEvent})

\* Whenever an interrupt is to be expected, an update is queued that comes no
\* later than the tick that causes it, through any mix of accesses, one-shot
\* interrupts and stale events: the lazily updated timer is never late.
UpdateInTime ==
  \A time \in predict_next_irq(tmr) :
    \E d \in Queued : d = 0 \/ d + tmr.since <= time

\* A timer that interrupts on its target does so again and again: once set
\* up, with its counter restarting at the target (irq_on_target, timer.rs:163),
\* however often the guest polls it.  This is for the system clock; of the
\* divided one every access loses the remainder (time_to_ticks).
TargetInterrupts ==
  (stores = MaxStores /\ {"on_target", "repeat", "reset"} \subseteq tmr.mode /\ ~stopped(tmr)
     /\ clock_source(tmr) = "system") ~> tmr.irq
=============================================================================
