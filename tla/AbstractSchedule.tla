-------------------------- MODULE AbstractSchedule --------------------------
(***************************************************************************)
(* What the rest of the emulator may assume of the scheduler: a set of     *)
(* deadlines and a clock that never runs backwards.  Asking for a pending  *)
(* event yields a due one that no other precedes, and yields none only if  *)
(* none is due.  There is no cached time and no heap in it.                *)
(***************************************************************************)
EXTENDS Integers, Option

VARIABLES now,      \* the time
          queue,    \* the pending entries: records with at least an id and a ready time
          next_id,  \* the next id to hand out
          out       \* the answer to the last request for a pending event

vars == <<now, queue, next_id, out>>

Init == now = 0 /\ queue = {} /\ next_id = 0 /\ out = None

\* Entries are added under an id that was never used before.
Add == \E e \in queue' :
  /\ e.id = next_id
  /\ queue' = queue \cup {e}
  /\ next_id' = next_id + 1
  /\ UNCHANGED <<now, out>>

\* An entry is dropped, or replaced by one with the same id.
Change == \E e \in queue :
  /\ \/ queue' = queue \ {e}
     \/ \E f \in queue' : f.id = e.id /\ queue' = (queue \ {e}) \cup {f}
  /\ UNCHANGED <<now, next_id, out>>

\* An entry runs early: under a new id, and it may stay under the old one.
Hasten == \E e \in queue, f \in queue' :
  /\ f.id = next_id
  /\ \/ queue' = (queue \ {e}) \cup {f}
     \/ \E g \in queue' : g.id = e.id /\ queue' = (queue \ {e}) \cup {f, g}
  /\ next_id' = next_id + 1
  /\ UNCHANGED <<now, out>>

Due(e) == e.ready <= now

Deliver == \E e \in queue :
  /\ Due(e)
  /\ \A f \in queue : e.ready <= f.ready
  /\ out' = Some(e)
  /\ \/ queue' = queue \ {e}
     \/ \E f \in queue' : f.id = e.id /\ f.ready > e.ready /\ queue' = (queue \ {e}) \cup {f}
  /\ UNCHANGED <<now, next_id>>

Refuse ==
  /\ \A e \in queue : ~Due(e)
  /\ out' = None
  /\ UNCHANGED <<now, queue, next_id>>

Pass == now' \in Nat /\ now' >= now /\ UNCHANGED <<queue, next_id, out>>

Next == Add \/ Change \/ Hasten \/ Deliver \/ Refuse \/ Pass

Spec == Init /\ [][Next]_vars
=============================================================================
