-------------------------------- MODULE Fifo --------------------------------
(***************************************************************************)
(* The ring buffer of fifo.rs, used by the SPU and the CD-ROM drive.  Head *)
(* and tail keep four bits and no more, so that a buffer of FifoSize       *)
(* entries looks like an empty one.                                        *)
(***************************************************************************)
EXTENDS Integers, Sequences

FifoSize == 16

NewFifo(default) == [data |-> [n \in 0 .. FifoSize - 1 |-> default], head |-> 0, tail |-> 0]

len(f) == (f.head - f.tail) % FifoSize

\* Fault: nothing is dropped.
Fault_clear(f) == f

clear(f) == [f EXCEPT !.head = f.tail]

push(f, val) == [f EXCEPT !.data[f.head] = val, !.head = (@ + 1) % FifoSize]

pop_n(f, n) == [f EXCEPT !.tail = (@ + n) % FifoSize]

at(f, n) == f.data[(f.tail + n) % FifoSize]
=============================================================================
