----------------------------- MODULE MCGpuPort -----------------------------
(* Commands of one to three words and a FIFO of five.                       *)
EXTENDS GpuPort

Lengths == [nop |-> 1, mode |-> 1, rect |-> 2, poly |-> 3, copy |-> 3, read |-> 3]
=============================================================================
