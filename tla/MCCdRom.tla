------------------------------ MODULE MCCdRom ------------------------------
(* A disc of three positions. One guest waits for each command to complete, *)
(* one sends the next as soon as the last is taken.                         *)
EXTENDS CdRom

Patient == [ops |-> AllOps, waits |-> TRUE]
Hasty == [ops |-> {"set_loc", "read_n", "pause", "seekl"}, waits |-> FALSE]
TwoDrivers == {Patient, Hasty}
=============================================================================
