-------------------------------- MODULE Msf --------------------------------
(***************************************************************************)
(* Positions on a disc: minutes, seconds and frames, two decimal digits    *)
(* each in a byte (splst_util: bcd.rs, msf.rs).  A value of an Option is   *)
(* None or Some(x).                                                        *)
(***************************************************************************)
EXTENDS Integers, Option

\* `Bcd::from_binary`; 0x99 where 99 is meant, so that 153 is the greatest number.
bcd_from_binary(n) == IF n > 153 THEN None ELSE Some((n \div 10) * 16 + (n % 10))

Bcd == {(n \div 10) * 16 + (n % 10) : n \in 0 .. 153}

as_binary(bcd) == (bcd \div 16) * 10 + (bcd % 16)

bcd_add(a, b) == The(bcd_from_binary(as_binary(a) + as_binary(b)))

MsfOf(min, sec, frame) == [min |-> min, sec |-> sec, frame |-> frame]

\* The minutes are cut to a byte.
from_sector(s) ==
  LET min == bcd_from_binary((s \div 4500) % 256)
      of(n) == The(bcd_from_binary(n))
  IN  IF min = None THEN None
      ELSE Some(MsfOf(The(min), of((s % 4500) \div 75), of(s % 75)))

sector(msf) == 4500 * as_binary(msf.min) + 75 * as_binary(msf.sec) + as_binary(msf.frame)

checked_add(a, b) == from_sector(sector(a) + sector(b))

\* Fault: the last frame of a second is taken for 75.
Fault_next_sector(msf) ==
  IF as_binary(msf.frame) < 75 THEN Some([msf EXCEPT !.frame = bcd_add(@, 1)])
  ELSE IF as_binary(msf.sec) < 59 THEN Some(MsfOf(msf.min, bcd_add(msf.sec, 1), 0))
  ELSE IF as_binary(msf.min) < 99 THEN Some(MsfOf(bcd_add(msf.min, 1), 0, 0))
  ELSE None

next_sector(msf) ==
  IF as_binary(msf.frame) < 74 THEN Some([msf EXCEPT !.frame = bcd_add(@, 1)])
  ELSE IF as_binary(msf.sec) < 59 THEN Some(MsfOf(msf.min, bcd_add(msf.sec, 1), 0))
  ELSE IF as_binary(msf.min) < 99 THEN Some(MsfOf(bcd_add(msf.min, 1), 0, 0))
  ELSE None
=============================================================================
