------------------------------ MODULE MCIoPort ------------------------------
(***************************************************************************)
(* A pad in each slot and a card in the first.  The guest's bytes begin    *)
(* the sequences of both and the card's read sequence, at addresses past   *)
(* the end of the flash: a read there panics.                              *)
(***************************************************************************)
EXTENDS IoPort, Bitwise

XorByte(a, b) == a ^^ b
On == {"select", "tx_enabled"}
AllControls == {{}, {"reset"}, {"select", "ack_irq_enabled"}, On, On \cup {"ack_irq_enabled"}, On \cup {"slot2"}}
=============================================================================
