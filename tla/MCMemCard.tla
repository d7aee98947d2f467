----------------------------- MODULE MCMemCard -----------------------------
(* Two sectors of three bytes; address bytes within and past the flash.     *)
EXTENDS MemCard, Bitwise

XorByte(a, b) == a ^^ b
=============================================================================
