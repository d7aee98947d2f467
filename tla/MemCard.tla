------------------------------ MODULE MemCard ------------------------------
(***************************************************************************)
(* A memory card in its slot, and the file behind it.  The guest sends it  *)
(* bytes (the I/O port calls `transfer` for each) and may deselect it      *)
(* within a sequence; the host may take the card out and load it again     *)
(* from its file, as it does when the emulator is started.                 *)
(***************************************************************************)
EXTENDS CardProtocol, Sequences

CONSTANTS Data,      \* the bytes of data and checksums, and of steps that ignore them
          Hi, Lo,    \* the bytes of an address
          MaxWrites  \* bound: writes that reach their end

ASSUME MemCardAssumption ==
  /\ Data \subseteq 0 .. BYTE - 1 /\ Hi \subseteq 0 .. BYTE - 1 /\ Lo \subseteq 0 .. BYTE - 1
  /\ MaxWrites \in Nat

VARIABLES card,
          file,    \* the contents of the file the card was loaded from
          sender   \* what the guest knows: the data of its sequence, and its writes

card_vars == <<card, file, sender>>

CardInit ==
  /\ file = Erased /\ card = new_card(Erased)
  /\ sender = [data |-> <<>>,        \* bytes sent or received as data in this sequence
               sector |-> 0,         \* the sector of the sequence
               written |-> Erased,   \* the sectors as of the guest's finished writes
               writes |-> 0]

\* The bytes that tell something at the card's state.
Inputs ==
  CASE card.state = Idle    -> {129, 0}
    [] card.state = Command -> {82, 83, 87, 0}
    [] at(card, "AddrHi")   -> Hi
    [] at(card, "AddrLo")   -> Lo
    [] OTHER                -> Data

\* What the guest sees of the transfer of val, answered by out.
Watch(val, out) ==
  LET seq  == card.state.seq
      byte == IF seq = "read" THEN out ELSE val
      data == sender.data
      whole == [o \in Offset |-> IF o < Len(data) THEN data[o + 1] ELSE 0]
      valid == sender.sector \in DOMAIN sender.written
  IN  CASE card.state = Command   -> [sender EXCEPT !.data = <<>>]
        [] at(card, "AddrHi") -> [sender EXCEPT !.sector = val]
        [] at(card, "AddrLo") -> [sender EXCEPT !.sector = @ * BYTE + val]
        [] at(card, "Data")   -> [sender EXCEPT !.data = Append(@, byte)]
        [] at(card, "End") /\ seq = "write" ->
             [sender EXCEPT !.written = IF valid THEN [@ EXCEPT ![sender.sector] = whole] ELSE @,
                            !.writes = @ + 1, !.data = <<>>, !.sector = 0]
        [] at(card, "End") /\ seq = "read" ->
             [sender EXCEPT !.data = <<>>, !.sector = 0]
        [] OTHER -> sender

Transfer ==
  /\ card.state # Panicked
  /\ \E val \in Inputs :
       LET a == card_transfer(card, val)
       IN  /\ card' = a.card
           /\ sender' = Watch(val, a.out)
  /\ sender'.writes <= MaxWrites
  /\ UNCHANGED file

\* MemCards::reset_transfer_state, from the I/O port.
Deselect ==
  /\ card.state # Panicked
  /\ card' = reset_card(card)
  /\ sender' = [sender EXCEPT !.data = <<>>, !.sector = 0]
  /\ UNCHANGED file

\* The host loads the card from its file (MemCard::load_from).
LoadFrom ==
  /\ card' = new_card(file)
  /\ sender' = [sender EXCEPT !.data = <<>>, !.sector = 0, !.written = file]
  /\ UNCHANGED file

CardNext == Transfer \/ Deselect \/ LoadFrom

CardSpec == CardInit /\ [][CardNext]_card_vars

-----------------------------------------------------------------------------
(* The flash holds whole sectors: each one as the guest sent it in the last *)
(* write sequence that came to its end, whatever sequences were broken off  *)
(* on the way (memcard.rs:56-61 relies on it to save at any time), and the  *)
(* card says it was changed when it differs from the file it was loaded     *)
(* from, which is when the front end must save it.                          *)
FlashIsWhole ==
  /\ card.flash = sender.written
  /\ card.flash # file => card.changed
=============================================================================
