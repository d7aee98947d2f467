---------------------------- MODULE CardProtocol ----------------------------
(***************************************************************************)
(* The data of a memory card (io_port/memcard.rs): its flash and where it  *)
(* is in a sequence of transfers, as one record, with `transfer`, the      *)
(* answer to one byte.  The flash is in sectors; a byte is a number.       *)
(***************************************************************************)
EXTENDS Integers, Functions

CONSTANTS SECTOR_SIZE,
          BYTE,             \* 2^8
          Sectors,          \* how many sectors the flash has (0x400)
          ByteXor(_, _),    \* exclusive or of two bytes
          OverflowChecks    \* the build's: subtraction below zero panics, or wraps

ASSUME CardAssumption ==
  /\ SECTOR_SIZE \in Nat \ {0, 1} /\ BYTE \in Nat \ {0} /\ Sectors \in Nat \ {0}
  /\ OverflowChecks \in BOOLEAN

Offset == 0 .. SECTOR_SIZE - 1
WRAPPED == SECTOR_SIZE      \* usize::MAX, and every other offset past the sector
Erased == [s \in 0 .. Sectors - 1 |-> [o \in Offset |-> 0]]

\* The steps of a sequence, in the order of their states.
Steps ==
  [read  |-> <<"CardId1", "CardId2", "AddrHi", "AddrLo", "Ack1", "Ack2",
               "ConfirmAddrHi", "ConfirmAddrLo", "Data", "Checksum", "End">>,
   write |-> <<"CardId1", "CardId2", "AddrHi", "AddrLo", "Data", "Checksum",
               "Ack1", "Ack2", "End">>,
   id    |-> <<"CardId1", "CardId2", "Ack1", "Ack2", "Rest1", "Rest2", "Rest3", "Rest4">>]

Idle == [seq |-> "idle", step |-> 0, offset |-> 0]
Command == [seq |-> "command", step |-> 0, offset |-> 0]
Panicked == [seq |-> "panicked", step |-> 0, offset |-> 0]

\* A card with these contents, as made by `new`.  Formatting is abstracted
\* to the contents it starts from.
new_card(flash) ==
  [flash |-> flash, state |-> Idle, addr |-> 0, last_byte |-> 0, has_written |-> FALSE,
   changed |-> FALSE, write_sector |-> [o \in Offset |-> 0], error |-> FALSE]

reset_card(c) == [c EXCEPT !.state = Idle, !.addr = 0, !.last_byte = 0]

-----------------------------------------------------------------------------
checksum(data) == FoldFunction(ByteXor, 0, data)
flags(c) == IF c.has_written THEN 0 ELSE 8
addr_hi(c) == c.addr \div BYTE
addr_lo(c) == c.addr % BYTE
set_hi(c, val) == [c EXCEPT !.addr = val * BYTE + (@ % BYTE)]
set_lo(c, val) == [c EXCEPT !.addr = (@ \div BYTE) * BYTE + val]

at(c, name) ==
  c.state.seq \in DOMAIN Steps /\ Steps[c.state.seq][c.state.step] = name

answer(c, out, ack) == [card |-> c, out |-> out, ack |-> ack]

\* Most answers are followed by the next step of the sequence ...
next(c) == [c EXCEPT !.state.step = @ + 1, !.state.offset = 0]
step(c, val, out) == answer([next(c) EXCEPT !.last_byte = val], out, TRUE)

\* ... those that end it are early returns, which leave last_byte.
end(c, out, ack) == answer([c EXCEPT !.state = Idle], out, ack)

\* `Command`: the byte names the sequence it begins.
begin(c, val, seq) ==
  answer([c EXCEPT !.state = [seq |-> seq, step |-> 1, offset |-> 0], !.last_byte = val],
         flags(c), TRUE)

command(c, val) ==
  CASE val = 82 -> begin(c, val, "read")
    [] val = 83 -> begin(c, val, "id")
    [] val = 87 -> begin(c, val, "write")
    [] OTHER    -> end(c, flags(c), FALSE)

\* `Data(offset)` of a read: the offset goes down, from zero.
read_data(c, val) ==
  LET wrapped == [c EXCEPT !.state.offset = IF @ = 0 THEN WRAPPED ELSE @ - 1,
                           !.last_byte = val]
  IN  IF c.addr >= Sectors \/ (OverflowChecks /\ c.state.offset = 0)
      THEN answer([c EXCEPT !.state = Panicked], 0, FALSE)
      ELSE IF c.state.offset < SECTOR_SIZE - 1
      THEN answer(wrapped, c.flash[c.addr][c.state.offset], TRUE)
      ELSE step(c, val, c.flash[c.addr][SECTOR_SIZE - 1])

\* Fault: the bytes go to the flash at once.
Fault_write_through(c, val) ==
  LET stored == [c EXCEPT !.write_sector[c.state.offset] = val, !.has_written = TRUE,
                          !.flash[c.addr % Sectors][c.state.offset] = val]
  IN  IF c.state.offset < SECTOR_SIZE - 1
      THEN answer([stored EXCEPT !.state.offset = @ + 1, !.last_byte = val], c.last_byte, TRUE)
      ELSE step(stored, val, c.last_byte)

\* `Data(offset)` of a write fills write_sector; the last byte does not set
\* has_written.
write_data(c, val) ==
  LET stored == [c EXCEPT !.write_sector[c.state.offset] = val,
                          !.has_written = @ \/ c.state.offset < SECTOR_SIZE - 1]
  IN  IF c.state.offset < SECTOR_SIZE - 1
      THEN answer([stored EXCEPT !.state.offset = @ + 1, !.last_byte = val], c.last_byte, TRUE)
      ELSE step(stored, val, c.last_byte)

\* `save` opens the file for reading only: emptying it fails, and the error
\* is kept for the front end.
save(c) == [c EXCEPT !.error = TRUE]

\* Fault: only the last write decides whether the card was changed.
Fault_write_end(c) ==
  LET copy == [c EXCEPT !.flash[c.addr] = c.write_sector,
                        !.changed = c.flash[c.addr] # c.write_sector]
  IN  IF c.addr >= Sectors THEN end(c, 255, TRUE) ELSE end(save(copy), 71, TRUE)

\* `End` of a write: the sector is copied whatever its checksum is.
write_end(c) ==
  LET sum  == ByteXor(ByteXor(checksum(c.write_sector), addr_hi(c)), addr_lo(c))
      copy == [c EXCEPT !.flash[c.addr] = c.write_sector,
                        !.changed = @ \/ c.flash[c.addr] # c.write_sector]
  IN  IF c.addr >= Sectors THEN end(c, 255, TRUE)
      ELSE end(save(copy), IF sum = 0 THEN 71 ELSE 78, TRUE)     \* 'G' or 'N'

read_checksum(c) ==
  ByteXor(ByteXor(checksum([o \in Offset \ {SECTOR_SIZE - 1} |-> c.flash[c.addr][o]]), addr_hi(c)), addr_lo(c))

\* One byte: what the card becomes, what it answers and whether it
\* acknowledges.
card_transfer(c, val) ==
  LET seq == c.state.seq
  IN  CASE seq = "idle" ->
             IF val = 129 THEN answer([c EXCEPT !.state = Command, !.last_byte = val], 255, TRUE)
             ELSE answer([c EXCEPT !.last_byte = val], 255, FALSE)
        [] seq = "command"  -> command(c, val)
        [] at(c, "CardId1") -> step(c, val, 90)
        [] at(c, "CardId2") -> step(c, val, 93)
        [] at(c, "AddrHi")  -> step(set_hi(c, val), val, 0)
        [] at(c, "AddrLo")  -> step(set_lo(c, val), val, c.last_byte)
        [] at(c, "Ack1")    -> step(c, val, 92)
        [] at(c, "Ack2")    -> step(c, val, 93)
        [] at(c, "ConfirmAddrHi") -> step(c, val, addr_hi(c))
        [] at(c, "ConfirmAddrLo") -> step(c, val, addr_lo(c))
        [] at(c, "Data") /\ seq = "read"  -> read_data(c, val)
        [] at(c, "Data") /\ seq = "write" -> write_data(c, val)
        [] at(c, "Checksum") -> step(c, val, IF seq = "read" THEN read_checksum(c) ELSE c.last_byte)
        [] at(c, "End") -> IF seq = "read" THEN end(c, 71, TRUE) ELSE write_end(c)
        [] at(c, "Rest1") -> step(c, val, 4)
        [] at(c, "Rest2") \/ at(c, "Rest3") -> step(c, val, 0)
        [] at(c, "Rest4") -> end(c, 128, TRUE)
=============================================================================
