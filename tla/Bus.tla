-------------------------------- MODULE Bus --------------------------------
(***************************************************************************)
(* The memory side of the bus (bus/mod.rs, bus/raw.rs, bus/scratchpad.rs)  *)
(* seen from the CPU: regions, RAM, scratchpad and the cache control       *)
(* register.  Device registers have modules of their own.                  *)
(*                                                                         *)
(* The three top bits of an address select its region, as in the machine;  *)
(* below them RAM starts at 0, the scratchpad follows it, and the cache    *)
(* control register is the last word of the last region.                   *)
(***************************************************************************)
EXTENDS Words

CONSTANTS RamSize, ScratchSize

\* A word of address space is eight regions of whole words.
ASSUME BusAssumption ==
  /\ Word % 8 = 0 /\ (Word \div 8) % 4 = 0
  /\ RamSize \in Nat /\ RamSize % 4 = 0
  /\ ScratchSize \in Nat /\ ScratchSize % 4 = 0
  /\ RamSize + ScratchSize <= Word \div 8

Ram == 0 .. RamSize - 1
ScratchPad == RamSize .. RamSize + ScratchSize - 1
CacheCtrl == Word - 4 .. Word - 1

Region(addr) == addr \div (Word \div 8)

\* Regions 0 to 4 (KUSEG and KSEG0) are cached.
addr_cached(addr) == Region(addr) <= 4

\* KSEG0 loses its top bit, KSEG1 its top three.
regioned_addr(addr) ==
  CASE Region(addr) = 4 -> addr % (Word \div 2)
    [] Region(addr) = 5 -> addr % (Word \div 8)
    [] OTHER            -> addr

is_aligned_to(width, addr) == addr % width = 0

\* Bits of the cache control register: tag test, and the cache itself.
tag_test_enabled(ctrl) == bit(ctrl, 2) = 1
icache_enabled(ctrl) == bit(ctrl, 4) = 1

Unmapped == -1

\* The `width` bytes from addr, least significant first; `mem` covers the RAM
\* and the scratchpad, which is there for data and not for code.
load_unchecked(mem, width, addr) == lanes(LAMBDA n : IF n < width THEN mem[addr + n] ELSE 0)
store_unchecked(mem, width, addr, val) ==
  [a \in DOMAIN mem |-> IF a \in addr .. addr + width - 1 THEN lane(val, a - addr) ELSE mem[a]]

\* `Bus::load` at a regioned address.
bus_load(mem, ctrl, width, addr) ==
  CASE addr \in Ram       -> load_unchecked(mem, width, addr)
    [] addr \in CacheCtrl -> ctrl % Byte ^ width
    [] OTHER              -> Unmapped

\* `Bus::store`: where a regioned address is stored to.
bus_target(addr) ==
  CASE addr \in Ram \cup ScratchPad -> "mem"
    [] addr \in CacheCtrl           -> "ctrl"
    [] OTHER                        -> "none"
=============================================================================
