------------------------------- MODULE ICache -------------------------------
(***************************************************************************)
(* Fetching and executing one instruction: `Cpu::execute_instruction` of   *)
(* cpu/mod.rs, with the instruction cache.                                 *)
(*                                                                         *)
(* A line holds the words of an aligned block from word `first` on: a miss *)
(* fills the line from the missing word to its end.  The line is copied    *)
(* before the instruction runs and, on a miss, written back after it.      *)
(***************************************************************************)
EXTENDS Instructions

\* The cache at startup: tag zero, every word valid, none of them loaded.
Startup == Word - 1
ICacheLine_valid == [tag |-> 0, first |-> 0, data |-> [w \in 0 .. LineWords - 1 |-> Startup]]

set_tag(line, addr) == [line EXCEPT !.tag = tag_of(addr), !.first = word_idx(addr)]

\* `Cpu::load_code`, without the scratchpad: a word, or Unmapped.
load_code(m, addr) == bus_load(m.mem, m.ctrl, 4, regioned_addr(addr))

\* Fault: only the tag is compared.
Fault_hit(line, addr) == line.tag = tag_of(addr)

hit(line, addr) == line.tag = tag_of(addr) /\ line.first <= word_idx(addr)

\* Words are loaded in order up to the first that fails.
fetch_cachline(m, line, addr) ==
  LET w == word_idx(addr)
      from(j) == load_code(m, addr + 4 * (j - w))
      loaded(j) == addr % 4 = 0 /\ \A k \in w .. j : from(k) # Unmapped
  IN  [exc  |-> IF addr % 4 # 0 THEN "AddressLoadError"
                ELSE IF loaded(LineWords - 1) THEN "none" ELSE "BusInstructionError",
       line |-> [line EXCEPT !.data = [j \in DOMAIN @ |-> IF j >= w /\ loaded(j) THEN from(j) ELSE @[j]]]]

\* What is fetched at addr: the exception, the word, whether a line was filled,
\* and the line.
fetch(m, addr) ==
  LET line == m.icache[line_idx(addr)]  f == fetch_cachline(m, line, addr)
  IN  CASE addr_cached(addr) /\ icache_enabled(m.ctrl) /\ hit(line, addr) ->
             [exc |-> "none", word |-> line.data[word_idx(addr)], miss |-> FALSE, line |-> line]
        [] addr_cached(addr) /\ icache_enabled(m.ctrl) /\ ~hit(line, addr) ->
             [exc |-> f.exc, word |-> f.line.data[word_idx(addr)], miss |-> TRUE, line |-> f.line]
        [] OTHER ->
             [exc |-> IF addr % 4 # 0 THEN "AddressLoadError"
                      ELSE IF load_code(m, addr) = Unmapped THEN "BusInstructionError" ELSE "none",
              word |-> load_code(m, addr), miss |-> FALSE, line |-> line]

fetch_failed(m, addr, exc) ==
  throw_exception(IF exc = "AddressLoadError" THEN [m EXCEPT !.cop0.bad = addr] ELSE m, exc)

\* One instruction, where the fetched word stands for the instruction i.
execute_instruction(m, i) ==
  LET n == next_pc(m)  addr == n.last_pc  f == fetch(n, addr)
      after == IF f.exc = "none" THEN exec(n, i) ELSE fetch_failed(n, addr, f.exc)
  IN  IF f.miss THEN [after EXCEPT !.icache[line_idx(addr)] = set_tag(f.line, addr)] ELSE after
=============================================================================
