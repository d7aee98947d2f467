------------------------------- MODULE MCDma -------------------------------
(* Four words of RAM; the GPU and the ordering-table channel.               *)
EXTENDS Dma

GpuFirst == <<"gpu", "otc">>
OtcOnly == <<"otc">>

To(dir, step, mode, chop) ==
  [dir |-> dir, step |-> step, mode |-> mode, chop |-> chop, dma_chop |-> IF chop THEN 2 ELSE 0,
   cpu_chop |-> 2, enabled |-> TRUE, start |-> mode = "manual"]

Off == [To("ram", -1, "manual", FALSE) EXCEPT !.enabled = FALSE]

Table == To("ram", -1, "manual", FALSE)

SafeCtrls == [gpu |-> {To("port", 1, "list", FALSE), To("port", 1, "request", TRUE),
                       To("port", -1, "request", FALSE)},
              otc |-> {Table, Off}]

TwoBlocks == {<<3, 1>>, <<1, 2>>}

Irq(force, enabled, channels, flags) ==
  [force |-> force, enabled |-> enabled, channels |-> channels, flags |-> flags]
SomeIrqs == {Irq(FALSE, TRUE, Ports, {}), Irq(FALSE, TRUE, {}, {"gpu"}), Irq(TRUE, FALSE, Ports, {})}
NoIrqs == {}

\* What the theorems about whole transfers and tables assume of the guest.
ASSUME GuestIsDisciplined == ManualAtOnce /\ TablesOnly
=============================================================================
