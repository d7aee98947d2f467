---------------------------- MODULE PadProtocol ----------------------------
(***************************************************************************)
(* The data of a digital game pad (io_port/pad.rs) and its answer to one   *)
(* byte.  A pad holds the buttons it reports as pressed, by bit number.    *)
(***************************************************************************)
EXTENDS Integers, FiniteSetsExt

Buttons == 0 .. 15
L3 == 1
R3 == 2

\* Its states are Idle, Ready, IdHigh, ButtonsLow and ButtonsHigh.
new_pad == [state |-> "Idle", buttons |-> {}]

reset_pad(p) == [p EXCEPT !.state = "Idle"]

\* Eight buttons as a byte: a pressed one is a zero.
button_byte(p, half) ==
  255 - MapThenSumSet(LAMBDA b : 2 ^ (b % 8), {b \in p.buttons : b \div 8 = half})

\* PadKind::set_button sets the bit in the copy that button_state returns.
set_button(p, button, pressed) ==
  LET copy == IF pressed THEN p.buttons \cup {button} ELSE p.buttons \ {button}
  IN  p

pad_answer(p, state, out, ack) ==
  [pad |-> [p EXCEPT !.state = state], out |-> out, ack |-> ack]

\* `transfer`: the next state, the answer and whether it acknowledges.
pad_transfer(p, val) ==
  CASE p.state = "Idle" /\ val = 1   -> pad_answer(p, "Ready", 255, TRUE)
    [] p.state = "Ready" /\ val = 66 -> pad_answer(p, "IdHigh", 65, TRUE)
    [] p.state = "IdHigh"            -> pad_answer(p, "ButtonsLow", 90, TRUE)
    [] p.state = "ButtonsLow" ->
         LET q == [p EXCEPT !.buttons = @ \ {L3, R3}]
         IN  pad_answer(q, "ButtonsHigh", button_byte(q, 0), TRUE)
    [] p.state = "ButtonsHigh"       -> pad_answer(p, "Idle", button_byte(p, 1), FALSE)
    [] OTHER                         -> pad_answer(p, p.state, 255, FALSE)
=============================================================================
