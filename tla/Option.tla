------------------------------- MODULE Option -------------------------------
(* Option<T>: the set of its values, of which there is one or none.        *)
None == {}
Some(x) == {x}
The(option) == CHOOSE x \in option : TRUE
=============================================================================
