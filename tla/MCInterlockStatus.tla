-------------------------- MODULE MCInterlockStatus --------------------------
(***************************************************************************)
(* The board of MCInterlocks and a host: a door that is not debounced and  *)
(* a program of the registry.                                              *)
(***************************************************************************)
EXTENDS MCInterlocks, InterlockStatus

Latch == [watch |-> door :> [Contact EXCEPT !.depth = 0], ok |-> power :> 1]
DoorPrograms == {Latch, Noop}
NoPrograms == {}
=============================================================================
