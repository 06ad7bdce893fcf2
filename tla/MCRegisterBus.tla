--------------------------- MODULE MCRegisterBus ---------------------------
(* Small values for model checking RegisterBus. *)
EXTENDS RegisterBus

CONSTANTS s1, s2

OneSlave == {s1}
TwoSlaves == {s1, s2}
NoSlaves == {}
OneSlot == {0}
SecondSlave == {s2}
AllTimed == {TRUE}

=============================================================================
