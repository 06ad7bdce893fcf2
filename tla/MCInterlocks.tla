---------------------------- MODULE MCInterlocks ----------------------------
(***************************************************************************)
(* A small board for Interlocks: a door contact debounced over two ticks,  *)
(* a thermometer with a dead band, a contactor both programs may switch    *)
(* off, and programs that want a pin another one has.                      *)
(***************************************************************************)
EXTENDS Interlocks, TLC

CONSTANTS door, heat, power

Contact == [depth |-> 2, op |-> "eq", thr |-> 1, hyst |-> 0]
Below == [depth |-> 0, op |-> "lt", thr |-> 1, hyst |-> 1]

Guard == [watch |-> door :> Contact, ok |-> power :> 1]
Thermostat == [watch |-> heat :> Below, ok |-> power :> 1]
Inverted == [watch |-> heat :> Below, ok |-> power :> 0]
Noop == [watch |-> <<>>, ok |-> <<>>]
Stuck == [watch |-> heat :> [depth |-> 0, op |-> "ge", thr |-> 0, hyst |-> 0], ok |-> power :> 1]

BoardPins == {door, heat, power}
BoardPrograms == {Guard, Thermostat, Inverted, Noop, Stuck}
Registry == {Noop}
Hanging == {Stuck}
Thermometers == {heat}
BoardLevels == door :> {0, 1} @@ heat :> 0..2 @@ power :> {0}
=============================================================================
