---------------------------- MODULE MCCmdTracker ----------------------------
(***************************************************************************)
(* Values of the constants of CmdTracker for model checking.  One tick is  *)
(* 500 ms in the runs that use the timeouts of the code (3, 5 and 2 ticks  *)
(* for 1500, 2500 and 1000 ms).                                            *)
(***************************************************************************)
EXTENDS CmdTracker, TLC

CONSTANTS s1, s2

OneSlave == {s1}
TwoSlaves == {s1, s2}
OneRoster == {{s1}}
AnyRoster == {{s1}, {s1, s2}}

\* Commands alternate between one that may run for 500 ms and one for 2 s.
ShortAndLong == [h \in Handles |-> IF h % 2 = 1 THEN 1 ELSE 4]
Short == [h \in Handles |-> 1]

AllMishaps == MishapKinds
FirstSendDrop == {"drop"}
ResendDrop == {"resenddrop"}

Symmetry == Permutations({s1, s2})
=============================================================================
