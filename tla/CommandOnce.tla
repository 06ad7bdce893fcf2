---------------------------- MODULE CommandOnce ----------------------------
(***************************************************************************)
(* What the bus promises about one transmission of a command, with no      *)
(* wire, poll or interrupt in sight: the slave runs it at most once, and   *)
(* what the host is told (taken, refused, answered) is true and stays so.  *)
(***************************************************************************)
EXTENDS Integers

CONSTANT Ids
VARIABLES ran,      \* per transmission: how often it ran
          acked,    \* transmissions the host was told a slave took
          nacked,   \* transmissions the host was told a slave refused
          replied   \* per transmission: how many replies the host got

onceVars == <<ran, acked, nacked, replied>>

OnceInit ==
  /\ ran = [i \in Ids |-> 0] /\ replied = [i \in Ids |-> 0]
  /\ acked = {} /\ nacked = {}

Run(i) ==
  /\ ran[i] = 0 /\ i \notin nacked
  /\ ran' = [ran EXCEPT ![i] = 1]
  /\ UNCHANGED <<acked, nacked, replied>>

TellTaken(i) ==
  /\ i \notin acked \cup nacked
  /\ acked' = acked \cup {i}
  /\ UNCHANGED <<ran, nacked, replied>>

TellRefused(i) ==
  /\ ran[i] = 0 /\ i \notin acked \cup nacked
  /\ nacked' = nacked \cup {i}
  /\ UNCHANGED <<ran, acked, replied>>

TellReply(i) ==
  /\ ran[i] = 1 /\ replied[i] = 0
  /\ replied' = [replied EXCEPT ![i] = 1]
  /\ UNCHANGED <<ran, acked, nacked>>

OnceNext == \E i \in Ids : Run(i) \/ TellTaken(i) \/ TellRefused(i) \/ TellReply(i)

OnceSpec == OnceInit /\ [][OnceNext]_onceVars
=============================================================================
