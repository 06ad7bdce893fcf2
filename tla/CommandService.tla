--------------------------- MODULE CommandService ---------------------------
(***************************************************************************)
(* What the bus controller promises a client about the commands it submits *)
(* to the slaves of one RS-485 bus, with no demultiplexer, retry, timer or *)
(* link in sight: a command that was accepted (its handle was returned)    *)
(* waits its turn behind the earlier commands of the same slave and is     *)
(* completed exactly once, in that order.                                  *)
(*                                                                         *)
(* CmdTracker implements this specification, as the run tracker_safety     *)
(* checks.                                                                 *)
(***************************************************************************)
EXTENDS Integers, Sequences

CONSTANTS Slaves,      \* bus addresses a roster may name
          QueueDepth,  \* commands waiting per slave beside the one in flight
          MaxHandle    \* bound on the number of commands submitted

VARIABLES nextHandle,  \* the handle the next accepted command gets
          waiting,     \* per slave: accepted commands, oldest first
          completed    \* per slave: completed commands, in completion order

serviceVars == <<nextHandle, waiting, completed>>

ServiceInit ==
  /\ nextHandle = 1
  /\ waiting = [a \in Slaves |-> <<>>]
  /\ completed = [a \in Slaves |-> <<>>]

\* The oldest command of every slave in D is completed.
HeadsCompleted(D, w) ==
  /\ \A a \in D : w[a] # <<>>
  /\ waiting' = [a \in Slaves |-> IF a \in D THEN Tail(w[a]) ELSE w[a]]
  /\ completed' = [a \in Slaves |-> IF a \in D THEN Append(completed[a], Head(w[a]))
                                               ELSE completed[a]]

\* One command is accepted at slave a.  Transmitting it may discover that the
\* link is gone, which completes the oldest command of other slaves (D).
Accept(a, D) ==
  /\ nextHandle <= MaxHandle
  /\ Len(waiting[a]) <= QueueDepth
  /\ nextHandle' = nextHandle + 1
  /\ HeadsCompleted(D, [waiting EXCEPT ![a] = Append(@, nextHandle)])

\* Replies, timeouts, refusals and lost links complete oldest commands only.
Complete(D) ==
  /\ HeadsCompleted(D, waiting)
  /\ UNCHANGED nextHandle

\* A new roster completes everything that waits, in order.
AbortAll ==
  /\ completed' = [a \in Slaves |-> completed[a] \o waiting[a]]
  /\ waiting' = [a \in Slaves |-> <<>>]
  /\ UNCHANGED nextHandle

ServiceNext ==
  \/ \E a \in Slaves, D \in SUBSET Slaves : Accept(a, D)
  \/ \E D \in SUBSET Slaves : Complete(D)
  \/ AbortAll

ServiceSpec == ServiceInit /\ [][ServiceNext]_serviceVars
=============================================================================
