----------------------------- MODULE SyncDongle -----------------------------
(***************************************************************************)
(* The dongle's side of the four-layer sync ladder: the register_dongle_v2 *)
(* chain of the firmware, its queue of shell payloads and its detection of *)
(* a host that opens the port again.  A frame is drained and dispatched in *)
(* one step: the engine's event queue keeps the order.  OP_NAK, which the  *)
(* host ignores, is left out; the dongle is commissioned.                  *)
(***************************************************************************)
EXTENDS SyncWire

VARIABLE dongle

Boot == [state |-> "boot",   \* dongle_state
         roster |-> {},      \* bus_roster.c: the registered slaves
         shell |-> <<>>,     \* g_shell_pending
         seen |-> FALSE,     \* prev_cdc_connected
         dropped |-> FALSE]  \* saw_disconnect

DongleType ==
  dongle \in [state : {"boot", "l1", "op"}, roster : SUBSET Slaves,
              shell : Seq(ShellFrame), seen : BOOLEAN, dropped : BOOLEAN]

DongleInit == dongle = Boot

\* frame_encode_s2m: the frame joins the ring, or the ring is full and it is
\* gone (every caller here discards the result).
Encode(f) ==
  \/ to_host' = Append(to_host, f) /\ NoMishap
  \/ Mishap("full") /\ UNCHANGED to_host

\* The chain's periodic frame, about once a second; few are on their way or,
\* answered, wait for the dongle's next tick.
Waiting(queue, kind) == Cardinality({i \in DOMAIN queue : queue[i].kind = kind})
Beat ==
  \E kind \in {"register", "heartbeat"} :
    /\ dongle.state = (IF kind = "register" THEN "boot" ELSE "op")
    /\ Waiting(to_host, kind) + Waiting(to_dongle, "ack") < MaxBeats
    /\ Encode(Bare(kind))
    /\ UNCHANGED <<dongle, line, to_dongle>>

\* The main loop compares the DTR line with what it saw last; a second rise
\* sends EV_HOST_REATTACH, which handle_internal_events turns into BOOT.
Edge ==
  /\ line # dongle.seen
  /\ dongle' = IF ~line THEN [dongle EXCEPT !.seen = FALSE, !.dropped = TRUE]
               ELSE IF dongle.dropped
                      THEN [dongle EXCEPT !.seen = TRUE, !.dropped = FALSE, !.state = "boot"]
                      ELSE [dongle EXCEPT !.seen = TRUE]
  /\ UNCHANGED wireVars
-----------------------------------------------------------------------------
\* What a shell command does to the roster.
RosterAfter(c) == IF c.cmd = "clear" THEN {}
                  ELSE IF c.cmd = "register" THEN dongle.roster \cup {c.arg}
                  ELSE dongle.roster

\* Its reply: CMD_FAILED for a slave that is there already; the result of LIST
\* starts with the number of slaves, any other with zero or with nothing.
Answer(c) == Reply(c.rid, ~(c.cmd = "register" /\ c.arg \in dongle.roster),
                   IF c.cmd = "list" THEN Cardinality(dongle.roster) ELSE 0)

\* handle_shell_exec runs the payload at the head of the queue, whichever
\* frame it came with.
RunHead(queue) ==
  LET c == Head(queue) IN
  /\ dongle' = [dongle EXCEPT !.shell = Tail(queue), !.roster = RosterAfter(c)]
  /\ Encode(Answer(c))

\* OP_SHELL_EXEC: the payload is queued, and only then the event.  In BOOT and
\* L1_DONE the event is refused by the chain's default case.
ReceiveShell(f) ==
  /\ f.kind = "shell"
  /\ IF Len(dongle.shell) >= ShellDepth - 1
       THEN UNCHANGED <<dongle, to_host>> /\ NoMishap
       ELSE IF dongle.state = "op"
         THEN RunHead(Append(dongle.shell, f))
         ELSE /\ dongle' = [dongle EXCEPT !.shell = Append(@, f)]
              /\ NoMishap /\ UNCHANGED to_host

ReceiveGet(f) ==
  /\ f.kind = "get"
  /\ IF dongle.state = "boot" THEN NoMishap /\ UNCHANGED to_host
                              ELSE Encode(Bare("manifest"))
  /\ UNCHANGED dongle

ReceiveAdvance(f) ==
  /\ f.kind \in {"ack", "begin"}
  /\ dongle' = [dongle EXCEPT !.state = IF f.kind = "ack" /\ @ = "boot" THEN "l1"
                                        ELSE IF f.kind = "begin" /\ @ = "l1" THEN "op"
                                        ELSE @]
  /\ NoMishap /\ UNCHANGED to_host

Receive ==
  /\ line /\ dongle.seen /\ to_dongle # <<>>
  /\ LET f == Head(to_dongle) IN ReceiveShell(f) \/ ReceiveGet(f) \/ ReceiveAdvance(f)
  /\ to_dongle' = Tail(to_dongle)
  /\ UNCHANGED line
=============================================================================
