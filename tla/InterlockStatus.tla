--------------------------- MODULE InterlockStatus ---------------------------
(***************************************************************************)
(* What a host sees of the interlocks of a board (Interlocks): the third   *)
(* phase of interlock_tick_all writes the status buffer and its number     *)
(* status_seq and emits an OP_EVENT for each transition of a slot; OP_POLL *)
(* fetches the buffer.  The host is the environment: it keeps a copy of    *)
(* the buffer and its number, follows the events it hears as long as their *)
(* numbers are consecutive, and polls again whenever it likes.  It does    *)
(* not notice that the board restarts.                                     *)
(***************************************************************************)
EXTENDS Interlocks

CONSTANT SeqMax    \* bound: the transitions between two restarts of the board

ASSUME SeqAssumption == SeqMax \in 0..UINT16_MAX

VARIABLES
  status,  \* the slots and input_vals of g_il_status_buffer
  seq,     \* its status_seq, lost with .bss at every reset
  view,    \* the host's copy of the buffer and of its number
  polled   \* the number of the host's last poll since the board restarted
           \* (history), Never before the first

statusVars == <<status, seq, view, polled>>

Never == -1

\* A slot of the buffer: state, tf, name (the program, of an armed slot), bc
\* and input_vals.  .bss starts as zeros.
Blank == [state |-> "empty", tf |-> "none", name |-> None, boots |-> 0, vals |-> <<>>]

StatusInit ==
  /\ Init
  /\ status = [s \in Slots |-> Blank]
  /\ seq = 0
  /\ view = [seq |-> 0, slots |-> status]
  /\ polled = Never

-----------------------------------------------------------------------------
\* The input values eval_slot stored at this tick; those of a slot that it did
\* not evaluate stay as they are.
Reading(s, p) == IF Prog(s).watch[p].depth < 2 THEN seen'[s][Len(seen'[s])][p] ELSE filt'[s][p].deb
Vals(s) == IF Armed(s) /\ Prog(s) \notin Compiled THEN [p \in Ins(Prog(s)) |-> Reading(s, p)]
           ELSE status[s].vals

\* What the third phase of the tick writes.
Shown(s) ==
  LET r == slots'[s] IN
  [state |-> r.state, boots |-> r.boots, vals |-> Vals(s),
   tf |-> IF r.state = "armed" THEN r.tf ELSE "none",
   name |-> IF r.state = "armed" THEN r.prog ELSE None]

\* [mutant of Changed] only a change of state counts
ChangedState(now) == {s \in Slots : now[s].state # status[s].state}

\* The transitions of a tick: each has a number and an event of its own.
Changed(now) == {s \in Slots : now[s].state # status[s].state \/ now[s].tf # status[s].tf}
Number(s, now) == seq + Cardinality({t \in Changed(now) : t <= s})

Bumped(now) == seq + Cardinality(Changed(now))

\* The host hears the events of the slots in kept; the full TX ring dropped the
\* others.  It applies those that follow its number without a gap.
Applied(now, kept) ==
  IF view.seq < seq THEN {}
  ELSE {s \in kept : /\ Number(s, now) > view.seq
                     /\ \A t \in Changed(now) \ kept : ~(view.seq < Number(t, now) /\ t < s)}
Told(old, new) == [state |-> new.state, tf |-> new.tf,
                   name |-> old.name, boots |-> old.boots, vals |-> old.vals]
Heard(now, kept) ==
  LET new == Applied(now, kept) IN
  [seq |-> view.seq + Cardinality(new),
   slots |-> [s \in Slots |-> IF s \in new THEN Told(view.slots[s], now[s]) ELSE view.slots[s]]]

Publish ==
  /\ Tick
  /\ LET now == [s \in Slots |-> Shown(s)] IN
     /\ Bumped(now) <= SeqMax
     /\ status' = now /\ seq' = Bumped(now)
     /\ \E kept \in SUBSET Changed(now) : view' = Heard(now, kept)
  /\ UNCHANGED polled

\* handle_op_poll_inline: the buffer as the last tick left it.
Poll ==
  /\ Up
  /\ view' = [seq |-> seq, slots |-> status] /\ polled' = seq
  /\ UNCHANGED <<vars, status, seq>>

\* Every reset zeroes .bss, and with it the buffer and its number.
Restart ==
  /\ WarmReset \/ PowerOn \/ Panic \/ \E s \in Slots : Hang(s)
  /\ status' = [s \in Slots |-> Blank] /\ seq' = 0 /\ polled' = Never
  /\ UNCHANGED view

\* The rest of the board does not touch the buffer.
Unseen == (BootDecide \/ Restore \/ Corrupt \/ Operator \/ Shell) /\ UNCHANGED statusVars

StatusNext == Publish \/ Poll \/ Restart \/ Unseen

StatusSpec == StatusInit /\ [][StatusNext]_<<vars, statusVars>>

-----------------------------------------------------------------------------
SameVote(s) == view.slots[s].state = status[s].state /\ view.slots[s].tf = status[s].tf

\* Between two restarts of the board, fewer than 2^16 transitions apart, a host
\* whose number is the last one given out knows the state and the vote of
\* every slot: whatever arming, disarming, poisoning and votes came between two
\* ticks, and whichever events were dropped (the comparison and the numbering
\* of interlock_tick_all, emit_op_event).
VoteKnown == polled # Never /\ view.seq = seq => \A s \in Slots : SameVote(s)

-----------------------------------------------------------------------------
\* Two things that comments promise and the code does not keep: TLC finds both
\* violated on the board of MCInterlockStatus (README, section 3).

\* "status_seq unchanged -- host poll loop can use it as a freshness sentinel"
\* (interlock_tick_all): as long as the number is that of its last poll, the
\* host's copy of the buffer names the program each slot runs.
NumberTellsProgram ==
  polled = seq => \A s \in Slots : view.slots[s].name = status[s].name

\* "monotonic; bumps on any slot state/tf change" (il_status_buffer_t): a host
\* whose number is the current one knows the state and the vote of every slot.
NumberTellsVote == view.seq = seq => \A s \in Slots : SameVote(s)
=============================================================================
