------------------------------ MODULE BusMaster ------------------------------
(***************************************************************************)
(* The bus controller's side of an RS-485 bus while polling is enabled:    *)
(* the poll engine, the single command slot, the roster and the relays to  *)
(* the host (samd21/apps/register_dongle/main.c under ROLE_BUS_CONTROLLER, *)
(* bus_roster.c and the CMD_BUS_* handlers).  The host's end of USB is     *)
(* what the host has been told; a relay whose frame does not fit the USB   *)
(* ring (mishap "stall") is tried again later.                             *)
(***************************************************************************)
EXTENDS BusWire, SequencesExt, FiniteSetsExt

CONSTANTS RosterMax,   \* places in the roster (BUS_ROSTER_MAX)
          MaxMisses,   \* missed windows in a row that make a slave dead
          Disabled,    \* slaves registered without BUS_FLAG_ENABLED
          Cooldown     \* routine polls of a slave in REPUSH_COOLDOWN_MS: 2 s by
                       \* the sweep, the poll period times the enabled slaves

ASSUME MasterAssumption ==
  /\ RosterMax \in Nat \ {0} /\ MaxMisses \in Nat \ {0}
  /\ Disabled \subseteq Slaves
  /\ Cooldown \in Nat \ {0}

VARIABLES
  enabled,       \* g_poll_cfg.enabled
  poll_state,    \* "idle" or "wait"
  poll_cur_addr, \* the slave of the present window, or NoSlave
  poll_cursor,   \* where the next search for an enabled slave begins
  cmd_state,     \* "idle", "queued" or "sent"
  cmd,           \* the command of the slot
  cmd_ack,       \* the ACK or NAK that waits for its relay, or NoFrame
  cmd_reply,     \* the reply or message that waits for its relay, or NoFrame
  table,         \* the roster: at each place a slave or NoSlave
  info,          \* per slave: the roster entry's liveness and summary
  status_cursor  \* next place of the status report, 0 when none is active

VARIABLES        \* what the host has sent and been told
  sent,          \* how many commands it sent
  told_ack,      \* ids it was told the slave took
  told_nak,      \* ids it was told the slave refused
  told_reply,    \* per id: how many replies it got
  told_down,     \* slaves it was last told are down
  il_flags,      \* per slave: the last summary, or "unknown"
  il_msg,        \* per slave: the tripped slots of the last message
  cooling        \* per slave: routine polls left before the next poke

engineVars == <<poll_state, poll_cur_addr, poll_cursor>>
slotVars == <<cmd_state, cmd>>
relayVars == <<cmd_ack, cmd_reply>>
rosterVars == <<table, info>>
toldVars == <<told_ack, told_nak, told_reply, told_down, il_flags, il_msg>>
masterVars == <<enabled, engineVars, slotVars, relayVars, rosterVars, status_cursor, sent, toldVars, cooling>>

NoSlave == "none"
Fresh == [state |-> "unknown", announced |-> "unknown", misses |-> 0,
          summary |-> FALSE, announced_summary |-> FALSE]
Liveness == {"unknown", "alive", "dead"}

MasterType ==
  /\ enabled \in BOOLEAN
  /\ poll_state \in {"idle", "wait"}
  /\ poll_cur_addr \in Slaves \cup {NoSlave}
  /\ poll_cursor \in 1..RosterMax
  /\ cmd_state \in {"idle", "queued", "sent"}
  /\ cmd \in Cmd \cup {NoCmd}
  /\ cmd_ack \in AnswerFrame \cup {NoFrame}
  /\ cmd_reply \in AnswerFrame \cup MessageFrame \cup {NoFrame}
  /\ table \in [1..RosterMax -> Slaves \cup {NoSlave}]
  /\ info \in [Slaves -> [state : Liveness, announced : Liveness, misses : Nat,
                          summary : BOOLEAN, announced_summary : BOOLEAN]]
  /\ status_cursor \in 0..RosterMax + 1
  /\ sent \in Ids
  /\ told_ack \subseteq Ids /\ told_nak \subseteq Ids
  /\ told_reply \in [Ids \ {Poke} -> 0..2]
  /\ told_down \subseteq Slaves
  /\ il_flags \in [Slaves -> {"unknown", "clear", "tripped"}]
  /\ il_msg \in [Slaves -> SUBSET IlSlots]
  /\ cooling \in [Slaves -> 0..Cooldown]

MasterInit ==
  /\ enabled = FALSE
  /\ poll_state = "idle" /\ poll_cur_addr = NoSlave /\ poll_cursor = 1
  /\ cmd_state = "idle" /\ cmd = NoCmd
  /\ cmd_ack = NoFrame /\ cmd_reply = NoFrame
  /\ table = [i \in 1..RosterMax |-> NoSlave]
  /\ info = [s \in Slaves |-> Fresh]
  /\ status_cursor = 0
  /\ sent = 0
  /\ told_ack = {} /\ told_nak = {} /\ told_down = {}
  /\ told_reply = [i \in Ids \ {Poke} |-> 0]
  /\ il_flags = [s \in Slaves |-> "unknown"]
  /\ il_msg = [s \in Slaves |-> {}]
  /\ cooling = [s \in Slaves |-> 0]

-----------------------------------------------------------------------------
\* bus_roster.c and the CMD_BUS_* handlers, run by the engine tick between
\* two passes of the bus code.
Registered(s) == \E i \in DOMAIN table : table[i] = s
Used == {i \in DOMAIN table : table[i] # NoSlave}
\* bus_roster_count of them; bus_roster_at skips the free places.
Roster == [k \in 1..Cardinality(Used) |->
             table[CHOOSE i \in Used : Cardinality({j \in Used : j < i}) = k - 1]]
FreePlaces == {i \in DOMAIN table : table[i] = NoSlave}

RosterStep == UNCHANGED <<wire, enabled, engineVars, slotVars, relayVars,
                          status_cursor, sent, toldVars, cooling>>

Register(s) ==
  /\ ~Registered(s) /\ FreePlaces # {}
  /\ table' = [table EXCEPT ![Min(FreePlaces)] = s]
  /\ info' = [info EXCEPT ![s] = Fresh]
  /\ RosterStep /\ UNCHANGED mishaps

Unregister(s) ==
  /\ Registered(s)
  /\ Mishap("unregister")
  /\ table' = [i \in DOMAIN table |-> IF table[i] = s THEN NoSlave ELSE table[i]]
  /\ UNCHANGED info
  /\ RosterStep

ClearRoster ==
  /\ Roster # <<>>
  /\ Mishap("clear")
  /\ table' = [i \in DOMAIN table |-> NoSlave]
  /\ UNCHANGED info
  /\ RosterStep

\* Switching polling off leaves a window that is open as it is: the engine is
\* not called again until polling is switched on.
PollEnable(on) ==
  /\ enabled # on
  /\ enabled' = on
  /\ IF on THEN UNCHANGED mishaps ELSE Mishap("off")
  /\ UNCHANGED <<wire, engineVars, slotVars, relayVars, rosterVars,
                 status_cursor, sent, toldVars, cooling>>

-----------------------------------------------------------------------------
\* rx_drain_to_event_queue and bus_cmd_enqueue: a command from the host takes
\* the slot or is dropped.
Enqueued(c) ==
  IF cmd_state = "idle" THEN cmd_state' = "queued" /\ cmd' = c ELSE UNCHANGED slotVars

EnqueueStep == UNCHANGED <<wire, mishaps, enabled, engineVars, relayVars, rosterVars,
                           status_cursor, toldVars>>

HostSend(s, timed) ==
  /\ enabled /\ sent < MaxCmd
  /\ sent' = sent + 1
  /\ Enqueued([to |-> s, id |-> sent + 1, timed |-> timed])
  /\ EnqueueStep /\ UNCHANGED cooling

\* reconcile_interlocks: the index and the last message disagree on slot 0.
Gap(s) == il_flags[s] # "unknown" /\ (il_flags[s] = "tripped") # (0 \in il_msg[s])

Reconcile(s) ==
  /\ enabled /\ Gap(s) /\ cooling[s] = 0
  /\ cooling' = [cooling EXCEPT ![s] = Cooldown]
  /\ Enqueued([to |-> s, id |-> Poke, timed |-> FALSE])
  /\ EnqueueStep /\ UNCHANGED sent

\* A new host process attaches: it knows nothing of the slaves' interlocks.
HostRestart ==
  /\ Mishap("restart")
  /\ il_flags' = [s \in Slaves |-> "unknown"]
  /\ il_msg' = [s \in Slaves |-> {}]
  /\ cooling' = [s \in Slaves |-> 0]
  /\ UNCHANGED <<wire, enabled, engineVars, slotVars, relayVars, rosterVars, status_cursor,
                 sent, told_ack, told_nak, told_reply, told_down>>

-----------------------------------------------------------------------------
\* bus_poll_engine.
Unannounced(s) == Registered(s) /\ info[s].state # info[s].announced
Unflagged(s) == Registered(s) /\ info[s].summary # info[s].announced_summary

\* The relays run after the engine in every pass, and a window lasts many
\* passes: unless the USB ring is full, nothing waits when the next one opens.
Relayed ==
  \/ "stall" \in Mishaps
  \/ cmd_ack = NoFrame /\ cmd_reply = NoFrame
       /\ \A s \in Slaves : ~Unannounced(s) /\ ~Unflagged(s)

EngineStep == UNCHANGED <<mishaps, enabled, table, status_cursor, sent, toldVars>>

OpenWindow(s, f) ==
  /\ enabled /\ poll_state = "idle" /\ Relayed
  /\ wire' = f
  /\ poll_state' = "wait" /\ poll_cur_addr' = s
  /\ UNCHANGED <<relayVars, info>>
  /\ EngineStep

SendCommand ==
  /\ cmd_state = "queued"
  /\ OpenWindow(cmd.to, Data(cmd))
  /\ cmd_state' = "sent"
  /\ UNCHANGED <<cmd, poll_cursor, cooling>>

\* bus_roster_next_enabled: the first enabled place from the cursor, cyclically.
Place(start, k) == ((start + k - 1) % RosterMax) + 1
Pollable == {i \in DOMAIN table : table[i] # NoSlave /\ table[i] \notin Disabled}
\* [mutant of NextEnabled] the cursor is ignored
NextEnabledFirst(start) == Min(Pollable)

NextEnabled(start) == Place(start, Min({k \in 0..RosterMax - 1 : Place(start, k) \in Pollable}))

\* [mutant of SendPoll] the cursor does not wrap
SendPollUnwrapped ==
  /\ cmd_state # "queued" /\ Pollable # {}
  /\ LET i == NextEnabled(poll_cursor) IN
       /\ OpenWindow(table[i], Poll(table[i]))
       /\ poll_cursor' = i + 1
       /\ cooling' = [cooling EXCEPT ![table[i]] = Max({@ - 1, 0})]
  /\ UNCHANGED slotVars

SendPoll ==
  /\ cmd_state # "queued" /\ Pollable # {}
  /\ LET i == NextEnabled(poll_cursor) IN
       /\ OpenWindow(table[i], Poll(table[i]))
       /\ poll_cursor' = (i % RosterMax) + 1
       /\ cooling' = [cooling EXCEPT ![table[i]] = Max({@ - 1, 0})]
  /\ UNCHANGED slotVars

\* The transmitter refuses the POLL (it still drains a frame): the next pass
\* tries again, with the slave after it, for the cursor has moved on.
PollRefused ==
  /\ enabled /\ poll_state = "idle" /\ cmd_state # "queued" /\ Pollable # {}
  /\ Mishap("lose")
  /\ poll_cursor' = (NextEnabled(poll_cursor) % RosterMax) + 1
  /\ UNCHANGED <<wire, enabled, poll_state, poll_cur_addr, slotVars, relayVars, rosterVars,
                 status_cursor, sent, toldVars, cooling>>

\* bus_mark_alive, bus_mark_miss
\* [mutant of Alive] the misses are forgotten, the state is not
AliveUnmarked(n) == [n EXCEPT !.misses = 0, !.state = IF @ = "unknown" THEN "alive" ELSE @]

Alive(n) == [n EXCEPT !.misses = 0, !.state = "alive"]
Missed(n) == [n EXCEPT !.misses = Min({@ + 1, MaxMisses}),
                       !.state = IF n.misses + 1 >= MaxMisses THEN "dead" ELSE @]
Marked(n) == info' = IF Registered(poll_cur_addr) THEN [info EXCEPT ![poll_cur_addr] = n] ELSE info
CloseWindow ==
  poll_state' = "idle" /\ poll_cur_addr' = NoSlave /\ UNCHANGED <<poll_cursor, cooling>>
\* The command slot after its window: its buffer is not read again.
FreeSlot == cmd_state' = "idle" /\ cmd' = NoCmd

ReceiveCommon ==
  /\ enabled /\ poll_state = "wait"
  /\ IsUp /\ wire.from = poll_cur_addr
  /\ wire' = NoFrame
  /\ CloseWindow /\ EngineStep

\* A command's window is closed by whatever the slave answers.
ReceiveAck ==
  /\ cmd_state = "sent" /\ ReceiveCommon
  /\ FreeSlot
  /\ Marked(Alive(info[poll_cur_addr]))
  /\ cmd_ack' = IF wire.kind \in {"ack", "nak"} /\ cmd_ack = NoFrame THEN wire ELSE cmd_ack
  /\ UNCHANGED cmd_reply

\* One place holds the frame that awaits its relay; a second one is dropped.
ReceiveData ==
  /\ cmd_state # "sent" /\ ReceiveCommon /\ wire.kind \in {"reply", "message"}
  /\ Marked(Alive(info[poll_cur_addr]))
  /\ cmd_reply' = IF cmd_reply = NoFrame THEN wire ELSE cmd_reply
  /\ UNCHANGED <<cmd_ack, slotVars>>

ReceiveSummary ==
  /\ cmd_state # "sent" /\ ReceiveCommon /\ wire.kind = "summary"
  /\ Marked([Alive(info[poll_cur_addr]) EXCEPT !.summary = wire.flag])
  /\ UNCHANGED <<relayVars, slotVars>>

\* [mutant of WindowTimeout] the command slot stays taken
WindowTimeoutHeld ==
  /\ enabled /\ poll_state = "wait" /\ wire = NoFrame
  /\ Marked(Missed(info[poll_cur_addr]))
  /\ CloseWindow /\ EngineStep
  /\ UNCHANGED <<wire, slotVars, relayVars>>

WindowTimeout ==
  /\ enabled /\ poll_state = "wait" /\ wire = NoFrame
  /\ Marked(Missed(info[poll_cur_addr]))
  /\ IF cmd_state = "sent" THEN FreeSlot ELSE UNCHANGED slotVars
  /\ CloseWindow /\ EngineStep
  /\ UNCHANGED <<wire, relayVars>>

Engine == SendCommand \/ SendPoll \/ ReceiveAck \/ ReceiveData \/ ReceiveSummary \/ WindowTimeout

-----------------------------------------------------------------------------
\* The relays, called in every pass while polling is enabled.
RelayStep ==
  enabled /\ UNCHANGED <<wire, mishaps, enabled, engineVars, slotVars, table, sent, cooling>>

DrainCmdAck ==
  /\ cmd_ack # NoFrame /\ RelayStep
  /\ cmd_ack' = NoFrame
  /\ told_ack' = IF cmd_ack.kind = "ack" THEN told_ack \cup {cmd_ack.id} ELSE told_ack
  /\ told_nak' = IF cmd_ack.kind = "nak" THEN told_nak \cup {cmd_ack.id} ELSE told_nak
  /\ UNCHANGED <<cmd_reply, info, status_cursor, told_reply, told_down, il_flags, il_msg>>

DrainCmdReply ==
  /\ cmd_reply # NoFrame /\ RelayStep
  /\ cmd_reply' = NoFrame
  /\ IF cmd_reply.kind = "message"
       THEN il_msg' = [il_msg EXCEPT ![cmd_reply.from] = cmd_reply.tripped]
            /\ UNCHANGED told_reply
       ELSE told_reply' = (IF cmd_reply.id = Poke THEN told_reply
                           ELSE [told_reply EXCEPT ![cmd_reply.id] = @ + 1])
            /\ UNCHANGED il_msg
  /\ UNCHANGED <<cmd_ack, info, status_cursor, told_ack, told_nak, told_down, il_flags>>

\* bus_drain_events: in roster order, what became alive for the first time is
\* noted silently and the first DOWN or UP that is due is sent.
Silent(s) == Unannounced(s) /\ info[s].state = "alive" /\ info[s].announced = "unknown"
Due == {i \in DOMAIN Roster : Unannounced(Roster[i]) /\ ~Silent(Roster[i])}
Announced(s) == [info[s] EXCEPT !.announced = info[s].state]
SilentBefore(i, s) == Silent(s) /\ \E j \in DOMAIN Roster : j < i /\ Roster[j] = s

DrainEvents ==
  LET first == IF Due = {} THEN Len(Roster) + 1 ELSE Min(Due) IN
  /\ \E s \in Slaves : Unannounced(s)
  /\ RelayStep
  /\ \E fits \in {TRUE} \cup {"stall" \notin Mishaps} :
       LET emits(s) == Due # {} /\ fits /\ s = Roster[first] IN
       /\ info' = [s \in Slaves |-> IF SilentBefore(first, s) \/ emits(s)
                                    THEN Announced(s) ELSE info[s]]
       /\ told_down' = {s \in Slaves : IF emits(s) THEN info[s].state = "dead" ELSE s \in told_down}
  /\ UNCHANGED <<relayVars, status_cursor, told_ack, told_nak, told_reply, il_flags, il_msg>>

Flag(s) == IF info[s].summary THEN "tripped" ELSE "clear"

\* bus_drain_flagged: the first summary edge in roster order.
DrainFlagged ==
  LET i == Min({j \in DOMAIN Roster : Unflagged(Roster[j])}) IN
  /\ \E s \in Slaves : Unflagged(s)
  /\ RelayStep
  /\ info' = [info EXCEPT ![Roster[i]] = [@ EXCEPT !.announced_summary = info[Roster[i]].summary]]
  /\ il_flags' = [il_flags EXCEPT ![Roster[i]] = Flag(Roster[i])]
  /\ UNCHANGED <<relayVars, status_cursor, told_ack, told_nak, told_reply, told_down, il_msg>>

\* bus_drain_status_report: every 3 s the summary of every slave, unasked.
StatusBegin ==
  /\ status_cursor = 0 /\ RelayStep
  /\ status_cursor' = 1
  /\ UNCHANGED <<relayVars, info, toldVars>>

StatusNext ==
  /\ status_cursor > 0 /\ RelayStep
  /\ IF status_cursor > Len(Roster)
       THEN status_cursor' = 0 /\ UNCHANGED il_flags
       ELSE /\ status_cursor' = status_cursor + 1
            /\ il_flags' = [il_flags EXCEPT ![Roster[status_cursor]] = Flag(Roster[status_cursor])]
  /\ UNCHANGED <<relayVars, info, told_ack, told_nak, told_reply, told_down, il_msg>>

Drain == DrainCmdAck \/ DrainCmdReply \/ DrainEvents \/ DrainFlagged \/ StatusBegin \/ StatusNext
=============================================================================
