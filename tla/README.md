# Motioncore bus: a verification project

Motioncore drives small microcontroller nodes ("register dongles") that sit on
an RS-485 bus. A Linux host talks over USB to one dongle in the *bus
controller* role; that dongle polls the dongles in the *slave* role, injects
the host's commands into the poll sweep and relays what comes back. Nothing on
the way is reliable by itself: frames are lost, the port vanishes, nodes
restart, and every buffer between two loops holds one or a few entries. On
the dongle a small tree interpreter, the S-Expression engine, runs the program
that talks to the host, and interlocks drive outputs to a safe level without
asking anyone. The specifications here model the three protocols that are
stacked on each other, the engine with that program, and the interlocks, in
TLA+, checked with TLC; the tracker, the bus, the ladder and the interlocks are
also proved about with TLAPS.

    client ── submit/on_done ── L2 tracker ─┐
                                            ├─ demux ── USB link ══ USB ══ dongle main loop
    roster ── sync ladder, provisioning ────┘                              │  engine: chain (BOOT/L1/OPERATIONAL)
                                                                           │  poll engine, roster, relays
                                                                           │  interlocks, pins
                                                                       RS-485 (half duplex)
                                                                           │
                                                       slave: receive interrupt ‖ main loop

Paths below are relative to `src/`; `BC` is `linux/bus_controller`, `RD` is
`samd21/apps/register_dongle`, `SE` is `s_engine/runtime`.

## 1. Inventory

### Host library (`BC`, C, one thread)

| component | state | operations | what makes it correct |
|---|---|---|---|
| L2 command tracker, `cmd_tracker.c` | per slave: queue of 8, one command in flight (`IDLE`, `SENT`, `INFLIGHT`), its request id, ACK and execution clocks, retries, the cached interlock | submit, ACK, NAK, flagged, reply, poll, reset, add slave | every accepted command is completed once, in order; a reply completes only the command it answers; bounded resends; a tripped interlock holds the queue; nothing waits for ever |
| request-id demultiplexer, `demux.c` | table of 24 pending requests, next id | send, reply, timeout sweep, link down | a reply goes to the request that asked; every request ends |
| USB link, `usb_link.c` | descriptor, state, staged bytes, decoder, back-off | open, close, send, poll | a lost link is reported once, old bytes do not survive it |
| sync ladder and provisioning, `controller.c` | proto state, identity, deferred GET_MANIFEST, provisioning state and index, gap clocks | on_event, on_state, prov chain, controller_poll, attach_roster, reconcile | host and dongle become OPERATIONAL after any restart; DONE means the dongle has the roster; interlock gaps close |
| FFI event queue, facade, Lua wrappers | queue of 128 | push, drain | a caller sees its CMD_DONE |
| roster file, identity, frame codec | none, or a decoder state | parse, encode, feed | the decoder finds the next frame after garbage |

`controller_poll` is the only scheduler: it services the port (frames come up
through callbacks, which may send, which may find the port gone, which calls
back down), sweeps old requests, fires GET_MANIFEST, starts provisioning,
polls the tracker and reconciles interlocks. There are no threads; what is hard
is **re-entrancy** (a send inside a callback inside a send), **time** (three
independent timeouts for one command) and **state that outlives the link**.

### Dongle firmware (`RD`)

| component | state | operations | what makes it correct |
|---|---|---|---|
| chain and shell, `user_functions.c`, `register_dongle_v2.lua` | chain state, queue of shell payloads, re-attach flags | REGISTER/HEARTBEAT, ACK, GET_MANIFEST, OPERATIONAL_BEGIN, SHELL_EXEC | a payload is run by the event that brought it |
| poll engine and relays, `main.c` (bus controller) | window, cursor, one command slot, one ACK and one reply place, status cursor | window open/close, enqueue, five drains | commands, windows and relays agree; the sweep reaches everyone; nothing told to the host is wrong |
| roster, `bus_roster.c` | 16 entries: liveness, misses, summary, what was announced | register, unregister, clear, next enabled | dead means missed; the last word on a slave is the truth |
| slave node, `main.c` (slave) | busy, work, reply, watchdog clock, interlock message | receive interrupt: poll, data; main loop: publish, watchdog, execute | a command runs at most once, a refused one never; a busy slave becomes free |
| interlocks, `samd21_interlocks.c` | per slot: program, vote, boot counter (kept over a reset); filters; status buffer | arm, disarm, two-phase tick, restore, boot decision, panic | a veto is driven in time, and released in time; a reset changes nothing; a program that hangs does not hang the board for ever |
| pins, `samd21_hal_pin.c`, GPIO commands | claim table (lost by a reset), direction and latch of a pin | claim, share, release, drive, check | the table says what the armed programs ask for; nobody else moves a claimed output |
| RS-485 driver, other commands, flash | | | seen through what the bus observes |

Hard here: the slave's **interrupt and main loop share state without a lock**;
**single-entry buffers** at every hop; the **roster is rewritten by the host
while a window is open**; messages are pushed once and healed by a periodic
index; a **reset keeps half of the interlocks' state** (the slots) and loses the
other half (who owns which pin).

### S-Expression engine (`SE`, C)

| component | state | operations | what makes it correct |
|---|---|---|---|
| nodes and calls, `s_engine_node.c`, `s_engine_eval.c` | per node: active, initialised, ever initialised, state byte, user data | invoke (INIT, TICK, TERMINATE), reset, terminate, each shallow or recursive | a node that starts anew starts fresh; what was initialised is terminated |
| event ring, `s_engine_event_queue.c` | 16 events | push, pop; the 17th is an exception | what was queued is served, in order |
| builtins, `s_engine_builtins_*.h` | in the nodes | sequence, chain, fork, join, while, if, cond, trigger, dispatch, state machine, waits, verifications, predicates | who is called, who is reset, and what a result does to the parent |

Hard here: **two kinds of reset** (a node, a subtree) and three families of
results that travel up; state of an earlier run that survives one reset and not
the other.

### The rest of the repository

The engine's compiler, stack and spawn builtins, the ChainTree AVR engine
(`cfl_avr`), the fleet programs (`fleet_design`), the RA4M1 port, consoles,
vendor SDKs and documents. They are listed in `PROJECT.json` with the reason
each is not modelled; the AVR engine and the fleet supervisor are in the plan
below. The vendor SDKs (STM32 peripheral library, board support) are most of
the repository's C lines and have no protocol to model.

All hazards, each at its line and with the properties aimed at it, are in
`PROJECT.json` under `hazards`.

## 2. Modules

| module | models |
|---|---|
| `CommandService` | the abstract promise of the tracker: FIFO per slave, completed exactly once |
| `CmdTracker` | `cmd_tracker.c` on `demux.c` and the link, driven by `controller_poll` |
| `MCCmdTracker` | its values for TLC |
| `CmdTrackerProofs` | type correctness and two safety invariants, proved |
| `CmdTrackerServiceProofs` | the refinement of `CommandService` and the interlock gate, proved |
| `CmdTrackerWireProofs` | what the tracker transmits, and how often in all, proved |
| `BusWire` | the RS-485 wire, the frames, the mishaps |
| `SlaveNode` | one dongle as a slave: interrupt and main loop |
| `BusMaster` | the bus controller dongle: poll engine, command slot, roster, relays; the host as what it has been told |
| `RegisterBus` | master, slaves and wire composed; the bus properties |
| `CommandOnce` | the abstract promise of the bus about one transmission |
| `MCRegisterBus` | values for TLC |
| `RegisterBusProofs` | type correctness, three safety invariants and the refinement of `CommandOnce`, proved |
| `SyncWire` | the USB cable: two queues and the DTR line |
| `SyncHost` | `controller.c`'s ladder and provisioning over `demux.c` and the port |
| `SyncDongle` | the chain, the shell queue and the re-attach detection |
| `SyncLadder` | both sides composed; the ladder properties |
| `SyncLadderProofs` | type correctness and two safety invariants of the ladder, proved |
| `DongleLadder` | the abstract promise of the dongle: commands served in order, each with the answer of its rung |
| `SEngine` | the engine: nodes, results, builtins, event ring, the tick loop of `main.c` |
| `SEngineTrees` | six trees for it, `register_dongle_v2` among them; the properties tied to a tree |
| `SEngineProofs` | type correctness, the user functions' life cycle and that nothing leaks, proved for every tree |
| `Interlocks` | interlock slots, the pin table, the GPIO commands, resets |
| `MCInterlocks` | a board of three pins and five programs for TLC |
| `InterlockStatus` | the status buffer of that board, its number, its events, and a host that follows them |
| `MCInterlockStatus` | two programs for it |
| `InterlocksProofs` | type correctness, the claim table, restoring and what a host knows, proved |
| `InterlocksVoteProofs` | what a vote does in time: veto, release and steadiness, proved |

### CmdTracker

`slot[a]` is `slot_t` (queue, `has` = `has_inflight`, `cur` the handle in
flight, `rid`, the two clocks as ages, `retries`, `faulted`); `pend` is the
demultiplexer's table, whose entries carry one history field, the command the
frame was for. `pc` is the place of the one thread in `controller_poll`:
`client` → `rx` or `reopen` → `sweep` → `slots` → `client`. `accepted` and
`done` are histories, and so is `sent`: how often each command's frame has gone
to the staging ring, counted up to `SentMax`. It guards and changes nothing.

* `Submit`, `AttachRoster`, `SendOther`, `Tick` happen between polls; `Ack`,
  `Nak`, `Reply`, `Flagged`, `HangUp` during reception; `Expire` is the sweep,
  `PollSlot` one slot of `cmd_tracker_poll`. An expired entry may be any of the
  table's, so the order of the sweep is not assumed.
* Every handler is one step including what it calls: `Finish` is
  `complete_inflight` followed by `pump_slot`, and `Send` is `send_inflight`
  with its four outcomes: refused, staged, **staged although the write took the
  link down** (`usb_send` returns 0 all the same, and the entry is registered
  *after* the sweep that should have resolved it), and sent under request id
  0xFFFF, which the caller takes for a failure.
* `Mishaps` says which of the rare outcomes a run admits.
* Ages saturate at `MaxAge`, which is at least every deadline, so a saturated age has
  passed them all. `lag` is how far the tracker's clock `t->now` is behind.
* The dongle and the slaves are the environment: they may acknowledge, refuse,
  answer or flag anything at any time, twice or never.

### BusWire, SlaveNode, BusMaster, RegisterBus

`node[s]` is the `g_slave_*` state with a program counter of the main loop
(`rs485_slave_poll` is cut at every store an interrupt could observe: the
summary and the rewritten message, the three stores of the BUSY-watchdog, the
pick-up, the execution). The interrupt is `Isr`, one step: on the SAMD21 it is not
interrupted by the loop. `BusMaster` has one action per branch of
`bus_poll_engine`, per relay, per roster command and per thing the host does.
`info[s]` is a roster entry, the pending relays are frames in `cmd_ack` and
`cmd_reply`, and `told_*`, `il_flags`, `il_msg` are what the host knows.

* The wire holds one frame: half duplex, and only the master speaks unasked.
  The reply windows (20 and 40 ms) are longer than the turnaround of an
  interrupt, so an answer comes in its window or never. A transmit engine that
  refuses is a mishap like a lost frame: the slave's answer does not go out, or
  the master's poll does not, with the cursor moved on all the same
  (`PollRefused`).
* `mishaps` counts what befell the bus and what befell the host apart, because
  `AckedAnswered` excuses only the first.
* `Lapse` stands for the passing of a command's execution timeout and margin
  since the last pick-up; `Cooldown` for the routine polls in the host's 2 s
  between two pokes. The 1.5 s settling time before the first poke is left out,
  so the host may poke earlier than the code does.
* Relays run in every pass of the main loop and a window lasts many passes, so
  unless the USB ring is full (`stall`) nothing waits when the next window
  opens (`Relayed`).
* Buffers that are not read again are shown as empty.

### SyncWire, SyncHost, SyncDongle, SyncLadder

`host` is the controller's ladder and provisioning state with the pending
requests of `on_prov_reply`; `dongle` is the chain state, roster, shell queue
and the two flags of the DTR edge detection. A frame is drained and dispatched
in one step (the engine's queue keeps the order), `OP_NAK` is left out since the host
ignores it. `Pass` is the tail of `controller_poll`: sweep, GET_MANIFEST,
start of the provisioning, in that order. Restarts (`reboot`), a closed and
reopened port (`bounce`), one the dongle did not notice (`unseen`), a full TX
ring (`full`), a reply later than the 2.5 s sweep (`late`) and a write that finds
the port gone (`broken`) are counted mishaps; `happened` remembers their kinds so that a property can name its
excuse.

A write may take the link down inside the handler that makes it (`Put`): the
handler goes on with a ladder that has just been reset, its request gets an entry
after the sweep that should have ended it, and the frames read in the same chunk
are still handed up, to a closed port that refuses what they make the host send
(`HearBroken`). The tail of `controller_poll` runs all the same; the port opens
again only when it has nothing left to do (`Settled`: the back-off, 200 ms, is
longer than the 60 ms of GET_MANIFEST).

### SEngine, SEngineTrees, DongleLadder

A tree is data: nodes with a type (function, one-shot, predicate), the name of
a builtin, its children and one parameter. `inst.node[n]` has the flags of
`s_expr_node_state_t`, the state byte and the user word. Calling a node is an
operator from an instance and the tick's input to an instance and a result; one
operator per builtin (`Sequence`, `Fork`, `While` ... and `LeafTick` for those that
call no function below them), `Holds` for predicates, `OnInit`, `OnTerminate`, and the resets with the code's reach: `ChildReset` one node,
`ResetRecursive` what is below it too, `ChildTerminate` only what was
initialised. `Tick` and `Dispatch` are one call of `s_expr_node_tick` for a
tick or a queued event; what the application's functions answer is an input,
any of `UserResults`.

* `Arrive` is a frame or a DTR edge turned into an event. An event too many is
  `EXCEPTION`: the dongle stops ticking until the watchdog fires (`Reset`).
* The six trees reach every builtin of the module: the dongle's program, a
  loop with a join, two states that hand over, edges and conditions, waits and
  verifications, and a `cond` without a default, which is an exception when
  nothing matches. All but the first are written after the engine's own tests.
* `ChildInvoke` is `s_expr_child_invoke`, through which `cond` and `while` call:
  a child that gives `SE_DISABLE` is ended there and has given `SE_CONTINUE`. The
  other builtins call with `s_expr_invoke_any` or a kin of it and see the result.
* `DongleLadder` is the abstract dongle; `KeepsLadder` says that the engine,
  running the program, implements it. `SyncDongle` is the same dongle seen from
  the cable; it serves a command in the step that receives it.
* A builtin is given what its children do, a tuple of functions (`call`, `end`),
  and never calls itself; `Invoke` and `Ending` tie the knot with one recursive
  function each, from the leaves up. A loop over the children is a pass:
  `Through` applies one function per child to what the one before it has left
  (a `Visits` record: the instance, the result so far, whether the loop goes on).
* `WellFormed` is what a tree is assumed to be: nodes in the order of the
  parameter array, each but the root the child of one other, the children each
  builtin asks for or is written with, no function below a wait, a verification
  or a predicate. At most 255 children: `se_sequence` counts them in the state
  byte, which would wrap. TLC evaluates it on the six trees
  (`TreesAssumption`), with `Tidy` (`TreesTidy`).

### Interlocks

`slots[s]` is the record in `.noinit` memory: state, program, vote, boot
counter; `valid` says that its header and slots pass `persist_is_valid`. `claims` is `g_claims`, `port` the
direction and the latch, `filt` the shift registers and dead-band memory.
A program is a parsed text: what it watches (with comparison, threshold, dead
band and debounce depth) and the good level of what it drives.

* `ArmCompiled`, `SetDsl`, `Disarm` are the operator's commands with claim,
  rollback and release; `Tick` is `interlock_tick_all`, both phases; `Panic` is
  `system_self_check`; `BootDecide` and `Restore` (one slot at a time) the way
  up; `WarmReset`, `PowerOn`, `Corrupt` and `Hang` what may happen at any
  moment; `GpioWrite` and `GpioConfig` the shell's commands.
* `seen` is a history: the last samples of each slot, so that a property can
  say what a vote should be without the filter that computes it.
* Left out: the text of a program, the crash record, range checks of the ADC,
  virtual inputs (`IL_VIRT_*`, `eval_slot` line 544), more than one watch per
  input.

### InterlockStatus

The board with its third phase: `status` is the buffer (state, vote, program, boot
counter and input values of each slot), `seq` its `status_seq`, both zero after
every reset. The host is the environment: `view` is the copy it has made of
buffer and number, from polls and from the events it heard, and it does not
notice a restart. `polled` is a history: the number of its last poll since then.

* `Publish` is a tick with what it writes: all fields of every slot, whether or
  not they changed; a number and an event for each slot whose state or vote did.
  Any of the events may be dropped. The host applies those that follow its
  number without a gap, and they tell it state and vote only.
* `Poll` is `handle_op_poll_inline`; a poll whose reply is dropped is no poll.
* `SeqMax` bounds the numbers of one life. The code's wrap at 2^16 is beyond it:
  a host that misses 65536 transitions in a row is deceived.

## 3. Runs

Twelve runs, each with its cfg; distinct states, times for two workers. Every
property of a passing run has a mutant in `PROJECT.json`: a change of the model
that a plausible bug would make and under which TLC finds the property violated.

| run | asks | bounds | states |
|---|---|---|---|
| `tracker_safety` | `TypeOK`, `Accounted`, `ReplyIsOwn`, and `CommandService` is implemented (`ServiceSpec`), under **every** mishap | 2 slaves sharing a table of 2, queue 2, 3 commands, 1 retry | 3.2 M |
| `tracker_live` | `QueuedNotOnWire`, `BoundedResends`, `NoLateTransmission`, `GateHolds`, `AcceptedCompletes` | the code's timeouts at 500 ms a tick (ACK 3, request 5, margin 2) and its 2 retries, 2 commands, short and long, a table of 2, one untracked request; a first send may take the link down | 0.3 M |
| `tracker_wedge` | finding: `AcceptedCompletes` fails when a *resend* drops the link | | |
| `bus_safety` | `TypeOK`, `RepliesAreExecutions`, `RefusedNeverClaimed`, `WindowCoherent`, and `CommandOnce` is implemented (`OnceSpec`) | 2 commands, 1 trip, one mishap: a lost frame, a lapse, the roster cleared or the slave unregistered | 2.0 M |
| `bus_roster` | `Swept`, `LivenessSettles` | 2 slaves (one absent) in a table of 3 with a hole, 2 misses make dead, 2 mishaps: a lost frame, a restart, polling off, a full ring | 40 k |
| `bus_live` | `AckedAnswered`, `GapCloses` | 1 command, 1 trip, one lost frame or new host | 0.34 M |
| `bus_watchdog` | finding: `FreshClaimSpared` fails | | |
| `ladder_sync` | `TypeOK`, `ChainIsSingle`, `DoneMeansProvisioned`, `LadderCompletes`, `Provisioned` | roster of 2, 3 mishaps of 6 kinds, one bounce | 0.43 M |
| `ladder_leftover` | finding: `PayloadsMatchEvents` fails after two bounces | | |
| `engine` | `TypeOK`, `FreshMeansFresh`, `NothingLeaks`, `LifeCycle`, `JoinWaits`, `EdgesFire`, `HandsOver`, `ServesAll`, and `DongleLadder` is implemented (`KeepsLadder`) | six trees, a ring of 2 events, seven answers of a user function | 18 k |
| `interlocks` | `TypeOK`, `ClaimsMatchArmed`, `RestoreKeeps`, `VetoInTime`, `ReleaseInTime`, `SteadyVote`, `BootLoopEnds` | 2 slots, 3 pins, 5 programs, boot limit 2 | 21 k |
| `interlock_status` | `VoteKnown` | 2 slots, 2 programs, boot limit 1, 2 transitions between restarts, any events dropped | 0.56 M |

Why the bounds are enough. *Tracker*: two slaves are needed because they meet
only in the table; a table of 2 fills with one command each and a stale entry,
the situation 24 entries and 16 slaves reach; three commands give one completed,
one in flight and one queued behind it; one retry separates first send, resend
and giving up; request ids exceed the table plus the slots so a fresh one
exists. `tracker_live` has the code's own numbers, which differ in what coexists:
with 1.5 s to an ACK and 2.5 s to the end of a request, two entries of one
command are in the table at once and the first has gone when the third is sent;
`BoundedResends` counts the transmissions themselves, and `SentMax` is one above
the bound, so that one too many is seen. *Bus*: two commands and one
slave make one claimed and one refused; the one armed slot, the poke of the
host and a command compete for the same two buffers; a table of three with two
slaves has the hole and the wrap of the cursor. A slave that restarts is in
`bus_roster`, not in `bus_safety`, where it nearly doubles the states; for the
properties of `bus_safety` the theorems of `RegisterBusProofs` include it. *Ladder*: a roster of two
distinguishes first and next REGISTER, and three mishaps let a second restart
hit the recovery from the first, which was a bounce or a broken write. *Engine*: node indices and events are not
symmetric, so the instances are programs, not sizes; a ring of two has the full,
the draining and the overrun case. *Interlocks*: two slots may share one output
(the contactor, `power`) and compete for one input (the thermometer, `heat`);
the programs have a debounced digital input, a dead band, an output level that
disagrees with the others, no pins at all (the compiled one), and an evaluation
that hangs; a boot limit of 2 (3 in the code) separates the first reset, the
last allowed one and the one that poisons. *Status*: two slots whose events can be
dropped singly, and two transitions, make every gap a host may have.

`CHECK_DEADLOCK` is off in `tracker_safety` because commands and time are bounded
there, and in `engine` because a tree that has completed, and to which no event
comes, ticks without changing anything the model keeps.

### Fairness

* Tracker: the service loop polls again and each step of a poll ends (weak
  fairness), and time passes between polls (strong fairness of `Tick`: the
  clock does not stop because the loop is busy). No fairness for the client, the link or any answer:
  `AcceptedCompletes` therefore excuses a link that is down and an interlock
  that is tripped. Refusals of a send for lack of staging space are left out of
  that run, since they could go on for ever; a full table is not, the sweep empties it.
* Bus: interrupts are served, both main loops turn, relays are retried until
  the ring takes them, the host provisions and polls. Losses, restarts and
  stalls get none; they are finite in number (stalls end because the ring drains).
* Ladder: both loops turn and the dongle keeps announcing itself (its chain
  ticks every 25 ms). Mishaps get none.
* Engine: the main loop keeps ticking or, after an exception, the watchdog fires
  (`inst.pass` changes with each of these steps, and one of them is always
  enabled). What user functions answer and which events come has no fairness.
* Interlocks: the board goes on (boot, restore, tick, or the watchdog of a
  program that hangs). The operator, the shell and resets have none.
  `BootLoopEnds` grants that in the end every step is the board's own or the
  shell's: resets go on as long as the program hangs, but none comes from
  elsewhere, and the operator arms and disarms nothing.

### What the code does not keep

Three disagreements with a comment of the repository are kept as runs.

1. **A wedged slave queue** (`tracker_wedge`, `BC/cmd_tracker.c:95`). The write
   of a resend fails; the nested link-down completes the command; `send_inflight`
   then marks the slot `SENT` with nothing in flight. No timeout ever leaves
   that state, because `complete_inflight` returns at once.
2. **A command dropped before it runs** (`bus_watchdog`, `RD/main.c:949`). The
   BUSY-watchdog looks at the previous command's clock.
3. **A payload left behind** (`ladder_leftover`, `RD/main.c:1023`). A shell
   payload that arrives outside OPERATIONAL shifts all later ones by one.

Seen while modelling, without a run of their own. Of the host and the bus:

* `BC/controller.c:398` compares an index of two interlock slots with one
  message: with two slots in `IlSlots` and a trip in slot 1, `GapCloses` fails.
* `RD/bus_roster.c:84`: clearing and registering again resets what was announced
  of a slave, so an UP due after a DOWN is never sent and `LivenessSettles`
  fails with the mishaps `clear` and `unregister`; `RD/main.c:677` says an event
  "can never be lost, only delayed".
* `BC/controller.c:415` ends every request after a fixed 2.5 s, so the
  execution deadline of `cmd_tracker.h:11-12` cannot be longer than that.
* `BC/demux.c:20-21` sizes the table for one entry per slave; every ACK timeout
  leaves one behind for the rest of its 2.5 s.
* `BC/demux.c:211`: request id 0xFFFF is sent and then taken for a failure
  (mishap `ridwrap`; it breaks `QueuedNotOnWire`).
* `RD/main.c:780-782`: a reply that finds the relay place taken is dropped; the
  slave does not "re-offer" it, it was disarmed when it was shipped. With
  `stall` admitted in `bus_live`, `AckedAnswered` fails this way; the run
  therefore assumes a ring that drains between two windows.
* With two ill-timed bounces the provisioning chain can be started while the
  old session's request is pending, since a REGISTER resets the ladder but not
  the request: `Provisioned` fails, hence one bounce in `ladder_sync`, and
  `ChainIsSingle` speaks of the states before the second one only.
  `ladder_leftover` shows the worst of it.
* A provisioning request whose write breaks the link is entered after the
  link-down sweep (`BC/demux.c:187-191`). Its timeout falls into the next session
  and sets `PROV_FAIL` there, before, during or after the new chain; nothing
  provisions again until the next resync, though `BC/controller.c:151` says
  "re-provision after resync". Without the excuse `broken`, one such write is
  enough for `Provisioned` to fail; `LadderCompletes` and `DoneMeansProvisioned`
  hold all the same.
* A lost MANIFEST_REPLY is never asked for again, and a reopened port that the
  dongle did not notice is never provisioned: the excuses `full` and `unseen`
  of the ladder's liveness.
* **A slave busy for ever**, `RD/main.c:952`. The watchdog clears `g_slave_busy` and
  then `g_slave_work_fresh`, with the interrupt enabled. A command acknowledged
  between the two keeps the slave busy and loses its work; the watchdog's last
  store sets the timeout to 0, which switches the watchdog off. Every later
  command is refused until the slave is reset, though `RD/main.c:946-948` says the
  watchdog "frees the slot so the node stays commandable". In the cfg of
  `bus_watchdog`, `FairSpec` does not satisfy `BusyEnds` for this reason. What must
  hold even then is in `bus_safety`.

Of the engine:

* The 17th event queued within a tick is an exception that stops the dongle until
  the watchdog resets it (`SE/s_engine_event_queue.c:46`): `DongleLadder` has
  `Overrun` for it, and `KeepsLadder` shows there is no other way down.
* A function that returns `PIPELINE_DISABLE` is sent TERMINATE by
  `dispatch_main`, which leaves it initialised, and again by the composite that
  ends it (`s_engine/dsl_tests/docs/README_inner_engine_design.md:230` has one);
  `LifeCycle` admits it.
* A `while` whose body gives `SE_DISABLE` is stuck: `s_expr_child_invoke` ends the
  body and reports `SE_CONTINUE`, the state byte stays at "run body", and the
  ended body, inactive now, lets the loop give `FUNCTION_HALT` for ever.
* The reset of a branch in `if_then_else`, `trigger_on_change` and
  `function_interface` clears one node, though
  `SE/s_engine_builtins_flow_control.h:82` calls it a "Recursive reset". For
  what a `chain_flow`, a `fork` or a `fork_join` has below it that is enough, since they end
  and reset their own children, and `FreshMeansFresh` checks that it is for the
  branches in the six trees, of nodes whose composites are all active. Below a `sequence` it is not: a function the
  sequence has passed was terminated, which leaves it inactive, nothing resets
  it, and a call of it then gives CONTINUE for ever. A `sequence` in a branch of
  `if_then_else` gets through once. The dispatchers, `cond` and `while` reset all
  the way down and are not affected. No theorem claims `FreshMeansFresh`.
* `event_dispatch` does not pass TERMINATE on to the case that ran last, and
  `chain_flow`'s "fire and mark inactive" does nothing for one-shots and
  predicates, which do not look at that flag.
* A `function_interface` with a one-shot child never completes; `sequence_once`
  that is cut short returns DISABLE all the same; a result of the application's
  own in a trigger's action is handed on as it is.

Of the interlocks:

* **A veto that drives nothing**, `RD/samd21_hal_pin.c:280`. The tick re-asserts a
  claimed output's level, not its direction, and `cmd_gpio_config` asks nobody
  before it makes the pin an input; `RD/samd21_hal_pin.h:113-114` says it "Always
  re-asserts", so that corruption "self-heals". In `interlocks` with the command
  `"input"` in `Commands`, `VetoInTime` fails.
* **A number that does not tell the program**, `RD/samd21_interlocks.c:697`.
  `status_seq` counts changes of state and vote; id, name, boot counter and inputs
  are rewritten under the same number, which line 741 calls a "freshness
  sentinel". A slot that is disarmed and armed with another program between two
  ticks violates `NumberTellsProgram` on the board of `interlock_status`.
* **A number that begins again**, `RD/samd21_interlocks.c:684`. `status_seq` is lost
  at a reset and the slots are not: a host that kept its number meets it again
  with other votes under it, and `NumberTellsVote` fails on the same board.
  `RD/samd21_interlocks.h:251` calls the number "monotonic".
* `persist_cold_init` erases the panic record on the boot after the panic,
  though `RD/main.c:211-212` wants the "next boot" to print it.
* The boot counter of a slot counts every warm reset since it was armed and is
  never cleared, so the fourth reset, a week apart, poisons a healthy slot;
  `RD/main.c:1053` speaks of one that "crashed too many times in a row".
  `RestoreKeeps` is about restoring, after the decision.
* A debounced input starts at 0 after arming and after a restore, whatever the
  pin reads; `VetoInTime` and `ReleaseInTime` give it its depth in ticks.
* A `ge` watch whose dead band reaches its threshold can pass and never fail
  again; `Clearly` leaves such levels undecided.
* `eval_slot` clamps an eased threshold to 0..65535. A `gt` whose dead band
  reaches below 0, or an `lt` whose band reaches above 65535, therefore drops
  the reading at that end out of its band: the vote falls though the reading is
  inside. `VotesSteady` names the condition (`BandsFit`); the board of
  `interlocks` meets it.

## 4. Proofs

### The tracker

`CmdTrackerProofs` proves, for every set of slaves and rosters, queue depth,
table size, timeout, bound and mix of mishaps that satisfies
`TrackerAssumption`:

* `TypeCorrect`: `Spec => []TypeOK`.
* `AccountedAlways`: `Spec => []Accounted`. What a slave has completed followed
  by what it still holds is exactly what was accepted for it.
* `ReplyIsOwnAlways`: `Spec => []ReplyIsOwn`. The entry whose reply may
  complete a slot's command carried that command.

They share the inductive invariant `IInv == TypeOK /\ Shaped /\ ReplyIsOwn /\
Accounted`. `Accounted` alone is not inductive. That a completion appends the
right handle needs a slot's `cur` to be a handle whenever it has a command, and
that `pump_slot` may overwrite `inflight` needs an idle slot to have none and to
await no request id: `Shaped`. And a resend, whose frame is remembered in the
table under the command it carried, needs `ReplyIsOwn` to be kept beside it.
The converse of `Shaped`, that a busy slot has a command, is *not* part of it:
that is what the wedged slot of section 3 breaks.

The argument follows the code. Lemmas about a slot's functions (`Completed`,
`Loaded`, `Sent`, `NotSent`, `Dropped`) say what each does to the commands the
slot holds (`CompletedLedger`, `QueuedLedger`, `FirstSendLedger`,
`DroppedLedger`); `SendStep`, with a lemma for each of its four outcomes, then
`PumpStep`, `FinishStep`, `ResendOrFailStep`, `LinkLostStep` and `ResolveStep`
carry the invariant through the calls that handlers share; a lemma per action
and `NextStep` close the induction.

What is assumed: `TrackerAssumption`, which TLC evaluates in every tracker run,
and, inside the model, that a new request id is one that neither the table nor
a slot refers to (`FreshRid`). The code counts to 65536 before an id comes
round, and a request leaves the table after 2.5 s.

`CmdTrackerServiceProofs` builds on that:

* `ImplementsService`: `Spec => ServiceSpec`. Every step of the tracker is a step
  of `CommandService` or a stutter of it. `Accounted` makes it a matter of one
  step: the abstract queue of a slave is what is accepted and not completed, so
  what a step completes is what it appends to `done`. One lemma per action says
  that this is at most one handle per slave (`Grown`), and what a lost link and
  a new roster do to all slaves at once.
* `GateAlways`: `Spec => GateHolds`, from the same lemmas (`Gated`).

`CmdTrackerWireProofs` proves three properties of what goes out, each from
`Faithful`, that neither the mishap `ridwrap` nor `resenddrop` is admitted:

* `QueuedNeverSent`: `Spec => []QueuedNotOnWire`.
* `ResendsBounded`: `Spec => []BoundedResends`.
* `NeverSentLate`: `Spec => NoLateTransmission`.

`Faithful` is not a convenience. A request id of 0xFFFF is sent and reported as
a failure, so the command stays queued and on the wire; a resend under which the
link drops re-arms a slot whose command the link-down sweep has completed
(`tracker_wedge`). With either, the properties are false, and the findings above
say so; the runs that check them leave both out for the same reason. The
failures of a *first* send (`staging`, `drop`) are admitted. The invariant is
`WInv == IInv /\ Unique /\ WireOf /\ Row`: handles are given out once
(`Unique`), no handle of a queue has an entry in the table or has ever been
transmitted, and a SENT command was transmitted at most `retries + 1` times
(`Row`). That an accepted reply or an ACK takes a command out of SENT for good,
and that a handle not yet given out has been transmitted never (`WireOf`), is
what makes `MaxRetries + 1` the bound of the whole history and not of what
happens to be in the table.

### The bus

`RegisterBusProofs` proves, for any number of slaves, roster places, interlock
slots, commands and mishaps that satisfies `WireAssumption` and the assumptions
beside it:

* `TypeCorrect`: `Spec => []TypeOK`; the cursors of `bus_roster_next_enabled` and
  of the status report never leave the roster.
* `WindowHolds`: `Spec => []WindowCoherent`.
* `RefusalsHold`: `Spec => []RefusedNeverClaimed`, and `RepliesHold`:
  `Spec => []RepliesAreExecutions`, which bounds replies by executions and says
  nothing of how many there are;
* `ImplementsOnce`: `Spec => OnceSpec`, for every transmission: it runs at most
  once, is answered at most once and afterwards, and never runs when the host was
  told that it was refused.

The inductive invariant is `IInv == TypeOK /\ Shaped /\ Ledger`. `Shaped` says
which buffers hold something (no frame on the wire outside a window; a slave
that is about to run a command has one). `Ledger` says where each command *is*:
queued, on the wire, in one buffer of one slave, or executed; and where its
verdict and its reply are. None of the four properties is inductive without the
places in between: that a NAK excludes an execution later depends on the frame
being off the wire when the interrupt answers it, and that a reply is told once
depends on `g_slave_reply`, the wire and the relay place never holding it
together. The slave's interrupt and its main loop are separate steps in the
proof as in the model: one lemma per step of `slave_rx_isr`, `MainLoop` and the
master's engine. The three stores of the BUSY-watchdog are three steps; nothing
in `IInv` assumes that they are one.

### The ladder

`SyncLadderProofs` proves, for every roster, `poll_cfg_set`, queue depth, bound
and mix of mishaps that satisfies `SyncConstants`:

* `TypeCorrect`: `Spec => []TypeOK`; among others `prov_idx` stays within the
  roster and every REGISTER command names a slave of it.
* `DoneHolds`: `Spec => []DoneMeansProvisioned`, with every mishap admitted, any
  number of times.
* `ChainHolds`: `Spec => []ChainIsSingle`.

For `DoneHolds` the invariant `IInv` follows the answer that makes the host
report DONE back to where it comes from. Request ids are given out once
(`IdsGiven`), so a reply that is awaited answers the request that is pending.
While the port is closed, or open and not yet seen by the dongle, nothing
awaited is on its way (`Severed`): a session's replies do not survive into the
next. An awaited reply stands behind all REGISTERs (`ReplyIsLast`), an awaited
LIST behind all CLEARs (`ListStands`), and an answer that counts every slave is
still true, with no CLEAR on its way, until the host has read it
(`AnswerStands`); what it then reports is `DoneStands`. The chain waits in
between for nothing but the reply itself, which is why the first CLEAR of a new
chain cannot overtake the old answer.

For `ChainHolds` the question is the REGISTER that resets a host whose chain
runs. `CInv` excludes it: once the ladder is climbed no REGISTER is on its way
(`Climbed`). That is about the order of frames of several lives of the dongle's
chain in one ring: a dongle that has not been reset sends no REGISTER after a
MANIFEST or a HEARTBEAT (`OneLife`), and after one reset there is no HEARTBEAT
between two REGISTERs (`NoSandwich`), so the host that hears the first of them
hears all before the next HEARTBEAT. A second bounce makes three lives and the
argument fails, as TLC shows the property does; a broken write enters a request
after the sweep. Hence the two excuses in `ChainIsSingle`. Both invariants were
checked with TLC before they were proved, with a roster of two, two bounces and
four mishaps (15 million states).

`HandedUp`, the frames handed up after the one whose answer broke the port, is
a recursive function; that it exists, and that it leaves a closed host closed,
is proved by least counterexample (`Least`, `HandsExists`, `HandedUpClosed`).

### The interlocks

`InterlocksProofs` proves, for every number of slots, set of pins and programs,
boot limit and set of shell commands that satisfies `SlotsAssumption` and
`ProgramsAssumption` (a program's inputs and outputs are pins and disjoint, a
compiled program claims none):

* `TypeCorrect`: `Spec => []TypeOK`.
* `ClaimsHold`: `Spec => []ClaimsMatchArmed`. The pin table says exactly what
  the armed programs ask for.
* `RestoresAll`: `Spec => RestoreKeeps`. Slots that were armed together are all
  armed again after a warm reset, in slot order, whatever the order in which
  they were armed.
* `VotesKnown`: `StatusSpec => []VoteKnown`. Between two restarts a host whose
  number is the last one given out knows state and vote of every slot. The
  invariant `KInv` adds that the host's number lies between its last poll's and
  the buffer's. By action: a tick is the only step that compares and tells,
  and there a host that ends on the last number has applied every event, so each
  slot it was not told of had not changed. It says nothing of the other fields,
  and nothing across a restart; section 3 says why (`NumberTellsProgram`,
  `NumberTellsVote`).

The inductive invariant is `IInv == TypeOK /\ ClaimsMatchArmed /\ ArmedProgram
/\ Compatible`. `ClaimsMatchArmed` alone is not inductive: a reset empties the
table while the slots stay armed, and nothing in the table then says that
claiming again will succeed. `Compatible` does: any two armed slots agree on the
pins both name (no shared input, one good level for a shared output), also while
their claims are lost. Arming keeps it because `hal_pin_claim*` refuses a pin
used otherwise (`MayClaimAgree`), and from it restoring may claim
(`AgreeMayClaim`, `RestoreMayClaim`). `ArmedProgram` says that an armed slot has
a program, so that a rollback or a disarm releases what was claimed. One lemma
per action; `NextInv` closes the induction.

`InterlocksVoteProofs` proves what the votes do, for every program that
`WatchAssumption` admits: what the parser accepts of a watch (a debounce of 0 or
2 to 15 ticks, a 16-bit threshold and dead band, a dead band on ordered
comparisons only and on no debounced input).

* `VetoesInTime`: `Spec => VetoInTime`, if the shell makes no pin an input
  (`NoInputs`). Without that hypothesis it is false (section 3).
* `ReleasesInTime`: `Spec => ReleaseInTime`, whatever the shell does: this one
  speaks of the latch, which the tick writes in any case.
* `VotesSteady`: `Spec => SteadyVote`, if no dead band reaches past the ends of
  the range (`BandsFit`, see section 3).

The properties compare a tick with the samples of several earlier ones, kept in
the history `seen`; the code keeps a shift register, a debounced level and the
last verdict. The invariant `FInv` ties the two: of every slot that has claimed,
the shift register's last bits are the last samples of its pin (`Tracks`), and a
vote, once cast, is what the filters say (`VoteFollows`); no slot that is yet to
be restored has samples; a slot without inputs never votes false (that is what a
restored slot of the registry, which keeps its vote, needs). `TickSlot` and
`TickFilter` say what one tick does to the history and to one filter,
`FilterStep` and `DeadBand` what one evaluation computes, over every threshold,
band and reading; `SteadyVerdict` puts them together: what was plainly so for the
debounce depth is the verdict, whichever verdict there was before. From there to
the pins go the claim table (`ClaimsHold`) and `OutputsOn`, the second
invariant: a claimed output is driven. Its first claim turns the driver on;
afterwards only the release by its last owner and a reset turn it off, since
claims of inputs and the roll-back of a refused claim are about other pins, and
under `NoInputs` the shell only turns drivers on. TLC checked `FInv` and
`OutputsOn` on the board of `interlocks` before they were proved.

### The engine

`SEngineProofs` proves, for every sequence of well-formed trees, ring size and
set of results that user functions may give:

* `TypeCorrect`: `Spec => []TypeOK`.
* `NothingLeaksEver`: `Spec => []NothingLeaks`, if every tree is `Tidy`.
* `LifeCycleHolds`: `Spec => LifeCycle`, under the same hypothesis.

`Tidy` says that no user function is below an `se_event_dispatch`. That builtin
passes TERMINATE to nobody (`SE/s_engine_builtins_dispatch.h:57`), so what a user
function below it took in its INIT may never be given back, and the next reset
initialises it again: on a tree that is not tidy, a state machine that leaves
such a state violates both `NothingLeaks` and `LifeCycle` (TLC). `register_dongle_v2` keeps to it: its dispatchers hold
one-shots and results only.

Four things would break these properties unseen by a test of one builtin: a
child left running in a branch its parent no longer points at, a reset of
something still alive, an end that is not passed down, a node switched off above
a living one. The invariant is therefore about every node (`Local`): if
something below it is alive (`Busy`), it is active and initialised, and the
children in which something may be alive are among those its TERMINATE reaches
(`Narrow` with `Reached`): the one child after those a `sequence` has passed, the
branch a dispatcher's data points at, a `while`'s body only between its state
bytes 1 and 0, any child of the others. `Pointed` keeps that data a child's
number. What the log of a tick says so far, and who is alive after it, is
`Told`; `Sound` is `Local` for a whole part of the tree.

Since a call recurses through the tree, and the provers cannot do induction over
data with an operator, the functions carry contracts instead. `EndsWell`: TERMINATE
of a sound part leaves it sound, with nothing alive, and the rest of the
instance as it was. `CallsWell`: a call of a sound part leaves it sound, the rest
as it was, and gives a result. For each builtin there is one lemma: given the contract of its
children, its tick leaves the node ready (`ForkTick`, `SequenceTick`, `CondTick`
...) and its TERMINATE leaves nothing (`OnTerminateKeeps`). `TreeInduction`, by the
least number of a node that is not in a set, makes that the contract of every
node (`EndingKeeps`, `InvokeWell`); the recursive functions themselves exist by
the same argument (`EndingExists`, `InvokeExists`). Loops go by `ThroughKeeps`:
what holds before the first child and is kept by each holds after the last.
That resets harm nobody is `ResetKid`: they come after a TERMINATE of the same
part, and where nothing lives a reset keeps `Sound`. `Held` adds the ring and that
a drain finds an event; it is inductive for `Arrive`, `Tick`, `Dispatch` and
`Reset`. TLC checked `Sound` on the trees of the run before it was proved. `InvokeMoved` carries
the contracts through `ChildInvoke`: a child that disables itself under `while` or
`cond` is ended by the same `ChildTerminate` as elsewhere.

`NamesAssumption` says that the results and events the builtins name are
strings, a fact of TLA+ that the provers do not know.

### What is assumed and what is only checked

The assumptions on constants are evaluated by TLC in every run of those modules.
`Faithful`, `NoInputs`, `BandsFit` and `Tidy` are hypotheses of the theorems that need
them, not of a module. Only model-checked are:

* liveness, which the prover cannot reach under fairness: `AcceptedCompletes`,
  `AckedAnswered`, `GapCloses`, `Swept`, `LivenessSettles`, `LadderCompletes`,
  `Provisioned`, `ServesAll`, `HandsOver`, `BootLoopEnds`;
* what the engine does on one given tree: the dongle's program (`KeepsLadder`), the
  loop (`JoinWaits`), the edges (`EdgesFire`);
* `FreshMeansFresh`, which is true of the six trees but not of every tree
  (section 3).

## 5. Not modelled

Of the bus and host: the frame codec, the FFI event queue and its Lua clients,
re-entrant clients (that submit from a completion callback), the reactive
one-shot bridge used while polling is disabled, commissioning, flash, what
commands do, the byte level of RS-485 and USB. Provisioning sends that are
refused for lack of staging space are not in `SyncHost`.

Of the engine: loading and validating modules, the stack, quad and dictionary
builtins (data, not control), `se_spawn_tree` and its kin, which build trees at
run time. The dongle's tree leaves out `COMMISSION_SET` and `COMMISSION_CLEAR`,
whose handlers write flash and reset the board.

Of the interlocks: the grammar of a program's text, the HardFault record, range
checks of the ADC, virtual inputs (`IL_VIRT_*`), several watches of one input,
and the wrap of `status_seq`.

The AVR engine, the fleet programs, the RA4M1 port, the consoles, the compiler
and the vendor SDKs: `PROJECT.json` says why for each.

Bounds without a counterpart in the code: counters of commands, trips and
mishaps only make runs finite, and no property mentions reaching them.

## 6. Plan

Done: the tracker (the service's promise), the bus under it, the ladder that
brings both up, the engine that runs the dongle's program, the interlocks; their
compositions and the three abstract specifications. Proved: every state
invariant that a run checks but `FreshMeansFresh`, the engine's `LifeCycle`, the
interlocks' action properties (`RestoreKeeps`, `VetoInTime`, `ReleaseInTime`,
`SteadyVote`), and the refinements `ServiceSpec` and `OnceSpec`.

Next, in this order; runs are merged where a new question needs one.

1. The engine: a tree with a `sequence` below an `if_then_else` (section 3), and
   a condition on trees under which `FreshMeansFresh` can be proved.
2. Refused provisioning sends; the reactive bridge.
3. `FrameLink`: ring, encoder roll-back and decoder resynchronisation
   (`vendor/libcomm/frame.c`), against a reference that maps a byte stream to
   its frames.
4. `EventQueue`: `controller.c`'s event queue with a waiting Lua client, and a
   re-entrant client of the tracker.
5. Tracker and bus composed end to end: a completed command ran at most
   `1 + MAX_ACK_RETRIES` times, and an answered one at least once.
6. Spawned subtrees of the engine; the AVR engine's interrupt-fed queue; the
   fleet supervisor's restart back-off.
