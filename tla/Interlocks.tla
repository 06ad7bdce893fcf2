----------------------------- MODULE Interlocks -----------------------------
(***************************************************************************)
(* The interlock framework of the register dongle                          *)
(* (samd21_interlocks.c, samd21_hal_pin.c and the GPIO shell commands of   *)
(* samd21_commands.c): slots armed by the operator watch input pins and    *)
(* vote on shared output pins; what is armed outlives a reset, who owns a  *)
(* pin does not.  The main loop runs commands and ticks one at a time;     *)
(* resets come at any moment.  A program is a parsed DSL text: a filter    *)
(* and a comparison for each input pin it watches, and the level of each   *)
(* output pin when all is well.  The crash record, virtual inputs and the  *)
(* parser's refusals are left out; InterlockStatus adds what a host sees.  *)
(***************************************************************************)
EXTENDS Integers, FiniteSets, Sequences

CONSTANTS
  NSlots,      \* INTERLOCK_MAX_SLOTS
  Pins,        \* the pins a DSL text may name
  Programs,    \* the programs an operator arms
  Compiled,    \* those of the compile-time registry: they claim no pin
  Faulty,      \* those whose evaluation never returns
  Levels,      \* what each pin may read
  Analog,      \* the pins that are read by the ADC
  MaxBoots,    \* INTERLOCK_MAX_BOOT_ATTEMPTS
  Commands,    \* the GPIO shell commands an operator uses: "write", and the
               \* modes of a configuration: "output", "input", "pullup", "pulldown"
  GpioPins     \* bound: the pins those commands are given

Slots == 0..(NSlots - 1)
Ins(P) == DOMAIN P.watch
Outs(P) == DOMAIN P.ok

ASSUME SlotsAssumption == NSlots \in Nat /\ MaxBoots \in Nat
ASSUME ProgramsAssumption ==
  /\ \A P \in Programs : /\ Ins(P) \subseteq Pins /\ Outs(P) \subseteq Pins
                         /\ Ins(P) \cap Outs(P) = {}
                         /\ P.ok \in [Outs(P) -> {0, 1}]
  /\ Compiled \subseteq Programs
  /\ \A P \in Compiled : Ins(P) = {} /\ Outs(P) = {}
UINT16_MAX == 65535
\* What the parser accepts of a watch (debounce_N, hyst_N, the operators), and
\* what its pin may read: a digital pin 0 when it is driven.
ASSUME WatchAssumption ==
  \A P \in Programs : \A p \in Ins(P) :
    LET w == P.watch[p] IN
    /\ w.depth \in {0} \cup 2..15 /\ w.thr \in 0..UINT16_MAX /\ w.hyst \in 0..UINT16_MAX
    /\ w.op \in {"eq", "ne", "lt", "le", "gt", "ge"}
    /\ w.hyst # 0 => w.op \in {"lt", "le", "gt", "ge"}
    /\ Levels[p] \subseteq 0..UINT16_MAX /\ 0 \in Levels[p]
    /\ w.depth # 0 => w.hyst = 0 /\ Levels[p] \subseteq {0, 1}

VARIABLES
  slots,   \* .noinit: state, program, vote and boot counter of each slot
  valid,   \* .noinit: the header of the record is intact
  stage,   \* -1: before interlock_boot_decide; s: restoring slot s; NSlots: up
  claims,  \* g_claims: who owns a pin, and how
  port,    \* the direction and output latch of a pin
  filt,    \* per slot and input: shift register, debounced level, last verdict
  seen     \* per slot: the raw samples of its last ticks (history)

vars == <<slots, valid, stage, claims, port, filt, seen>>

None == [watch |-> <<>>, ok |-> <<>>]      \* INTERLOCK_ID_NONE
Vacant == [state |-> "empty", prog |-> None, tf |-> "none", boots |-> 0]
Unclaimed == [owners |-> {}, use |-> "none", ok |-> 0]
Safe == [out |-> FALSE, level |-> 0]       \* port_reset_to_safe
Clear(P) == [p \in Ins(P) |->
  [shift |-> [i \in 1..P.watch[p].depth |-> 0], deb |-> 0, pass |-> FALSE]]

Armed(s) == slots[s].state = "armed"
Prog(s) == slots[s].prog
Up == stage = NSlots

\* The largest number of samples a watch of P looks back on.
Depth(w) == IF w.depth = 0 THEN 1 ELSE w.depth
Reach(P) == CHOOSE d \in {1} \cup {Depth(P.watch[p]) : p \in Ins(P)} :
              \A p \in Ins(P) : Depth(P.watch[p]) <= d

Init ==
  /\ slots = [s \in Slots |-> Vacant]
  /\ valid = FALSE                         \* power-on: .noinit holds garbage
  /\ stage = -1
  /\ claims = [p \in Pins |-> Unclaimed]
  /\ port = [p \in Pins |-> Safe]
  /\ filt = [s \in Slots |-> <<>>]
  /\ seen = [s \in Slots |-> <<>>]

-----------------------------------------------------------------------------
\* Pin claims.  hal_pin_claim and hal_pin_claim_adc: an input has one owner.
\* hal_pin_claim_output: outputs are shared by slots that agree on the level.

MayClaim(s, P, c) ==
  /\ \A p \in Ins(P) : c[p].owners \subseteq {s}
  /\ \A p \in Outs(P) : c[p].owners = {} \/ (c[p].use = "out" /\ c[p].ok = P.ok[p])

Claim(s, P, c) == [p \in Pins |->
  IF p \in Ins(P) THEN [owners |-> {s}, use |-> "in", ok |-> 0]
  ELSE IF p \in Outs(P)
    THEN [owners |-> c[p].owners \cup {s}, use |-> "out", ok |-> P.ok[p]]
    ELSE c[p]]

\* A digital input is made one; hal_pin_claim_adc leaves the port as it is.
\* Only the first claim of an output turns its driver on; its latch is kept.
Configure(P, c, q) == [p \in Pins |->
  IF p \in Ins(P) \ Analog THEN [q[p] EXCEPT !.out = FALSE]
  ELSE IF p \in Outs(P) /\ c[p].owners = {} THEN [q[p] EXCEPT !.out = TRUE]
  ELSE q[p]]

\* hal_pin_release_slot: the last sharer's leaving makes the pin safe.
\* [mutant of Released] the pin is given up whoever shares it
ReleasedAll(s, c) == [p \in Pins |-> IF s \in c[p].owners THEN Unclaimed ELSE c[p]]

Released(s, c) == [p \in Pins |->
  IF c[p].owners = {s} THEN Unclaimed
  ELSE [c[p] EXCEPT !.owners = @ \ {s}]]
MadeSafe(s, c, q) == [p \in Pins |-> IF c[p].owners = {s} THEN Safe ELSE q[p]]

\* claim_inst_pins: all the pins of P or none.  A refused claim releases the
\* free pins it had already taken, which leaves them safe.
Refuse(P) ==
  \E taken \in SUBSET {p \in Ins(P) \cup Outs(P) : claims[p].owners = {}} :
    /\ port' = [p \in Pins |-> IF p \in taken THEN Safe ELSE port[p]]
    /\ UNCHANGED claims

Acquire(s, P) ==
  /\ claims' = Claim(s, P, claims)
  /\ port' = Configure(P, claims, port)

-----------------------------------------------------------------------------
\* Booting.  A reset of any kind loses .bss and the pins' configuration.
Reset ==
  /\ stage' = -1
  /\ claims' = [p \in Pins |-> Unclaimed]
  /\ port' = [p \in Pins |-> Safe]
  /\ filt' = [s \in Slots |-> <<>>]
  /\ seen' = [s \in Slots |-> <<>>]

\* Watchdog, reboot command, reset button: .noinit survives.
WarmReset == Reset /\ UNCHANGED <<slots, valid>>
\* Power lost: .noinit is garbage.
PowerOn == Reset /\ valid' = FALSE /\ UNCHANGED <<slots>>
\* A stray write damages the header of the record.
Corrupt == stage >= 0 /\ valid /\ valid' = FALSE
           /\ UNCHANGED <<slots, stage, claims, port, filt, seen>>
\* verify_persist_or_panic at the entry of every call, and system_self_check.
Panic == stage \in {0, NSlots} /\ ~valid /\ Reset /\ UNCHANGED <<slots, valid>>

\* interlock_boot_decide.
\* [mutants of Counted] the counter wraps; the limit is passed by one
CountedWraps(r) ==
  IF r.state = "armed" THEN [r EXCEPT !.boots = (@ + 1) % (MaxBoots + 1)] ELSE r

CountedOver(r) ==
  IF r.state # "armed" THEN r
  ELSE IF r.boots > MaxBoots THEN [r EXCEPT !.state = "poisoned"]
  ELSE [r EXCEPT !.boots = @ + 1]

Counted(r) ==
  IF r.state # "armed" THEN r
  ELSE IF r.boots >= MaxBoots THEN [r EXCEPT !.state = "poisoned"]
  ELSE [r EXCEPT !.boots = @ + 1]

BootDecide ==
  /\ stage = -1 /\ stage' = 0 /\ valid' = TRUE
  /\ slots' = [s \in Slots |-> IF valid THEN Counted(slots[s]) ELSE Vacant]
  /\ UNCHANGED <<claims, port, filt, seen>>

\* interlock_warm_restore, one slot: what is armed claims its pins again.
Restore ==
  LET s == stage
      P == slots[s].prog IN
  /\ stage \in Slots /\ (stage = 0 => valid) /\ stage' = stage + 1
  /\ IF ~Armed(s) THEN UNCHANGED <<slots, claims, port, filt>>
     ELSE IF P \in Compiled
       THEN filt' = [filt EXCEPT ![s] = Clear(P)] /\ UNCHANGED <<slots, claims, port>>
     ELSE IF MayClaim(s, P, claims)
       THEN /\ Acquire(s, P)
            /\ slots' = [slots EXCEPT ![s].tf = "none"]
            /\ filt' = [filt EXCEPT ![s] = Clear(P)]
       ELSE /\ Refuse(P)
            /\ slots' = [slots EXCEPT ![s].state = "poisoned"]
            /\ UNCHANGED filt
  /\ UNCHANGED <<valid, seen>>

-----------------------------------------------------------------------------
\* Commands.
Installed(P) == [state |-> "armed", prog |-> P, tf |-> "none", boots |-> 0]
Install(s, P) ==
  /\ slots' = [slots EXCEPT ![s] = Installed(P)]
  /\ filt' = [filt EXCEPT ![s] = Clear(P)]
  /\ seen' = [seen EXCEPT ![s] = <<>>]

\* interlock_arm_slot_compiled: a poisoned slot may be armed again.
ArmCompiled(s, P) ==
  /\ Up /\ valid /\ ~Armed(s) /\ P \in Compiled
  /\ Install(s, P)
  /\ UNCHANGED <<valid, stage, claims, port>>

\* interlock_set_slot_dsl.
\* [mutant of SetDsl] the record is committed before the pins are claimed
SetDslFirst(s, P) ==
  /\ Up /\ valid /\ ~Armed(s) /\ P \notin Compiled
  /\ Install(s, P)
  /\ IF MayClaim(s, P, claims) THEN Acquire(s, P) ELSE Refuse(P)
  /\ UNCHANGED <<valid, stage>>

SetDsl(s, P) ==
  /\ Up /\ valid /\ ~Armed(s) /\ P \notin Compiled
  /\ IF MayClaim(s, P, claims)
       THEN Acquire(s, P) /\ Install(s, P)
       ELSE Refuse(P) /\ UNCHANGED <<slots, filt, seen>>
  /\ UNCHANGED <<valid, stage>>

\* interlock_disarm_slot.
Disarm(s) ==
  /\ Up /\ valid
  /\ claims' = Released(s, claims)
  /\ port' = MadeSafe(s, claims, port)
  /\ slots' = [slots EXCEPT ![s] = Vacant]
  /\ filt' = [filt EXCEPT ![s] = <<>>]
  /\ seen' = [seen EXCEPT ![s] = <<>>]
  /\ UNCHANGED <<valid, stage>>

\* cmd_gpio_write and cmd_gpio_config refuse the statically reserved pins only:
\* they do not ask who has claimed the pin.
GpioWrite(p, level) ==
  /\ "write" \in Commands /\ Up
  /\ port' = [port EXCEPT ![p].level = level]
  /\ UNCHANGED <<slots, valid, stage, claims, filt, seen>>
\* The pull resistor of an input is chosen with the output latch.
GpioConfig(p, mode) ==
  /\ mode \in Commands /\ Up
  /\ port' = [port EXCEPT ![p] = [out |-> mode = "output",
                                  level |-> CASE mode = "pullup" -> 1
                                              [] mode = "pulldown" -> 0
                                              [] OTHER -> @.level]]
  /\ UNCHANGED <<slots, valid, stage, claims, filt, seen>>

-----------------------------------------------------------------------------
\* One evaluation (eval_slot) of what the field shows at this tick.  A digital
\* pin that is driven reads 0 (its input buffer is off).
Watched == UNION {Ins(Prog(s)) : s \in {t \in Slots : Armed(t)}}
Fields == {g \in [Watched -> UNION {Levels[p] : p \in Pins}] : \A p \in Watched : g[p] \in Levels[p]}
Raw(p, g) == IF port[p].out /\ p \notin Analog THEN 0 ELSE g[p]

\* The shift register takes a sample; the level flips when all samples agree.
\* [mutant of Debounced] the level never comes back up
DebouncedDown(w, f, v) ==
  IF w.depth < 2 THEN f
  ELSE LET sr == Append(Tail(f.shift), v) IN
       [f EXCEPT !.shift = sr,
                 !.deb = IF \A i \in DOMAIN sr : sr[i] = 0 THEN 0 ELSE @]

Debounced(w, f, v) ==
  IF w.depth < 2 THEN f
  ELSE LET sr == Append(Tail(f.shift), v) IN
       [f EXCEPT !.shift = sr,
                 !.deb = IF \A i \in DOMAIN sr : sr[i] = 1 THEN 1
                         ELSE IF \A i \in DOMAIN sr : sr[i] = 0 THEN 0 ELSE @]

Holds(op, v, t) ==
  CASE op = "eq" -> v = t [] op = "ne" -> v # t
    [] op = "lt" -> v < t [] op = "le" -> v <= t
    [] op = "gt" -> v > t [] op = "ge" -> v >= t

\* Once it passes, an ordered comparison is eased by the dead band.
\* [mutant of Threshold] no dead band
ThresholdPlain(w, passed) == w.thr

Threshold(w, passed) ==
  IF w.hyst = 0 \/ ~passed THEN w.thr
  ELSE CASE w.op \in {"gt", "ge"} -> IF w.thr > w.hyst THEN w.thr - w.hyst ELSE 0
         [] w.op \in {"lt", "le"} -> IF w.thr + w.hyst > UINT16_MAX THEN UINT16_MAX
                                     ELSE w.thr + w.hyst
         [] w.op \in {"eq", "ne"} -> w.thr

Filtered(s, g) == [p \in Ins(Prog(s)) |->
  LET w == Prog(s).watch[p]
      f == Debounced(w, filt[s][p], Raw(p, g))
      v == IF w.depth < 2 THEN Raw(p, g) ELSE f.deb
  IN [f EXCEPT !.pass = Holds(w.op, v, Threshold(w, @))]]

Vote(s, g) == IF \A p \in Ins(Prog(s)) : Filtered(s, g)[p].pass THEN "true" ELSE "false"

\* A slot's record once the slots in S have been evaluated.
Evaluated(S, g) == [s \in Slots |->
  IF s \in S /\ Armed(s) THEN [slots[s] EXCEPT !.tf = Vote(s, g)] ELSE slots[s]]

-----------------------------------------------------------------------------
\* interlock_tick_all.  First every armed slot is evaluated, then every output
\* is driven once: to its error level when any sharer votes false.
Vetoes(r) == {s \in Slots : r[s].state = "armed" /\ r[s].tf = "false"}

\* [mutant of Driven] the last sharer's vote decides
DrivenLast(p, r) ==
  [port[p] EXCEPT !.level =
     IF \E s \in claims[p].owners : s \in Vetoes(r) /\ \A t \in claims[p].owners : t <= s
       THEN 1 - claims[p].ok ELSE claims[p].ok]

Driven(p, r) ==
  [port[p] EXCEPT !.level =
     IF claims[p].owners \cap Vetoes(r) # {} THEN 1 - claims[p].ok ELSE claims[p].ok]

Sample(s, g) == [p \in Ins(Prog(s)) |-> Raw(p, g)]
Remember(s, g) ==
  LET all == Append(seen[s], Sample(s, g)) IN
  IF Len(all) > Reach(Prog(s)) THEN Tail(all) ELSE all

Hangs(s) == Armed(s) /\ Prog(s) \in Faulty

Tick ==
  /\ Up /\ valid /\ \A s \in Slots : ~Hangs(s)
  /\ \E g \in Fields :
     LET r == Evaluated(Slots, g) IN
     /\ slots' = r
     /\ filt' = [s \in Slots |-> IF Armed(s) THEN Filtered(s, g) ELSE filt[s]]
     /\ port' = [p \in Pins |-> IF claims[p].use = "out" THEN Driven(p, r) ELSE port[p]]
     /\ seen' = [s \in Slots |-> IF Armed(s) THEN Remember(s, g) ELSE seen[s]]
  /\ UNCHANGED <<valid, stage, claims>>

\* An evaluation that never returns: the slots before it have voted, nothing
\* is driven, the watchdog bites.
Hang(s) ==
  /\ Up /\ valid /\ Hangs(s) /\ \A t \in Slots : t < s => ~Hangs(t)
  /\ \E g \in Fields : slots' = Evaluated({t \in Slots : t < s}, g)
  /\ Reset
  /\ UNCHANGED valid

-----------------------------------------------------------------------------
Operator == \E s \in Slots : \/ Disarm(s)
                             \/ \E P \in Programs : ArmCompiled(s, P) \/ SetDsl(s, P)
Shell == \E p \in GpioPins : \/ \E level \in {0, 1} : GpioWrite(p, level)
                             \/ \E mode \in Commands \ {"write"} : GpioConfig(p, mode)
Trouble == WarmReset \/ PowerOn \/ Corrupt
Board == BootDecide \/ Restore \/ Tick \/ Panic \/ \E s \in Slots : Hang(s)

Next == Board \/ Operator \/ Shell \/ Trouble

Spec == Init /\ [][Next]_vars
\* The main loop and the watchdog never rest.
FairSpec == Spec /\ WF_vars(Board)

-----------------------------------------------------------------------------
States == {"empty", "armed", "poisoned"}
Votes == {"none", "true", "false"}

TypeOK ==
  /\ slots \in [Slots -> [state : States, prog : Programs \cup {None},
                          tf : Votes, boots : 0..MaxBoots]]
  /\ valid \in BOOLEAN
  /\ stage \in -1..NSlots
  /\ claims \in [Pins -> [owners : SUBSET Slots, use : {"none", "in", "out"}, ok : {0, 1}]]
  /\ port \in [Pins -> [out : BOOLEAN, level : {0, 1}]]

\* The slots whose pins should be claimed now.
Claimants == {s \in Slots : s < stage /\ Armed(s)}

\* The claim table, lost at every reset and rebuilt slot by slot, says exactly
\* what the armed programs ask for: each pin is owned by the slots whose
\* program names it, an input by one slot only, an output with the level all
\* its owners agree on.  (hal_pin_claim*, claim_inst_pins and its rollback,
\* hal_pin_release_slot, interlock_warm_restore; what PANIC_HAL_PIN_DUPLICATE
\* of system_self_check guards against.)
ClaimsMatchArmed ==
  \A p \in Pins :
    /\ claims[p].owners = {s \in Claimants : p \in Ins(Prog(s)) \cup Outs(Prog(s))}
    /\ \A s \in claims[p].owners :
         /\ p \in Ins(Prog(s)) => claims[p].use = "in" /\ claims[p].owners = {s}
         /\ p \in Outs(Prog(s)) => claims[p].use = "out" /\ claims[p].ok = Prog(s).ok[p]

\* Slots that were armed together can be armed together again: restoring
\* after a warm reset poisons none of them, in whatever order they were armed
\* (interlock_warm_restore goes by slot number).
RestoreKeeps ==
  [][Restore => \A s \in Slots : slots'[s].state = slots[s].state]_vars

\* The last n samples of slot s at pin p, after a tick, were all in V.
Steadily(s, p, V) ==
  LET n == Depth(Prog(s).watch[p])
      h == seen'[s] IN
  Len(h) >= n /\ \A i \in 0..(n - 1) : h[Len(h) - i][p] \in V
\* The levels at which the condition on pin p holds, or is violated by more
\* than the dead band.
Eased(w, v) == CASE w.op \in {"gt", "ge"} -> v + w.hyst
                 [] w.op \in {"lt", "le"} -> v - w.hyst
                 [] w.op \in {"eq", "ne"} -> v
Clearly(s, p, passed) ==
  LET w == Prog(s).watch[p] IN
  {v \in Levels[p] : IF passed THEN Holds(w.op, v, w.thr)
                     ELSE ~Holds(w.op, v, w.thr) /\ ~Holds(w.op, Eased(w, v), w.thr)}

\* A slot that has seen one of its conditions plainly violated for as many
\* ticks as it debounces has all its outputs at their error level when the
\* tick is over, whoever shares them, across resets, arming and disarming
\* (eval_slot, the two phases of interlock_tick_all, hal_pin_drive_outputs).
VetoInTime ==
  [][Tick => \A s \in Slots :
       (Armed(s) /\ \E p \in Ins(Prog(s)) : Steadily(s, p, Clearly(s, p, FALSE)))
         => \A p \in Outs(Prog(s)) : port'[p] = [out |-> TRUE, level |-> 1 - Prog(s).ok[p]]]_vars

\* An output all of whose sharers have seen their conditions plainly satisfied
\* that long is back at its normal level: no veto outlives its cause, be it
\* released, disarmed, poisoned or reset.
ReleaseInTime ==
  [][Tick => \A p \in Pins :
       (claims[p].use = "out" /\ \A s \in claims[p].owners : \A q \in Ins(Prog(s)) :
                                   Steadily(s, q, Clearly(s, q, TRUE)))
         => port'[p].level = claims[p].ok]_vars

\* A vote does not flutter: it stays what it was at a tick whose samples, of
\* every input, are inside the dead band or have not agreed for the debounce
\* depth (eval_slot's shift register and hysteresis).
Undecided(s, p) ==
  LET w == Prog(s).watch[p]
      h == seen'[s] IN
  IF w.depth < 2 THEN h[Len(h)][p] \notin Clearly(s, p, TRUE) \cup Clearly(s, p, FALSE)
  ELSE Len(h) >= w.depth /\ \E i \in 0..(w.depth - 1) : h[Len(h) - i][p] # h[Len(h)][p]
SteadyVote ==
  [][Tick => \A s \in Slots :
       (Armed(s) /\ slots[s].tf # "none" /\ \A p \in Ins(Prog(s)) : Undecided(s, p))
         => slots'[s].tf = slots[s].tf]_vars

\* A program that never returns from its evaluation stops the board for a few
\* resets only: it is poisoned, and the loop goes on (interlock_boot_decide's
\* counter).  Granted that in the end the board resets for no other reason
\* than its own hanging, and the operator arms and disarms nothing.
BootLoopEnds ==
  <>[][Board \/ Shell]_vars => <>[](Up /\ \A s \in Slots : ~Hangs(s))
=============================================================================
