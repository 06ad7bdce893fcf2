--------------------------- MODULE InterlocksProofs ---------------------------
(***************************************************************************)
(* Proofs about Interlocks, for any number of slots, pins and programs:    *)
(* the claim table always says what the armed programs ask for, and what   *)
(* was armed together is restored together after a reset.  The invariant   *)
(* that carries both: armed programs agree about every pin they share,     *)
(* also while the claims are lost (Compatible).  What a host knows of the  *)
(* slots (InterlockStatus) is proved apart, by counting transitions.       *)
(***************************************************************************)
EXTENDS InterlockStatus, FiniteSetTheorems, TLAPS

\* Two programs may be armed at the same time.
Agree(P, Q) ==
  /\ Ins(P) \cap (Ins(Q) \cup Outs(Q)) = {}
  /\ Ins(Q) \cap (Ins(P) \cup Outs(P)) = {}
  /\ \A p \in Outs(P) \cap Outs(Q) : P.ok[p] = Q.ok[p]

ArmedProgram == \A s \in Slots : Armed(s) => Prog(s) \in Programs
Compatible ==
  \A s, t \in Slots : (s # t /\ Armed(s) /\ Armed(t)) => Agree(Prog(s), Prog(t))

IInv == TypeOK /\ ClaimsMatchArmed /\ ArmedProgram /\ Compatible

-----------------------------------------------------------------------------
\* What a program of the registry or of a DSL text names are pins.
LEMMA PinsOfProgram ==
  ASSUME NEW P \in Programs
  PROVE  /\ Ins(P) \subseteq Pins /\ Outs(P) \subseteq Pins
         /\ Ins(P) \cap Outs(P) = {}
         /\ \A p \in Outs(P) : P.ok[p] \in {0, 1}
         /\ P \in Compiled => Ins(P) = {} /\ Outs(P) = {}
BY ProgramsAssumption DEF Ins, Outs

\* A step that leaves the claims, the stage, and what is armed alone.
LEMMA SameArmed ==
  ASSUME IInv, TypeOK', claims' = claims, stage' = stage,
         \A s \in Slots : slots'[s].state = slots[s].state /\ slots'[s].prog = slots[s].prog
  PROVE  IInv'
<1>1. \A s \in Slots : Armed(s)' = Armed(s) /\ Prog(s)' = Prog(s)
  BY DEF Armed, Prog
<1>2. Claimants' = Claimants
  BY <1>1 DEF Claimants
<1>3. \A p \in Pins : claims[p].owners \subseteq Slots
  BY DEF IInv, TypeOK
<1>4. ClaimsMatchArmed'
  BY <1>1, <1>2, <1>3 DEF IInv, ClaimsMatchArmed, Claimants
<1>5. ArmedProgram' /\ Compatible'
  BY <1>1 DEF IInv, ArmedProgram, Compatible
<1> QED BY <1>4, <1>5 DEF IInv

\* A reset empties the claim table before any slot is restored.
LEMMA ResetEmpties ==
  ASSUME IInv, TypeOK', Reset,
         \A s \in Slots : slots'[s].state = slots[s].state /\ slots'[s].prog = slots[s].prog
  PROVE  IInv'
<1>1. \A s \in Slots : Armed(s)' = Armed(s) /\ Prog(s)' = Prog(s)
  BY DEF Armed, Prog
<1>2. Claimants' = {}
  BY SlotsAssumption DEF Reset, Claimants, Slots
<1>3. \A p \in Pins : claims'[p].owners = {}
  BY DEF Reset, Unclaimed
<1>4. ClaimsMatchArmed'
  BY <1>2, <1>3 DEF ClaimsMatchArmed
<1>5. ArmedProgram' /\ Compatible'
  BY <1>1 DEF IInv, ArmedProgram, Compatible
<1> QED BY <1>4, <1>5 DEF IInv

\* Among the slots that have claimed, a slot that agrees with them may claim.
LEMMA AgreeMayClaim ==
  ASSUME IInv, NEW s \in Slots, NEW P \in Programs, s \notin Claimants,
         \A t \in Claimants : Agree(P, Prog(t))
  PROVE  MayClaim(s, P, claims)
<1>1. ASSUME NEW p \in Ins(P) PROVE claims[p].owners = {}
  BY PinsOfProgram DEF IInv, ClaimsMatchArmed, Agree
<1>2. ASSUME NEW p \in Outs(P), claims[p].owners # {}
      PROVE  claims[p].use = "out" /\ claims[p].ok = P.ok[p]
  <2>1. p \in Pins
    BY PinsOfProgram
  <2>2. PICK t \in Claimants : t \in claims[p].owners /\ p \in Ins(Prog(t)) \cup Outs(Prog(t))
    BY <1>2, <2>1 DEF IInv, ClaimsMatchArmed
  <2>3. p \in Outs(Prog(t)) /\ P.ok[p] = Prog(t).ok[p]
    BY <2>2 DEF Agree
  <2> QED BY <2>1, <2>2, <2>3 DEF IInv, ClaimsMatchArmed
<1> QED BY <1>1, <1>2 DEF MayClaim

\* A slot that may claim agrees with every slot that has claimed.
LEMMA MayClaimAgree ==
  ASSUME IInv, NEW s \in Slots, NEW P \in Programs, MayClaim(s, P, claims),
         NEW t \in Claimants, t # s
  PROVE  Agree(P, Prog(t))
<1> DEFINE Q == Prog(t)
<1>1. Q \in Programs /\ t \in Slots
  BY DEF IInv, ArmedProgram, Claimants
<1>2. ASSUME NEW p \in Pins, p \in Ins(Q) \cup Outs(Q) PROVE t \in claims[p].owners
  BY <1>2 DEF IInv, ClaimsMatchArmed
<1>3. \A p \in Ins(P) : p \notin Ins(Q) \cup Outs(Q)
  BY <1>2, PinsOfProgram DEF MayClaim
<1>4. \A p \in Outs(P) \cap (Ins(Q) \cup Outs(Q)) :
        claims[p].use = "out" /\ claims[p].ok = P.ok[p] /\ t \in claims[p].owners
  BY <1>2, PinsOfProgram DEF MayClaim
<1>5. \A p \in Outs(P) : p \notin Ins(Q)
  BY <1>4, PinsOfProgram DEF IInv, ClaimsMatchArmed
<1>6. \A p \in Outs(P) \cap Outs(Q) : P.ok[p] = Q.ok[p]
  BY <1>4, PinsOfProgram DEF IInv, ClaimsMatchArmed
<1> QED BY <1>3, <1>5, <1>6 DEF Agree

-----------------------------------------------------------------------------
\* Types.
Record == [state : States, prog : Programs \cup {None}, tf : Votes, boots : 0..MaxBoots]
ClaimRec == [owners : SUBSET Slots, use : {"none", "in", "out"}, ok : {0, 1}]
PortRec == [out : BOOLEAN, level : {0, 1}]

\* TypeOK, in those names.
LEMMA TypeNames ==
  TypeOK <=> /\ slots \in [Slots -> Record]
             /\ valid \in BOOLEAN
             /\ stage \in -1..NSlots
             /\ claims \in [Pins -> ClaimRec]
             /\ port \in [Pins -> PortRec]
BY DEF TypeOK, Record, ClaimRec, PortRec

\* The constant records the code writes are of their types.
LEMMA Written ==
  /\ Vacant \in Record
  /\ Unclaimed \in ClaimRec
  /\ Safe \in PortRec
  /\ \A P \in Programs : Installed(P) \in Record
<1>1. 0 \in 0..MaxBoots
  BY SlotsAssumption
<1>2. Vacant \in Record /\ \A P \in Programs : Installed(P) \in Record
  BY <1>1 DEF Vacant, Installed, Record, States, Votes
<1> QED BY <1>2 DEF Unclaimed, ClaimRec, Safe, PortRec

\* A stage that restores a slot is a slot, and the next one is a stage.
LEMMA Stages ==
  /\ -1 \in -1..NSlots /\ 0 \in -1..NSlots
  /\ \A s \in Slots : s \in Int /\ s + 1 \in -1..NSlots
BY SlotsAssumption DEF Slots

LEMMA InitType == Init => TypeOK
BY Written, Stages, TypeNames DEF Init

LEMMA ClaimType ==
  ASSUME TypeOK, NEW s \in Slots, NEW P \in Programs, Acquire(s, P)
  PROVE  claims' \in [Pins -> ClaimRec] /\ port' \in [Pins -> PortRec]
<1>1. claims' \in [Pins -> ClaimRec]
  BY PinsOfProgram, TypeNames DEF Acquire, Claim, ClaimRec
<1>2. port' \in [Pins -> PortRec]
  BY TypeNames DEF Acquire, Configure, PortRec
<1> QED BY <1>1, <1>2

LEMMA RefuseType ==
  ASSUME TypeOK, NEW P, Refuse(P)
  PROVE  port' \in [Pins -> PortRec] /\ claims' \in [Pins -> ClaimRec]
BY TypeNames, Written DEF Refuse

LEMMA ResetType ==
  ASSUME TypeOK, Reset, slots' \in [Slots -> Record], valid' \in BOOLEAN
  PROVE  TypeOK'
<1>1. /\ stage' \in -1..NSlots
      /\ claims' \in [Pins -> ClaimRec]
      /\ port' \in [Pins -> PortRec]
  BY Written, Stages DEF Reset
<1> QED BY <1>1 DEF TypeOK, Record, ClaimRec, PortRec

\* Evaluating slots changes their votes only.
LEMMA EvaluatedVotes ==
  ASSUME TypeOK, NEW S, NEW g
  PROVE  /\ Evaluated(S, g) \in [Slots -> Record]
         /\ \A s \in Slots : /\ Evaluated(S, g)[s].state = slots[s].state
                             /\ Evaluated(S, g)[s].prog = slots[s].prog
<1>1. \A s \in Slots : Vote(s, g) \in Votes
  BY DEF Vote, Votes
<1> QED BY <1>1, TypeNames DEF Evaluated, Record

LEMMA TickType ==
  ASSUME TypeOK, Tick
  PROVE  TypeOK'
<1>1. PICK g \in Fields :
        /\ slots' = Evaluated(Slots, g)
        /\ port' = [p \in Pins |-> IF claims[p].use = "out"
                                     THEN Driven(p, Evaluated(Slots, g)) ELSE port[p]]
  BY DEF Tick
<1>2. slots' \in [Slots -> Record]
  BY <1>1, EvaluatedVotes
<1>3. port' \in [Pins -> PortRec]
  <2>1. \A p \in Pins : Driven(p, Evaluated(Slots, g)) \in PortRec
    BY TypeNames DEF Driven, PortRec, ClaimRec
  <2> QED BY <1>1, <2>1, TypeNames
<1>4. valid' \in BOOLEAN /\ stage' \in -1..NSlots /\ claims' \in [Pins -> ClaimRec]
  BY TypeNames DEF Tick
<1> QED BY <1>2, <1>3, <1>4 DEF TypeOK, Record, ClaimRec, PortRec

\* What a boot, a command or a restored slot writes into a record.
LEMMA Rewritten ==
  ASSUME NEW r \in Record
  PROVE  /\ Counted(r) \in Record
         /\ [r EXCEPT !.tf = "none"] \in Record
         /\ [r EXCEPT !.state = "poisoned"] \in Record
<1>1. r.boots < MaxBoots => r.boots + 1 \in 0..MaxBoots
  BY SlotsAssumption DEF Record
<1>2. r.boots \in Int /\ MaxBoots \in Int
  BY SlotsAssumption DEF Record
<1> QED BY <1>1, <1>2 DEF Counted, Record, States, Votes

LEMMA NextType ==
  ASSUME TypeOK, ArmedProgram, [Next]_vars
  PROVE  TypeOK'
<1> USE TypeNames
<1>1. CASE BootDecide
  <2>1. slots' \in [Slots -> Record]
    BY <1>1, Written, Rewritten DEF BootDecide
  <2> QED BY <1>1, <2>1, Stages DEF BootDecide, TypeOK, Record, ClaimRec, PortRec
<1>2. CASE Restore
  <2>1. /\ stage \in Slots /\ stage' \in -1..NSlots
        /\ Prog(stage) = slots[stage].prog /\ slots[stage] \in Record
        /\ valid' \in BOOLEAN
    BY <1>2, Stages DEF Restore, Prog
  <2>2. ASSUME Armed(stage), Prog(stage) \notin Compiled, MayClaim(stage, Prog(stage), claims)
        PROVE  TypeOK'
    <3>1. slots' \in [Slots -> Record] /\ Acquire(stage, Prog(stage))
      BY <1>2, <2>1, <2>2, Rewritten DEF Restore
    <3>2. Prog(stage) \in Programs
      BY <2>1, <2>2 DEF ArmedProgram
    <3> QED BY <2>1, <3>1, <3>2, ClaimType DEF TypeOK, Record, ClaimRec, PortRec
  <2>3. ASSUME Armed(stage), Prog(stage) \notin Compiled, ~MayClaim(stage, Prog(stage), claims)
        PROVE  TypeOK'
    <3>1. slots' \in [Slots -> Record] /\ Refuse(Prog(stage))
      BY <1>2, <2>1, <2>3, Rewritten DEF Restore
    <3> QED BY <2>1, <3>1, RefuseType DEF TypeOK, Record, ClaimRec, PortRec
  <2>4. ASSUME ~Armed(stage) \/ Prog(stage) \in Compiled PROVE TypeOK'
    <3>1. UNCHANGED <<slots, claims, port>>
      BY <1>2, <2>1, <2>4 DEF Restore
    <3> QED BY <2>1, <3>1 DEF TypeOK, Record, ClaimRec, PortRec
  <2> QED BY <2>2, <2>3, <2>4
<1>3. CASE Tick
  BY <1>3, TickType
<1>4. CASE Panic \/ WarmReset \/ PowerOn
  BY <1>4, ResetType DEF Panic, WarmReset, PowerOn
<1>5. ASSUME NEW s \in Slots, Hang(s) PROVE TypeOK'
  BY <1>5, ResetType, EvaluatedVotes DEF Hang
<1>6. CASE Corrupt
  BY <1>6 DEF Corrupt, TypeOK
<1>7. ASSUME NEW s \in Slots, Disarm(s) PROVE TypeOK'
  <2>1. slots' \in [Slots -> Record]
    BY <1>7, Written DEF Disarm
  <2>2. claims' \in [Pins -> ClaimRec]
    BY <1>7, Written DEF Disarm, Released, ClaimRec
  <2>3. port' \in [Pins -> PortRec]
    BY <1>7, Written DEF Disarm, MadeSafe
  <2> QED BY <1>7, <2>1, <2>2, <2>3 DEF Disarm, TypeOK, Record, ClaimRec, PortRec
<1>8. ASSUME NEW s \in Slots, NEW P \in Programs, Install(s, P)
      PROVE  slots' \in [Slots -> Record]
  BY <1>8, Written DEF Install
<1>9. ASSUME NEW s \in Slots, NEW P \in Programs, ArmCompiled(s, P) PROVE TypeOK'
  <2>1. slots' \in [Slots -> Record]
    BY <1>8, <1>9 DEF ArmCompiled
  <2> QED BY <1>9, <2>1 DEF ArmCompiled, TypeOK, Record, ClaimRec, PortRec
<1>10. ASSUME NEW s \in Slots, NEW P \in Programs, SetDsl(s, P) PROVE TypeOK'
  <2>1. valid' \in BOOLEAN /\ stage' \in -1..NSlots
    BY <1>10 DEF SetDsl
  <2>2. slots' \in [Slots -> Record]
    BY <1>8, <1>10 DEF SetDsl
  <2>3. claims' \in [Pins -> ClaimRec] /\ port' \in [Pins -> PortRec]
    BY <1>10, ClaimType, RefuseType DEF SetDsl
  <2> QED BY <2>1, <2>2, <2>3 DEF TypeOK, Record, ClaimRec, PortRec
<1>11. ASSUME NEW p, NEW level \in {0, 1}, GpioWrite(p, level) PROVE TypeOK'
  BY <1>11 DEF GpioWrite, TypeOK
<1>12. ASSUME NEW p, NEW mode, GpioConfig(p, mode) PROVE TypeOK'
  <2>1. PICK level : /\ port' = [port EXCEPT ![p] = [out |-> mode = "output", level |-> level]]
                     /\ p \in Pins => level \in {0, 1}
    BY <1>12 DEF GpioConfig, PortRec
  <2>2. port' \in [Pins -> PortRec]
    BY <2>1 DEF PortRec
  <2> QED BY <1>12, <2>2 DEF GpioConfig, TypeOK, PortRec
<1>13. CASE UNCHANGED vars
  BY <1>13 DEF vars, TypeOK
<1> QED
  BY <1>1, <1>2, <1>3, <1>4, <1>5, <1>6, <1>7, <1>9, <1>10, <1>11, <1>12, <1>13
     DEF Next, Board, Operator, Shell, Trouble

-----------------------------------------------------------------------------
\* The invariant.
LEMMA InitInv == Init => IInv
<1> SUFFICES ASSUME Init PROVE IInv
  OBVIOUS
<1>1. Claimants = {}
  BY SlotsAssumption DEF Init, Claimants, Slots
<1>2. ClaimsMatchArmed
  BY <1>1 DEF Init, ClaimsMatchArmed, Unclaimed
<1>3. ArmedProgram /\ Compatible
  BY DEF Init, ArmedProgram, Compatible, Armed, Vacant
<1> QED BY <1>2, <1>3, InitType DEF IInv

\* A slot that may claim and does claim becomes one of the claimants.
LEMMA ClaimStep ==
  ASSUME IInv, NEW s \in Slots, NEW P \in Programs, s \notin Claimants,
         MayClaim(s, P, claims), claims' = Claim(s, P, claims),
         Claimants' = Claimants \cup {s}, Prog(s)' = P,
         \A t \in Claimants : Prog(t)' = Prog(t)
  PROVE  ClaimsMatchArmed'
<1>1. \A t \in Claimants : Agree(P, Prog(t))
  BY MayClaimAgree
<1>2. SUFFICES ASSUME NEW p \in Pins
      PROVE  /\ claims'[p].owners = {t \in Claimants' : p \in Ins(Prog(t)') \cup Outs(Prog(t)')}
             /\ \A t \in claims'[p].owners :
                  /\ p \in Ins(Prog(t)') => claims'[p].use = "in" /\ claims'[p].owners = {t}
                  /\ p \in Outs(Prog(t)') => claims'[p].use = "out"
                                             /\ claims'[p].ok = Prog(t)'.ok[p]
  BY DEF ClaimsMatchArmed, Ins, Outs
<1>3. /\ claims[p].owners = {t \in Claimants : p \in Ins(Prog(t)) \cup Outs(Prog(t))}
      /\ \A t \in claims[p].owners :
           /\ p \in Ins(Prog(t)) => claims[p].use = "in" /\ claims[p].owners = {t}
           /\ p \in Outs(Prog(t)) => claims[p].use = "out" /\ claims[p].ok = Prog(t).ok[p]
  BY DEF IInv, ClaimsMatchArmed
<1>4. CASE p \in Ins(P)
  <2>1. claims'[p] = [owners |-> {s}, use |-> "in", ok |-> 0]
    BY <1>4 DEF Claim
  <2>2. p \notin Outs(P) /\ \A t \in Claimants : p \notin Ins(Prog(t)) \cup Outs(Prog(t))
    BY <1>1, <1>4, PinsOfProgram DEF Agree
  <2> QED BY <1>4, <2>1, <2>2
<1>5. CASE p \in Outs(P)
  <2>1. p \notin Ins(P)
    BY <1>5, PinsOfProgram
  <2>2. claims'[p] = [owners |-> claims[p].owners \cup {s}, use |-> "out", ok |-> P.ok[p]]
    BY <1>5, <2>1 DEF Claim
  <2>3. \A t \in Claimants : /\ p \notin Ins(Prog(t))
                             /\ p \in Outs(Prog(t)) => Prog(t).ok[p] = P.ok[p]
    BY <1>1, <1>5 DEF Agree
  <2> QED BY <1>3, <1>5, <2>1, <2>2, <2>3
<1>6. CASE p \notin Ins(P) \cup Outs(P)
  <2>1. claims'[p] = claims[p]
    BY <1>6 DEF Claim
  <2> QED BY <1>3, <1>6, <2>1
<1> QED BY <1>4, <1>5, <1>6

\* A program of the registry names no pin: its claim changes nothing.
LEMMA CompiledClaims ==
  ASSUME IInv, NEW s \in Slots, NEW P \in Programs, P \in Compiled
  PROVE  MayClaim(s, P, claims) /\ Claim(s, P, claims) = claims
<1>1. Ins(P) = {} /\ Outs(P) = {}
  BY PinsOfProgram
<1>2. claims \in [Pins -> ClaimRec]
  BY TypeNames DEF IInv
<1> QED BY <1>1, <1>2 DEF MayClaim, Claim

\* Once the board is up, every armed slot is a claimant.
LEMMA UpClaimants == ASSUME Up PROVE Claimants = {s \in Slots : Armed(s)}
BY SlotsAssumption DEF Up, Claimants, Slots

\* Arming a program that may claim its pins beside those that have.
LEMMA ArmStep ==
  ASSUME IInv, TypeOK', NEW s \in Slots, NEW P \in Programs, Up, ~Armed(s),
         MayClaim(s, P, claims), claims' = Claim(s, P, claims),
         Install(s, P), stage' = stage
  PROVE  IInv'
<1>1. slots' = [slots EXCEPT ![s] = Installed(P)] /\ slots \in [Slots -> Record]
  BY TypeNames DEF Install, IInv
<1>2. /\ Armed(s)' /\ Prog(s)' = P
      /\ \A t \in Slots \ {s} : Armed(t)' = Armed(t) /\ Prog(t)' = Prog(t)
  BY <1>1 DEF Armed, Prog, Installed
<1>3. Up' /\ Claimants = {t \in Slots : Armed(t)}
  BY UpClaimants DEF Up
<1>4. Claimants' = {t \in Slots : Armed(t)'}
  BY <1>3, SlotsAssumption DEF Up, Claimants, Slots
<1>5. s \notin Claimants /\ Claimants' = Claimants \cup {s}
  BY <1>2, <1>3, <1>4
<1>6. ClaimsMatchArmed'
  BY <1>2, <1>3, <1>5, ClaimStep
<1>7. ArmedProgram'
  BY <1>2 DEF IInv, ArmedProgram
<1>8. \A t \in Claimants : Agree(P, Prog(t)) /\ Agree(Prog(t), P)
  BY <1>5, MayClaimAgree DEF Agree
<1>9. Compatible'
  <2> SUFFICES ASSUME NEW t \in Slots, NEW u \in Slots, t # u, Armed(t)', Armed(u)'
               PROVE  Agree(Prog(t)', Prog(u)')
    BY DEF Compatible, Agree, Ins, Outs
  <2>1. CASE t = s
    BY <1>2, <1>3, <1>8, <2>1
  <2>2. CASE u = s
    BY <1>2, <1>3, <1>8, <2>2
  <2>3. CASE t # s /\ u # s
    BY <1>2, <2>3 DEF IInv, Compatible
  <2> QED BY <2>1, <2>2, <2>3
<1> QED BY <1>6, <1>7, <1>9 DEF IInv

\* Giving a slot's pins up leaves the others their claims.
LEMMA DisarmStep ==
  ASSUME IInv, TypeOK', NEW s \in Slots, Disarm(s)
  PROVE  IInv'
<1>1. slots' = [slots EXCEPT ![s] = Vacant] /\ slots \in [Slots -> Record]
  BY TypeNames DEF Disarm, IInv
<1>2. /\ ~Armed(s)'
      /\ \A t \in Slots \ {s} : Armed(t)' = Armed(t) /\ Prog(t)' = Prog(t)
  BY <1>1 DEF Armed, Prog, Vacant
<1>3. Claimants = {t \in Slots : Armed(t)} /\ Claimants' = {t \in Slots : Armed(t)'}
  BY UpClaimants, SlotsAssumption DEF Disarm, Up, Claimants, Slots
<1>4. Claimants' = Claimants \ {s}
  BY <1>2, <1>3
<1>5. ASSUME NEW p \in Pins
      PROVE  /\ claims'[p].owners = claims[p].owners \ {s}
             /\ \A t \in claims'[p].owners :
                  claims'[p].use = claims[p].use /\ claims'[p].ok = claims[p].ok
  <2>1. claims[p] \in ClaimRec /\ claims' = Released(s, claims)
    BY TypeNames DEF IInv, Disarm
  <2>2. CASE claims[p].owners = {s}
    BY <2>1, <2>2 DEF Released, Unclaimed
  <2>3. CASE claims[p].owners # {s}
    BY <2>1, <2>3 DEF Released, ClaimRec
  <2> QED BY <2>2, <2>3
<1>6. ClaimsMatchArmed'
  <2> SUFFICES ASSUME NEW p \in Pins
               PROVE  /\ claims'[p].owners =
                           {t \in Claimants' : p \in Ins(Prog(t)') \cup Outs(Prog(t)')}
                      /\ \A t \in claims'[p].owners :
                           /\ p \in Ins(Prog(t)') => /\ claims'[p].use = "in"
                                                     /\ claims'[p].owners = {t}
                           /\ p \in Outs(Prog(t)') => /\ claims'[p].use = "out"
                                                      /\ claims'[p].ok = Prog(t)'.ok[p]
    BY DEF ClaimsMatchArmed, Ins, Outs
  <2>1. /\ claims[p].owners = {t \in Claimants : p \in Ins(Prog(t)) \cup Outs(Prog(t))}
        /\ \A t \in claims[p].owners :
             /\ p \in Ins(Prog(t)) => claims[p].use = "in" /\ claims[p].owners = {t}
             /\ p \in Outs(Prog(t)) => claims[p].use = "out" /\ claims[p].ok = Prog(t).ok[p]
    BY DEF IInv, ClaimsMatchArmed
  <2>2. \A t \in Claimants' : t \in Slots \ {s} /\ Prog(t)' = Prog(t)
    BY <1>2, <1>3, <1>4
  <2>3. claims'[p].owners = {t \in Claimants' : p \in Ins(Prog(t)') \cup Outs(Prog(t)')}
    BY <1>4, <1>5, <2>1, <2>2
  <2> QED BY <1>4, <1>5, <2>1, <2>2, <2>3
<1>7. ArmedProgram'
  BY <1>2 DEF IInv, ArmedProgram
<1>8. Compatible'
  <2> SUFFICES ASSUME NEW t \in Slots, NEW u \in Slots, t # u, Armed(t)', Armed(u)'
               PROVE  Agree(Prog(t)', Prog(u)')
    BY DEF Compatible, Agree, Ins, Outs
  <2> QED BY <1>2 DEF IInv, Compatible
<1> QED BY <1>6, <1>7, <1>8 DEF IInv

\* A boot may poison slots, or find none; no slot has claimed yet.
LEMMA BootStep ==
  ASSUME IInv, TypeOK', BootDecide
  PROVE  IInv'
<1>1. \A s \in Slots : Armed(s)' => Armed(s) /\ Prog(s)' = Prog(s)
  <2> SUFFICES ASSUME NEW s \in Slots, Armed(s)'
               PROVE  Armed(s) /\ Prog(s)' = Prog(s)
    OBVIOUS
  <2>1. slots[s] \in Record /\ slots'[s] = IF valid THEN Counted(slots[s]) ELSE Vacant
    BY TypeNames DEF IInv, BootDecide
  <2>2. slots'[s].state = "armed"
    BY DEF Armed
  <2> QED BY <2>1, <2>2 DEF Armed, Prog, Counted, Vacant, Record
<1>2. Claimants = {} /\ Claimants' = {}
  BY SlotsAssumption DEF BootDecide, Claimants, Slots
<1>3. \A p \in Pins : claims'[p].owners = {}
  BY <1>2 DEF IInv, ClaimsMatchArmed, BootDecide
<1>4. ClaimsMatchArmed'
  BY <1>2, <1>3 DEF ClaimsMatchArmed
<1>5. ArmedProgram'
  BY <1>1 DEF IInv, ArmedProgram
<1>6. Compatible'
  <2> SUFFICES ASSUME NEW t \in Slots, NEW u \in Slots, t # u, Armed(t)', Armed(u)'
               PROVE  Agree(Prog(t)', Prog(u)')
    BY DEF Compatible, Agree, Ins, Outs
  <2> QED BY <1>1 DEF IInv, Compatible
<1> QED BY <1>4, <1>5, <1>6 DEF IInv

\* The slot a boot is about to restore finds its pins free, or shared with
\* programs it agrees with.
LEMMA RestoreMayClaim ==
  ASSUME IInv, stage \in Slots, Armed(stage)
  PROVE  /\ stage \notin Claimants
         /\ Prog(stage) \in Programs
         /\ MayClaim(stage, Prog(stage), claims)
<1>1. stage \notin Claimants
  BY SlotsAssumption DEF Claimants, Slots
<1>2. Prog(stage) \in Programs
  BY DEF IInv, ArmedProgram
<1>3. \A t \in Claimants : Agree(Prog(stage), Prog(t))
  BY <1>1 DEF IInv, Compatible, Claimants
<1> QED BY <1>1, <1>2, <1>3, AgreeMayClaim

\* Restoring a slot poisons none: its state and program stay.
LEMMA RestoreSame ==
  ASSUME IInv, Restore
  PROVE  \A s \in Slots : slots'[s].state = slots[s].state /\ slots'[s].prog = slots[s].prog
<1>1. stage \in Slots /\ Prog(stage) = slots[stage].prog /\ slots \in [Slots -> Record]
  BY TypeNames DEF Restore, Prog, IInv
<1>2. Armed(stage) => MayClaim(stage, slots[stage].prog, claims)
  BY <1>1, RestoreMayClaim
<1>3. slots' = slots \/ slots' = [slots EXCEPT ![stage].tf = "none"]
  BY <1>2 DEF Restore
<1> QED BY <1>1, <1>3 DEF Record

\* The restored slot joins the claimants.
LEMMA RestoreStep ==
  ASSUME IInv, TypeOK', Restore
  PROVE  IInv'
<1>1. PICK s \in Slots : s = stage /\ stage' = s + 1
  BY DEF Restore
<1>2. \A t \in Slots : Armed(t)' = Armed(t) /\ Prog(t)' = Prog(t)
  BY RestoreSame DEF Armed, Prog
<1>3. Claimants' = IF Armed(s) THEN Claimants \cup {s} ELSE Claimants
  BY <1>1, <1>2, SlotsAssumption DEF Claimants, Slots
<1>4. ArmedProgram' /\ Compatible'
  BY <1>2 DEF IInv, ArmedProgram, Compatible
<1>5. CASE ~Armed(s)
  <2>1. claims' = claims
    BY <1>1, <1>5 DEF Restore
  <2>2. \A p \in Pins : claims[p].owners \subseteq Claimants
    BY DEF IInv, ClaimsMatchArmed
  <2>3. \A t \in Claimants : t \in Slots
    BY DEF Claimants
  <2>4. ClaimsMatchArmed'
    BY <1>2, <1>3, <1>5, <2>1, <2>2, <2>3 DEF IInv, ClaimsMatchArmed
  <2> QED BY <1>4, <2>4 DEF IInv
<1>6. CASE Armed(s)
  <2> PICK P : P = Prog(s) /\ P = slots[s].prog
    BY DEF Prog
  <2>1. s \notin Claimants /\ P \in Programs /\ MayClaim(s, P, claims)
    BY <1>1, <1>6, RestoreMayClaim
  <2>2. claims' = Claim(s, P, claims)
    <3>1. CASE P \in Compiled
      BY <1>1, <1>6, <2>1, <3>1, CompiledClaims DEF Restore
    <3>2. CASE P \notin Compiled
      BY <1>1, <1>6, <2>1, <3>2 DEF Restore, Acquire
    <3> QED BY <3>1, <3>2
  <2>3. \A t \in Claimants : Prog(t)' = Prog(t)
    BY <1>2 DEF Claimants
  <2>4. Prog(s)' = P /\ Claimants' = Claimants \cup {s}
    BY <1>1, <1>2, <1>3, <1>6
  <2>5. ClaimsMatchArmed'
    BY <1>1, <2>1, <2>2, <2>3, <2>4, ClaimStep
  <2> QED BY <1>4, <2>5 DEF IInv
<1> QED BY <1>5, <1>6

-----------------------------------------------------------------------------
\* No step of the board, the operator, the shell or bad luck breaks the
\* invariant.
LEMMA NextInv ==
  ASSUME IInv, [Next]_vars
  PROVE  IInv'
<1>1. TypeOK'
  BY NextType DEF IInv
<1>2. CASE BootDecide
  BY <1>1, <1>2, BootStep
<1>3. CASE Restore
  BY <1>1, <1>3, RestoreStep
<1>4. CASE Tick
  <2>1. PICK g : slots' = Evaluated(Slots, g)
    BY <1>4 DEF Tick
  <2>2. \A s \in Slots : slots'[s].state = slots[s].state /\ slots'[s].prog = slots[s].prog
    BY <2>1, EvaluatedVotes DEF IInv
  <2> QED BY <1>1, <1>4, <2>2, SameArmed DEF Tick
<1>5. CASE Panic \/ WarmReset \/ PowerOn
  BY <1>1, <1>5, ResetEmpties DEF Panic, WarmReset, PowerOn
<1>6. ASSUME NEW s \in Slots, Hang(s) PROVE IInv'
  <2>1. PICK g : slots' = Evaluated({t \in Slots : t < s}, g)
    BY <1>6 DEF Hang
  <2>2. \A t \in Slots : slots'[t].state = slots[t].state /\ slots'[t].prog = slots[t].prog
    BY <2>1, EvaluatedVotes DEF IInv
  <2> QED BY <1>1, <1>6, <2>2, ResetEmpties DEF Hang
<1>7. CASE Corrupt
  BY <1>1, <1>7, SameArmed DEF Corrupt
<1>8. ASSUME NEW s \in Slots, Disarm(s) PROVE IInv'
  BY <1>1, <1>8, DisarmStep
<1>9. ASSUME NEW s \in Slots, NEW P \in Programs, ArmCompiled(s, P) PROVE IInv'
  <2>1. MayClaim(s, P, claims) /\ claims' = Claim(s, P, claims)
    BY <1>9, CompiledClaims DEF ArmCompiled
  <2> QED BY <1>1, <1>9, <2>1, ArmStep DEF ArmCompiled
<1>10. ASSUME NEW s \in Slots, NEW P \in Programs, SetDsl(s, P) PROVE IInv'
  <2>1. CASE MayClaim(s, P, claims)
    BY <1>1, <1>10, <2>1, ArmStep DEF SetDsl, Acquire
  <2>2. CASE ~MayClaim(s, P, claims)
    BY <1>1, <1>10, <2>2, SameArmed DEF SetDsl, Refuse
  <2> QED BY <2>1, <2>2
<1>11. ASSUME NEW p, NEW level, GpioWrite(p, level) PROVE IInv'
  BY <1>1, <1>11, SameArmed DEF GpioWrite
<1>12. ASSUME NEW p, NEW mode, GpioConfig(p, mode) PROVE IInv'
  BY <1>1, <1>12, SameArmed DEF GpioConfig
<1>13. CASE UNCHANGED vars
  BY <1>1, <1>13, SameArmed DEF vars
<1> QED
  BY <1>2, <1>3, <1>4, <1>5, <1>6, <1>7, <1>8, <1>9, <1>10, <1>11, <1>12, <1>13
     DEF Next, Board, Operator, Shell, Trouble

\* The invariant holds of every reachable state.
LEMMA Invariant == Spec => []IInv
<1>1. Init => IInv
  BY InitInv
<1>2. IInv /\ [Next]_vars => IInv'
  BY NextInv
<1> QED BY <1>1, <1>2, PTL DEF Spec

\* Every variable keeps its type: no boot counter passes its limit, no pin is
\* in a state the claim table cannot name.
THEOREM TypeCorrect == Spec => []TypeOK
<1>1. IInv => TypeOK
  BY DEF IInv
<1> QED BY <1>1, Invariant, PTL

\* However slots are armed, refused, disarmed, hung, poisoned, reset and
\* restored, the pin table says exactly what the armed programs ask for
\* (hal_pin_claim*, claim_inst_pins, interlock_warm_restore).
THEOREM ClaimsHold == Spec => []ClaimsMatchArmed
<1>1. IInv => ClaimsMatchArmed
  BY DEF IInv
<1> QED BY <1>1, Invariant, PTL

\* interlock_warm_restore never poisons a slot for a pin conflict: what could
\* be armed together is compatible in every order of claiming.
THEOREM RestoresAll == Spec => RestoreKeeps
<1>1. IInv /\ [Next]_vars =>
        [Restore => \A s \in Slots : slots'[s].state = slots[s].state]_vars
  BY RestoreSame
<1> QED BY <1>1, Invariant, PTL DEF Spec, RestoreKeeps

-----------------------------------------------------------------------------
\* The numbers and the copy of the buffer that bear out VoteKnown.
KInv ==
  /\ seq \in Nat /\ view.seq \in Nat
  /\ polled # Never => view.seq <= seq
  /\ VoteKnown

\* There are finitely many transitions in a tick, and a host that applied as
\* many as there are has applied them all.
LEMMA AppliedAll ==
  ASSUME NEW now, NEW kept \in SUBSET Changed(now)
  PROVE  /\ Cardinality(Applied(now, kept)) \in Nat /\ Cardinality(Changed(now)) \in Nat
         /\ Cardinality(Applied(now, kept)) <= Cardinality(Changed(now))
         /\ Cardinality(Applied(now, kept)) = Cardinality(Changed(now))
              => Applied(now, kept) = Changed(now)
<1>1. IsFiniteSet(Slots)
  BY SlotsAssumption, FS_Interval DEF Slots
<1>2. Changed(now) \subseteq Slots
  BY DEF Changed
<1>3. IsFiniteSet(Changed(now))
  BY <1>1, <1>2, FS_Subset
<1>4. Applied(now, kept) \subseteq Changed(now)
  BY DEF Applied
<1>5. IsFiniteSet(Applied(now, kept))
  BY <1>3, <1>4, FS_Subset
<1> QED BY <1>3, <1>4, <1>5, FS_Subset, FS_CardinalityType

\* What the host's copy says of a slot after a tick: the new state and vote,
\* if it applied the transition, and what it said before, if it did not.
LEMMA HeardSlots ==
  ASSUME NEW now, NEW kept, NEW s \in Slots
  PROVE  /\ s \in Applied(now, kept) =>
              /\ Heard(now, kept).slots[s].state = now[s].state
              /\ Heard(now, kept).slots[s].tf = now[s].tf
         /\ s \notin Applied(now, kept) => Heard(now, kept).slots[s] = view.slots[s]
BY DEF Heard, Told

\* A tick that leaves a host with the last number has told it every transition,
\* and the host knew all the others' votes.
LEMMA PublishKnown ==
  ASSUME KInv, Publish
  PROVE  KInv'
<1>1. PICK now : now = [s \in Slots |-> Shown(s)]
  OBVIOUS
<1>2. /\ status' = now /\ seq' = Bumped(now) /\ polled' = polled
      /\ \E kept \in SUBSET Changed(now) : view' = Heard(now, kept)
  BY <1>1 DEF Publish
<1>3. PICK kept \in SUBSET Changed(now) : view' = Heard(now, kept)
  BY <1>2
<1> DEFINE a == Cardinality(Applied(now, kept))
           c == Cardinality(Changed(now))
<1>4. a \in Nat /\ c \in Nat /\ a <= c /\ (a = c => Applied(now, kept) = Changed(now))
  BY AppliedAll
<1>5. seq' = seq + c /\ view'.seq = view.seq + a
  BY <1>2, <1>3 DEF Bumped, Heard
<1>6. seq \in Nat /\ view.seq \in Nat /\ (polled # Never => view.seq <= seq)
  BY DEF KInv
<1> HIDE DEF a, c
<1>7. seq' \in Nat /\ view'.seq \in Nat /\ (polled # Never => view'.seq <= seq')
  BY <1>4, <1>5, <1>6
<1>8. ASSUME polled # Never, view'.seq = seq', NEW s \in Slots
      PROVE  view'.slots[s].state = now[s].state /\ view'.slots[s].tf = now[s].tf
  <2>1. view.seq = seq /\ a = c
    BY <1>4, <1>5, <1>6, <1>8
  <2>2. Applied(now, kept) = Changed(now)
    BY <1>4, <2>1
  <2>3. view.slots[s].state = status[s].state /\ view.slots[s].tf = status[s].tf
    BY <1>8, <2>1 DEF KInv, VoteKnown, SameVote
  <2>4. CASE s \in Changed(now)
    BY <1>3, <2>2, <2>4, HeardSlots
  <2>5. CASE s \notin Changed(now)
    <3>1. now[s].state = status[s].state /\ now[s].tf = status[s].tf
      BY <2>5 DEF Changed
    <3>2. view'.slots[s] = view.slots[s]
      BY <1>3, <2>2, <2>5, HeardSlots
    <3> QED BY <2>3, <3>1, <3>2
  <2> QED BY <2>4, <2>5
<1>9. VoteKnown'
  BY <1>2, <1>8 DEF VoteKnown, SameVote
<1> QED BY <1>2, <1>7, <1>9 DEF KInv

\* A poll fetches the buffer with its number; a restart forgets the poll.
LEMMA KnownNext ==
  ASSUME KInv, [StatusNext]_<<vars, statusVars>>
  PROVE  KInv'
<1>1. CASE Publish
  BY <1>1, PublishKnown
<1>2. CASE Poll
  <2>1. view' = [seq |-> seq, slots |-> status] /\ status' = status /\ seq' = seq
    BY <1>2 DEF Poll
  <2> QED BY <2>1 DEF KInv, VoteKnown, SameVote
<1>3. CASE Restart
  <2>1. seq' = 0 /\ polled' = Never /\ view' = view
    BY <1>3 DEF Restart
  <2> QED BY <2>1 DEF KInv, VoteKnown
<1>4. CASE UNCHANGED statusVars
  BY <1>4 DEF statusVars, KInv, VoteKnown, SameVote
<1> QED BY <1>1, <1>2, <1>3, <1>4 DEF StatusNext, Unseen

\* Between two restarts a host whose number is the last one given out knows the
\* state and the vote of every slot, whatever came between two ticks and
\* whichever events were dropped (the comparison and the numbering of
\* interlock_tick_all, emit_op_event, handle_op_poll_inline).
THEOREM VotesKnown == StatusSpec => []VoteKnown
<1>1. StatusInit => KInv
  BY DEF StatusInit, KInv, VoteKnown, Never
<1>2. KInv /\ [StatusNext]_<<vars, statusVars>> => KInv'
  BY KnownNext
<1>3. KInv => VoteKnown
  BY DEF KInv
<1> QED BY <1>1, <1>2, <1>3, PTL DEF StatusSpec

=============================================================================
