--------------------------- MODULE SyncLadderProofs ---------------------------
(***************************************************************************)
(* Proofs about SyncLadder, for every roster, queue depth and number of    *)
(* mishaps: the host believes that the roster is provisioned only while    *)
(* the dongle holds it, and its chain waits for one reply as long as the   *)
(* port has bounced once at most and no write has broken.                  *)
(***************************************************************************)
EXTENDS SyncLadder, FiniteSetTheorems, WellFoundedInduction, TLAPS

-----------------------------------------------------------------------------
(***************************************************************************)
(* What is on the cable and in the dongle's queue.                         *)
(***************************************************************************)
IsCommand(f, cmd) == f.kind = "shell" /\ f.cmd = cmd
Has(q, kind) == \E i \in DOMAIN q : q[i].kind = kind
NoClear(q) == \A i \in DOMAIN q : ~IsCommand(q[i], "clear")

\* In q a LIST whose reply is awaited (by P), and a frame of one of the kinds of later ones.
ListOf(q, P) == \E i \in DOMAIN q : IsCommand(q[i], "list") /\ q[i].rid \in P
ListIsLast(q, P) ==
  \A i, j \in DOMAIN q :
    i < j /\ IsCommand(q[i], "list") /\ q[i].rid \in P => ~IsCommand(q[j], "clear")
Before(q, first, last) ==
  \E i, j \in DOMAIN q : i < j /\ q[i].kind = first /\ q[j].kind = last

\* A reply in q that on_prov_reply will see; one that counts the whole roster.
AwaitedReply(q, i, P) == q[i].kind = "reply" /\ q[i].rid \in P
CountsAll(q, i, P) == AwaitedReply(q, i, P) /\ q[i].result >= RosterCount

-----------------------------------------------------------------------------
(***************************************************************************)
(* The invariant behind DoneMeansProvisioned.                              *)
(***************************************************************************)

\* The dongle will not announce itself again.
Quiet == ~Has(to_host, "register") /\ dongle.state # "boot"

\* The dongle holds the roster and nothing on its way takes it away.
Whole == RosterCount = 0 \/ ( /\ dongle.roster = Slaves
                              /\ NoClear(dongle.shell) /\ NoClear(to_dongle))

Ready(h) == h.prov = "IDLE" /\ h.proto = "OPERATIONAL" /\ h.identity

\* Request ids are given out once, in increasing order.
IdsGiven ==
  /\ \A rid \in host.pend : rid < host.next
  /\ \A i \in DOMAIN to_dongle : to_dongle[i].kind = "shell" => to_dongle[i].rid < host.next
  /\ \A i \in DOMAIN dongle.shell : dongle.shell[i].rid < host.next
  /\ \A i \in DOMAIN to_host : to_host[i].kind = "reply" => to_host[i].rid < host.next

\* While the dongle does not see the host's port open, nothing that comes from
\* the other side is awaited, and the host starts nothing.
Severed ==
  /\ line = (host.link = "up")
  /\ host.link # "up" \/ ~dongle.seen => \A rid \in host.pend : ~OnItsWay(rid)
  /\ host.link = "up" /\ ~dongle.seen => ~Ready(host)

\* A reply that is awaited was sent by a dongle past BOOT, behind its REGISTERs.
ReplyIsLast ==
  \A i \in DOMAIN to_host :
    AwaitedReply(to_host, i, host.pend) =>
      /\ dongle.state # "boot"
      /\ \A j \in DOMAIN to_host : i < j => to_host[j].kind # "register"

\* An awaited LIST is the last word of its chain, and so is its answer.
ListStands ==
  /\ ListIsLast(dongle.shell, host.pend) /\ ListIsLast(to_dongle, host.pend)
  /\ ListOf(dongle.shell, host.pend) => NoClear(to_dongle)
  /\ ListOf(dongle.shell, host.pend) \/ ListOf(to_dongle, host.pend)
       => host.prov # "IDLE" /\ Quiet
AnswerStands ==
  \A i \in DOMAIN to_host :
    /\ AwaitedReply(to_host, i, host.pend) /\ to_host[i].result > 0 => host.prov # "IDLE" /\ Quiet
    /\ CountsAll(to_host, i, host.pend) => Whole

DoneStands == host.prov = "DONE" => host.link # "down" /\ (host.link = "up" => Whole)
Indexed(h) == h.prov = "REGISTER" => h.idx < RosterCount

IInv == /\ TypeOK /\ IdsGiven /\ Severed /\ ReplyIsLast
        /\ ListStands /\ AnswerStands /\ DoneStands /\ Indexed(host)

-----------------------------------------------------------------------------
(***************************************************************************)
(* The invariant behind ChainIsSingle.                                     *)
(***************************************************************************)
Excused == "broken" \in happened \/ bounces >= 2

Single == IF host.prov \in Awaiting THEN \E rid \in host.pend : host.pend = {rid} ELSE host.pend = {}

\* A host that is not linked to a dongle that sees it has not begun to climb.
Fresh == host.link = "down" \/ (host.link = "up" /\ ~dongle.seen)
           => host.prov = "IDLE" /\ ~host.identity

\* Once the ladder is climbed or the chain begun, no REGISTER comes any more.
Climbed == host.link = "up" /\ (host.prov # "IDLE" \/ (host.identity /\ host.proto = "OPERATIONAL"))
             => Quiet

\* Before the first bounce, and after it until the dongle has seen the port
\* reopened: a dongle that went through the ladder once.
OneLife ==
  /\ Has(to_host, "heartbeat") => ~Has(to_host, "register")
  /\ ~Before(to_host, "manifest", "register")
  /\ Has(to_dongle, "begin") \/ dongle.state = "op" => ~Has(to_host, "register")
  /\ dongle.state = "boot" =>
       ~Has(to_host, "manifest") /\ ~Has(to_host, "heartbeat") /\ ~Has(to_dongle, "begin")

Sandwich(q) ==
  \E i, j, k \in DOMAIN q :
    /\ i < j /\ j < k
    /\ q[i].kind = "register" /\ q[j].kind = "heartbeat" /\ q[k].kind = "register"

\* From then on: no HEARTBEAT between two REGISTERs, read or unread.
NoSandwich ==
  /\ ~Sandwich(to_host)
  /\ dongle.state = "boot" => ~Before(to_host, "register", "heartbeat")
  /\ host.link = "up" /\ host.identity =>
       /\ ~Before(to_host, "heartbeat", "register")
       /\ dongle.state = "boot" => ~Has(to_host, "heartbeat")

Unbounced == bounces = 0 => ~dongle.dropped /\ (dongle.seen => host.link = "up")

Untouched == bounces = 0 \/ host.link # "up" \/ ~dongle.seen
Calm == /\ Single /\ Fresh /\ Climbed /\ NoSandwich /\ Unbounced
        /\ Untouched => OneLife

CInv == Excused \/ Calm

-----------------------------------------------------------------------------
(***************************************************************************)
(* What the host's functions do.                                           *)
(***************************************************************************)
Ways == {"sent", "broken"}

LEMMA HostFields ==
  \A h \in Hosts : /\ h.link \in {"down", "up", "gone"} /\ h.proto \in Protos
                    /\ h.identity \in BOOLEAN /\ h.get \in BOOLEAN
                    /\ h.acked \in {"never", "now", "gap", "old"}
                    /\ h.prov \in Awaiting \cup {"IDLE", "DONE", "FAIL"}
                    /\ h.idx \in 0..RosterCount /\ h.pend \in SUBSET Nat /\ h.next \in Nat
BY DEF Hosts

\* reset_sync starts the ladder and the provisioning over, and keeps the rest.
LEMMA ResetSyncIs ==
  ASSUME NEW h \in Hosts
  PROVE  /\ ResetSync(h) \in Hosts
         /\ ResetSync(h).proto = "UNKNOWN" /\ ResetSync(h).prov = "IDLE" /\ ~ResetSync(h).get
         /\ ResetSync(h).link = h.link /\ ResetSync(h).identity = h.identity
         /\ ResetSync(h).pend = h.pend /\ ResetSync(h).next = h.next
<1>1. ResetSync(h) \in Hosts
  <2>1. h.link \in {"down", "up", "gone"} /\ h.identity \in BOOLEAN /\ h.pend \in SUBSET Nat
        /\ h.next \in Nat
    BY DEF Hosts
  <2>2. 0 \in 0..RosterCount
    BY SyncConstants
  <2> QED BY <2>1, <2>2 DEF ResetSync, Hosts, Protos
<1>2. ResetSync(h).proto = "UNKNOWN" /\ ResetSync(h).prov = "IDLE" /\ ResetSync(h).get = FALSE
  BY DEF ResetSync, Hosts
<1>3. /\ ResetSync(h).link = h.link /\ ResetSync(h).identity = h.identity
      /\ ResetSync(h).pend = h.pend /\ ResetSync(h).next = h.next
  BY DEF ResetSync, Hosts
<1> QED BY <1>1, <1>2, <1>3

\* go_down leaves nothing of the session.
LEMMA DownIs ==
  ASSUME NEW h \in Hosts
  PROVE  /\ Down(h) \in Hosts
         /\ Down(h).link = "down" /\ Down(h).prov = "IDLE" /\ Down(h).pend = {}
         /\ ~Down(h).identity /\ Down(h).proto = "UNKNOWN"
         /\ Down(h).next = h.next /\ ~Down(h).get
<1> DEFINE f == Failed(h, h.pend)
          d == [f EXCEPT !.link = "down", !.identity = FALSE]
<1>1. f \in Hosts /\ f.pend = {} /\ f.next = h.next
  BY DEF Failed, Hosts
<1> HIDE DEF f
<1>2. d \in Hosts /\ d.pend = {} /\ d.next = h.next /\ ~d.identity /\ d.link = "down"
  BY <1>1 DEF Hosts
<1>3. Down(h) = ResetSync(d)
  BY DEF Down, f
<1> HIDE DEF d
<1> QED BY <1>2, <1>3, ResetSyncIs

\* usb_send on a closed port, on an open one, and on one that goes away.
LEMMA PutIs ==
  ASSUME NEW h \in Hosts, NEW f
  PROVE  /\ h.link = "down" => \A way \in Ways : Put(h, f, way) = Does(h, <<>>)
         /\ h.link # "down" => Put(h, f, "sent") = Does(h, <<f>>)
         /\ h.link # "down" => Put(h, f, "broken") = Does(Down(h), <<>>)
BY DEF Put, Ways

\* The host h, whose pending requests were P, after the request is entered.
Entered(h, P) == [h EXCEPT !.pend = P \cup {h.next}, !.next = h.next + 1]

LEMMA EnteredIs ==
  ASSUME NEW h \in Hosts, NEW P \in SUBSET Nat
  PROVE  /\ Entered(h, P) \in Hosts
         /\ Entered(h, P).pend = P \cup {h.next} /\ Entered(h, P).next = h.next + 1
         /\ Entered(h, P).link = h.link /\ Entered(h, P).identity = h.identity
         /\ Entered(h, P).proto = h.proto
         /\ Entered(h, P).prov = h.prov /\ Entered(h, P).idx = h.idx
<1> DEFINE n == h.next + 1
          Q == P \cup {h.next}
<1>1. n \in Nat /\ Q \in SUBSET Nat
  <2>1. h.next \in Nat
    BY HostFields
  <2>2. h.next + 1 \in Nat
    BY <2>1
  <2>3. \A x \in Q : x \in Nat
    BY <2>1
  <2> QED BY <2>2, <2>3
<1>2. Entered(h, P) = [h EXCEPT !.pend = Q, !.next = n]
  BY DEF Entered
<1> HIDE DEF n, Q
<1>3. Entered(h, P) \in Hosts
  BY <1>1, <1>2 DEF Hosts
<1>4. /\ Entered(h, P).pend = Q /\ Entered(h, P).next = n
      /\ Entered(h, P).link = h.link /\ Entered(h, P).identity = h.identity
      /\ Entered(h, P).proto = h.proto
      /\ Entered(h, P).prov = h.prov /\ Entered(h, P).idx = h.idx
  BY <1>2 DEF Hosts
<1> QED BY <1>3, <1>4 DEF n, Q

\* What a provisioning request leaves: on a closed port nothing, on an open one
\* its entry, and its entry alone when the write breaks the port.
LEMMA SendClosed ==
  ASSUME NEW h \in Hosts, h.link = "down", NEW cmd, NEW arg, NEW way \in Ways
  PROVE  Send(h, cmd, arg, way) = Does(h, <<>>)
BY PutIs DEF Send

LEMMA SendSent ==
  ASSUME NEW h \in Hosts, h.link = "up", NEW cmd, NEW arg
  PROVE  Send(h, cmd, arg, "sent") = Does(Entered(h, h.pend), <<Exec(h.next, cmd, arg)>>)
<1> DEFINE f == Exec(h.next, cmd, arg)
<1>1. h.link # "down"
  OBVIOUS
<1>2. Put(h, f, "sent").host = h /\ Put(h, f, "sent").out = <<f>>
  BY <1>1 DEF Put, Does
<1> HIDE DEF f
<1> QED BY <1>1, <1>2 DEF Send, f, Entered

LEMMA SendBroken ==
  ASSUME NEW h \in Hosts, h.link = "up", NEW cmd, NEW arg
  PROVE  Send(h, cmd, arg, "broken") = Does(Entered(Down(h), {}), <<>>)
<1> DEFINE f == Exec(h.next, cmd, arg)
<1>1. h.link # "down"
  OBVIOUS
<1>2. Put(h, f, "broken").host = Down(h) /\ Put(h, f, "broken").out = <<>>
  BY <1>1 DEF Put, Does
<1>3. Down(h).pend = {} /\ Down(h).next = h.next /\ Down(h) \in Hosts
  BY DownIs
<1> HIDE DEF f
<1> QED BY <1>1, <1>2, <1>3 DEF Send, f, Entered

\* on_prov_reply: the next command of the chain, its end, or nothing.
Next3 == {"register", "setpoll", "list"}
Carried(cmd) == IF cmd = "register" THEN Slaves ELSE {0}
Ended(h, p) == [h EXCEPT !.prov = p]
Step(h, p, i) == [h EXCEPT !.prov = p, !.idx = i]

LEMMA StepIs ==
  ASSUME NEW h \in Hosts, NEW p \in Awaiting, NEW i \in 0..RosterCount
  PROVE  /\ Step(h, p, i) \in Hosts
         /\ Step(h, p, i).prov = p /\ Step(h, p, i).idx = i
         /\ Step(h, p, i).link = h.link /\ Step(h, p, i).identity = h.identity
         /\ Step(h, p, i).proto = h.proto
         /\ Step(h, p, i).pend = h.pend /\ Step(h, p, i).next = h.next
BY DEF Step, Hosts

LEMMA AfterSlavesIs ==
  ASSUME NEW h \in Hosts, NEW i \in 0..RosterCount
  PROVE  \E cmd \in Next3 \ {"register"}, p \in Awaiting \ {"REGISTER"} :
           \A way : AfterSlaves([h EXCEPT !.idx = i], way) = Send(Step(h, p, i), cmd, 0, way)
<1>1. \A p : [[h EXCEPT !.idx = i] EXCEPT !.prov = p] = Step(h, p, i)
  BY DEF Step, Hosts
<1>2. CASE PollCfgSet
  <2>1. \A way : AfterSlaves([h EXCEPT !.idx = i], way) = Send(Step(h, "SET_POLL", i), "setpoll", 0, way)
    BY <1>1, <1>2 DEF AfterSlaves
  <2> QED BY <2>1 DEF Next3, Awaiting
<1>3. CASE ~PollCfgSet
  <2>1. \A way : AfterSlaves([h EXCEPT !.idx = i], way) = Send(Step(h, "LIST", i), "list", 0, way)
    BY <1>1, <1>3 DEF AfterSlaves
  <2> QED BY <2>1 DEF Next3, Awaiting
<1> QED BY <1>2, <1>3

LEMMA RegisterIs ==
  ASSUME NEW h \in Hosts, NEW i \in 0..RosterCount
  PROVE  \E cmd \in Next3, p \in Awaiting, arg \in Slaves \cup {0} :
           /\ arg \in Carried(cmd)
           /\ p = "REGISTER" => i < RosterCount
           /\ \A way : Register(h, i, way) = Send(Step(h, p, i), cmd, arg, way)
<1>1. CASE i < RosterCount
  <2>1. \A way : Register(h, i, way) = Send(Step(h, "REGISTER", i), "register", i + 1, way)
    BY <1>1 DEF Register, Step
  <2>2. i + 1 \in Slaves
    BY <1>1, SyncConstants DEF Slaves
  <2> QED BY <1>1, <2>1, <2>2 DEF Next3, Awaiting, Carried
<1>2. CASE ~(i < RosterCount)
  <2>1. \A way : Register(h, i, way) = AfterSlaves([h EXCEPT !.idx = i], way)
    BY <1>2 DEF Register
  <2>2. PICK cmd \in Next3 \ {"register"}, p \in Awaiting \ {"REGISTER"} :
           \A way : AfterSlaves([h EXCEPT !.idx = i], way) = Send(Step(h, p, i), cmd, 0, way)
    BY AfterSlavesIs
  <2>3. 0 \in Carried(cmd)
    BY <2>2 DEF Carried
  <2> QED BY <2>1, <2>2, <2>3
<1> QED BY <1>1, <1>2

Continues(h, result) ==
  /\ h.prov \in Awaiting \ {"LIST"}
  /\ \E cmd \in Next3, p \in Awaiting, i \in 0..RosterCount, arg \in Slaves \cup {0} :
       /\ arg \in Carried(cmd)
       /\ p = "REGISTER" => i < RosterCount
       /\ \A way : Advance(h, result, way) = Send(Step(h, p, i), cmd, arg, way)
Ends(h, result) ==
  /\ h.prov = "LIST"
  /\ \A way : Advance(h, result, way)
                = Does(Ended(h, IF result >= RosterCount THEN "DONE" ELSE "FAIL"), <<>>)
Rests(h, result) ==
  /\ h.prov \notin Awaiting
  /\ \A way : Advance(h, result, way) = Does(h, <<>>)

LEMMA AdvanceIs ==
  ASSUME NEW h \in Hosts, Indexed(h), NEW result
  PROVE  Continues(h, result) \/ Ends(h, result) \/ Rests(h, result)
<1>0. h.idx \in 0..RosterCount
  BY HostFields
<1>1. CASE h.prov = "CLEAR"
  <2>1. 0 \in 0..RosterCount
    BY SyncConstants
  <2>2. PICK cmd \in Next3, p \in Awaiting, arg \in Slaves \cup {0} :
           /\ arg \in Carried(cmd)
           /\ p = "REGISTER" => 0 < RosterCount
           /\ \A way : Register(h, 0, way) = Send(Step(h, p, 0), cmd, arg, way)
    BY <2>1, RegisterIs
  <2>3. \A way : Advance(h, result, way) = Register(h, 0, way)
    BY <1>1 DEF Advance
  <2> QED BY <1>1, <2>1, <2>2, <2>3 DEF Continues, Awaiting
<1>2. CASE h.prov = "REGISTER"
  <2>1. h.idx + 1 \in 0..RosterCount
    BY <1>0, <1>2, SyncConstants DEF Indexed
  <2>2. PICK cmd \in Next3, p \in Awaiting, arg \in Slaves \cup {0} :
           /\ arg \in Carried(cmd)
           /\ p = "REGISTER" => h.idx + 1 < RosterCount
           /\ \A way : Register(h, h.idx + 1, way) = Send(Step(h, p, h.idx + 1), cmd, arg, way)
    BY <2>1, RegisterIs
  <2>3. \A way : Advance(h, result, way) = Register(h, h.idx + 1, way)
    BY <1>2 DEF Advance
  <2> QED BY <1>2, <2>1, <2>2, <2>3 DEF Continues, Awaiting
<1>3. CASE h.prov = "SET_POLL"
  <2>1. [h EXCEPT !.prov = "LIST"] = Step(h, "LIST", h.idx)
    BY DEF Step, Hosts
  <2>2. \A way : Advance(h, result, way) = Send(Step(h, "LIST", h.idx), "list", 0, way)
    BY <1>3, <2>1 DEF Advance
  <2> QED BY <1>0, <1>3, <2>2 DEF Continues, Awaiting, Next3, Carried
<1>4. CASE h.prov = "LIST"
  BY <1>4 DEF Ends, Advance, Ended
<1>5. CASE h.prov \notin Awaiting
  BY <1>5 DEF Rests, Advance, Awaiting
<1> QED BY <1>1, <1>2, <1>3, <1>4, <1>5 DEF Awaiting

-----------------------------------------------------------------------------
(***************************************************************************)
(* A step of the host, from h to g, that sends the frames out, of which    *)
(* those with a request carry the command c; no request goes with a BEGIN. *)
(***************************************************************************)
Sends(out, n, c) ==
  /\ out \in Seq(DownFrame)
  /\ \A i \in DOMAIN out : out[i].kind = "shell" => out[i].rid = n /\ out[i].cmd = c
  /\ Has(out, "begin") => c = "begin"

Bares == {"none", "begin"}
Moves(h, g, out, c) ==
  /\ g \in Hosts /\ g.link = h.link /\ Indexed(g)
  /\ Sends(out, h.next, c)
  /\ \/ c \in Bares /\ g.next = h.next /\ g.pend \subseteq h.pend
     \/ /\ c \in Next3 \cup {"clear"} /\ h.link = "up"
        /\ g.next = h.next + 1 /\ g.pend \subseteq h.pend \cup {h.next}

LEMMA SendsNothing == \A n, c : Sends(<<>>, n, c)
BY DEF Sends, Has

LEMMA SendsBare ==
  ASSUME NEW kind \in {"ack", "get", "begin"}, NEW n, NEW c, kind = "begin" => c = "begin"
  PROVE  Sends(<<Bare(kind)>>, n, c)
<1>1. Bare(kind) \in DownFrame /\ Bare(kind).kind = kind
  BY DEF Bare, DownFrame
<1> QED BY <1>1 DEF Sends, Has

LEMMA SendsExec ==
  ASSUME NEW n \in Nat, NEW c \in Next3 \cup {"clear"}, NEW arg \in Carried(c)
  PROVE  Sends(<<Exec(n, c, arg)>>, n, c)
<1>1. Exec(n, c, arg) \in DownFrame /\ Exec(n, c, arg).rid = n /\ Exec(n, c, arg).cmd = c
      /\ Exec(n, c, arg).kind # "begin"
  BY DEF Exec, DownFrame, ShellFrame, Next3, Carried
<1> QED BY <1>1 DEF Sends, Has

\* drive_boot changes the ladder's state to L1_ACKED at most.
LEMMA DriveBootMoves ==
  ASSUME NEW h \in Hosts, Indexed(h), h.proto \in {"BOOT", "L1_ACKED"},
         NEW g, g = DriveBoot(h, "sent").host, NEW out, out = DriveBoot(h, "sent").out
  PROVE  /\ Moves(h, g, out, "none")
         /\ g.prov = h.prov /\ g.identity = h.identity /\ g.pend = h.pend
         /\ g.proto \in {"BOOT", "L1_ACKED"}
<1>1. CASE h.acked \in {"now", "gap"}
  <2>1. g = h /\ out = <<>>
    BY <1>1 DEF DriveBoot, Does
  <2> QED BY <2>1, SendsNothing DEF Moves, Bares
<1>2. CASE h.acked \notin {"now", "gap"}
  <2> DEFINE put == Put(h, Bare("ack"), "sent")
  <2>1. put.host = h /\ put.out \in {<<>>, <<Bare("ack")>>}
    BY DEF Put, Does
  <2>2. g = [put.host EXCEPT !.acked = "now", !.get = TRUE, !.proto = "L1_ACKED"]
        /\ out = put.out
    BY <1>2 DEF DriveBoot, Does
  <2> HIDE DEF put
  <2>3. g = [h EXCEPT !.acked = "now", !.get = TRUE, !.proto = "L1_ACKED"]
    BY <2>1, <2>2
  <2>4. g \in Hosts
    BY <2>3 DEF Hosts, Protos
  <2>5. /\ g.link = h.link /\ g.identity = h.identity /\ g.proto = "L1_ACKED"
        /\ g.prov = h.prov /\ g.idx = h.idx /\ g.pend = h.pend /\ g.next = h.next
    BY <2>3 DEF Hosts
  <2>6. Sends(out, h.next, "none")
    BY <2>1, <2>2, SendsNothing, SendsBare
  <2> QED BY <2>4, <2>5, <2>6 DEF Moves, Indexed, Bares
<1> QED BY <1>1, <1>2

\* Hearing a REGISTER: the ladder, if climbed, and the chain start over.
Low(h) == LET known == [h EXCEPT !.identity = TRUE] IN
          IF h.proto \in {"MANIFEST_OK", "OPERATIONAL"} THEN ResetSync(known) ELSE known
Booted(h) == [Low(h) EXCEPT !.proto = IF @ = "UNKNOWN" THEN "BOOT" ELSE @]

LEMMA BootedIs ==
  ASSUME NEW h \in Hosts, Indexed(h)
  PROVE  /\ Booted(h) \in Hosts /\ Indexed(Booted(h))
         /\ Booted(h).proto \in {"BOOT", "L1_ACKED"} /\ Booted(h).identity
         /\ Booted(h).link = h.link /\ Booted(h).pend = h.pend /\ Booted(h).next = h.next
         /\ Booted(h).prov = IF h.proto \in {"MANIFEST_OK", "OPERATIONAL"} THEN "IDLE" ELSE h.prov
         /\ \A way : HearRegister(h, way) = DriveBoot(Booted(h), way)
<1> DEFINE known == [h EXCEPT !.identity = TRUE]
<1>1. /\ known \in Hosts /\ known.identity = TRUE /\ known.link = h.link
      /\ known.proto = h.proto /\ known.prov = h.prov /\ known.idx = h.idx
      /\ known.pend = h.pend /\ known.next = h.next
  BY DEF Hosts
<1>2. Low(h) = IF h.proto \in {"MANIFEST_OK", "OPERATIONAL"} THEN ResetSync(known) ELSE known
  BY DEF Low
<1>3. \A way : HearRegister(h, way) = DriveBoot(Booted(h), way)
  BY DEF HearRegister, Booted, Low
<1> HIDE DEF known
<1> DEFINE low == Low(h)
<1>4. /\ low \in Hosts /\ low.identity = TRUE /\ low.link = h.link
      /\ low.proto \in {"UNKNOWN", "BOOT", "L1_ACKED"} /\ low.pend = h.pend /\ low.next = h.next
      /\ low.prov = IF h.proto \in {"MANIFEST_OK", "OPERATIONAL"} THEN "IDLE" ELSE h.prov
      /\ low.prov = "IDLE" \/ low.idx = h.idx
  <2>1. CASE h.proto \in {"MANIFEST_OK", "OPERATIONAL"}
    BY <1>1, <1>2, <2>1, ResetSyncIs
  <2>2. CASE h.proto \notin {"MANIFEST_OK", "OPERATIONAL"}
    BY <1>1, <1>2, <2>2, HostFields DEF Protos
  <2> QED BY <2>1, <2>2
<1>5. Booted(h) = [low EXCEPT !.proto = IF low.proto = "UNKNOWN" THEN "BOOT" ELSE low.proto]
  BY DEF Booted
<1> HIDE DEF low
<1> DEFINE p == IF low.proto = "UNKNOWN" THEN "BOOT" ELSE low.proto
<1>6. p \in {"BOOT", "L1_ACKED"}
  BY <1>4
<1>7. Booted(h) = [low EXCEPT !.proto = p]
  BY <1>5
<1> HIDE DEF p
<1>8. Booted(h) \in Hosts
  BY <1>4, <1>6, <1>7 DEF Hosts, Protos
<1>9. /\ Booted(h).identity = low.identity /\ Booted(h).link = low.link
      /\ Booted(h).proto = p /\ Booted(h).pend = low.pend /\ Booted(h).next = low.next
      /\ Booted(h).prov = low.prov /\ Booted(h).idx = low.idx
  BY <1>4, <1>7 DEF Hosts
<1> QED BY <1>3, <1>4, <1>6, <1>8, <1>9 DEF Indexed

LEMMA HearRegisterMoves ==
  ASSUME NEW h \in Hosts, Indexed(h),
         NEW g, g = HearRegister(h, "sent").host, NEW out, out = HearRegister(h, "sent").out
  PROVE  /\ Moves(h, g, out, "none")
         /\ g.prov = IF h.proto \in {"MANIFEST_OK", "OPERATIONAL"} THEN "IDLE" ELSE h.prov
         /\ g.pend = h.pend /\ g.identity /\ g.proto \in {"BOOT", "L1_ACKED"}
<1>1. /\ g = DriveBoot(Booted(h), "sent").host /\ out = DriveBoot(Booted(h), "sent").out
  BY BootedIs
<1>2. Moves(Booted(h), g, out, "none")
      /\ g.prov = Booted(h).prov /\ g.identity = Booted(h).identity /\ g.pend = Booted(h).pend
      /\ g.proto \in {"BOOT", "L1_ACKED"}
  BY <1>1, BootedIs, DriveBootMoves
<1> QED BY <1>2, BootedIs DEF Moves, Bares

\* Hearing a MANIFEST, and a HEARTBEAT: only the ladder moves.
LEMMA HearManifestMoves ==
  ASSUME NEW h \in Hosts, Indexed(h),
         NEW g, g = HearManifest(h, "sent").host, NEW out, out = HearManifest(h, "sent").out
  PROVE  /\ Moves(h, g, out, "begin")
         /\ g.prov = h.prov /\ g.pend = h.pend /\ g.identity = h.identity
         /\ g.proto = "MANIFEST_OK"
<1> DEFINE put == Put([h EXCEPT !.get = FALSE], Bare("begin"), "sent")
<1>1. put.host = [h EXCEPT !.get = FALSE] /\ put.out \in {<<>>, <<Bare("begin")>>}
  BY DEF Put, Does
<1>2. g = [put.host EXCEPT !.proto = "MANIFEST_OK"] /\ out = put.out
  BY DEF HearManifest, Does
<1> HIDE DEF put
<1>3. g = [h EXCEPT !.get = FALSE, !.proto = "MANIFEST_OK"]
  BY <1>1, <1>2
<1>4. g \in Hosts
  BY <1>3 DEF Hosts, Protos
<1>5. /\ g.link = h.link /\ g.identity = h.identity /\ g.proto = "MANIFEST_OK"
      /\ g.prov = h.prov /\ g.idx = h.idx /\ g.pend = h.pend /\ g.next = h.next
  BY <1>3 DEF Hosts
<1>6. Sends(out, h.next, "begin")
  BY <1>1, <1>2, SendsNothing, SendsBare
<1> QED BY <1>4, <1>5, <1>6 DEF Moves, Indexed, Bares

LEMMA HearHeartbeatMoves ==
  ASSUME NEW h \in Hosts, Indexed(h),
         NEW g, g = HearHeartbeat(h).host, NEW out, out = HearHeartbeat(h).out
  PROVE  /\ Moves(h, g, out, "none")
         /\ g.prov = h.prov /\ g.pend = h.pend /\ g.identity = h.identity
         /\ g.proto = "OPERATIONAL"
<1>1. out = <<>> /\ (\/ g = h /\ h.proto = "OPERATIONAL"
                    \/ g = [h EXCEPT !.get = FALSE, !.proto = "OPERATIONAL"])
  BY DEF HearHeartbeat, Does
<1>2. g \in Hosts
  BY <1>1 DEF Hosts, Protos
<1>3. /\ g.link = h.link /\ g.identity = h.identity /\ g.proto = "OPERATIONAL"
      /\ g.prov = h.prov /\ g.idx = h.idx /\ g.pend = h.pend /\ g.next = h.next
  BY <1>1 DEF Hosts
<1> QED BY <1>1, <1>2, <1>3, SendsNothing DEF Moves, Indexed, Bares

\* A reply that nobody awaits is dropped.
LEMMA HearReplyDropped ==
  ASSUME NEW h \in Hosts, NEW f, f.rid \notin h.pend, NEW way
  PROVE  HearReply(h, f, way) = Does(h, <<>>)
BY DEF HearReply

\* The others take their request from the table, and move the chain on or end it.
Replied(h, rid) == [h EXCEPT !.pend = h.pend \ {rid}]

LEMMA RepliedIs ==
  ASSUME NEW h \in Hosts, NEW rid
  PROVE  /\ Replied(h, rid) \in Hosts /\ Replied(h, rid).pend = h.pend \ {rid}
         /\ Replied(h, rid).next = h.next /\ Replied(h, rid).link = h.link
         /\ Replied(h, rid).identity = h.identity /\ Replied(h, rid).proto = h.proto
         /\ Replied(h, rid).prov = h.prov /\ Replied(h, rid).idx = h.idx
<1> DEFINE P == h.pend \ {rid}
<1>1. P \in SUBSET Nat
  BY HostFields
<1>2. Replied(h, rid) = [h EXCEPT !.pend = P]
  BY DEF Replied
<1> HIDE DEF P
<1>3. Replied(h, rid) \in Hosts
  BY <1>1, <1>2 DEF Hosts
<1>4. /\ Replied(h, rid).pend = P
      /\ Replied(h, rid).next = h.next /\ Replied(h, rid).link = h.link
      /\ Replied(h, rid).identity = h.identity /\ Replied(h, rid).proto = h.proto
      /\ Replied(h, rid).prov = h.prov /\ Replied(h, rid).idx = h.idx
  BY <1>2 DEF Hosts
<1> QED BY <1>3, <1>4 DEF P

LEMMA EndedIs ==
  ASSUME NEW h \in Hosts, NEW p \in {"DONE", "FAIL"}
  PROVE  /\ Ended(h, p) \in Hosts /\ Ended(h, p).prov = p
         /\ Ended(h, p).pend = h.pend /\ Ended(h, p).next = h.next /\ Ended(h, p).link = h.link
         /\ Ended(h, p).identity = h.identity /\ Ended(h, p).proto = h.proto
<1>1. Ended(h, p) \in Hosts
  BY DEF Ended, Hosts
<1>2. /\ Ended(h, p).prov = p
      /\ Ended(h, p).pend = h.pend /\ Ended(h, p).next = h.next /\ Ended(h, p).link = h.link
      /\ Ended(h, p).identity = h.identity /\ Ended(h, p).proto = h.proto
  BY DEF Ended, Hosts
<1> QED BY <1>1, <1>2

\* What moving the chain does to the host: a request more, or the end.
Chained(h, g, out, c, result) ==
  /\ Moves(h, g, out, c) /\ c # "clear"
  /\ g.identity = h.identity /\ g.proto = h.proto
  /\ \/ c \in Next3 /\ h.prov \in Awaiting /\ g.prov \in Awaiting /\ g.pend = h.pend \cup {h.next}
     \/ c = "none" /\ g.pend = h.pend /\ g.prov \notin Awaiting
        /\ (g.prov = "IDLE" => h.prov = "IDLE")
        /\ (g.prov = "DONE" => h.prov = "DONE" \/ result >= RosterCount)

LEMMA AdvanceMoves ==
  ASSUME NEW h \in Hosts, Indexed(h), h.link = "up", NEW result,
         NEW g, g = Advance(h, result, "sent").host,
         NEW out, out = Advance(h, result, "sent").out
  PROVE  \E c : Chained(h, g, out, c, result)
<1>1. CASE Continues(h, result)
  <2>1. PICK cmd \in Next3, p \in Awaiting, i \in 0..RosterCount, arg \in Slaves \cup {0} :
                /\ arg \in Carried(cmd)
                /\ p = "REGISTER" => i < RosterCount
                /\ \A way : Advance(h, result, way) = Send(Step(h, p, i), cmd, arg, way)
    BY <1>1 DEF Continues
  <2> DEFINE s == Step(h, p, i)
  <2>2. /\ s \in Hosts /\ s.prov = p /\ s.idx = i /\ s.link = h.link /\ s.identity = h.identity
        /\ s.proto = h.proto /\ s.pend = h.pend /\ s.next = h.next
    BY StepIs
  <2>3. Advance(h, result, "sent") = Send(s, cmd, arg, "sent")
    BY <2>1
  <2> HIDE DEF s
  <2>4. Send(s, cmd, arg, "sent") = Does(Entered(s, s.pend), <<Exec(s.next, cmd, arg)>>)
    BY <2>2, SendSent
  <2>5. g = Entered(s, s.pend) /\ out = <<Exec(h.next, cmd, arg)>>
    BY <2>2, <2>3, <2>4 DEF Does
  <2>6. h.pend \in SUBSET Nat /\ h.next \in Nat
    BY HostFields
  <2>7. /\ g \in Hosts /\ g.pend = h.pend \cup {h.next} /\ g.next = h.next + 1
        /\ g.link = h.link /\ g.identity = h.identity /\ g.proto = h.proto
        /\ g.prov = p /\ g.idx = i
    BY <2>2, <2>5, <2>6, EnteredIs
  <2>8. Sends(out, h.next, cmd)
    BY <2>1, <2>5, <2>6, SendsExec
  <2>9. Moves(h, g, out, cmd)
    BY <2>1, <2>7, <2>8 DEF Moves, Indexed, Bares
  <2>10. cmd # "clear"
    BY DEF Next3
  <2> QED BY <1>1, <2>7, <2>9, <2>10 DEF Chained, Continues
<1>2. CASE Ends(h, result)
  <2> DEFINE p == IF result >= RosterCount THEN "DONE" ELSE "FAIL"
  <2>1. Advance(h, result, "sent") = Does(Ended(h, p), <<>>)
    BY <1>2 DEF Ends
  <2>2. p \in {"DONE", "FAIL"} /\ (p = "DONE" => result >= RosterCount)
    OBVIOUS
  <2> HIDE DEF p
  <2>3. g = Ended(h, p) /\ out = <<>>
    BY <2>1 DEF Does
  <2>4. Moves(h, g, out, "none")
    BY <2>2, <2>3, EndedIs, SendsNothing DEF Moves, Indexed, Bares
  <2> QED BY <2>2, <2>3, <2>4, EndedIs DEF Chained, Awaiting
<1>3. CASE Rests(h, result)
  <2>1. g = h /\ out = <<>>
    BY <1>3 DEF Rests, Does
  <2>2. Moves(h, g, out, "none")
    BY <2>1, SendsNothing DEF Moves, Bares
  <2> QED BY <1>3, <2>1, <2>2 DEF Chained, Rests
<1> QED BY <1>1, <1>2, <1>3, AdvanceIs

\* Requests that fail end the chain.
LEMMA FailedIs ==
  ASSUME NEW h \in Hosts, NEW rids
  PROVE  /\ Failed(h, rids) \in Hosts /\ Failed(h, rids).pend = h.pend \ rids
         /\ Failed(h, rids).next = h.next /\ Failed(h, rids).link = h.link
         /\ Failed(h, rids).identity = h.identity /\ Failed(h, rids).proto = h.proto
         /\ Failed(h, rids).prov = (IF rids = {} THEN h.prov ELSE "FAIL")
         /\ Failed(h, rids).idx = h.idx /\ Failed(h, rids).get = h.get
<1> DEFINE P == h.pend \ rids
          p == IF rids = {} THEN h.prov ELSE "FAIL"
<1>1. P \in SUBSET Nat /\ p \in Awaiting \cup {"IDLE", "DONE", "FAIL"}
  BY HostFields
<1>2. Failed(h, rids) = [h EXCEPT !.pend = P, !.prov = p]
  BY DEF Failed
<1> HIDE DEF P, p
<1>3. Failed(h, rids) \in Hosts
  BY <1>1, <1>2 DEF Hosts
<1>4. /\ Failed(h, rids).pend = P
      /\ Failed(h, rids).next = h.next /\ Failed(h, rids).link = h.link
      /\ Failed(h, rids).identity = h.identity /\ Failed(h, rids).proto = h.proto
      /\ Failed(h, rids).prov = p
      /\ Failed(h, rids).idx = h.idx /\ Failed(h, rids).get = h.get
  BY <1>2 DEF Hosts
<1> QED BY <1>3, <1>4 DEF P, p

\* An awaited reply: the chain moves on without its request, or fails.
LEMMA HearReplyMoves ==
  ASSUME NEW h \in Hosts, Indexed(h), h.link = "up", NEW f \in UpFrame, f.rid \in h.pend,
         NEW g, g = HearReply(h, f, "sent").host, NEW out, out = HearReply(h, f, "sent").out
  PROVE  \E c : Chained(Replied(h, f.rid), g, out, c, f.result)
<1> DEFINE r == Replied(h, f.rid)
<1>1. /\ r \in Hosts /\ r.pend = h.pend \ {f.rid} /\ r.next = h.next /\ r.link = "up"
      /\ r.identity = h.identity /\ r.proto = h.proto /\ r.prov = h.prov /\ Indexed(r)
  BY RepliedIs DEF Indexed
<1>2. CASE f.ok
  <2>1. HearReply(h, f, "sent") = Advance(r, f.result, "sent")
    BY <1>2 DEF HearReply, Replied
  <2> HIDE DEF r
  <2>2. \E c : Chained(r, g, out, c, f.result)
    BY <1>1, <2>1, AdvanceMoves
  <2> QED BY <2>2 DEF r
<1>3. CASE ~f.ok
  <2>1. HearReply(h, f, "sent") = Does(Failed(h, {f.rid}), <<>>)
    BY <1>3 DEF HearReply
  <2>2. g = Failed(h, {f.rid}) /\ out = <<>>
    BY <2>1 DEF Does
  <2>3. /\ g \in Hosts /\ g.pend = h.pend \ {f.rid} /\ g.next = h.next /\ g.link = h.link
        /\ g.identity = h.identity /\ g.proto = h.proto /\ g.prov = "FAIL"
    BY <2>2, FailedIs
  <2> HIDE DEF r
  <2>4. Moves(r, g, out, "none")
    BY <1>1, <2>2, <2>3, SendsNothing DEF Moves, Indexed, Bares
  <2>5. Chained(r, g, out, "none", f.result)
    BY <1>1, <2>3, <2>4 DEF Chained, Awaiting
  <2> QED BY <2>5 DEF r
<1> QED BY <1>2, <1>3

-----------------------------------------------------------------------------
(***************************************************************************)
(* controller_poll.                                                        *)
(***************************************************************************)
LEMMA FireGetMoves ==
  ASSUME NEW h \in Hosts, Indexed(h),
         NEW g, g = FireGet(h, "sent").host, NEW out, out = FireGet(h, "sent").out
  PROVE  /\ Moves(h, g, out, "none")
         /\ g.prov = h.prov /\ g.pend = h.pend /\ g.identity = h.identity /\ g.proto = h.proto
<1>1. CASE ~(h.get /\ h.acked \in {"gap", "old"})
  <2>1. g = h /\ out = <<>>
    BY <1>1 DEF FireGet, Does
  <2> QED BY <2>1, SendsNothing DEF Moves, Bares
<1>2. CASE h.get /\ h.acked \in {"gap", "old"}
  <2> DEFINE put == Put(h, Bare("get"), "sent")
  <2>1. put.host = h /\ put.out \in {<<>>, <<Bare("get")>>}
    BY DEF Put, Does
  <2>2. g = [put.host EXCEPT !.get = FALSE] /\ out = put.out
    BY <1>2 DEF FireGet, Does
  <2> HIDE DEF put
  <2>3. g = [h EXCEPT !.get = FALSE]
    BY <2>1, <2>2
  <2>4. g \in Hosts
    BY <2>3 DEF Hosts
  <2>5. /\ g.link = h.link /\ g.identity = h.identity /\ g.proto = h.proto
        /\ g.prov = h.prov /\ g.idx = h.idx /\ g.pend = h.pend /\ g.next = h.next
    BY <2>3 DEF Hosts
  <2>6. Sends(out, h.next, "none")
    BY <2>1, <2>2, SendsNothing, SendsBare
  <2> QED BY <2>4, <2>5, <2>6 DEF Moves, Indexed, Bares
<1> QED BY <1>1, <1>2

\* The chain starts, or not; on a closed port it starts and sends nothing.
LEMMA ProvStartMoves ==
  ASSUME NEW h \in Hosts, Indexed(h), h.link \in {"up", "down"},
         NEW g, g = ProvStart(h, "sent").host, NEW out, out = ProvStart(h, "sent").out
  PROVE  /\ g.identity = h.identity /\ g.proto = h.proto
         /\ \/ ~Ready(h) /\ g = h /\ out = <<>>
            \/ /\ Ready(h) /\ h.link = "up" /\ Moves(h, g, out, "clear")
               /\ g.prov = "CLEAR" /\ g.pend = h.pend \cup {h.next}
            \/ /\ Ready(h) /\ h.link = "down" /\ Moves(h, g, out, "none")
               /\ g.prov = "CLEAR" /\ g.pend = h.pend
<1>1. CASE ~Ready(h)
  BY <1>1 DEF ProvStart, Ready, Does
<1>2. CASE Ready(h)
  <2> DEFINE s == Step(h, "CLEAR", 0)
  <2>1. ProvStart(h, "sent") = Send(s, "clear", 0, "sent")
    BY <1>2 DEF ProvStart, Ready, Step
  <2>2. "CLEAR" \in Awaiting /\ 0 \in 0..RosterCount
    BY SyncConstants DEF Awaiting
  <2>3. /\ s \in Hosts /\ s.prov = "CLEAR" /\ s.link = h.link /\ s.identity = h.identity
        /\ s.proto = h.proto /\ s.pend = h.pend /\ s.next = h.next
    BY <2>2, StepIs
  <2> HIDE DEF s
  <2>4. h.pend \in SUBSET Nat /\ h.next \in Nat
    BY HostFields
  <2>5. CASE h.link = "up"
    <3>1. Send(s, "clear", 0, "sent") = Does(Entered(s, s.pend), <<Exec(s.next, "clear", 0)>>)
      BY <2>3, <2>5, SendSent
    <3>2. g = Entered(s, s.pend) /\ out = <<Exec(h.next, "clear", 0)>>
      BY <2>1, <2>3, <3>1 DEF Does
    <3>3. /\ g \in Hosts /\ g.pend = h.pend \cup {h.next} /\ g.next = h.next + 1
          /\ g.link = h.link /\ g.identity = h.identity /\ g.proto = h.proto
          /\ g.prov = "CLEAR"
      BY <2>3, <2>4, <3>2, EnteredIs
    <3>4. Sends(out, h.next, "clear")
      BY <2>4, <3>2, SendsExec DEF Carried
    <3>5. Moves(h, g, out, "clear")
      BY <2>5, <3>3, <3>4 DEF Moves, Indexed, Bares
    <3> QED BY <1>2, <2>5, <3>3, <3>5
  <2>6. CASE h.link = "down"
    <3>1. Send(s, "clear", 0, "sent") = Does(s, <<>>)
      BY <2>3, <2>6, SendClosed DEF Ways
    <3>2. g = s /\ out = <<>>
      BY <2>1, <3>1 DEF Does
    <3>3. Moves(h, g, out, "none")
      BY <2>3, <3>2, SendsNothing DEF Moves, Indexed, Bares
    <3> QED BY <1>2, <2>3, <2>6, <3>2, <3>3
  <2> QED BY <2>5, <2>6
<1> QED BY <1>1, <1>2

LEMMA SendsBoth ==
  ASSUME NEW n, NEW c, NEW out1, Sends(out1, n, "none"), NEW out2, Sends(out2, n, c)
  PROVE  Sends(out1 \o out2, n, c)
<1> DEFINE out == out1 \o out2
<1>1. out1 \in Seq(DownFrame) /\ out2 \in Seq(DownFrame)
  BY DEF Sends
<1>2. out \in Seq(DownFrame) /\ Len(out) = Len(out1) + Len(out2)
  BY <1>1
<1>3. \A i \in DOMAIN out1 : out1[i].kind # "shell"
  <2>1. \A i \in DOMAIN out1 : out1[i] \in DownFrame
    BY <1>1
  <2> QED BY <2>1 DEF Sends, DownFrame, ShellFrame
<1>4. ASSUME NEW i \in DOMAIN out, out[i].kind = "shell"
      PROVE  out[i].rid = n /\ out[i].cmd = c
  <2>1. CASE i <= Len(out1)
    <3>1. out[i] = out1[i] /\ i \in DOMAIN out1
      BY <1>1, <1>2, <2>1
    <3> QED BY <1>3, <1>4, <3>1
  <2>2. CASE i > Len(out1)
    <3>1. out[i] = out2[i - Len(out1)] /\ i - Len(out1) \in DOMAIN out2
      BY <1>1, <1>2, <2>2
    <3> QED BY <1>4, <3>1 DEF Sends
  <2>3. i \in Nat /\ Len(out1) \in Nat
    BY <1>1, <1>2
  <2> QED BY <2>1, <2>2, <2>3
<1>5. ASSUME Has(out, "begin") PROVE c = "begin"
  <2>1. PICK i \in DOMAIN out : out[i].kind = "begin"
    BY <1>5 DEF Has
  <2>2. CASE i <= Len(out1)
    <3>1. out[i] = out1[i] /\ i \in DOMAIN out1
      BY <1>1, <1>2, <2>2
    <3> QED BY <2>1, <3>1 DEF Sends, Has
  <2>3. CASE i > Len(out1)
    <3>1. out[i] = out2[i - Len(out1)] /\ i - Len(out1) \in DOMAIN out2
      BY <1>1, <1>2, <2>3
    <3> QED BY <2>1, <3>1 DEF Sends, Has
  <2>4. i \in Nat /\ Len(out1) \in Nat
    BY <1>1, <1>2
  <2> QED BY <2>2, <2>3, <2>4
<1> QED BY <1>2, <1>4, <1>5 DEF Sends

\* The tail of controller_poll, with the requests whose time is up.
LEMMA PassedMoves ==
  ASSUME NEW h \in Hosts, Indexed(h), h.link \in {"up", "down"}, NEW expired \in SUBSET h.pend,
         NEW g, g = Passed(h, expired, "sent").host, NEW out, out = Passed(h, expired, "sent").out
  PROVE  /\ g.identity = h.identity /\ g.proto = h.proto
         /\ \/ /\ Moves(h, g, out, "clear") /\ h.link = "up" /\ Ready(h)
               /\ expired = {} /\ g.prov = "CLEAR" /\ g.pend = h.pend \cup {h.next}
            \/ /\ Moves(h, g, out, "none") /\ g.pend = h.pend \ expired
               /\ \/ g.prov = h.prov /\ expired = {} /\ (h.link = "up" => ~Ready(h))
                  \/ g.prov = "FAIL" /\ expired # {}
                  \/ g.prov = "CLEAR" /\ h.link = "down" /\ Ready(h)
<1> DEFINE e == Failed(h, expired)
           k == FireGet(e, "sent").host
           out1 == FireGet(e, "sent").out
           out2 == ProvStart(k, "sent").out
<1>1. g = ProvStart(k, "sent").host /\ out = out1 \o out2
  BY DEF Passed, Does
<1>2. /\ e \in Hosts /\ Indexed(e) /\ e.pend = h.pend \ expired /\ e.next = h.next
      /\ e.link = h.link /\ e.identity = h.identity /\ e.proto = h.proto
      /\ e.prov = (IF expired = {} THEN h.prov ELSE "FAIL")
  BY FailedIs DEF Indexed
<1> HIDE DEF e
<1>3. /\ Moves(e, k, out1, "none")
      /\ k.prov = e.prov /\ k.pend = e.pend /\ k.identity = e.identity /\ k.proto = e.proto
  BY <1>2, FireGetMoves
<1>4. /\ k \in Hosts /\ Indexed(k) /\ k.link = h.link /\ k.next = h.next
      /\ Sends(out1, h.next, "none")
  BY <1>2, <1>3 DEF Moves, Next3, Bares
<1> HIDE DEF k, out1
<1>5. /\ g.identity = k.identity /\ g.proto = k.proto
      /\ \/ ~Ready(k) /\ g = k /\ out2 = <<>>
         \/ /\ Ready(k) /\ k.link = "up" /\ Moves(k, g, out2, "clear")
            /\ g.prov = "CLEAR" /\ g.pend = k.pend \cup {k.next}
         \/ /\ Ready(k) /\ k.link = "down" /\ Moves(k, g, out2, "none")
            /\ g.prov = "CLEAR" /\ g.pend = k.pend
  BY <1>1, <1>4, ProvStartMoves
<1> HIDE DEF out2
<1>6. Ready(k) <=> Ready(h) /\ expired = {}
  BY <1>2, <1>3 DEF Ready
<1>7. g.identity = h.identity /\ g.proto = h.proto
  BY <1>2, <1>3, <1>5
<1>8. CASE ~Ready(k) /\ g = k /\ out2 = <<>>
  <2>1. Sends(out, h.next, "none")
    BY <1>1, <1>4, <1>8, SendsNothing, SendsBoth
  <2>2. Moves(h, g, out, "none")
    BY <1>2, <1>3, <1>4, <1>8, <2>1 DEF Moves, Bares
  <2> QED BY <1>2, <1>3, <1>6, <1>7, <1>8, <2>2
<1>9. CASE /\ Ready(k) /\ k.link = "up" /\ Moves(k, g, out2, "clear")
           /\ g.prov = "CLEAR" /\ g.pend = k.pend \cup {k.next}
  <2>1. Sends(out, h.next, "clear")
    <3>1. Sends(out2, h.next, "clear")
      BY <1>4, <1>9 DEF Moves, Bares
    <3> QED BY <1>1, <1>4, <3>1, SendsBoth
  <2>2. expired = {} /\ h.pend \ expired = h.pend
    BY <1>6, <1>9
  <2>3. Moves(h, g, out, "clear")
    BY <1>2, <1>3, <1>4, <1>9, <2>1, <2>2 DEF Moves, Bares
  <2> QED BY <1>2, <1>3, <1>4, <1>6, <1>7, <1>9, <2>2, <2>3
<1>10. CASE /\ Ready(k) /\ k.link = "down" /\ Moves(k, g, out2, "none")
            /\ g.prov = "CLEAR" /\ g.pend = k.pend
  <2>1. Sends(out, h.next, "none")
    <3>1. Sends(out2, h.next, "none")
      BY <1>4, <1>10 DEF Moves, Bares
    <3> QED BY <1>1, <1>4, <3>1, SendsBoth
  <2>2. Moves(h, g, out, "none")
    BY <1>2, <1>3, <1>4, <1>10, <2>1 DEF Moves, Bares
  <2> QED BY <1>2, <1>3, <1>4, <1>6, <1>7, <1>10, <2>2
<1> QED BY <1>5, <1>8, <1>9, <1>10

-----------------------------------------------------------------------------
(***************************************************************************)
(* A write that finds the port gone.                                       *)
(***************************************************************************)
\* What is left of a host whose port has gone: at most one request, of an id
\* that nobody has seen.
Cut(h, g) ==
  /\ g \in Hosts /\ g.link = "down" /\ g.prov = "IDLE"
  /\ \/ g.pend = {} /\ g.next = h.next
     \/ g.pend = {h.next} /\ g.next = h.next + 1

LEMMA CutByDown ==
  ASSUME NEW h \in Hosts
  PROVE  Cut(h, Down(h))
BY DownIs DEF Cut

\* The rest of the ladder may still change.
LEMMA CutKept ==
  ASSUME NEW h \in Hosts, NEW k, Cut(h, k), NEW g \in Hosts,
         g.link = k.link, g.prov = k.prov, g.pend = k.pend, g.next = k.next
  PROVE  Cut(h, g)
BY DEF Cut

LEMMA CutBySend ==
  ASSUME NEW h \in Hosts, h.link = "up", NEW cmd, NEW arg,
         NEW g, g = Send(h, cmd, arg, "broken").host
  PROVE  Cut(h, g)
<1>1. Send(h, cmd, arg, "broken") = Does(Entered(Down(h), {}), <<>>)
  BY SendBroken
<1>2. g = Entered(Down(h), {})
  BY <1>1 DEF Does
<1>3. /\ Down(h) \in Hosts /\ Down(h).link = "down" /\ Down(h).prov = "IDLE"
      /\ Down(h).next = h.next /\ {} \in SUBSET Nat
  BY DownIs
<1>4. g \in Hosts /\ g.link = "down" /\ g.prov = "IDLE" /\ g.pend = {} \cup {h.next}
      /\ g.next = h.next + 1
  BY <1>2, <1>3, EnteredIs
<1> QED BY <1>4 DEF Cut

LEMMA PutBroken ==
  ASSUME NEW h \in Hosts, h.link = "up", NEW f
  PROVE  Put(h, f, "broken").host = Down(h)
BY DEF Put, Does

LEMMA DriveBootBroken ==
  ASSUME NEW h \in Hosts, h.link = "up",
         NEW g, g = DriveBoot(h, "broken").host, g.link = "down"
  PROVE  Cut(h, g)
<1>1. CASE h.acked \in {"now", "gap"}
  BY <1>1 DEF DriveBoot, Does
<1>2. CASE h.acked \notin {"now", "gap"}
  <2> DEFINE d == Down(h)
  <2>1. g = [d EXCEPT !.acked = "now", !.get = TRUE, !.proto = "L1_ACKED"]
    BY <1>2, PutBroken DEF DriveBoot, Does
  <2>2. d \in Hosts /\ Cut(h, d)
    BY DownIs, CutByDown
  <2> HIDE DEF d
  <2>3. g \in Hosts
    BY <2>1, <2>2 DEF Hosts, Protos
  <2>4. g.link = d.link /\ g.prov = d.prov /\ g.pend = d.pend /\ g.next = d.next
    BY <2>1, <2>2 DEF Hosts
  <2> QED BY <2>2, <2>3, <2>4, CutKept
<1> QED BY <1>1, <1>2

LEMMA HearManifestBroken ==
  ASSUME NEW h \in Hosts, h.link = "up", NEW g, g = HearManifest(h, "broken").host
  PROVE  Cut(h, g)
<1> DEFINE m == [h EXCEPT !.get = FALSE]
           d == Down(m)
<1>1. m \in Hosts /\ m.link = "up" /\ m.next = h.next
  BY DEF Hosts
<1> HIDE DEF m
<1>2. Put(m, Bare("begin"), "broken").host = d
  BY <1>1, PutBroken
<1>3. g = [d EXCEPT !.proto = "MANIFEST_OK"]
  BY <1>2 DEF HearManifest, Does, m
<1>4. d \in Hosts /\ Cut(m, d)
  BY <1>1, DownIs, CutByDown
<1> HIDE DEF d
<1>5. g \in Hosts
  BY <1>3, <1>4 DEF Hosts, Protos
<1>6. g.link = d.link /\ g.prov = d.prov /\ g.pend = d.pend /\ g.next = d.next
  BY <1>3, <1>4 DEF Hosts
<1>7. Cut(m, g)
  BY <1>1, <1>4, <1>5, <1>6, CutKept
<1> QED BY <1>1, <1>7 DEF Cut

LEMMA AdvanceBroken ==
  ASSUME NEW h \in Hosts, Indexed(h), h.link = "up", NEW result,
         NEW g, g = Advance(h, result, "broken").host, g.link = "down"
  PROVE  Cut(h, g)
<1>1. CASE Continues(h, result)
  <2>1. PICK cmd \in Next3, p \in Awaiting, i \in 0..RosterCount, arg \in Slaves \cup {0} :
             \A way : Advance(h, result, way) = Send(Step(h, p, i), cmd, arg, way)
    BY <1>1 DEF Continues
  <2> DEFINE s == Step(h, p, i)
  <2>2. s \in Hosts /\ s.link = "up" /\ s.next = h.next
    BY StepIs
  <2>3. g = Send(s, cmd, arg, "broken").host
    BY <2>1
  <2> HIDE DEF s
  <2>4. Cut(s, g)
    BY <2>2, <2>3, CutBySend
  <2> QED BY <2>2, <2>4 DEF Cut
<1>2. CASE Ends(h, result)
  <2> DEFINE p == IF result >= RosterCount THEN "DONE" ELSE "FAIL"
  <2>1. Advance(h, result, "broken") = Does(Ended(h, p), <<>>)
    BY <1>2 DEF Ends
  <2>2. p \in {"DONE", "FAIL"}
    OBVIOUS
  <2> HIDE DEF p
  <2> QED BY <2>1, <2>2, EndedIs DEF Does
<1>3. CASE Rests(h, result)
  BY <1>3 DEF Rests, Does
<1> QED BY <1>1, <1>2, <1>3, AdvanceIs

\* Whatever frame was answered, a broken write cuts the host off.
LEMMA HeardBroken ==
  ASSUME NEW h \in Hosts, Indexed(h), h.link = "up", NEW f \in UpFrame,
         NEW g, g = Heard(h, f, "broken").host, g.link = "down"
  PROVE  Cut(h, g)
<1>1. CASE f.kind = "register"
  <2>1. g = DriveBoot(Booted(h), "broken").host
    BY <1>1, BootedIs DEF Heard
  <2>2. Cut(Booted(h), g)
    BY <2>1, BootedIs, DriveBootBroken
  <2> QED BY <2>2, BootedIs DEF Cut
<1>2. CASE f.kind = "manifest"
  BY <1>2, HearManifestBroken DEF Heard
<1>3. CASE f.kind = "heartbeat"
  <2>1. g = HearHeartbeat(h).host
    BY <1>3 DEF Heard
  <2> QED BY <2>1, HearHeartbeatMoves DEF Moves, Bares
<1>4. CASE f.kind = "reply"
  <2>1. g = HearReply(h, f, "broken").host
    BY <1>4 DEF Heard
  <2>2. CASE f.rid \notin h.pend
    BY <2>1, <2>2, HearReplyDropped DEF Does
  <2>3. CASE f.rid \in h.pend /\ f.ok
    <3> DEFINE r == Replied(h, f.rid)
    <3>1. r \in Hosts /\ Indexed(r) /\ r.link = "up" /\ r.next = h.next
      BY RepliedIs DEF Indexed
    <3>2. g = Advance(r, f.result, "broken").host
      BY <2>1, <2>3 DEF HearReply, Replied
    <3> HIDE DEF r
    <3>3. Cut(r, g)
      BY <3>1, <3>2, AdvanceBroken
    <3> QED BY <3>1, <3>3 DEF Cut
  <2>4. CASE f.rid \in h.pend /\ ~f.ok
    <3>1. g = Failed(h, {f.rid})
      BY <2>1, <2>4 DEF HearReply, Does
    <3> QED BY <3>1, FailedIs
  <2> QED BY <2>2, <2>3, <2>4
<1> QED BY <1>1, <1>2, <1>3, <1>4 DEF UpFrame

\* The tail of controller_poll, when one of its writes breaks.
LEMMA PassedBroken ==
  ASSUME NEW h \in Hosts, Indexed(h), h.link = "up",
         NEW g, g = Passed(h, {}, "broken").host, g.link = "down"
  PROVE  Cut(h, g)
<1> DEFINE e == Failed(h, {})
           k == FireGet(e, "broken").host
<1>1. g = ProvStart(k, "broken").host
  BY DEF Passed, Does
<1>2. e \in Hosts /\ e.link = "up" /\ e.next = h.next
  BY FailedIs
<1> HIDE DEF e
<1>3. CASE ~(e.get /\ e.acked \in {"gap", "old"})
  <2>1. k = e
    BY <1>3 DEF FireGet, Does
  <2>2. CASE ~Ready(e)
    <3>1. g = e
      BY <1>1, <2>1, <2>2 DEF ProvStart, Ready, Does
    <3> QED BY <1>2, <3>1
  <2>3. CASE Ready(e)
    <3> DEFINE s == Step(e, "CLEAR", 0)
    <3>1. "CLEAR" \in Awaiting /\ 0 \in 0..RosterCount
      BY SyncConstants DEF Awaiting
    <3>2. s \in Hosts /\ s.link = "up" /\ s.next = h.next
      BY <1>2, <3>1, StepIs
    <3>3. g = Send(s, "clear", 0, "broken").host
      BY <1>1, <2>1, <2>3 DEF ProvStart, Ready, Step
    <3> HIDE DEF s
    <3>4. Cut(s, g)
      BY <3>2, <3>3, CutBySend
    <3> QED BY <3>2, <3>4 DEF Cut
  <2> QED BY <2>2, <2>3
<1>4. CASE e.get /\ e.acked \in {"gap", "old"}
  <2> DEFINE d == Down(e)
  <2>1. k = [d EXCEPT !.get = FALSE]
    BY <1>2, <1>4, PutBroken DEF FireGet, Does
  <2>2. d \in Hosts /\ Cut(e, d) /\ d.proto = "UNKNOWN"
    BY <1>2, DownIs, CutByDown
  <2> HIDE DEF d, k
  <2>3. k \in Hosts
    BY <2>1, <2>2 DEF Hosts
  <2>4. /\ k.link = d.link /\ k.prov = d.prov /\ k.pend = d.pend /\ k.next = d.next
        /\ k.proto = d.proto
    BY <2>1, <2>2 DEF Hosts
  <2>5. g = k
    BY <1>1, <2>2, <2>4 DEF ProvStart, Does
  <2>6. Cut(e, g)
    BY <1>2, <2>2, <2>3, <2>4, <2>5, CutKept
  <2> QED BY <1>2, <2>6 DEF Cut
<1> QED BY <1>3, <1>4

-----------------------------------------------------------------------------
(***************************************************************************)
(* The frames that were read with the one whose answer broke the port.     *)
(***************************************************************************)
\* A closed host g that knows of the same requests as h.
Closed(h, g) == /\ g \in Hosts /\ g.link = "down" /\ g.prov = "IDLE"
                /\ g.pend = h.pend /\ g.next = h.next

LEMMA ClosedHears ==
  ASSUME NEW h, NEW k, Closed(h, k), NEW f \in UpFrame,
         f.kind = "reply" => f.rid \notin h.pend,
         NEW g, g = Heard(k, f, "sent").host
  PROVE  Closed(h, g)
<1>1. k \in Hosts /\ Indexed(k)
  BY DEF Closed, Indexed
<1>2. CASE f.kind = "register"
  <2>1. g = HearRegister(k, "sent").host
    BY <1>2 DEF Heard
  <2>2. Moves(k, g, HearRegister(k, "sent").out, "none") /\ g.prov \in {"IDLE", k.prov}
        /\ g.pend = k.pend
    BY <1>1, <2>1, HearRegisterMoves
  <2> QED BY <2>2 DEF Closed, Moves, Next3, Bares
<1>3. CASE f.kind = "manifest"
  <2>1. g = HearManifest(k, "sent").host
    BY <1>3 DEF Heard
  <2>2. Moves(k, g, HearManifest(k, "sent").out, "begin") /\ g.prov = k.prov /\ g.pend = k.pend
    BY <1>1, <2>1, HearManifestMoves
  <2> QED BY <2>2 DEF Closed, Moves, Next3, Bares
<1>4. CASE f.kind = "heartbeat"
  <2>1. g = HearHeartbeat(k).host
    BY <1>4 DEF Heard
  <2>2. Moves(k, g, HearHeartbeat(k).out, "none") /\ g.prov = k.prov /\ g.pend = k.pend
    BY <1>1, <2>1, HearHeartbeatMoves
  <2> QED BY <2>2 DEF Closed, Moves, Next3, Bares
<1>5. CASE f.kind = "reply"
  <2>1. g = HearReply(k, f, "sent").host /\ f.rid \notin k.pend
    BY <1>5 DEF Heard, Closed
  <2>2. g = k
    BY <1>1, <2>1, HearReplyDropped DEF Does
  <2> QED BY <2>2
<1> QED BY <1>2, <1>3, <1>4, <1>5 DEF UpFrame

\* The least number of a set of numbers.
LEMMA Least ==
  ASSUME NEW S, S \subseteq Nat, S # {}
  PROVE  \E n \in S : \A m \in S : n <= m
<1> DEFINE R == OpToRel(<, Nat)
<1>1. IsWellFoundedOn(R, Nat)
  BY NatLessThanWellFounded
<1>2. \A m, n \in Nat : m < n => <<m, n>> \in R
  BY DEF OpToRel
<1> HIDE DEF R
<1>3. PICK n \in S : \A m \in S : ~(<<m, n>> \in R)
  BY <1>1, WFMin
<1>4. ASSUME NEW m \in S PROVE n <= m
  <2>1. m \in Nat /\ n \in Nat /\ ~(m < n)
    BY <1>2, <1>3
  <2> QED BY <2>1
<1> QED BY <1>4

\* The function of HandedUp exists.
Hands(h, q, k, after) ==
  after = [i \in 1..k |-> IF i = 1 THEN h ELSE Heard(after[i - 1], q[i], "sent").host]

LEMMA HandsExists ==
  ASSUME NEW h, NEW q, NEW k \in Nat
  PROVE  \E after : Hands(h, q, k, after)
<1> DEFINE Bad == {n \in Nat : ~\E after : Hands(h, q, n, after)}
<1>1. SUFFICES ASSUME Bad # {} PROVE FALSE
  OBVIOUS
<1>2. PICK n \in Bad : \A m \in Bad : n <= m
  BY <1>1, Least
<1>3. CASE n = 0
  <2>1. Hands(h, q, 0, [i \in 1..0 |-> h])
    BY DEF Hands
  <2> QED BY <1>2, <1>3, <2>1
<1>4. CASE n # 0
  <2>1. n \in Nat /\ n - 1 \in Nat /\ n - 1 \notin Bad
    BY <1>2, <1>4
  <2>2. PICK before : Hands(h, q, n - 1, before)
    BY <2>1
  <2> DEFINE H(i, x) == IF i = 1 THEN h ELSE Heard(x, q[i], "sent").host
             after == [i \in 1..n |-> IF i < n THEN before[i] ELSE H(n, before[n - 1])]
  <2>3. ASSUME NEW i \in 1..n PROVE after[i] = H(i, after[i - 1])
    <3>1. CASE i < n
      <4>1. i \in 1..(n - 1) /\ after[i] = before[i]
        BY <2>1, <3>1
      <4>2. before[i] = H(i, before[i - 1])
        BY <2>2, <4>1 DEF Hands
      <4>3. CASE i = 1
        BY <4>1, <4>2, <4>3
      <4>4. CASE i # 1
        <5>1. i - 1 \in 1..n /\ i - 1 < n
          BY <2>1, <3>1, <4>4
        <5>2. after[i - 1] = before[i - 1]
          BY <5>1
        <5> QED BY <4>1, <4>2, <5>2
      <4> QED BY <4>3, <4>4
    <3>2. CASE i = n
      <4>1. after[n] = H(n, before[n - 1])
        BY <2>1, <3>2
      <4>2. CASE n = 1
        BY <3>2, <4>1, <4>2
      <4>3. CASE n # 1
        <5>1. n - 1 \in 1..n /\ n - 1 < n
          BY <2>1, <1>4, <4>3
        <5>2. after[n - 1] = before[n - 1]
          BY <5>1
        <5> QED BY <3>2, <4>1, <5>2
      <4> QED BY <4>2, <4>3
    <3> QED BY <2>1, <3>1, <3>2
  <2>4. after = [i \in 1..n |-> H(i, after[i - 1])]
    BY <2>3
  <2>5. Hands(h, q, n, after)
    BY <2>4 DEF Hands
  <2> QED BY <1>2, <2>5
<1> QED BY <1>3, <1>4

LEMMA HandedUpClosed ==
  ASSUME NEW h \in Hosts, h.link = "down", h.prov = "IDLE",
         NEW q \in Seq(UpFrame), NEW k \in 1..Len(q),
         \A i \in 2..Len(q) : q[i].kind = "reply" => q[i].rid \notin h.pend
  PROVE  Closed(h, HandedUp(h, q, k))
<1> DEFINE after == CHOOSE a : Hands(h, q, k, a)
           Bad == {i \in 1..k : ~Closed(h, after[i])}
<1>0. k \in Nat
  OBVIOUS
<1>1. Hands(h, q, k, after)
  BY <1>0, HandsExists
<1>2. HandedUp(h, q, k) = after[k]
  BY DEF HandedUp, Hands
<1> HIDE DEF after
<1>3. SUFFICES ASSUME Bad # {} PROVE FALSE
  BY <1>2
<1>4. PICK i \in Bad : \A j \in Bad : i <= j
  <2>1. Bad \subseteq Nat
    OBVIOUS
  <2> HIDE DEF Bad
  <2> QED BY <1>3, <2>1, Least
<1>5. CASE i = 1
  <2>1. after[1] = h
    BY <1>1, <1>5 DEF Hands
  <2> QED BY <1>4, <1>5, <2>1 DEF Closed
<1>6. CASE i # 1
  <2>1. i - 1 \in 1..k /\ i - 1 \notin Bad /\ i \in 2..Len(q)
    BY <1>4, <1>6
  <2>2. Closed(h, after[i - 1])
    BY <2>1
  <2>3. after[i] = Heard(after[i - 1], q[i], "sent").host
    BY <1>1, <1>4, <1>6 DEF Hands
  <2>4. q[i] \in UpFrame
    BY <2>1
  <2>5. Closed(h, after[i])
    BY <2>1, <2>2, <2>3, <2>4, ClosedHears
  <2> QED BY <1>4, <2>5
<1> QED BY <1>5, <1>6

-----------------------------------------------------------------------------
(***************************************************************************)
(* Queues from which frames have been taken, or to which some were added.  *)
(***************************************************************************)
\* r is q without some of its first frames.
Rest(q, r) ==
  \E d \in Nat : Len(q) = Len(r) + d /\ \A i \in 1..Len(r) : r[i] = q[i + d]

LEMMA RestTail ==
  ASSUME NEW S, NEW q \in Seq(S), q # <<>>
  PROVE  Tail(q) \in Seq(S) /\ Rest(q, Tail(q))
<1>1. Tail(q) \in Seq(S) /\ Len(q) = Len(Tail(q)) + 1 /\ \A i \in 1..Len(Tail(q)) : Tail(q)[i] = q[i + 1]
  OBVIOUS
<1> QED BY <1>1 DEF Rest

LEMMA RestSub ==
  ASSUME NEW S, NEW q \in Seq(S), NEW k \in 0..Len(q)
  PROVE  SubSeq(q, k + 1, Len(q)) \in Seq(S) /\ Rest(q, SubSeq(q, k + 1, Len(q)))
<1> DEFINE r == SubSeq(q, k + 1, Len(q))
<1>1. r \in Seq(S) /\ Len(q) = Len(r) + k /\ \A i \in 1..Len(r) : r[i] = q[i + k]
  OBVIOUS
<1> HIDE DEF r
<1>2. k \in Nat
  OBVIOUS
<1>3. r \in Seq(S) /\ Rest(q, r)
  BY <1>1, <1>2 DEF Rest
<1> QED BY <1>3 DEF r

LEMMA RestSame == \A q : Rest(q, q) \/ Len(q) \notin Nat
<1> TAKE q
<1>1. ASSUME Len(q) \in Nat PROVE Rest(q, q)
  BY <1>1 DEF Rest
<1> QED BY <1>1

\* What follows from being a rest, frame by frame.
LEMMA RestFacts ==
  ASSUME NEW S, NEW q \in Seq(S), NEW r \in Seq(S), Rest(q, r)
  PROVE  /\ \A i \in DOMAIN r : \E k \in DOMAIN q : r[i] = q[k]
         /\ \A i, j \in DOMAIN r : i < j => \E k, l \in DOMAIN q : k < l /\ r[i] = q[k] /\ r[j] = q[l]
         /\ \A i, j, m \in DOMAIN r : i < j /\ j < m =>
              \E k, l, n \in DOMAIN q : k < l /\ l < n /\ r[i] = q[k] /\ r[j] = q[l] /\ r[m] = q[n]
<1>1. PICK d \in Nat : Len(q) = Len(r) + d /\ \A i \in 1..Len(r) : r[i] = q[i + d]
  BY DEF Rest
<1>2. \A i \in DOMAIN r : i \in Nat /\ i + d \in DOMAIN q /\ r[i] = q[i + d]
  BY <1>1
<1>3. \A i, j \in DOMAIN r : i < j => i + d < j + d
  BY <1>2
<1> QED BY <1>2, <1>3

LEMMA RestKeeps ==
  ASSUME NEW q \in Seq(UpFrame), NEW r \in Seq(UpFrame), Rest(q, r)
  PROVE  /\ \A kind : Has(r, kind) => Has(q, kind)
         /\ \A first, last : Before(r, first, last) => Before(q, first, last)
         /\ Sandwich(r) => Sandwich(q)
<1>1. /\ \A i \in DOMAIN r : \E k \in DOMAIN q : r[i] = q[k]
      /\ \A i, j \in DOMAIN r : i < j => \E k, l \in DOMAIN q : k < l /\ r[i] = q[k] /\ r[j] = q[l]
      /\ \A i, j, m \in DOMAIN r : i < j /\ j < m =>
           \E k, l, n \in DOMAIN q : k < l /\ l < n /\ r[i] = q[k] /\ r[j] = q[l] /\ r[m] = q[n]
  BY RestFacts
<1>2. \A kind : Has(r, kind) => Has(q, kind)
  BY <1>1 DEF Has
<1>3. \A first, last : Before(r, first, last) => Before(q, first, last)
  BY <1>1 DEF Before
<1>4. Sandwich(r) => Sandwich(q)
  BY <1>1 DEF Sandwich
<1> QED BY <1>2, <1>3, <1>4

\* The frames of q \o out are q's, then those of out.
Joins(q, out, r) ==
  /\ r \in Seq(DownFrame)
  /\ \A i \in DOMAIN q : i \in DOMAIN r /\ r[i] = q[i]
  /\ \A i \in DOMAIN r \ DOMAIN q : \E j \in DOMAIN out : r[i] = out[j]
  /\ \A i \in DOMAIN r, j \in DOMAIN r \ DOMAIN q : j < i => i \notin DOMAIN q

\* A concatenation joins its parts.
LEMMA Joined ==
  ASSUME NEW q \in Seq(DownFrame), NEW out \in Seq(DownFrame), NEW r, r = q \o out
  PROVE  Joins(q, out, r)
<1>1. /\ r \in Seq(DownFrame) /\ Len(r) = Len(q) + Len(out)
      /\ \A i \in 1..Len(q) : r[i] = q[i]
      /\ \A i \in 1..Len(r) : i > Len(q) => r[i] = out[i - Len(q)]
  OBVIOUS
<1>2. ASSUME NEW i \in DOMAIN r \ DOMAIN q PROVE \E j \in DOMAIN out : r[i] = out[j]
  <2>1. i \in 1..Len(r) /\ i > Len(q) /\ i - Len(q) \in DOMAIN out
    BY <1>1
  <2> QED BY <1>1, <2>1
<1>3. \A i \in DOMAIN q : i \in DOMAIN r /\ r[i] = q[i]
  BY <1>1
<1>4. \A i \in DOMAIN r, j \in DOMAIN r \ DOMAIN q : j < i => i \notin DOMAIN q
  BY <1>1
<1> QED BY <1>1, <1>2, <1>3, <1>4 DEF Joins

-----------------------------------------------------------------------------
(***************************************************************************)
(* The steps of the host keep the invariant.                               *)
(***************************************************************************)
MishapType == mishaps \in 0..MaxMishaps /\ bounces \in 0..MaxBounces /\ happened \subseteq Mishaps

LEMMA MishapTypes ==
  ASSUME MishapType, NoMishap \/ \E kind : Mishap(kind)
  PROVE  MishapType'
<1>1. CASE NoMishap
  BY <1>1 DEF NoMishap, MishapType
<1>2. ASSUME NEW kind, Mishap(kind) PROVE MishapType'
  <2>1. /\ kind \in Mishaps /\ mishaps < MaxMishaps /\ (kind = "bounce" => bounces < MaxBounces)
        /\ mishaps' = mishaps + 1 /\ happened' = happened \cup {kind}
        /\ bounces' = IF kind = "bounce" THEN bounces + 1 ELSE bounces
    BY <1>2 DEF Mishap
  <2> QED BY <2>1, SyncConstants DEF MishapType
<1> QED BY <1>1, <1>2

LEMMA FrameTypes ==
  /\ \A f \in DownFrame : f.kind = "shell" => f \in ShellFrame
  /\ \A f \in ShellFrame : f.rid \in Nat /\ f.kind = "shell" /\ f.arg \in Carried(f.cmd)
                           /\ f.cmd \in {"clear", "register", "setpoll", "list"}
  /\ \A f \in UpFrame : f.kind = "reply" =>
       f.rid \in Nat /\ f.ok \in BOOLEAN /\ f.result \in 0..RosterCount /\ f.result \in Nat
<1>1. \A f \in DownFrame : f.kind = "shell" => f \in ShellFrame
  BY DEF DownFrame
<1>2. \A f \in ShellFrame : f.rid \in Nat /\ f.kind = "shell" /\ f.arg \in Carried(f.cmd)
                           /\ f.cmd \in {"clear", "register", "setpoll", "list"}
  BY DEF ShellFrame, Carried
<1>3. \A f \in UpFrame : f.kind = "reply" => f.rid \in Nat /\ f.ok \in BOOLEAN /\ f.result \in 0..RosterCount
  BY DEF UpFrame
<1>4. \A n \in 0..RosterCount : n \in Nat
  BY SyncConstants
<1> QED BY <1>1, <1>2, <1>3, <1>4

\* The ids on the cable and in the dongle are numbers.
Rids == /\ \A i \in DOMAIN to_dongle : to_dongle[i].kind = "shell" => to_dongle[i].rid \in Nat
        /\ \A i \in DOMAIN dongle.shell : dongle.shell[i].rid \in Nat
        /\ \A i \in DOMAIN to_host :
             to_host[i].kind = "reply" => to_host[i].rid \in Nat /\ to_host[i].result \in Nat

LEMMA RidsAre ==
  ASSUME to_dongle \in Seq(DownFrame), to_host \in Seq(UpFrame), dongle.shell \in Seq(ShellFrame)
  PROVE  Rids
<1>1. /\ \A i \in DOMAIN to_dongle : to_dongle[i] \in DownFrame
      /\ \A i \in DOMAIN to_host : to_host[i] \in UpFrame
      /\ \A i \in DOMAIN dongle.shell : dongle.shell[i] \in ShellFrame
  OBVIOUS
<1> QED BY <1>1, FrameTypes DEF Rids

LEMMA HostKeeps ==
  ASSUME IInv, NEW c, NEW out, Moves(host, host', out, c), to_dongle' = to_dongle \o out,
         UNCHANGED <<dongle, line>>, MishapType',
         to_host' \in Seq(UpFrame), Rest(to_host, to_host'),
         host.link = "up" /\ ~dongle.seen => c \in Bares /\ ~Ready(host'),
         c = "clear" => host.prov = "IDLE" /\ host'.prov # "DONE",
         c = "list" => host'.prov # "IDLE" /\ Quiet',
         host'.prov = "IDLE" => host.prov = "IDLE" \/ Has(to_host, "register"),
         host'.prov = "DONE" => host.prov = "DONE" \/ (host.link = "up" /\ Whole)
  PROVE  IInv'
<1> DEFINE P == host.pend
           Q == host'.pend
<1>1. /\ to_dongle \in Seq(DownFrame) /\ to_host \in Seq(UpFrame) /\ dongle.shell \in Seq(ShellFrame)
      /\ host \in Hosts /\ host.next \in Nat /\ P \in SUBSET Nat
  BY HostFields DEF IInv, TypeOK, WireType, HostType, DongleType
<1>2. /\ out \in Seq(DownFrame)
      /\ \A i \in DOMAIN out : out[i].kind = "shell" => out[i].rid = host.next /\ out[i].cmd = c
  BY DEF Moves, Sends, Bares
<1>3. /\ to_dongle' \in Seq(DownFrame)
      /\ \A i \in DOMAIN to_dongle : i \in DOMAIN to_dongle' /\ to_dongle'[i] = to_dongle[i]
      /\ \A i \in DOMAIN to_dongle' \ DOMAIN to_dongle :
           to_dongle'[i].kind = "shell" => to_dongle'[i].rid = host.next /\ to_dongle'[i].cmd = c
      /\ \A i \in DOMAIN to_dongle', j \in DOMAIN to_dongle' \ DOMAIN to_dongle :
           j < i => i \notin DOMAIN to_dongle
  <2>1. Joins(to_dongle, out, to_dongle')
    BY <1>1, <1>2, Joined
  <2> QED BY <1>2, <2>1 DEF Joins
<1>4. /\ host' \in Hosts /\ host'.link = host.link /\ Indexed(host')
      /\ host'.next \in {host.next, host.next + 1} /\ Q \subseteq P \cup {host.next}
      /\ c \in Bares => host'.next = host.next /\ Q \subseteq P
      /\ c \notin Bares => host'.next = host.next + 1 /\ host.link = "up"
      /\ c \in {"none", "begin", "clear", "register", "setpoll", "list"}
  BY DEF Moves, Next3, Bares
<1>5. TypeOK'
  BY <1>3, <1>4 DEF IInv, TypeOK, WireType, HostType, DongleType, MishapType
<1>6. \A i \in DOMAIN to_host' : \E k \in DOMAIN to_host : to_host'[i] = to_host[k]
  BY <1>1, RestFacts
<1>7. c \in Bares => \A i \in DOMAIN to_dongle' \ DOMAIN to_dongle : to_dongle'[i].kind # "shell"
  <2>1. \A i \in DOMAIN to_dongle' : to_dongle'[i] \in DownFrame
    BY <1>3
  <2>2. \A f \in DownFrame : f.kind = "shell" => f.cmd \notin Bares
    BY DEF Bares, DownFrame, ShellFrame
  <2> QED BY <1>3, <2>1, <2>2
<1>8. IdsGiven'
  <2>1. \A rid \in Q : rid < host'.next
    <3>1. \A rid \in P : rid \in Nat /\ rid < host.next
      BY <1>1 DEF IInv, IdsGiven
    <3> QED BY <1>1, <1>4, <3>1
  <2>2. ASSUME NEW i \in DOMAIN to_dongle', to_dongle'[i].kind = "shell"
        PROVE  to_dongle'[i].rid < host'.next
    <3>1. CASE i \in DOMAIN to_dongle
      <4>1. to_dongle'[i] = to_dongle[i] /\ to_dongle[i].kind = "shell"
        BY <1>3, <2>2, <3>1
      <4>2. to_dongle[i].rid < host.next /\ to_dongle[i].rid \in Nat
        BY <1>1, <3>1, <4>1, RidsAre DEF IInv, IdsGiven, Rids
      <4> QED BY <1>1, <1>4, <4>1, <4>2
    <3>2. CASE i \notin DOMAIN to_dongle
      <4>1. c \notin Bares /\ to_dongle'[i].rid = host.next
        BY <1>3, <1>7, <2>2, <3>2
      <4> QED BY <1>1, <1>4, <4>1
    <3> QED BY <3>1, <3>2
  <2>3. \A i \in DOMAIN dongle.shell : dongle.shell[i].rid < host'.next
    <3>1. \A i \in DOMAIN dongle.shell : dongle.shell[i].rid \in Nat
      BY <1>1, RidsAre DEF Rids
    <3> QED BY <1>1, <1>4, <3>1 DEF IInv, IdsGiven
  <2>4. ASSUME NEW i \in DOMAIN to_host', to_host'[i].kind = "reply"
        PROVE  to_host'[i].rid < host'.next
    <3>1. PICK k \in DOMAIN to_host : to_host'[i] = to_host[k]
      BY <1>6
    <3>2. to_host[k].rid < host.next /\ to_host[k].rid \in Nat
      BY <1>1, <2>4, <3>1, RidsAre DEF IInv, IdsGiven, Rids
    <3> QED BY <1>1, <1>4, <3>1, <3>2
  <2> QED BY <2>1, <2>2, <2>3, <2>4 DEF IdsGiven
\* What was awaited before is, of what is still on its way, all that is awaited.
<1>9. /\ \A i \in DOMAIN to_host' : to_host'[i].kind = "reply" /\ to_host'[i].rid \in Q
            => to_host'[i].rid \in P
      /\ \A i \in DOMAIN dongle.shell : dongle.shell[i].rid \in Q => dongle.shell[i].rid \in P
      /\ \A i \in DOMAIN to_dongle : to_dongle[i].kind = "shell" /\ to_dongle[i].rid \in Q
            => to_dongle[i].rid \in P
  BY <1>1, <1>4, <1>6 DEF IInv, IdsGiven
<1>10. Severed'
  <2>1. ASSUME host.link # "up" \/ ~dongle.seen, NEW rid \in Q, OnItsWay(rid)'
        PROVE  FALSE
    <3>1. c \in Bares
      BY <1>4, <2>1
    <3>2. rid \in P
      BY <1>4, <2>1, <3>1
    <3>3. OnItsWay(rid)
      BY <1>3, <1>6, <1>7, <2>1, <3>1 DEF OnItsWay
    <3> QED BY <2>1, <3>2, <3>3 DEF IInv, Severed
  <2> QED BY <1>4, <2>1 DEF IInv, Severed
<1>11. ReplyIsLast'
  <2>1. ASSUME NEW i \in DOMAIN to_host', AwaitedReply(to_host', i, Q)
        PROVE  dongle.state # "boot" /\ \A j \in DOMAIN to_host' : i < j => to_host'[j].kind # "register"
    <3>1. \A j \in DOMAIN to_host' : i < j =>
            \E k, l \in DOMAIN to_host : k < l /\ to_host'[i] = to_host[k] /\ to_host'[j] = to_host[l]
      BY <1>1, RestFacts
    <3>2. \E k \in DOMAIN to_host : to_host'[i] = to_host[k]
      BY <1>6
    <3>3. \A k \in DOMAIN to_host : to_host'[i] = to_host[k] => AwaitedReply(to_host, k, P)
      BY <1>9, <2>1 DEF AwaitedReply
    <3> QED BY <3>1, <3>2, <3>3 DEF IInv, ReplyIsLast
  <2> QED BY <2>1 DEF ReplyIsLast
\* A chain in which nothing can be reset any more does not start over.
<1>12. host.prov # "IDLE" /\ Quiet => host'.prov # "IDLE" /\ Quiet' /\ c # "clear"
  <2>1. ~Has(to_host, "register") => ~Has(to_host', "register")
    BY <1>1, RestKeeps
  <2> QED BY <2>1 DEF Quiet
<1>13. ListOf(dongle.shell, Q) => ListOf(dongle.shell, P)
  BY <1>9 DEF ListOf, IsCommand
<1>14. ListOf(to_dongle', Q) => ListOf(to_dongle, P) \/ c = "list"
  <2>1. ASSUME NEW i \in DOMAIN to_dongle', IsCommand(to_dongle'[i], "list"), to_dongle'[i].rid \in Q
        PROVE  ListOf(to_dongle, P) \/ c = "list"
    <3>1. CASE i \in DOMAIN to_dongle
      BY <1>3, <1>9, <2>1, <3>1 DEF ListOf, IsCommand
    <3>2. CASE i \notin DOMAIN to_dongle
      BY <1>3, <2>1, <3>2 DEF IsCommand
    <3> QED BY <3>1, <3>2
  <2> QED BY <2>1 DEF ListOf
<1>15. c # "clear" /\ NoClear(to_dongle) => NoClear(to_dongle')
  BY <1>3 DEF NoClear, IsCommand
<1>16. ListStands'
  <2>1. ListIsLast(dongle.shell, Q)
    BY <1>9 DEF IInv, ListStands, ListIsLast, IsCommand
  <2>2. ListIsLast(to_dongle', Q)
    <3>1. ASSUME NEW i \in DOMAIN to_dongle', NEW j \in DOMAIN to_dongle', i < j,
                 IsCommand(to_dongle'[i], "list"), to_dongle'[i].rid \in Q,
                 IsCommand(to_dongle'[j], "clear")
          PROVE  FALSE
      <4>1. CASE i \in DOMAIN to_dongle
        <5>1. /\ to_dongle'[i] = to_dongle[i] /\ to_dongle[i].rid \in P
          BY <1>3, <1>9, <3>1, <4>1 DEF IsCommand
        <5>2. ListOf(to_dongle, P)
          BY <3>1, <4>1, <5>1 DEF ListOf
        <5>3. c # "clear"
          BY <1>12, <5>2 DEF IInv, ListStands
        <5>4. j \in DOMAIN to_dongle
          BY <1>3, <3>1, <5>3 DEF IsCommand
        <5> QED BY <1>3, <3>1, <4>1, <5>1, <5>4 DEF IInv, ListStands, ListIsLast
      <4>2. CASE i \notin DOMAIN to_dongle
        <5>1. c = "list" /\ j \notin DOMAIN to_dongle
          BY <1>3, <3>1, <4>2 DEF IsCommand
        <5> QED BY <1>3, <3>1, <5>1 DEF IsCommand
      <4> QED BY <4>1, <4>2
    <3> QED BY <3>1 DEF ListIsLast
  <2>3. ListOf(dongle.shell, Q) => NoClear(to_dongle')
    BY <1>12, <1>13, <1>15 DEF IInv, ListStands
  <2>4. ListOf(dongle.shell, Q) \/ ListOf(to_dongle', Q) => host'.prov # "IDLE" /\ Quiet'
    BY <1>12, <1>13, <1>14 DEF IInv, ListStands
  <2> QED BY <2>1, <2>2, <2>3, <2>4 DEF ListStands
<1>17. AnswerStands'
  <2>1. ASSUME NEW i \in DOMAIN to_host', AwaitedReply(to_host', i, Q)
        PROVE  /\ to_host'[i].result > 0 => host'.prov # "IDLE" /\ Quiet'
               /\ to_host'[i].result >= RosterCount => Whole'
    <3>1. PICK k \in DOMAIN to_host : to_host'[i] = to_host[k]
      BY <1>6
    <3>2. AwaitedReply(to_host, k, P)
      BY <1>9, <2>1, <3>1 DEF AwaitedReply
    <3>3. to_host[k].result > 0 => host.prov # "IDLE" /\ Quiet
      BY <3>2 DEF IInv, AnswerStands
    <3>4. to_host[k].result >= RosterCount => Whole
      BY <3>2 DEF IInv, AnswerStands, CountsAll
    <3>5. to_host[k].result \in Nat
      BY <1>1, <3>2, RidsAre DEF AwaitedReply, Rids
    <3>6. CASE RosterCount = 0
      BY <1>12, <3>1, <3>3, <3>6 DEF Whole
    <3>7. CASE RosterCount # 0
      <4>1. to_host[k].result >= RosterCount => to_host[k].result > 0
        BY <3>5, <3>7, SyncConstants
      <4> QED BY <1>12, <1>15, <3>1, <3>3, <3>4, <4>1 DEF Whole
    <3> QED BY <3>6, <3>7
  <2> QED BY <2>1 DEF AnswerStands, CountsAll
<1>18. DoneStands'
  BY <1>4, <1>15 DEF IInv, DoneStands, Whole
<1> QED BY <1>4, <1>5, <1>8, <1>10, <1>11, <1>16, <1>17, <1>18 DEF IInv

LEMMA StateTypes ==
  ASSUME TypeOK
  PROVE  /\ to_dongle \in Seq(DownFrame) /\ to_host \in Seq(UpFrame) /\ dongle.shell \in Seq(ShellFrame)
         /\ host \in Hosts /\ host.next \in Nat /\ host.pend \in SUBSET Nat
         /\ MishapType /\ line \in BOOLEAN
         /\ dongle.state \in {"boot", "l1", "op"} /\ dongle.roster \in SUBSET Slaves
         /\ dongle.seen \in BOOLEAN /\ dongle.dropped \in BOOLEAN
<1>1. /\ to_dongle \in Seq(DownFrame) /\ to_host \in Seq(UpFrame) /\ host \in Hosts
      /\ MishapType /\ line \in BOOLEAN
  BY DEF TypeOK, WireType, HostType, MishapType
<1>2. /\ dongle.shell \in Seq(ShellFrame)
      /\ dongle.state \in {"boot", "l1", "op"} /\ dongle.roster \in SUBSET Slaves
      /\ dongle.seen \in BOOLEAN /\ dongle.dropped \in BOOLEAN
  BY DEF TypeOK, DongleType
<1> QED BY <1>1, <1>2, HostFields

\* A frame is heard by a host that is linked to a dongle that sees it.
LEMMA ListenKeeps ==
  ASSUME IInv, Listen, UNCHANGED dongle
  PROVE  IInv'
<1> DEFINE f == Head(to_host)
           out == Heard(host, f, "sent").out
<1>1. /\ host.link = "up" /\ to_host # <<>> /\ dongle.seen
      /\ host' = Heard(host, f, "sent").host /\ to_dongle' = to_dongle \o out
      /\ to_host' = Tail(to_host) /\ NoMishap /\ line' = line
  BY DEF Listen, Hear, Did
<1>2. host \in Hosts /\ Indexed(host) /\ to_host \in Seq(UpFrame) /\ MishapType
  BY StateTypes DEF IInv
<1>3. MishapType'
  BY <1>1, <1>2, MishapTypes
<1>4. to_host' \in Seq(UpFrame) /\ Rest(to_host, to_host') /\ f \in UpFrame
      /\ 1 \in DOMAIN to_host /\ f = to_host[1]
  BY <1>1, <1>2, RestTail
<1> HIDE DEF f, out
<1>5. CASE f.kind = "register"
  <2>1. Moves(host, host', out, "none") /\ host'.prov \in {"IDLE", host.prov}
    BY <1>1, <1>2, <1>5, HearRegisterMoves DEF Heard, out
  <2>2. Has(to_host, "register")
    BY <1>4, <1>5 DEF Has
  <2> QED BY <1>1, <1>3, <1>4, <2>1, <2>2, HostKeeps DEF Bares
<1>6. CASE f.kind = "manifest"
  <2>1. Moves(host, host', out, "begin") /\ host'.prov = host.prov
    BY <1>1, <1>2, <1>6, HearManifestMoves DEF Heard, out
  <2> QED BY <1>1, <1>3, <1>4, <2>1, HostKeeps DEF Bares
<1>7. CASE f.kind = "heartbeat"
  <2>1. Moves(host, host', out, "none") /\ host'.prov = host.prov
    BY <1>1, <1>2, <1>7, HearHeartbeatMoves DEF Heard, out
  <2> QED BY <1>1, <1>3, <1>4, <2>1, HostKeeps DEF Bares
<1>8. CASE f.kind = "reply" /\ f.rid \notin host.pend
  <2>1. host' = host /\ out = <<>>
    <3>1. Heard(host, f, "sent") = Does(host, <<>>)
      BY <1>2, <1>8, HearReplyDropped DEF Heard
    <3> QED BY <1>1, <3>1 DEF Does, out
  <2>2. Moves(host, host', out, "none")
    BY <1>2, <2>1, SendsNothing DEF Moves, Bares
  <2> QED BY <1>1, <1>3, <1>4, <2>1, <2>2, HostKeeps DEF Bares
<1>9. CASE f.kind = "reply" /\ f.rid \in host.pend
  <2> DEFINE r == Replied(host, f.rid)
  <2>1. PICK c : Chained(r, host', out, c, f.result)
    BY <1>1, <1>2, <1>4, <1>9, HearReplyMoves DEF Heard, out
  <2>2. /\ r.pend \subseteq host.pend /\ r.next = host.next /\ r.link = host.link /\ r.prov = host.prov
    BY <1>2, RepliedIs
  <2> HIDE DEF r
  <2>3. Moves(host, host', out, c)
    BY <2>1, <2>2 DEF Chained, Moves, Bares
  <2>4. c # "clear" /\ (host'.prov = "IDLE" => host.prov = "IDLE")
        /\ (c = "list" => host'.prov # "IDLE")
        /\ (host'.prov = "DONE" => host.prov = "DONE" \/ f.result >= RosterCount)
    BY <2>1, <2>2 DEF Chained, Awaiting
  <2>5. AwaitedReply(to_host, 1, host.pend)
    BY <1>4, <1>9 DEF AwaitedReply
  <2>6. f.result >= RosterCount => Whole
    BY <1>4, <2>5 DEF IInv, AnswerStands, CountsAll
  <2>7. Quiet'
    <3>1. dongle.state # "boot" /\ \A j \in DOMAIN to_host : 1 < j => to_host[j].kind # "register"
      BY <1>4, <2>5 DEF IInv, ReplyIsLast
    <3>2. \A j \in DOMAIN to_host' : j + 1 \in DOMAIN to_host /\ 1 < j + 1 /\ to_host'[j] = to_host[j + 1]
      BY <1>1, <1>2
    <3> QED BY <3>1, <3>2 DEF Quiet, Has
  <2> QED BY <1>1, <1>3, <1>4, <2>3, <2>4, <2>6, <2>7, HostKeeps DEF Bares
<1> QED BY <1>4, <1>5, <1>6, <1>7, <1>8, <1>9 DEF UpFrame

LEMMA AgeKeeps ==
  ASSUME IInv, Age, UNCHANGED dongle
  PROVE  IInv'
<1>1. host \in Hosts /\ Indexed(host) /\ to_host \in Seq(UpFrame) /\ MishapType
      /\ to_dongle \in Seq(DownFrame)
  BY StateTypes DEF IInv
<1>2. /\ UNCHANGED <<line, to_dongle, to_host, mishaps, bounces, happened>>
      /\ \E a \in {"gap", "old"} : host' = [host EXCEPT !.acked = a]
  BY DEF Age, wireVars
<1>3. host' \in Hosts
  BY <1>1, <1>2 DEF Hosts
<1>4. /\ host'.link = host.link /\ host'.identity = host.identity /\ host'.proto = host.proto
      /\ host'.prov = host.prov /\ host'.idx = host.idx /\ host'.pend = host.pend
      /\ host'.next = host.next
  BY <1>1, <1>2 DEF Hosts
<1>5. Moves(host, host', <<>>, "none")
  BY <1>1, <1>3, <1>4, SendsNothing DEF Moves, Indexed, Bares
<1>6. to_dongle' = to_dongle \o <<>> /\ Rest(to_host, to_host') /\ to_host' \in Seq(UpFrame)
  <2>1. Len(to_host) \in Nat
    BY <1>1
  <2> QED BY <1>1, <1>2, <2>1, RestSame
<1>7. MishapType' /\ line' = line
  BY <1>1, <1>2 DEF MishapType
<1>8. host.link = "up" /\ ~dongle.seen => ~Ready(host')
  BY <1>4 DEF IInv, Severed, Ready
<1> QED BY <1>4, <1>5, <1>6, <1>7, <1>8, HostKeeps DEF Bares

LEMMA PollKeeps ==
  ASSUME IInv, Poll, UNCHANGED dongle
  PROVE  IInv'
<1>1. PICK expired \in SUBSET host.pend :
         Pass(expired) /\ (NoMishap \/ \E kind : Mishap(kind))
  BY DEF Poll
<1> DEFINE out == Passed(host, expired, "sent").out
<1>2. /\ host.link # "gone" /\ host' = Passed(host, expired, "sent").host
      /\ to_dongle' = to_dongle \o out /\ line' = line /\ to_host' = to_host
  BY <1>1 DEF Pass, Did
<1>3. host \in Hosts /\ Indexed(host) /\ to_host \in Seq(UpFrame) /\ MishapType
  BY StateTypes DEF IInv
<1>4. MishapType'
  BY <1>1, <1>3, MishapTypes
<1>5. to_host' \in Seq(UpFrame) /\ Rest(to_host, to_host')
  <2>1. Len(to_host) \in Nat
    BY <1>3
  <2> QED BY <1>2, <1>3, <2>1, RestSame
<1>6. host.link \in {"up", "down"} /\ expired \in SUBSET host.pend
  BY <1>1, <1>2, <1>3, HostFields
<1>7. /\ host'.identity = host.identity /\ host'.proto = host.proto
      /\ \/ /\ Moves(host, host', out, "clear") /\ host.link = "up" /\ Ready(host)
            /\ expired = {} /\ host'.prov = "CLEAR" /\ host'.pend = host.pend \cup {host.next}
         \/ /\ Moves(host, host', out, "none") /\ host'.pend = host.pend \ expired
            /\ \/ host'.prov = host.prov /\ expired = {} /\ (host.link = "up" => ~Ready(host))
               \/ host'.prov = "FAIL" /\ expired # {}
               \/ host'.prov = "CLEAR" /\ host.link = "down" /\ Ready(host)
  BY <1>2, <1>3, <1>6, PassedMoves
<1> HIDE DEF out
<1>8. CASE /\ Moves(host, host', out, "clear") /\ Ready(host) /\ host'.prov = "CLEAR"
  <2>1. host.prov = "IDLE" /\ ~(host.link = "up" /\ ~dongle.seen)
    BY <1>8 DEF Ready, IInv, Severed
  <2> QED BY <1>2, <1>4, <1>5, <1>8, <2>1, HostKeeps DEF Bares
<1>9. CASE /\ Moves(host, host', out, "none") /\ host'.prov \in {host.prov, "FAIL", "CLEAR"}
           /\ host.link = "up" => host'.prov \in {host.prov, "FAIL"}
  <2>1. host.link = "up" /\ ~dongle.seen => ~Ready(host')
    BY <1>7, <1>9 DEF IInv, Severed, Ready
  <2> QED BY <1>2, <1>4, <1>5, <1>9, <2>1, HostKeeps DEF Bares
<1> QED BY <1>7, <1>8, <1>9

-----------------------------------------------------------------------------
(***************************************************************************)
(* Steps after which nothing is awaited.                                   *)
(***************************************************************************)
LEMMA NothingAwaited ==
  ASSUME TypeOK', IdsGiven', Severed', Indexed(host'), DoneStands',
         \A rid \in host'.pend : ~OnItsWay(rid)'
  PROVE  IInv'
<1>1. \A i \in DOMAIN to_host' : ~AwaitedReply(to_host', i, host'.pend)
  BY DEF AwaitedReply, OnItsWay
<1>2. ~ListOf(dongle'.shell, host'.pend) /\ ~ListOf(to_dongle', host'.pend)
  BY DEF ListOf, IsCommand, OnItsWay
<1>3. ReplyIsLast'
  BY <1>1 DEF ReplyIsLast
<1>4. AnswerStands'
  BY <1>1 DEF AnswerStands, CountsAll
<1>5. ListStands'
  BY <1>2 DEF ListStands, ListOf, ListIsLast
<1> QED BY <1>3, <1>4, <1>5 DEF IInv

\* The port opens.
LEMMA AttachKeeps ==
  ASSUME IInv, Attach, UNCHANGED dongle
  PROVE  IInv'
<1>1. /\ host.link = "down" /\ ProvStart(host, "sent").host = host
      /\ host' = [host EXCEPT !.link = "up"] /\ line' = TRUE /\ to_dongle' = to_dongle
      /\ \E k \in 0..Len(to_host) : to_host' = SubSeq(to_host, k + 1, Len(to_host))
      /\ NoMishap \/ Mishap("unseen")
  BY DEF Attach, Open, Settled
<1>2. /\ host \in Hosts /\ Indexed(host) /\ to_host \in Seq(UpFrame) /\ MishapType
      /\ to_dongle \in Seq(DownFrame) /\ dongle.shell \in Seq(ShellFrame)
  BY StateTypes DEF IInv
<1>3. MishapType'
  BY <1>1, <1>2, MishapTypes
<1>4. to_host' \in Seq(UpFrame) /\ Rest(to_host, to_host')
  BY <1>1, <1>2, RestSub
<1>5. /\ host' \in Hosts /\ host'.link = "up" /\ host'.prov = host.prov /\ host'.idx = host.idx
      /\ host'.proto = host.proto /\ host'.identity = host.identity
      /\ host'.pend = host.pend /\ host'.next = host.next
  BY <1>1, <1>2 DEF Hosts
<1>6. ~Ready(host')
  <2>1. Ready(host) => ProvStart(host, "sent").host.prov = "CLEAR"
    BY <1>1, <1>2, ProvStartMoves
  <2> QED BY <1>1, <1>5, <2>1 DEF Ready
<1>7. TypeOK'
  BY <1>1, <1>2, <1>3, <1>4, <1>5 DEF IInv, TypeOK, WireType, HostType, DongleType, MishapType
<1>8. \A i \in DOMAIN to_host' : \E k \in DOMAIN to_host : to_host'[i] = to_host[k]
  BY <1>2, <1>4, RestFacts
<1>9. IdsGiven'
  BY <1>1, <1>5, <1>8 DEF IInv, IdsGiven
<1>10. \A rid \in host'.pend : ~OnItsWay(rid)'
  BY <1>1, <1>5, <1>8 DEF IInv, Severed, OnItsWay
<1>11. Severed'
  BY <1>1, <1>5, <1>6, <1>10 DEF Severed
<1>12. DoneStands' /\ Indexed(host')
  BY <1>1, <1>2, <1>5 DEF IInv, DoneStands, Indexed
<1> QED BY <1>7, <1>9, <1>10, <1>11, <1>12, NothingAwaited

\* The host is cut off: its port goes away, under a write or otherwise.
LEMMA CutKeeps ==
  ASSUME IInv, UNCHANGED dongle, Cut(host, host'), line' = FALSE, to_dongle' = <<>>,
         to_host' \in Seq(UpFrame), Rest(to_host, to_host'), MishapType'
  PROVE  IInv'
<1>1. /\ host \in Hosts /\ host.next \in Nat /\ host.pend \in SUBSET Nat
      /\ to_host \in Seq(UpFrame) /\ to_dongle \in Seq(DownFrame) /\ dongle.shell \in Seq(ShellFrame)
  BY StateTypes DEF IInv
<1>2. /\ host' \in Hosts /\ host'.link = "down" /\ host'.prov = "IDLE"
      /\ host'.pend \subseteq {host.next} /\ host'.next \in {host.next, host.next + 1}
      /\ \A rid \in host'.pend : rid = host.next /\ host'.next = host.next + 1
  BY <1>1 DEF Cut
<1>3. \A i \in DOMAIN to_host' : \E k \in DOMAIN to_host : to_host'[i] = to_host[k]
  BY <1>1, RestFacts
<1>4. Rids
  BY <1>1, RidsAre
<1>5. <<>> \in Seq(DownFrame) /\ DOMAIN <<>> = {}
  OBVIOUS
<1>6. TypeOK'
  BY <1>2, <1>5 DEF IInv, TypeOK, WireType, HostType, DongleType, MishapType
<1>7. IdsGiven'
  <2>1. \A n \in Nat : n < host.next => n < host'.next
    BY <1>1, <1>2
  <2>2. \A rid \in host'.pend : rid < host'.next
    BY <1>1, <1>2
  <2>3. \A i \in DOMAIN dongle.shell : dongle.shell[i].rid < host'.next
    BY <1>4, <2>1 DEF IInv, IdsGiven, Rids
  <2>4. \A i \in DOMAIN to_host' : to_host'[i].kind = "reply" => to_host'[i].rid < host'.next
    BY <1>3, <1>4, <2>1 DEF IInv, IdsGiven, Rids
  <2> QED BY <1>5, <2>2, <2>3, <2>4 DEF IdsGiven
<1>8. \A rid \in host'.pend : ~OnItsWay(rid)'
  <2>1. /\ \A i \in DOMAIN dongle.shell : dongle.shell[i].rid # host.next
        /\ \A i \in DOMAIN to_host : to_host[i].kind = "reply" => to_host[i].rid # host.next
    BY <1>1, <1>4 DEF IInv, IdsGiven, Rids
  <2> QED BY <1>2, <1>3, <1>5, <2>1 DEF OnItsWay
<1>9. Severed'
  BY <1>2, <1>8 DEF Severed
<1>10. DoneStands' /\ Indexed(host')
  BY <1>2 DEF DoneStands, Indexed
<1> QED BY <1>6, <1>7, <1>8, <1>9, <1>10, NothingAwaited

LEMMA DetachKeeps ==
  ASSUME IInv, Detach, UNCHANGED dongle
  PROVE  IInv'
<1>1. /\ host' = Down(host) /\ line' = FALSE /\ to_dongle' = <<>> /\ to_host' = to_host
      /\ NoMishap \/ Mishap("bounce")
  BY DEF Detach, GoDown
<1>2. host \in Hosts /\ to_host \in Seq(UpFrame) /\ MishapType
  BY StateTypes DEF IInv
<1>3. Rest(to_host, to_host)
  <2>1. Len(to_host) \in Nat
    BY <1>2
  <2> QED BY <2>1, RestSame
<1>4. Cut(host, host') /\ MishapType'
  BY <1>1, <1>2, CutByDown, MishapTypes
<1> QED BY <1>1, <1>2, <1>3, <1>4, CutKeeps

\* The frames read with the one whose answer broke the port change nothing.
LEMMA HearBrokenCuts ==
  ASSUME IInv, HearBroken
  PROVE  Cut(host, host') /\ to_host' \in Seq(UpFrame) /\ Rest(to_host, to_host')
<1> DEFINE h == Heard(host, Head(to_host), "broken").host
<1>1. PICK k \in 1..Len(to_host) :
         /\ host' = HandedUp(h, to_host, k) /\ to_host' = SubSeq(to_host, k + 1, Len(to_host))
         /\ host.link = "up" /\ h.link = "down" /\ to_host # <<>>
  BY DEF HearBroken, Broken
<1>2. host \in Hosts /\ Indexed(host) /\ to_host \in Seq(UpFrame) /\ host.next \in Nat
      /\ to_dongle \in Seq(DownFrame) /\ dongle.shell \in Seq(ShellFrame)
  BY StateTypes DEF IInv
<1>3. Head(to_host) \in UpFrame
  BY <1>1, <1>2
<1>4. Cut(host, h)
  BY <1>1, <1>2, <1>3, HeardBroken
<1> HIDE DEF h
<1>5. h \in Hosts /\ h.prov = "IDLE" /\ h.pend \subseteq {host.next}
  BY <1>2, <1>4 DEF Cut
<1>6. ASSUME NEW i \in 2..Len(to_host), to_host[i].kind = "reply"
      PROVE  to_host[i].rid \notin h.pend
  <2>1. i \in DOMAIN to_host
    BY <1>2
  <2>2. to_host[i].rid < host.next /\ to_host[i].rid \in Nat
    BY <1>2, <1>6, <2>1, RidsAre DEF IInv, IdsGiven, Rids
  <2> QED BY <1>2, <1>5, <2>2
<1>7. Closed(h, HandedUp(h, to_host, k))
  BY <1>1, <1>2, <1>5, <1>6, HandedUpClosed
<1>8. Cut(host, host')
  BY <1>1, <1>4, <1>7 DEF Cut, Closed
<1>9. to_host' \in Seq(UpFrame) /\ Rest(to_host, to_host')
  <2>1. k \in 0..Len(to_host)
    OBVIOUS
  <2> QED BY <1>1, <1>2, <2>1, RestSub
<1> QED BY <1>8, <1>9

LEMMA BreakKeeps ==
  ASSUME IInv, Break, UNCHANGED dongle
  PROVE  IInv'
<1>1. host \in Hosts /\ Indexed(host) /\ to_host \in Seq(UpFrame) /\ MishapType
  BY StateTypes DEF IInv
<1>2. CASE HearBroken
  <2>1. line' = FALSE /\ to_dongle' = <<>> /\ Mishap("broken")
    BY <1>2 DEF HearBroken, Broken
  <2>2. MishapType'
    BY <1>1, <2>1, MishapTypes
  <2> QED BY <1>2, <2>1, <2>2, HearBrokenCuts, CutKeeps
<1>3. CASE PassBroken
  <2>1. /\ host.link = "up" /\ host' = Passed(host, {}, "broken").host /\ host'.link = "down"
        /\ Mishap("broken") /\ line' = FALSE /\ to_dongle' = <<>> /\ to_host' = to_host
    BY <1>3 DEF PassBroken, Broken
  <2>2. Cut(host, host')
    BY <1>1, <2>1, PassedBroken
  <2>3. MishapType'
    BY <1>1, <2>1, MishapTypes
  <2>4. Rest(to_host, to_host')
    <3>1. Len(to_host) \in Nat
      BY <1>1
    <3> QED BY <2>1, <3>1, RestSame
  <2> QED BY <1>1, <2>1, <2>2, <2>3, <2>4, CutKeeps
<1> QED BY <1>2, <1>3 DEF Break

-----------------------------------------------------------------------------
(***************************************************************************)
(* The steps of the dongle keep the invariant.                             *)
(***************************************************************************)
LEMMA RebootKeeps ==
  ASSUME IInv, Reboot
  PROVE  IInv'
<1>1. /\ Mishap("reboot") /\ dongle' = Boot
      /\ host' = IF host.link = "up" THEN [host EXCEPT !.link = "gone"] ELSE host
      /\ line' = FALSE /\ to_dongle' = <<>> /\ to_host' = <<>>
  BY DEF Reboot
<1>2. host \in Hosts /\ Indexed(host) /\ MishapType
  BY StateTypes DEF IInv
<1>3. /\ host' \in Hosts /\ host'.link = (IF host.link = "up" THEN "gone" ELSE host.link)
      /\ host'.prov = host.prov /\ host'.idx = host.idx
      /\ host'.pend = host.pend /\ host'.next = host.next
  BY <1>1, <1>2 DEF Hosts
<1>4. MishapType'
  BY <1>1, <1>2, MishapTypes
<1>5. /\ <<>> \in Seq(DownFrame) /\ <<>> \in Seq(UpFrame) /\ <<>> \in Seq(ShellFrame)
      /\ DOMAIN <<>> = {}
  OBVIOUS
<1>6. Boot.shell = <<>> /\ Boot.state = "boot" /\ Boot.roster = {}
      /\ DongleType'
  BY <1>1, <1>5 DEF Boot, DongleType
<1>7. TypeOK'
  BY <1>1, <1>3, <1>4, <1>5, <1>6 DEF TypeOK, WireType, HostType, MishapType
<1>8. IdsGiven'
  BY <1>1, <1>3, <1>5, <1>6 DEF IInv, IdsGiven
<1>9. \A rid \in host'.pend : ~OnItsWay(rid)'
  BY <1>1, <1>5, <1>6 DEF OnItsWay
<1>10. Severed'
  <2>1. host'.link # "up"
    BY <1>3
  <2> QED BY <1>1, <1>9, <2>1 DEF Severed
<1>11. DoneStands' /\ Indexed(host')
  BY <1>2, <1>3 DEF IInv, DoneStands, Indexed
<1> QED BY <1>7, <1>8, <1>9, <1>10, <1>11, NothingAwaited

\* The dongle notices that the port was closed or opened: nothing is awaited.
LEMMA EdgeKeeps ==
  ASSUME IInv, Edge, UNCHANGED host
  PROVE  IInv'
<1>1. /\ line # dongle.seen /\ UNCHANGED <<line, to_dongle, to_host, mishaps, bounces, happened>>
      /\ dongle' = IF ~line THEN [dongle EXCEPT !.seen = FALSE, !.dropped = TRUE]
                   ELSE IF dongle.dropped
                     THEN [dongle EXCEPT !.seen = TRUE, !.dropped = FALSE, !.state = "boot"]
                     ELSE [dongle EXCEPT !.seen = TRUE]
  BY DEF Edge, wireVars
<1>2. DongleType /\ dongle.seen \in BOOLEAN /\ line \in BOOLEAN
  BY StateTypes DEF IInv, TypeOK
<1>3. /\ DongleType' /\ dongle'.roster = dongle.roster /\ dongle'.shell = dongle.shell
      /\ dongle'.seen = line
  BY <1>1, <1>2 DEF DongleType
<1>4. TypeOK'
  BY <1>1, <1>3 DEF IInv, TypeOK, WireType, HostType
<1>5. IdsGiven' /\ DoneStands' /\ Indexed(host')
  BY <1>1, <1>3 DEF IInv, IdsGiven, DoneStands, Whole, Indexed
<1>6. host.link # "up" \/ ~dongle.seen
  BY <1>1, <1>2 DEF IInv, Severed
<1>7. \A rid \in host'.pend : ~OnItsWay(rid)'
  BY <1>1, <1>3, <1>6 DEF IInv, Severed, OnItsWay
<1>8. Severed'
  BY <1>1, <1>2, <1>3, <1>7 DEF IInv, Severed, Ready
<1> QED BY <1>4, <1>5, <1>7, <1>8, NothingAwaited

\* At most a frame f joins the ring.
Adds(f) ==
  /\ to_host' \in Seq(UpFrame) /\ MishapType'
  /\ \A i \in DOMAIN to_host : i \in DOMAIN to_host' /\ to_host'[i] = to_host[i]
  /\ \A i \in DOMAIN to_host' \ DOMAIN to_host :
       to_host'[i] = f /\ \A j \in DOMAIN to_host' : i < j => FALSE

LEMMA EncodeIs ==
  ASSUME to_host \in Seq(UpFrame), NEW f \in UpFrame, MishapType,
         Encode(f) \/ (NoMishap /\ UNCHANGED to_host)
  PROVE  Adds(f)
<1>1. MishapType'
  BY MishapTypes DEF Encode
<1>2. CASE to_host' = Append(to_host, f)
  <2>1. /\ to_host' \in Seq(UpFrame) /\ Len(to_host') = Len(to_host) + 1
        /\ \A i \in 1..Len(to_host) : to_host'[i] = to_host[i]
        /\ to_host'[Len(to_host) + 1] = f
    BY <1>2
  <2>2. \A i \in DOMAIN to_host : i \in DOMAIN to_host' /\ to_host'[i] = to_host[i]
    BY <2>1
  <2>3. \A i \in DOMAIN to_host' \ DOMAIN to_host : i = Len(to_host) + 1
    BY <2>1
  <2>4. \A i \in DOMAIN to_host' \ DOMAIN to_host :
          to_host'[i] = f /\ \A j \in DOMAIN to_host' : i < j => FALSE
    BY <2>1, <2>3
  <2> QED BY <1>1, <2>1, <2>2, <2>4 DEF Adds
<1>3. CASE to_host' = to_host
  BY <1>1, <1>3 DEF Adds
<1> QED BY <1>2, <1>3 DEF Encode

\* A step of the ladder: the dongle climbs or announces itself.
LEMMA BareKeeps ==
  ASSUME IInv, NEW kind \in {"register", "manifest", "heartbeat"}, Adds(Bare(kind)),
         kind = "register" => dongle.state = "boot",
         DongleType', dongle'.roster = dongle.roster, dongle'.shell = dongle.shell,
         dongle'.seen = dongle.seen, dongle'.state = "boot" => dongle.state = "boot",
         UNCHANGED <<host, line>>, to_dongle' \in Seq(DownFrame), Rest(to_dongle, to_dongle')
  PROVE  IInv'
<1>1. /\ to_host \in Seq(UpFrame) /\ to_dongle \in Seq(DownFrame) /\ MishapType
  BY StateTypes DEF IInv
<1>3. /\ to_host' \in Seq(UpFrame) /\ MishapType'
      /\ \A i \in DOMAIN to_host : i \in DOMAIN to_host' /\ to_host'[i] = to_host[i]
      /\ \A i \in DOMAIN to_host' \ DOMAIN to_host :
           to_host'[i].kind = kind /\ \A j \in DOMAIN to_host' : i < j => FALSE
  BY DEF Adds, Bare
<1>4. \A i \in DOMAIN to_host' : to_host'[i].kind = "reply" => i \in DOMAIN to_host /\ to_host'[i] = to_host[i]
  BY <1>3
<1>5. /\ \A i \in DOMAIN to_dongle' : \E k \in DOMAIN to_dongle : to_dongle'[i] = to_dongle[k]
      /\ \A i, j \in DOMAIN to_dongle' : i < j =>
           \E k, l \in DOMAIN to_dongle : k < l /\ to_dongle'[i] = to_dongle[k] /\ to_dongle'[j] = to_dongle[l]
  BY <1>1, RestFacts
<1>6. TypeOK'
  BY <1>3 DEF IInv, TypeOK, WireType, HostType, MishapType
<1>7. IdsGiven'
  BY <1>4, <1>5 DEF IInv, IdsGiven
<1>8. Severed'
  <2>1. \A rid : OnItsWay(rid)' => OnItsWay(rid)
    BY <1>4, <1>5 DEF OnItsWay
  <2> QED BY <2>1 DEF IInv, Severed
<1>9. Quiet => Quiet'
  BY <1>3 DEF Quiet, Has
<1>10. ReplyIsLast'
  <2>1. ASSUME NEW i \in DOMAIN to_host', AwaitedReply(to_host', i, host'.pend)
        PROVE  dongle'.state # "boot" /\ \A j \in DOMAIN to_host' : i < j => to_host'[j].kind # "register"
    <3>1. i \in DOMAIN to_host /\ AwaitedReply(to_host, i, host.pend)
      BY <1>4, <2>1 DEF AwaitedReply
    <3>2. dongle.state # "boot" /\ \A j \in DOMAIN to_host : i < j => to_host[j].kind # "register"
      BY <3>1 DEF IInv, ReplyIsLast
    <3> QED BY <1>3, <3>2
  <2> QED BY <2>1 DEF ReplyIsLast
<1>11. NoClear(to_dongle) => NoClear(to_dongle')
  BY <1>5 DEF NoClear, IsCommand
<1>12. ListStands'
  <2>1. ListOf(to_dongle', host.pend) => ListOf(to_dongle, host.pend)
    BY <1>5 DEF ListOf, IsCommand
  <2>2. ListIsLast(to_dongle', host.pend)
    BY <1>5 DEF IInv, ListStands, ListIsLast, IsCommand
  <2> QED BY <1>9, <1>11, <2>1, <2>2 DEF IInv, ListStands
<1>13. Whole => Whole'
  BY <1>11 DEF Whole
<1>14. AnswerStands'
  <2>1. ASSUME NEW i \in DOMAIN to_host', AwaitedReply(to_host', i, host'.pend)
        PROVE  /\ to_host'[i].result > 0 => host'.prov # "IDLE" /\ Quiet'
               /\ CountsAll(to_host', i, host'.pend) => Whole'
    <3>1. i \in DOMAIN to_host /\ to_host'[i] = to_host[i] /\ AwaitedReply(to_host, i, host.pend)
      BY <1>4, <2>1 DEF AwaitedReply
    <3> QED BY <1>9, <1>13, <3>1 DEF IInv, AnswerStands, CountsAll
  <2> QED BY <2>1 DEF AnswerStands, CountsAll
<1>15. DoneStands' /\ Indexed(host')
  BY <1>13 DEF IInv, DoneStands, Indexed
<1> QED BY <1>6, <1>7, <1>8, <1>10, <1>12, <1>14, <1>15 DEF IInv

LEMMA BareIsUp == \A kind \in {"register", "manifest", "heartbeat"} : Bare(kind) \in UpFrame
BY DEF Bare, UpFrame

LEMMA BeatKeeps ==
  ASSUME IInv, Beat, UNCHANGED host
  PROVE  IInv'
<1>1. PICK kind \in {"register", "heartbeat"} :
         /\ dongle.state = (IF kind = "register" THEN "boot" ELSE "op")
         /\ Encode(Bare(kind)) /\ UNCHANGED <<dongle, line, to_dongle>>
  BY DEF Beat
<1>2. to_dongle \in Seq(DownFrame) /\ to_host \in Seq(UpFrame) /\ MishapType
  BY StateTypes DEF IInv
<1>3. Rest(to_dongle, to_dongle')
  <2>1. Len(to_dongle) \in Nat
    BY <1>2
  <2> QED BY <1>1, <2>1, RestSame
<1>4. Adds(Bare(kind))
  BY <1>1, <1>2, EncodeIs, BareIsUp
<1>5. DongleType'
  BY <1>1 DEF IInv, TypeOK, DongleType
<1> QED BY <1>1, <1>2, <1>3, <1>4, <1>5, BareKeeps

\* The dongle answers GET_MANIFEST past BOOT, and climbs on an ACK or OP_BEGIN.
LEMMA ReceiveBareKeeps ==
  ASSUME IInv, to_dongle # <<>>, to_dongle' = Tail(to_dongle), UNCHANGED <<host, line>>,
         ReceiveGet(Head(to_dongle)) \/ ReceiveAdvance(Head(to_dongle))
  PROVE  IInv'
<1> DEFINE f == Head(to_dongle)
<1>1. /\ to_dongle \in Seq(DownFrame) /\ to_host \in Seq(UpFrame) /\ MishapType
      /\ DongleType
  BY StateTypes DEF IInv, TypeOK
<1>2. to_dongle' \in Seq(DownFrame) /\ Rest(to_dongle, to_dongle')
  BY <1>1, RestTail
<1>3. Encode(Bare("manifest")) \/ (NoMishap /\ UNCHANGED to_host)
  BY DEF ReceiveGet, ReceiveAdvance
<1>4. Adds(Bare("manifest"))
  BY <1>1, <1>3, EncodeIs, BareIsUp
<1>5. /\ DongleType' /\ dongle'.roster = dongle.roster /\ dongle'.shell = dongle.shell
      /\ dongle'.seen = dongle.seen /\ (dongle'.state = "boot" => dongle.state = "boot")
  <2>1. CASE ReceiveGet(f)
    BY <1>1, <2>1 DEF ReceiveGet, DongleType
  <2>2. CASE ReceiveAdvance(f)
    <3>1. \E s \in {"l1", "op", dongle.state} : dongle' = [dongle EXCEPT !.state = s]
      BY <2>2 DEF ReceiveAdvance
    <3> QED BY <1>1, <3>1 DEF DongleType
  <2> QED BY <2>1, <2>2
<1> QED BY <1>2, <1>4, <1>5, BareKeeps

\* The queue q of shell payloads after the first frame on the cable joined it.
Pulled(q) ==
  LET P == host.pend IN
  /\ q \in Seq(ShellFrame) /\ q # <<>> /\ to_dongle' \in Seq(DownFrame)
  /\ ListIsLast(q, P) /\ ListIsLast(to_dongle', P)
  /\ ListOf(q, P) => NoClear(to_dongle')
  /\ ListOf(q, P) \/ ListOf(to_dongle', P) => host.prov # "IDLE" /\ Quiet
  /\ NoClear(dongle.shell) /\ NoClear(to_dongle) => NoClear(q) /\ NoClear(to_dongle')
  /\ \A i \in DOMAIN q : q[i].rid < host.next
  /\ \A i \in DOMAIN to_dongle' : to_dongle'[i].kind = "shell" => to_dongle'[i].rid < host.next

LEMMA PulledIs ==
  ASSUME IInv, to_dongle # <<>>, to_dongle' = Tail(to_dongle), Head(to_dongle).kind = "shell"
  PROVE  Pulled(Append(dongle.shell, Head(to_dongle)))
<1> DEFINE P == host.pend
           f == Head(to_dongle)
           q == Append(dongle.shell, f)
<1>1. to_dongle \in Seq(DownFrame) /\ dongle.shell \in Seq(ShellFrame)
  BY StateTypes DEF IInv
<1>2. /\ f \in DownFrame /\ 1 \in DOMAIN to_dongle /\ f = to_dongle[1]
      /\ to_dongle' \in Seq(DownFrame)
      /\ \A i \in DOMAIN to_dongle' : i + 1 \in DOMAIN to_dongle /\ 1 < i + 1
                                      /\ to_dongle'[i] = to_dongle[i + 1]
      /\ \A i, j \in DOMAIN to_dongle' : i < j => i + 1 < j + 1
  BY <1>1
<1>3. f \in ShellFrame /\ f.kind = "shell"
  BY <1>2, FrameTypes
<1> HIDE DEF f
<1>4. /\ q \in Seq(ShellFrame) /\ q # <<>>
      /\ \A i \in DOMAIN q : \/ i \in DOMAIN dongle.shell /\ q[i] = dongle.shell[i]
                             \/ i = Len(dongle.shell) + 1 /\ q[i] = f
      /\ \A i, j \in DOMAIN q : i < j => i \in DOMAIN dongle.shell /\ q[i] = dongle.shell[i]
  <2>1. /\ q \in Seq(ShellFrame) /\ Len(q) = Len(dongle.shell) + 1 /\ Len(dongle.shell) \in Nat
        /\ \A i \in 1..Len(dongle.shell) : q[i] = dongle.shell[i]
        /\ q[Len(dongle.shell) + 1] = f
    BY <1>1, <1>3
  <2> HIDE DEF q
  <2>2. DOMAIN q = 1..(Len(dongle.shell) + 1) /\ DOMAIN dongle.shell = 1..Len(dongle.shell)
    BY <1>1, <2>1
  <2>3. \A i, j \in DOMAIN q : i < j => i \in DOMAIN dongle.shell /\ q[i] = dongle.shell[i]
    BY <2>1, <2>2
  <2>4. \A i \in DOMAIN q : \/ i \in DOMAIN dongle.shell /\ q[i] = dongle.shell[i]
                            \/ i = Len(dongle.shell) + 1 /\ q[i] = f
    <3>1. PICK len : len = Len(dongle.shell)
      OBVIOUS
    <3>2. ASSUME NEW i \in 1..(len + 1) PROVE i \in 1..len \/ i = len + 1
      BY <2>1, <3>1, <3>2
    <3> QED BY <2>1, <2>2, <3>1, <3>2
  <2>5. q # <<>>
    BY <2>1
  <2> QED BY <2>1, <2>3, <2>4, <2>5
<1> HIDE DEF q
<1>5. \A i \in DOMAIN q : q[i] = f \/ \E k \in DOMAIN dongle.shell : q[i] = dongle.shell[k]
  BY <1>4
<1>6. ListOf(q, P) => ListOf(dongle.shell, P) \/ (IsCommand(f, "list") /\ f.rid \in P)
  BY <1>5 DEF ListOf, IsCommand
<1>7. IsCommand(f, "list") /\ f.rid \in P => ListOf(to_dongle, P) /\ NoClear(to_dongle')
  BY <1>2 DEF IInv, ListStands, ListOf, ListIsLast, NoClear, IsCommand
<1>8. ListOf(to_dongle', P) => ListOf(to_dongle, P)
  BY <1>2 DEF ListOf, IsCommand
<1>9. NoClear(to_dongle) => NoClear(to_dongle') /\ ~IsCommand(f, "clear")
  BY <1>2 DEF NoClear, IsCommand
<1>10. ListIsLast(q, P)
  <2>1. ASSUME NEW i \in DOMAIN q, NEW j \in DOMAIN q, i < j, IsCommand(q[i], "list"), q[i].rid \in P,
               IsCommand(q[j], "clear")
        PROVE  FALSE
    <3>1. i \in DOMAIN dongle.shell /\ q[i] = dongle.shell[i]
      BY <1>4, <2>1
    <3>2. ListOf(dongle.shell, P)
      BY <2>1, <3>1 DEF ListOf
    <3>3. ~IsCommand(f, "clear")
      BY <1>9, <3>2 DEF IInv, ListStands
    <3>4. j \in DOMAIN dongle.shell /\ q[j] = dongle.shell[j]
      BY <1>4, <2>1, <3>3
    <3> QED BY <2>1, <3>1, <3>4 DEF IInv, ListStands, ListIsLast
  <2> QED BY <2>1 DEF ListIsLast
<1>11. ListIsLast(to_dongle', P)
  BY <1>2 DEF IInv, ListStands, ListIsLast, IsCommand
<1>12. ListOf(q, P) => NoClear(to_dongle')
  BY <1>6, <1>7, <1>9 DEF IInv, ListStands
<1>13. ListOf(q, P) \/ ListOf(to_dongle', P) => host.prov # "IDLE" /\ Quiet
  BY <1>6, <1>7, <1>8 DEF IInv, ListStands
<1>14. NoClear(dongle.shell) /\ NoClear(to_dongle) => NoClear(q) /\ NoClear(to_dongle')
  BY <1>5, <1>9 DEF NoClear, IsCommand
<1>15. \A i \in DOMAIN q : q[i].rid < host.next
  BY <1>2, <1>3, <1>5 DEF IInv, IdsGiven
<1>16. \A i \in DOMAIN to_dongle' : to_dongle'[i].kind = "shell" => to_dongle'[i].rid < host.next
  BY <1>2 DEF IInv, IdsGiven
<1>17. Pulled(q)
  BY <1>2, <1>4, <1>10, <1>11, <1>12, <1>13, <1>14, <1>15, <1>16 DEF Pulled
<1> QED BY <1>17 DEF q, f

\* The reply a to an awaited request says no more than the dongle can keep.
Kept(a) ==
  a.rid \in host.pend =>
    /\ dongle.state # "boot"
    /\ a.result > 0 => host.prov # "IDLE" /\ Quiet
    /\ a.result >= RosterCount => Whole'

LEMMA ShellKeeps ==
  ASSUME IInv, NEW q, Pulled(q), Rest(q, dongle'.shell),
         DongleType', dongle'.state = dongle.state, dongle'.seen = dongle.seen,
         dongle.seen, line, UNCHANGED <<host, line>>,
         NEW a \in UpFrame, a.kind = "reply", Adds(a),
         to_host' = to_host \/ (a.rid < host.next /\ Kept(a)),
         Whole => Whole'
  PROVE  IInv'
<1> DEFINE P == host.pend
<1>1. /\ to_host \in Seq(UpFrame) /\ dongle'.shell \in Seq(ShellFrame) /\ q \in Seq(ShellFrame)
      /\ to_dongle' \in Seq(DownFrame)
  BY StateTypes DEF IInv, DongleType, Pulled
<1>2. /\ to_host' \in Seq(UpFrame) /\ MishapType'
      /\ \A i \in DOMAIN to_host : i \in DOMAIN to_host' /\ to_host'[i] = to_host[i]
      /\ \A i \in DOMAIN to_host' \ DOMAIN to_host :
           to_host'[i] = a /\ \A j \in DOMAIN to_host' : i < j => FALSE
      /\ \A i \in DOMAIN to_host' \ DOMAIN to_host : a.rid < host.next /\ Kept(a)
  BY DEF Adds
<1>3. /\ \A i \in DOMAIN dongle'.shell : \E k \in DOMAIN q : dongle'.shell[i] = q[k]
      /\ \A i, j \in DOMAIN dongle'.shell : i < j =>
           \E k, l \in DOMAIN q : k < l /\ dongle'.shell[i] = q[k] /\ dongle'.shell[j] = q[l]
  BY <1>1, RestFacts
<1>4. TypeOK'
  BY <1>1, <1>2 DEF IInv, TypeOK, WireType, HostType, MishapType
<1>5. IdsGiven'
  BY <1>2, <1>3 DEF IInv, IdsGiven, Pulled
<1>6. Severed'
  <2>1. host.link = "up"
    BY DEF IInv, Severed
  <2> QED BY <2>1 DEF IInv, Severed
<1>7. Quiet => Quiet'
  BY <1>2 DEF Quiet, Has
<1>8. ReplyIsLast'
  <2>1. ASSUME NEW i \in DOMAIN to_host', AwaitedReply(to_host', i, host'.pend)
        PROVE  dongle'.state # "boot" /\ \A j \in DOMAIN to_host' : i < j => to_host'[j].kind # "register"
    <3>1. CASE i \in DOMAIN to_host
      <4>1. AwaitedReply(to_host, i, P)
        BY <1>2, <2>1, <3>1 DEF AwaitedReply
      <4>2. dongle.state # "boot" /\ \A j \in DOMAIN to_host : i < j => to_host[j].kind # "register"
        BY <3>1, <4>1 DEF IInv, ReplyIsLast
      <4> QED BY <1>2, <4>2
    <3>2. CASE i \notin DOMAIN to_host
      BY <1>2, <2>1, <3>2 DEF AwaitedReply, Kept
    <3> QED BY <3>1, <3>2
  <2> QED BY <2>1 DEF ReplyIsLast
<1>9. ListStands'
  <2>1. ListOf(dongle'.shell, P) => ListOf(q, P)
    BY <1>3 DEF ListOf, IsCommand
  <2>2. ListIsLast(dongle'.shell, P)
    BY <1>3 DEF Pulled, ListIsLast, IsCommand
  <2> QED BY <1>7, <2>1, <2>2 DEF Pulled, ListStands
<1>10. AnswerStands'
  <2>1. ASSUME NEW i \in DOMAIN to_host', AwaitedReply(to_host', i, host'.pend)
        PROVE  /\ to_host'[i].result > 0 => host'.prov # "IDLE" /\ Quiet'
               /\ CountsAll(to_host', i, host'.pend) => Whole'
    <3>1. CASE i \in DOMAIN to_host
      <4>1. to_host'[i] = to_host[i] /\ AwaitedReply(to_host, i, P)
        BY <1>2, <2>1, <3>1 DEF AwaitedReply
      <4> QED BY <1>7, <3>1, <4>1 DEF IInv, AnswerStands, CountsAll
    <3>2. CASE i \notin DOMAIN to_host
      BY <1>2, <1>7, <2>1, <3>2 DEF AwaitedReply, Kept, CountsAll
    <3> QED BY <3>1, <3>2
  <2> QED BY <2>1 DEF AnswerStands, CountsAll
<1>11. DoneStands' /\ Indexed(host')
  BY DEF IInv, DoneStands, Indexed
<1> QED BY <1>4, <1>5, <1>6, <1>8, <1>9, <1>10, <1>11 DEF IInv

\* What the roster can count.
LEMMA RosterCounts ==
  ASSUME NEW R \in SUBSET Slaves
  PROVE  /\ Cardinality(R) \in 0..RosterCount
         /\ Cardinality(R) >= RosterCount => R = Slaves
<1>1. IsFiniteSet(Slaves) /\ Cardinality(Slaves) = RosterCount
  <2>1. 1 \in Int /\ RosterCount \in Int
    BY SyncConstants
  <2>2. /\ IsFiniteSet(1..RosterCount)
        /\ Cardinality(1..RosterCount) = IF 1 > RosterCount THEN 0 ELSE RosterCount - 1 + 1
    BY <2>1, FS_Interval
  <2> QED BY <2>2, SyncConstants DEF Slaves
<1>2. /\ IsFiniteSet(R) /\ Cardinality(R) <= Cardinality(Slaves)
      /\ Cardinality(R) = Cardinality(Slaves) => R = Slaves
  BY <1>1, FS_Subset
<1>3. Cardinality(R) \in Nat
  BY <1>2, FS_CardinalityType
<1> QED BY <1>1, <1>2, <1>3, SyncConstants

LEMMA RunHeadKeeps ==
  ASSUME IInv, NEW q, Pulled(q), RunHead(q), dongle.state = "op", dongle.seen, line,
         UNCHANGED <<host, line>>
  PROVE  IInv'
<1> DEFINE c == Head(q)
           a == Answer(c)
<1>1. /\ to_host \in Seq(UpFrame) /\ DongleType /\ MishapType /\ q \in Seq(ShellFrame) /\ q # <<>>
      /\ dongle.roster \in SUBSET Slaves
  BY StateTypes DEF IInv, TypeOK, Pulled
<1>2. c \in ShellFrame /\ Tail(q) \in Seq(ShellFrame) /\ Rest(q, Tail(q)) /\ 1 \in DOMAIN q /\ c = q[1]
      /\ \A i \in DOMAIN Tail(q) : i + 1 \in DOMAIN q /\ 1 < i + 1 /\ Tail(q)[i] = q[i + 1]
  BY <1>1, RestTail
<1> HIDE DEF c
<1>3. c.rid \in Nat /\ c.kind = "shell" /\ (c.cmd = "register" => c.arg \in Slaves)
  BY <1>2, FrameTypes DEF Carried
<1>4. Cardinality(dongle.roster) \in 0..RosterCount
      /\ (Cardinality(dongle.roster) >= RosterCount => dongle.roster = Slaves)
  BY <1>1, RosterCounts
<1>5. /\ a \in UpFrame /\ a.kind = "reply" /\ a.rid = c.rid
      /\ a.result = IF c.cmd = "list" THEN Cardinality(dongle.roster) ELSE 0
  <2> DEFINE n == IF c.cmd = "list" THEN Cardinality(dongle.roster) ELSE 0
             ok == ~(c.cmd = "register" /\ c.arg \in dongle.roster)
  <2>1. n \in 0..RosterCount /\ ok \in BOOLEAN
    BY <1>4, SyncConstants
  <2>2. a = Reply(c.rid, ok, n)
    BY DEF Answer
  <2> HIDE DEF n, ok
  <2>3. a \in UpFrame /\ a.kind = "reply" /\ a.rid = c.rid /\ a.result = n
    BY <1>3, <2>1, <2>2 DEF Reply, UpFrame
  <2> QED BY <2>3 DEF n
<1>6. RosterAfter(c) \in SUBSET Slaves
  BY <1>1, <1>3 DEF RosterAfter
<1>7. dongle' = [dongle EXCEPT !.shell = Tail(q), !.roster = RosterAfter(c)] /\ Encode(a)
  BY DEF RunHead, c
<1> HIDE DEF a
<1>8. Adds(a)
  BY <1>1, <1>5, <1>7, EncodeIs
<1>9. /\ DongleType' /\ dongle'.shell = Tail(q) /\ dongle'.roster = RosterAfter(c)
      /\ dongle'.state = dongle.state /\ dongle'.seen = dongle.seen
  BY <1>1, <1>2, <1>6, <1>7 DEF DongleType
<1>10. NoClear(q) => NoClear(Tail(q)) /\ c.cmd # "clear"
  BY <1>2, <1>3 DEF NoClear, IsCommand
<1>11. Whole => Whole'
  <2>1. ASSUME RosterCount # 0, Whole PROVE Whole'
    <3>1. dongle.roster = Slaves /\ NoClear(q) /\ NoClear(to_dongle')
      BY <2>1 DEF Whole, Pulled
    <3>2. RosterAfter(c) = Slaves
      BY <1>3, <1>10, <3>1 DEF RosterAfter
    <3> QED BY <1>9, <1>10, <3>1, <3>2 DEF Whole
  <2> QED BY <2>1 DEF Whole
<1>12. Kept(a)
  <2>1. ASSUME a.rid \in host.pend, a.result > 0
        PROVE  /\ c.cmd = "list" /\ host.prov # "IDLE" /\ Quiet
               /\ NoClear(Tail(q)) /\ NoClear(to_dongle')
    <3>1. IsCommand(c, "list") /\ c.rid \in host.pend
      BY <1>3, <1>5, <2>1 DEF IsCommand
    <3>2. ListOf(q, host.pend)
      BY <1>2, <3>1 DEF ListOf
    <3>3. NoClear(Tail(q))
      BY <1>2, <3>1 DEF Pulled, ListIsLast, NoClear
    <3> QED BY <3>1, <3>2, <3>3 DEF Pulled, IsCommand
  <2>2. ASSUME a.rid \in host.pend, a.result >= RosterCount, RosterCount # 0
        PROVE  Whole'
    <3>1. a.result > 0
      BY <1>4, <1>5, <2>2, SyncConstants
    <3>2. c.cmd = "list" /\ NoClear(Tail(q)) /\ NoClear(to_dongle')
      BY <2>1, <2>2, <3>1
    <3>3. dongle.roster = Slaves
      BY <1>4, <1>5, <2>2, <3>2
    <3>4. RosterAfter(c) = Slaves
      BY <3>2, <3>3 DEF RosterAfter
    <3> QED BY <1>9, <3>2, <3>4 DEF Whole
  <2>3. RosterCount = 0 => Whole'
    BY DEF Whole
  <2> QED BY <2>1, <2>2, <2>3 DEF Kept
<1>13. a.rid < host.next
  BY <1>2, <1>5 DEF Pulled
<1> QED BY <1>2, <1>5, <1>8, <1>9, <1>11, <1>12, <1>13, ShellKeeps

\* A shell payload is dropped, queued, or runs the head of the queue.
LEMMA ReceiveShellKeeps ==
  ASSUME IInv, to_dongle # <<>>, to_dongle' = Tail(to_dongle), ReceiveShell(Head(to_dongle)),
         dongle.seen, line, UNCHANGED <<host, line>>
  PROVE  IInv'
<1> DEFINE f == Head(to_dongle)
           q == Append(dongle.shell, f)
<1>1. /\ to_dongle \in Seq(DownFrame) /\ to_host \in Seq(UpFrame) /\ MishapType
      /\ DongleType /\ dongle.shell \in Seq(ShellFrame)
  BY StateTypes DEF IInv, TypeOK
<1>2. to_dongle' \in Seq(DownFrame) /\ Rest(to_dongle, to_dongle') /\ f \in DownFrame
  BY <1>1, RestTail
<1>3. f.kind = "shell" /\ f \in ShellFrame
  BY <1>2, FrameTypes DEF ReceiveShell
<1>4. Pulled(q)
  BY <1>3, PulledIs
<1>5. q \in Seq(ShellFrame)
  BY <1>4 DEF Pulled
<1>6. CASE UNCHANGED <<dongle, to_host>> /\ NoMishap
  <2>1. Adds(Bare("manifest"))
    BY <1>1, <1>6, EncodeIs, BareIsUp
  <2>2. DongleType'
    BY <1>1, <1>6 DEF DongleType
  <2> QED BY <1>2, <1>6, <2>1, <2>2, BareKeeps
<1>7. CASE dongle.state = "op" /\ RunHead(q)
  <2> HIDE DEF q
  <2> QED BY <1>4, <1>7, RunHeadKeeps
<1>8. CASE dongle' = [dongle EXCEPT !.shell = Append(@, f)] /\ NoMishap /\ UNCHANGED to_host
  <2> DEFINE a == Reply(0, TRUE, 0)
  <2>1. a \in UpFrame /\ a.kind = "reply"
    BY SyncConstants DEF Reply, UpFrame
  <2> HIDE DEF a
  <2>2. Adds(a)
    BY <1>1, <1>8, <2>1, EncodeIs
  <2>3. dongle' = [dongle EXCEPT !.shell = q]
    BY <1>8
  <2> HIDE DEF q
  <2>4. /\ DongleType' /\ dongle'.shell = q /\ dongle'.roster = dongle.roster
        /\ dongle'.state = dongle.state /\ dongle'.seen = dongle.seen
    BY <1>1, <1>5, <2>3 DEF DongleType
  <2>5. Rest(q, q)
    <3>1. Len(q) \in Nat
      BY <1>5
    <3> QED BY <3>1, RestSame
  <2>6. Whole => Whole'
    BY <1>4, <2>4 DEF Whole, Pulled
  <2> QED BY <1>4, <1>8, <2>1, <2>2, <2>4, <2>5, <2>6, ShellKeeps
<1> QED BY <1>6, <1>7, <1>8 DEF ReceiveShell

LEMMA ReceiveKeeps ==
  ASSUME IInv, Receive, UNCHANGED host
  PROVE  IInv'
<1>1. /\ line /\ dongle.seen /\ to_dongle # <<>> /\ to_dongle' = Tail(to_dongle) /\ line' = line
      /\ \/ ReceiveShell(Head(to_dongle)) \/ ReceiveGet(Head(to_dongle))
         \/ ReceiveAdvance(Head(to_dongle))
  BY DEF Receive
<1> QED BY <1>1, ReceiveShellKeeps, ReceiveBareKeeps

-----------------------------------------------------------------------------
(***************************************************************************)
(* The invariant holds.                                                    *)
(***************************************************************************)
LEMMA Begins == Init => IInv
<1> SUFFICES ASSUME Init PROVE IInv
  OBVIOUS
<1>1. /\ line = FALSE /\ to_dongle = <<>> /\ to_host = <<>>
      /\ mishaps = 0 /\ bounces = 0 /\ happened = {} /\ host = Idle /\ dongle = Boot
  BY DEF Init, WireInit, HostInit, DongleInit
<1>2. /\ <<>> \in Seq(DownFrame) /\ <<>> \in Seq(UpFrame) /\ <<>> \in Seq(ShellFrame)
      /\ DOMAIN <<>> = {}
  OBVIOUS
<1>3. /\ Idle \in Hosts /\ Idle.link = "down" /\ Idle.prov = "IDLE" /\ Idle.pend = {}
  <2>1. 0 \in 0..RosterCount /\ 1 \in Nat
    BY SyncConstants
  <2> QED BY <2>1 DEF Idle, Hosts, Protos
<1>4. DongleType /\ Boot.shell = <<>>
  BY <1>1, <1>2 DEF Boot, DongleType
<1>5. TypeOK
  <2>1. 0 \in 0..MaxMishaps /\ 0 \in 0..MaxBounces
    BY SyncConstants
  <2>2. WireType
    BY <1>1, <1>2, <2>1 DEF WireType
  <2> QED BY <1>1, <1>3, <1>4, <2>2 DEF TypeOK, HostType
<1>6. IdsGiven /\ DoneStands /\ Indexed(host)
  BY <1>1, <1>2, <1>3, <1>4 DEF IdsGiven, DoneStands, Indexed
<1>7. line = (host.link = "up")
  <2>1. host.link # "up"
    BY <1>1, <1>3
  <2> QED BY <1>1, <2>1
<1>8. Severed
  BY <1>1, <1>3, <1>7 DEF Severed
<1>9. ReplyIsLast /\ ListStands /\ AnswerStands
  BY <1>1, <1>2, <1>4 DEF ReplyIsLast, ListStands, AnswerStands, ListOf, ListIsLast
<1> QED BY <1>5, <1>6, <1>8, <1>9 DEF IInv

LEMMA Keeps == IInv /\ [Next]_vars => IInv'
<1> SUFFICES ASSUME IInv, [Next]_vars PROVE IInv'
  OBVIOUS
<1>1. CASE HostStep
  BY <1>1, ListenKeeps, AgeKeeps, PollKeeps, AttachKeeps, BreakKeeps, DetachKeeps DEF HostStep
<1>2. CASE DongleStep
  BY <1>2, BeatKeeps, EdgeKeeps, ReceiveKeeps DEF DongleStep
<1>3. CASE Reboot
  BY <1>3, RebootKeeps
<1>4. CASE UNCHANGED vars
  BY <1>4 DEF vars, wireVars, IInv, TypeOK, WireType, HostType, DongleType, IdsGiven, Severed,
              OnItsWay, Ready, ReplyIsLast, AwaitedReply, ListStands, ListIsLast, ListOf, NoClear,
              IsCommand, Quiet, Has, AnswerStands, CountsAll, Whole, DoneStands, Indexed
<1> QED BY <1>1, <1>2, <1>3, <1>4 DEF Next

\* The inductive invariant of the two sides of the ladder and the cable.
THEOREM Invariant == Spec => []IInv
BY Begins, Keeps, PTL DEF Spec

\* Every frame, request and counter stays in its type: in particular the REGISTER
\* commands of the chain name slaves of the roster, and prov_idx stays in it.
THEOREM TypeCorrect == Spec => []TypeOK
<1>1. IInv => TypeOK
  BY DEF IInv
<1> QED BY <1>1, Invariant, PTL

\* controller_prov_state says DONE on an open port only while bus_roster.c of the
\* dongle holds every slave: through restarts of the dongle, ports that close and
\* open unseen, broken writes, full rings and late replies.
THEOREM DoneHolds == Spec => []DoneMeansProvisioned
<1>1. IInv => DoneMeansProvisioned
  <2>1. RosterCount = 0 => Slaves = {}
    BY DEF Slaves
  <2>2. IInv => dongle.roster \in SUBSET Slaves
    BY StateTypes DEF IInv
  <2> QED BY <2>1, <2>2 DEF IInv, DoneStands, Whole, DoneMeansProvisioned
<1> QED BY <1>1, Invariant, PTL

-----------------------------------------------------------------------------
(***************************************************************************)
(* The chain waits for one reply.                                          *)
(***************************************************************************)
\* What may still come after the frame that is read.
LEMMA HeadFacts ==
  ASSUME NEW q \in Seq(UpFrame), q # <<>>, NEW r, r = Tail(q), NEW f, f = Head(q)
  PROVE  /\ Has(q, f.kind)
         /\ \A last : Has(r, last) => Before(q, f.kind, last)
         /\ f.kind = "register" /\ Before(r, "heartbeat", "register") => Sandwich(q)
<1>1. /\ 1 \in DOMAIN q /\ f = q[1]
      /\ \A i \in DOMAIN r : i + 1 \in DOMAIN q /\ 1 < i + 1 /\ r[i] = q[i + 1]
      /\ \A i, j \in DOMAIN r : i < j => i + 1 < j + 1
  OBVIOUS
<1>2. Has(q, f.kind)
  BY <1>1 DEF Has
<1>3. \A last : Has(r, last) => Before(q, f.kind, last)
  BY <1>1 DEF Has, Before
<1>4. f.kind = "register" /\ Before(r, "heartbeat", "register") => Sandwich(q)
  BY <1>1 DEF Before, Sandwich
<1> QED BY <1>2, <1>3, <1>4

\* A step of the host that sends out, and leaves the port as it is.
LEMMA HostCalm ==
  ASSUME Calm, NEW out, NEW c, Sends(out, host.next, c),
         to_dongle \in Seq(DownFrame), to_dongle' = to_dongle \o out,
         to_host \in Seq(UpFrame), to_host' \in Seq(UpFrame), Rest(to_host, to_host'),
         UNCHANGED <<dongle, bounces>>, host'.link = host.link,
         Single', Fresh', Climbed',
         host.link = "up" /\ host'.identity =>
           \/ host.identity
           \/ /\ ~Before(to_host', "heartbeat", "register")
              /\ dongle.state = "boot" => ~Has(to_host', "heartbeat"),
         OneLife /\ c = "begin" => ~Has(to_host', "register") /\ dongle.state # "boot"
  PROVE  Calm'
<1>1. /\ \A kind : Has(to_host', kind) => Has(to_host, kind)
      /\ \A first, last : Before(to_host', first, last) => Before(to_host, first, last)
      /\ Sandwich(to_host') => Sandwich(to_host)
  BY RestKeeps
<1>2. Has(to_dongle', "begin") => Has(to_dongle, "begin") \/ c = "begin"
  <2>1. /\ out \in Seq(DownFrame)
        /\ \A i \in DOMAIN to_dongle : i \in DOMAIN to_dongle' /\ to_dongle'[i] = to_dongle[i]
        /\ \A i \in DOMAIN to_dongle' \ DOMAIN to_dongle : \E j \in DOMAIN out : to_dongle'[i] = out[j]
    <3>1. out \in Seq(DownFrame)
      BY DEF Sends
    <3>2. PICK q, r : q = to_dongle /\ r = to_dongle'
      OBVIOUS
    <3>3. q \in Seq(DownFrame) /\ r = q \o out
      BY <3>2
    <3>4. Joins(q, out, r)
      BY <3>1, <3>3, Joined
    <3> QED BY <3>1, <3>2, <3>4 DEF Joins
  <2> QED BY <2>1 DEF Sends, Has
<1>3. NoSandwich'
  BY <1>1 DEF Calm, NoSandwich
<1>4. Unbounced'
  BY DEF Calm, Unbounced
<1>5. OneLife => OneLife'
  BY <1>1, <1>2 DEF OneLife
<1>6. Untouched' => Untouched
  BY DEF Untouched
<1> QED BY <1>3, <1>4, <1>5, <1>6 DEF Calm

LEMMA ListenCalm ==
  ASSUME IInv, Calm, Listen, UNCHANGED dongle
  PROVE  Calm'
<1> DEFINE f == Head(to_host)
           out == Heard(host, f, "sent").out
<1>1. /\ host.link = "up" /\ to_host # <<>> /\ dongle.seen
      /\ host' = Heard(host, f, "sent").host /\ to_dongle' = to_dongle \o out
      /\ to_host' = Tail(to_host) /\ bounces' = bounces
  BY DEF Listen, Hear, Did, NoMishap
<1>2. host \in Hosts /\ Indexed(host) /\ to_host \in Seq(UpFrame) /\ to_dongle \in Seq(DownFrame)
  BY StateTypes DEF IInv
<1>3. to_host' \in Seq(UpFrame) /\ Rest(to_host, to_host') /\ f \in UpFrame
  BY <1>1, <1>2, RestTail
<1>4. /\ Has(to_host, f.kind)
      /\ \A last : Has(to_host', last) => Before(to_host, f.kind, last)
      /\ f.kind = "register" /\ Before(to_host', "heartbeat", "register") => Sandwich(to_host)
  BY <1>1, <1>2, HeadFacts
<1>5. Quiet => Quiet'
  BY <1>2, <1>3, RestKeeps DEF Quiet
<1> HIDE DEF f, out
<1>6. CASE f.kind = "register"
  <2>1. /\ Moves(host, host', out, "none") /\ host'.pend = host.pend
        /\ host'.proto \in {"BOOT", "L1_ACKED"}
        /\ host'.prov = IF host.proto \in {"MANIFEST_OK", "OPERATIONAL"} THEN "IDLE" ELSE host.prov
    BY <1>1, <1>2, <1>6, HearRegisterMoves DEF Heard, out
  <2>2. host.prov = "IDLE"
    BY <1>1, <1>4, <1>6 DEF Calm, Climbed, Quiet
  <2>3. host'.prov = "IDLE" /\ host'.link = host.link /\ Sends(out, host.next, "none")
    BY <2>1, <2>2 DEF Moves
  <2>4. Single' /\ Fresh' /\ Climbed'
    BY <1>1, <2>1, <2>2, <2>3 DEF Calm, Single, Fresh, Climbed, Awaiting
  <2>5. /\ ~Before(to_host', "heartbeat", "register")
        /\ dongle.state = "boot" => ~Has(to_host', "heartbeat")
    BY <1>4, <1>6 DEF Calm, NoSandwich
  <2> QED BY <1>1, <1>2, <1>3, <2>3, <2>4, <2>5, HostCalm
<1>7. CASE f.kind = "manifest"
  <2>1. /\ Moves(host, host', out, "begin") /\ host'.prov = host.prov /\ host'.pend = host.pend
        /\ host'.identity = host.identity /\ host'.proto = "MANIFEST_OK"
    BY <1>1, <1>2, <1>7, HearManifestMoves DEF Heard, out
  <2>2. host'.link = host.link /\ Sends(out, host.next, "begin")
    BY <2>1 DEF Moves
  <2>3. Single' /\ Fresh' /\ Climbed'
    BY <1>1, <1>5, <2>1, <2>2 DEF Calm, Single, Fresh, Climbed
  <2>4. OneLife => ~Has(to_host', "register") /\ dongle.state # "boot"
    BY <1>4, <1>7 DEF OneLife
  <2> QED BY <1>1, <1>2, <1>3, <2>1, <2>2, <2>3, <2>4, HostCalm
<1>8. CASE f.kind = "heartbeat"
  <2>1. /\ Moves(host, host', out, "none") /\ host'.prov = host.prov /\ host'.pend = host.pend
        /\ host'.identity = host.identity
    BY <1>1, <1>2, <1>8, HearHeartbeatMoves DEF Heard, out
  <2>2. host'.link = host.link /\ Sends(out, host.next, "none")
    BY <2>1 DEF Moves
  <2>3. host.identity => Quiet'
    BY <1>1, <1>4, <1>8 DEF Calm, NoSandwich, Quiet
  <2>4. Single' /\ Fresh' /\ Climbed'
    BY <1>1, <1>5, <2>1, <2>2, <2>3 DEF Calm, Single, Fresh, Climbed
  <2> QED BY <1>1, <1>2, <1>3, <2>1, <2>2, <2>4, HostCalm
<1>9. CASE f.kind = "reply" /\ f.rid \notin host.pend
  <2>1. Heard(host, f, "sent") = Does(host, <<>>)
    BY <1>2, <1>9, HearReplyDropped DEF Heard
  <2>2. host' = host /\ out = <<>>
    BY <1>1, <2>1 DEF Does, out
  <2>3. Single' /\ Fresh' /\ Climbed' /\ Sends(out, host.next, "none")
    BY <1>5, <2>2, SendsNothing DEF Calm, Single, Fresh, Climbed
  <2> QED BY <1>1, <1>2, <1>3, <2>2, <2>3, HostCalm
<1>10. CASE f.kind = "reply" /\ f.rid \in host.pend
  <2> DEFINE h == Replied(host, f.rid)
  <2>1. PICK c : Chained(h, host', out, c, f.result)
    BY <1>1, <1>2, <1>3, <1>10, HearReplyMoves DEF Heard, out
  <2>2. /\ h.pend = host.pend \ {f.rid} /\ h.next = host.next /\ h.link = host.link
        /\ h.prov = host.prov /\ h.identity = host.identity /\ h.proto = host.proto
    BY <1>2, RepliedIs
  <2>3. host.prov \in Awaiting /\ h.pend = {}
    BY <1>10, <2>2 DEF Calm, Single
  <2> HIDE DEF h
  <2>4. /\ host'.link = host.link /\ Sends(out, host.next, c) /\ c # "begin"
        /\ host'.identity = host.identity /\ host'.proto = host.proto
        /\ \/ host'.prov \in Awaiting /\ host'.pend = {} \cup {host.next}
           \/ host'.prov \notin Awaiting /\ host'.pend = {}
    BY <2>1, <2>2, <2>3 DEF Chained, Moves, Next3
  <2>5. Single'
    <3>1. {} \cup {host.next} = {host.next}
      OBVIOUS
    <3> QED BY <2>4, <3>1 DEF Single
  <2>6. Quiet
    BY <1>1, <2>3 DEF Calm, Climbed, Awaiting
  <2>7. Fresh' /\ Climbed'
    BY <1>1, <1>5, <2>4, <2>6 DEF Fresh, Climbed
  <2> QED BY <1>1, <1>2, <1>3, <2>4, <2>5, <2>7, HostCalm
<1> QED BY <1>3, <1>6, <1>7, <1>8, <1>9, <1>10 DEF UpFrame

LEMMA PollCalm ==
  ASSUME IInv, Calm, Poll, UNCHANGED dongle
  PROVE  Calm'
<1>1. PICK expired \in SUBSET host.pend :
         Pass(expired) /\ (NoMishap \/ Mishap("late"))
  BY DEF Poll
<1> DEFINE out == Passed(host, expired, "sent").out
<1>2. /\ host.link # "gone" /\ host' = Passed(host, expired, "sent").host
      /\ to_dongle' = to_dongle \o out /\ to_host' = to_host /\ bounces' = bounces
  BY <1>1 DEF Pass, Did, NoMishap, Mishap
<1>3. host \in Hosts /\ Indexed(host) /\ to_host \in Seq(UpFrame) /\ to_dongle \in Seq(DownFrame)
  BY StateTypes DEF IInv
<1>4. Rest(to_host, to_host')
  <2>1. Len(to_host) \in Nat
    BY <1>3
  <2> QED BY <1>2, <2>1, RestSame
<1>5. host.link \in {"up", "down"} /\ expired \in SUBSET host.pend
  BY <1>1, <1>2, <1>3, HostFields
<1>6. /\ host'.identity = host.identity /\ host'.proto = host.proto
      /\ \/ /\ Moves(host, host', out, "clear") /\ host.link = "up" /\ Ready(host)
            /\ expired = {} /\ host'.prov = "CLEAR" /\ host'.pend = host.pend \cup {host.next}
         \/ /\ Moves(host, host', out, "none") /\ host'.pend = host.pend \ expired
            /\ \/ host'.prov = host.prov /\ expired = {} /\ (host.link = "up" => ~Ready(host))
               \/ host'.prov = "FAIL" /\ expired # {}
               \/ host'.prov = "CLEAR" /\ host.link = "down" /\ Ready(host)
  <2>1. host' = Passed(host, expired, "sent").host /\ out = Passed(host, expired, "sent").out
    BY <1>2
  <2> HIDE DEF out
  <2> QED BY <1>3, <1>5, <2>1, PassedMoves
<1> HIDE DEF out
<1>7. \E c \in {"clear", "none"} : Sends(out, host.next, c) /\ host'.link = host.link
  BY <1>6 DEF Moves
<1>8. Single' /\ Fresh' /\ Climbed'
  <2>1. CASE Ready(host) /\ host.link = "up" /\ host'.prov = "CLEAR"
             /\ host'.pend = host.pend \cup {host.next}
    <3>1. host.pend = {}
      BY <2>1 DEF Calm, Single, Ready, Awaiting
    <3>2. host'.pend = {host.next}
      BY <2>1, <3>1
    <3>3. dongle.seen /\ Quiet
      BY <2>1 DEF Calm, Fresh, Climbed, Ready
    <3> QED BY <1>2, <1>7, <2>1, <3>2, <3>3 DEF Single, Fresh, Climbed, Quiet, Awaiting
  <2>2. CASE host'.prov = host.prov /\ host'.pend = host.pend
    BY <1>2, <1>6, <1>7, <2>2 DEF Calm, Single, Fresh, Climbed, Quiet
  <2>3. CASE host'.prov = "FAIL" /\ expired # {} /\ host'.pend = host.pend \ expired
    <3>1. host.prov \in Awaiting /\ host'.pend = {}
      BY <1>5, <2>3 DEF Calm, Single
    <3> QED BY <1>2, <1>6, <1>7, <2>3, <3>1 DEF Calm, Single, Fresh, Climbed, Quiet, Awaiting
  <2>4. ~(host.link = "down" /\ Ready(host))
    BY DEF Calm, Fresh, Ready
  <2>5. expired = {} => host.pend \ expired = host.pend
    OBVIOUS
  <2> QED BY <1>6, <2>1, <2>2, <2>3, <2>4, <2>5
<1> QED BY <1>2, <1>3, <1>4, <1>6, <1>7, <1>8, HostCalm

LEMMA AgeCalm ==
  ASSUME IInv, Calm, Age, UNCHANGED dongle
  PROVE  Calm'
<1>1. host \in Hosts
  BY StateTypes DEF IInv
<1>2. /\ UNCHANGED <<line, to_dongle, to_host, mishaps, bounces, happened>>
      /\ \E a \in {"gap", "old"} : host' = [host EXCEPT !.acked = a]
  BY DEF Age, wireVars
<1>3. /\ host'.link = host.link /\ host'.identity = host.identity /\ host'.proto = host.proto
      /\ host'.prov = host.prov /\ host'.pend = host.pend
  BY <1>1, <1>2 DEF Hosts
<1> QED BY <1>2, <1>3 DEF Calm, Single, Fresh, Climbed, NoSandwich, Unbounced, Untouched, OneLife, Quiet

\* A reopened port has not begun to climb; the dongle has one life behind it.
LEMMA AttachCalm ==
  ASSUME IInv, Calm, Attach, UNCHANGED dongle
  PROVE  Calm'
<1>1. /\ host.link = "down" /\ host' = [host EXCEPT !.link = "up"] /\ to_dongle' = to_dongle
      /\ \E k \in 0..Len(to_host) : to_host' = SubSeq(to_host, k + 1, Len(to_host))
      /\ bounces' = bounces
  BY DEF Attach, Open, NoMishap, Mishap
<1>2. host \in Hosts /\ to_host \in Seq(UpFrame)
  BY StateTypes DEF IInv
<1>3. to_host' \in Seq(UpFrame) /\ Rest(to_host, to_host')
  BY <1>1, <1>2, RestSub
<1>4. /\ \A kind : Has(to_host', kind) => Has(to_host, kind)
      /\ \A first, last : Before(to_host', first, last) => Before(to_host, first, last)
      /\ Sandwich(to_host') => Sandwich(to_host)
  BY <1>2, <1>3, RestKeeps
<1>5. /\ host'.link = "up" /\ host'.prov = host.prov /\ host'.identity = host.identity
      /\ host'.pend = host.pend
  BY <1>1, <1>2 DEF Hosts
<1>6. host.prov = "IDLE" /\ ~host.identity /\ OneLife
  BY <1>1 DEF Calm, Fresh, Untouched
<1>7. Single' /\ Fresh' /\ Climbed' /\ NoSandwich'
  BY <1>4, <1>5, <1>6 DEF Calm, Single, Fresh, Climbed, NoSandwich
<1>8. Unbounced'
  BY <1>1, <1>5 DEF Calm, Unbounced
<1>9. OneLife'
  BY <1>1, <1>4, <1>6 DEF OneLife
<1> QED BY <1>7, <1>8, <1>9 DEF Calm

\* The first bounce, and the end of a port that no longer exists.
LEMMA DetachCalm ==
  ASSUME IInv, Calm, Detach, UNCHANGED dongle, bounces' < 2
  PROVE  Calm'
<1>1. /\ host.link # "down" /\ host' = Down(host) /\ to_dongle' = <<>> /\ to_host' = to_host
      /\ host.link = "up" => bounces' = bounces + 1
      /\ host.link # "up" => bounces' = bounces
  BY DEF Detach, GoDown, Mishap, NoMishap
<1>2. host \in Hosts /\ bounces \in Nat
  <2>1. bounces \in 0..MaxBounces
    BY StateTypes DEF IInv, MishapType
  <2> QED BY <2>1, StateTypes, SyncConstants DEF IInv
<1>3. /\ host'.link = "down" /\ host'.prov = "IDLE" /\ host'.pend = {} /\ ~host'.identity
  BY <1>1, <1>2, DownIs
<1>4. Single' /\ Fresh' /\ Climbed' /\ NoSandwich'
  BY <1>1, <1>3 DEF Calm, Single, Fresh, Climbed, NoSandwich, Awaiting
<1>5. OneLife'
  <2>1. Untouched
    BY <1>1, <1>2 DEF Untouched
  <2>2. ~Has(to_dongle', "begin")
    BY <1>1 DEF Has
  <2> QED BY <1>1, <2>1, <2>2 DEF Calm, OneLife
<1>6. Unbounced'
  <2>1. CASE host.link = "up"
    BY <1>1, <1>2, <2>1 DEF Unbounced
  <2>2. CASE host.link # "up"
    BY <1>1, <2>2 DEF Calm, Unbounced
  <2> QED BY <2>1, <2>2
<1> QED BY <1>4, <1>5, <1>6 DEF Calm

\* A restart loses the host's port with everything that was on the cable.
LEMMA RebootCalm ==
  ASSUME IInv, Calm, Reboot
  PROVE  Calm'
<1>1. /\ dongle' = Boot /\ to_dongle' = <<>> /\ to_host' = <<>> /\ bounces' = bounces
      /\ host' = IF host.link = "up" THEN [host EXCEPT !.link = "gone"] ELSE host
  BY DEF Reboot, Mishap
<1>2. host \in Hosts
  BY StateTypes DEF IInv
<1>3. /\ host'.link = (IF host.link = "up" THEN "gone" ELSE host.link)
      /\ host'.prov = host.prov /\ host'.pend = host.pend /\ host'.identity = host.identity
  BY <1>1, <1>2 DEF Hosts
<1>4. ~dongle'.dropped /\ ~dongle'.seen /\ dongle'.state = "boot"
  BY <1>1 DEF Boot
<1>5. /\ \A kind : ~Has(to_host', kind) /\ ~Has(to_dongle', kind)
      /\ \A first, last : ~Before(to_host', first, last)
      /\ ~Sandwich(to_host')
  BY <1>1 DEF Has, Before, Sandwich
<1>6. Single' /\ Fresh' /\ Climbed'
  BY <1>3 DEF Calm, Single, Fresh, Climbed
<1>7. NoSandwich' /\ Unbounced' /\ OneLife'
  BY <1>4, <1>5 DEF NoSandwich, Unbounced, OneLife
<1> QED BY <1>6, <1>7 DEF Calm

\* The dongle sees the port again: after a bounce it goes back to BOOT, in front
\* of a host that knows nothing of it.
LEMMA EdgeCalm ==
  ASSUME IInv, Calm, Edge, UNCHANGED host
  PROVE  Calm'
<1>1. /\ line # dongle.seen /\ UNCHANGED <<line, to_dongle, to_host, mishaps, bounces, happened>>
      /\ dongle' = IF ~line THEN [dongle EXCEPT !.seen = FALSE, !.dropped = TRUE]
                   ELSE IF dongle.dropped
                     THEN [dongle EXCEPT !.seen = TRUE, !.dropped = FALSE, !.state = "boot"]
                     ELSE [dongle EXCEPT !.seen = TRUE]
  BY DEF Edge, wireVars
<1>2. DongleType /\ dongle.seen \in BOOLEAN /\ line \in BOOLEAN
  BY StateTypes DEF IInv, TypeOK
<1>3. CASE ~line
  <2>1. dongle.seen /\ host.link # "up"
    BY <1>1, <1>2, <1>3 DEF IInv, Severed
  <2>2. bounces # 0 /\ OneLife
    BY <2>1 DEF Calm, Unbounced, Untouched
  <2>3. dongle'.state = dongle.state /\ dongle'.seen = FALSE
    BY <1>1, <1>2, <1>3 DEF DongleType
  <2>4. Single' /\ Climbed' /\ NoSandwich' /\ OneLife' /\ Unbounced'
    BY <1>1, <2>1, <2>2, <2>3 DEF Calm, Single, Climbed, NoSandwich, OneLife, Unbounced
  <2>5. Fresh'
    BY <2>1 DEF Calm, Fresh
  <2> QED BY <2>4, <2>5 DEF Calm
<1>4. CASE line
  <2>1. ~dongle.seen /\ host.link = "up"
    BY <1>1, <1>2, <1>4 DEF IInv, Severed
  <2>2. host.prov = "IDLE" /\ ~host.identity /\ OneLife
    BY <2>1 DEF Calm, Fresh, Untouched
  <2>3. dongle'.seen = TRUE /\ dongle'.dropped = FALSE
        /\ (bounces = 0 => ~dongle.dropped /\ dongle'.state = dongle.state)
        /\ dongle'.state \in {"boot", dongle.state}
    <3>1. dongle.dropped \in BOOLEAN
      BY StateTypes DEF IInv
    <3>2. CASE dongle.dropped
      BY <1>1, <1>2, <1>4, <3>2 DEF DongleType, Calm, Unbounced
    <3>3. CASE ~dongle.dropped
      BY <1>1, <1>2, <1>4, <3>1, <3>3 DEF DongleType
    <3> QED BY <3>2, <3>3
  <2>4. Single' /\ Fresh' /\ Climbed' /\ Unbounced'
    BY <1>1, <2>1, <2>2, <2>3 DEF Calm, Single, Fresh, Climbed, Unbounced
  <2>5. NoSandwich'
    <3>1. ~Before(to_host, "register", "heartbeat")
      BY <2>2 DEF OneLife, Before, Has
    <3> QED BY <1>1, <2>2, <3>1 DEF Calm, NoSandwich
  <2>6. Untouched' => OneLife'
    BY <1>1, <2>1, <2>2, <2>3 DEF Untouched, OneLife
  <2> QED BY <2>4, <2>5, <2>6 DEF Calm
<1> QED BY <1>2, <1>3, <1>4

\* A step of the dongle's chain that sends at most the frame f.
LEMMA DongleCalm ==
  ASSUME IInv, Calm, NEW f, Adds(f), UNCHANGED <<host, bounces>>,
         dongle'.seen = dongle.seen, dongle'.dropped = dongle.dropped,
         to_dongle' \in Seq(DownFrame), Rest(to_dongle, to_dongle'),
         dongle'.state = "boot" => dongle.state = "boot",
         dongle'.state = "op" => dongle.state = "op" \/ Has(to_dongle, "begin"),
         f.kind = "register" => dongle'.state = "boot",
         f.kind = "heartbeat" => dongle'.state = "op",
         f.kind = "manifest" => dongle'.state # "boot"
  PROVE  Calm'
<1>1. to_host \in Seq(UpFrame) /\ to_dongle \in Seq(DownFrame)
  BY StateTypes DEF IInv
<1>2. /\ to_host' \in Seq(UpFrame)
      /\ \A i \in DOMAIN to_host : i \in DOMAIN to_host' /\ to_host'[i] = to_host[i]
      /\ \A i \in DOMAIN to_host' \ DOMAIN to_host :
           to_host'[i] = f /\ \A j \in DOMAIN to_host' : i < j => FALSE
  BY DEF Adds
<1>3. \A i \in DOMAIN to_host' : \/ i \in DOMAIN to_host /\ to_host'[i] = to_host[i]
                                 \/ i \notin DOMAIN to_host /\ to_host'[i] = f
  BY <1>2
<1>4. \A i, j \in DOMAIN to_host' : i < j => i \in DOMAIN to_host /\ to_host'[i] = to_host[i]
  BY <1>2
<1>5. \A kind : Has(to_host', kind) => Has(to_host, kind) \/ f.kind = kind
  BY <1>3 DEF Has
<1>6. \A first, last : Before(to_host', first, last) =>
        Before(to_host, first, last) \/ (Has(to_host, first) /\ f.kind = last)
  BY <1>3, <1>4 DEF Before, Has
<1>7. Sandwich(to_host') =>
        Sandwich(to_host) \/ (Before(to_host, "register", "heartbeat") /\ f.kind = "register")
  <2>1. ASSUME NEW i \in DOMAIN to_host', NEW j \in DOMAIN to_host', NEW k \in DOMAIN to_host',
               i < j, j < k, to_host'[i].kind = "register", to_host'[j].kind = "heartbeat",
               to_host'[k].kind = "register"
        PROVE  Sandwich(to_host) \/ (Before(to_host, "register", "heartbeat") /\ f.kind = "register")
    <3>1. /\ i \in DOMAIN to_host /\ to_host'[i] = to_host[i]
          /\ j \in DOMAIN to_host /\ to_host'[j] = to_host[j]
      BY <1>4, <2>1
    <3>2. CASE k \in DOMAIN to_host
      BY <1>3, <2>1, <3>1, <3>2 DEF Sandwich
    <3>3. CASE k \notin DOMAIN to_host
      BY <1>3, <2>1, <3>1, <3>3 DEF Before
    <3> QED BY <3>2, <3>3
  <2> QED BY <2>1 DEF Sandwich
<1>8. Has(to_dongle', "begin") => Has(to_dongle, "begin")
  <2>1. \A i \in DOMAIN to_dongle' : \E k \in DOMAIN to_dongle : to_dongle'[i] = to_dongle[k]
    BY <1>1, RestFacts
  <2> QED BY <2>1 DEF Has
<1>9. Single' /\ Fresh' /\ Unbounced'
  BY DEF Calm, Single, Fresh, Unbounced
<1>10. Climbed'
  <2>1. Quiet => Quiet'
    BY <1>5 DEF Quiet
  <2> QED BY <2>1 DEF Calm, Climbed
<1>11. NoSandwich'
  <2>1. ~Sandwich(to_host')
    BY <1>7 DEF Calm, NoSandwich
  <2>2. dongle'.state = "boot" => ~Before(to_host', "register", "heartbeat")
    BY <1>6 DEF Calm, NoSandwich
  <2>3. host.link = "up" /\ host.identity =>
          /\ ~Before(to_host', "heartbeat", "register")
          /\ dongle'.state = "boot" => ~Has(to_host', "heartbeat")
    BY <1>5, <1>6 DEF Calm, NoSandwich
  <2> QED BY <2>1, <2>2, <2>3 DEF NoSandwich
<1>12. OneLife => OneLife'
  <2> SUFFICES ASSUME OneLife PROVE OneLife'
    OBVIOUS
  <2>1. dongle'.state = "boot" =>
          ~Has(to_host', "manifest") /\ ~Has(to_host', "heartbeat") /\ ~Has(to_dongle', "begin")
    BY <1>5, <1>8 DEF OneLife
  <2>2. Has(to_dongle', "begin") \/ dongle'.state = "op" => ~Has(to_host', "register")
    BY <1>5, <1>8, <2>1 DEF OneLife
  <2>3. Has(to_host', "heartbeat") => ~Has(to_host', "register")
    BY <1>5, <2>1, <2>2 DEF OneLife
  <2>4. ~Before(to_host', "manifest", "register")
    BY <1>6 DEF OneLife
  <2> QED BY <2>1, <2>2, <2>3, <2>4 DEF OneLife
<1>13. Untouched' => Untouched
  BY DEF Untouched
<1> QED BY <1>9, <1>10, <1>11, <1>12, <1>13 DEF Calm

LEMMA BeatCalm ==
  ASSUME IInv, Calm, Beat, UNCHANGED host
  PROVE  Calm'
<1>1. PICK kind \in {"register", "heartbeat"} :
         /\ dongle.state = (IF kind = "register" THEN "boot" ELSE "op")
         /\ Encode(Bare(kind)) /\ UNCHANGED <<dongle, line, to_dongle>>
  BY DEF Beat
<1>2. to_dongle \in Seq(DownFrame) /\ to_host \in Seq(UpFrame) /\ MishapType
  BY StateTypes DEF IInv
<1>3. Rest(to_dongle, to_dongle')
  <2>1. Len(to_dongle) \in Nat
    BY <1>2
  <2> QED BY <1>1, <2>1, RestSame
<1>4. Adds(Bare(kind)) /\ Bare(kind).kind = kind
  BY <1>1, <1>2, EncodeIs, BareIsUp DEF Bare
<1>5. bounces' = bounces
  BY <1>1 DEF Encode, NoMishap, Mishap
<1> QED BY <1>1, <1>2, <1>3, <1>4, <1>5, DongleCalm

\* Every frame that the dongle takes from the cable.
LEMMA ReceiveCalm ==
  ASSUME IInv, Calm, Receive, UNCHANGED host
  PROVE  Calm'
<1> DEFINE f == Head(to_dongle)
           none == Reply(0, TRUE, 0)
<1>1. /\ dongle.seen /\ to_dongle # <<>> /\ to_dongle' = Tail(to_dongle)
      /\ ReceiveShell(f) \/ ReceiveGet(f) \/ ReceiveAdvance(f)
  BY DEF Receive
<1>2. to_dongle \in Seq(DownFrame) /\ to_host \in Seq(UpFrame) /\ MishapType /\ DongleType
      /\ dongle.shell \in Seq(ShellFrame) /\ dongle.roster \in SUBSET Slaves
  BY StateTypes DEF IInv, TypeOK
<1>3. to_dongle' \in Seq(DownFrame) /\ Rest(to_dongle, to_dongle')
      /\ Has(to_dongle, f.kind)
  <2>1. 1 \in DOMAIN to_dongle /\ f = to_dongle[1]
    BY <1>1, <1>2
  <2> QED BY <1>1, <1>2, <2>1, RestTail DEF Has
<1>4. none \in UpFrame /\ none.kind = "reply"
  BY SyncConstants DEF Reply, UpFrame
<1> HIDE DEF none
<1>5. CASE ReceiveShell(f)
  <2>1. /\ dongle'.state = dongle.state /\ dongle'.seen = dongle.seen
        /\ dongle'.dropped = dongle.dropped
        /\ \/ UNCHANGED to_host /\ NoMishap
           \/ \E a : Adds(a) /\ a.kind = "reply" /\ bounces' = bounces
    <3>1. CASE UNCHANGED <<dongle, to_host>> /\ NoMishap
      BY <3>1
    <3>2. CASE RunHead(Append(dongle.shell, f))
      <4> DEFINE q == Append(dongle.shell, f)
                 c == Head(q)
                 a == Answer(c)
      <4>1. Pulled(q)
        BY <1>1, <1>5, PulledIs DEF ReceiveShell
      <4> HIDE DEF q
      <4>2. c \in ShellFrame
        BY <4>1 DEF Pulled
      <4>3. dongle' = [dongle EXCEPT !.shell = Tail(q), !.roster = RosterAfter(c)] /\ Encode(a)
        BY <3>2 DEF RunHead, q
      <4> HIDE DEF c
      <4>4. a \in UpFrame /\ a.kind = "reply"
        <5> DEFINE n == IF c.cmd = "list" THEN Cardinality(dongle.roster) ELSE 0
                   ok == ~(c.cmd = "register" /\ c.arg \in dongle.roster)
        <5>1. n \in 0..RosterCount /\ ok \in BOOLEAN /\ c.rid \in Nat
          BY <1>2, <4>2, RosterCounts, FrameTypes, SyncConstants
        <5>2. a = Reply(c.rid, ok, n)
          BY DEF Answer
        <5> HIDE DEF n, ok
        <5> QED BY <5>1, <5>2 DEF Reply, UpFrame
      <4> HIDE DEF a
      <4>5. Adds(a)
        BY <1>2, <4>3, <4>4, EncodeIs
      <4>6. bounces' = bounces
        BY <4>3 DEF Encode, NoMishap, Mishap
      <4> QED BY <1>2, <4>3, <4>4, <4>5, <4>6 DEF DongleType
    <3>3. CASE dongle' = [dongle EXCEPT !.shell = Append(@, f)] /\ NoMishap /\ UNCHANGED to_host
      BY <1>2, <3>3 DEF DongleType
    <3> QED BY <1>5, <3>1, <3>2, <3>3 DEF ReceiveShell
  <2>2. \E a : Adds(a) /\ a.kind = "reply" /\ bounces' = bounces
    <3>1. CASE UNCHANGED to_host /\ NoMishap
      <4>1. Adds(none)
        BY <1>2, <1>4, <3>1, EncodeIs
      <4> QED BY <1>4, <3>1, <4>1 DEF NoMishap
    <3> QED BY <2>1, <3>1
  <2> QED BY <1>3, <2>1, <2>2, DongleCalm
<1>6. CASE ReceiveGet(f)
  <2>1. UNCHANGED dongle
    BY <1>6 DEF ReceiveGet
  <2>2. CASE dongle.state # "boot" /\ Encode(Bare("manifest"))
    <3>1. Adds(Bare("manifest")) /\ Bare("manifest").kind = "manifest"
      BY <1>2, <2>2, EncodeIs, BareIsUp DEF Bare
    <3>2. bounces' = bounces
      BY <2>2 DEF Encode, NoMishap, Mishap
    <3> QED BY <1>3, <2>1, <2>2, <3>1, <3>2, DongleCalm
  <2>3. CASE NoMishap /\ UNCHANGED to_host
    <3>1. Adds(none) /\ bounces' = bounces
      BY <1>2, <1>4, <2>3, EncodeIs DEF NoMishap
    <3> QED BY <1>3, <1>4, <2>1, <3>1, DongleCalm
  <2> QED BY <1>6, <2>2, <2>3 DEF ReceiveGet
<1>7. CASE ReceiveAdvance(f)
  <2>1. /\ NoMishap /\ UNCHANGED to_host
        /\ \E s \in {"l1", "op", dongle.state} :
             /\ dongle' = [dongle EXCEPT !.state = s]
             /\ s = "op" => dongle.state = "op" \/ f.kind = "begin"
    BY <1>7 DEF ReceiveAdvance
  <2>2. /\ dongle'.seen = dongle.seen /\ dongle'.dropped = dongle.dropped
        /\ dongle'.state = "boot" => dongle.state = "boot"
        /\ dongle'.state = "op" => dongle.state = "op" \/ Has(to_dongle, "begin")
    BY <1>2, <1>3, <2>1 DEF DongleType
  <2>3. Adds(none) /\ bounces' = bounces
    BY <1>2, <1>4, <2>1, EncodeIs DEF NoMishap
  <2> QED BY <1>3, <1>4, <2>2, <2>3, DongleCalm
<1> QED BY <1>1, <1>5, <1>6, <1>7

LEMMA CBegins == Init => CInv
<1> SUFFICES ASSUME Init PROVE Calm
  BY DEF CInv
<1>1. /\ to_dongle = <<>> /\ to_host = <<>> /\ bounces = 0 /\ host = Idle /\ dongle = Boot
  BY DEF Init, WireInit, HostInit, DongleInit
<1>2. /\ Idle.link = "down" /\ Idle.prov = "IDLE" /\ Idle.pend = {} /\ ~Idle.identity
      /\ ~Boot.dropped /\ ~Boot.seen /\ Boot.state = "boot"
  BY DEF Idle, Boot
<1>3. /\ \A kind : ~Has(to_host, kind) /\ ~Has(to_dongle, kind)
      /\ \A first, last : ~Before(to_host, first, last)
      /\ ~Sandwich(to_host)
  BY <1>1 DEF Has, Before, Sandwich
<1>4. Single /\ Fresh /\ Climbed
  BY <1>1, <1>2 DEF Single, Fresh, Climbed, Awaiting
<1>5. NoSandwich /\ Unbounced /\ OneLife
  BY <1>1, <1>2, <1>3 DEF NoSandwich, Unbounced, OneLife
<1> QED BY <1>4, <1>5 DEF Calm

\* What excuses the chain stays so.
LEMMA StaysExcused ==
  ASSUME IInv, Excused, [Next]_vars
  PROVE  Excused'
<1>1. bounces \in Nat
  <2>1. bounces \in 0..MaxBounces
    BY StateTypes DEF IInv, MishapType
  <2> QED BY <2>1, SyncConstants
<1>2. UNCHANGED <<mishaps, bounces, happened>> \/ \E kind : Mishap(kind)
  BY DEF Next, HostStep, DongleStep, Listen, Hear, Age, Poll, Attach, Open, Break, HearBroken,
         PassBroken, Broken, Detach, GoDown, Beat, Edge, Receive, ReceiveShell, ReceiveGet,
         ReceiveAdvance, RunHead, Encode, Reboot, NoMishap, vars, wireVars
<1>3. happened \subseteq happened' /\ bounces' \in {bounces, bounces + 1}
  BY <1>2 DEF Mishap
<1> QED BY <1>1, <1>3 DEF Excused

LEMMA CKeeps == IInv /\ CInv /\ [Next]_vars => CInv'
<1> SUFFICES ASSUME IInv, Calm, [Next]_vars, ~Excused' PROVE Calm'
  BY StaysExcused DEF CInv
<1>1. ~Break
  BY DEF Break, HearBroken, PassBroken, Broken, Mishap, Excused
<1>2. bounces' < 2
  <2>1. bounces' \in 0..MaxBounces
    BY Keeps, StateTypes DEF IInv, TypeOK, WireType
  <2> QED BY <2>1, SyncConstants DEF Excused
<1>3. CASE HostStep
  BY <1>1, <1>2, <1>3, ListenCalm, AgeCalm, PollCalm, AttachCalm, DetachCalm DEF HostStep
<1>4. CASE DongleStep
  BY <1>4, BeatCalm, EdgeCalm, ReceiveCalm DEF DongleStep
<1>5. CASE Reboot
  BY <1>5, RebootCalm
<1>6. CASE UNCHANGED vars
  BY <1>6 DEF vars, wireVars, Calm, Single, Fresh, Climbed, Quiet, NoSandwich, Unbounced,
              Untouched, OneLife, Has, Before, Sandwich
<1> QED BY <1>3, <1>4, <1>5, <1>6 DEF Next

\* The chain sends one command at a time: while it waits there is exactly
\* one request of on_prov_reply in demux.c's table, and otherwise none, although
\* on_prov_reply never looks at the id of the reply it is called for.  Holds up to
\* the second bounce and without a write that finds the port gone.
THEOREM ChainHolds == Spec => []ChainIsSingle
<1>1. IInv /\ CInv => ChainIsSingle
  <2> SUFFICES ASSUME IInv, Calm, "broken" \notin happened, bounces < 2
               PROVE  Cardinality(host.pend) = IF host.prov \in Awaiting THEN 1 ELSE 0
    <3>1. bounces \in 0..MaxBounces /\ IInv => ~(bounces < 2 /\ bounces >= 2)
      BY SyncConstants
    <3>2. IInv => bounces \in 0..MaxBounces
      BY StateTypes DEF IInv, MishapType
    <3> QED BY <3>1, <3>2 DEF CInv, Excused, ChainIsSingle
  <2>1. CASE host.prov \in Awaiting
    BY <2>1, FS_Singleton DEF Calm, Single
  <2>2. CASE host.prov \notin Awaiting
    BY <2>2, FS_EmptySet DEF Calm, Single
  <2> QED BY <2>1, <2>2
<1>2. Spec => [](IInv /\ CInv)
  BY Begins, Keeps, CBegins, CKeeps, PTL DEF Spec
<1> QED BY <1>1, <1>2, PTL
=============================================================================
