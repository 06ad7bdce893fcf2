------------------------------ MODULE SyncHost ------------------------------
(***************************************************************************)
(* The host's side: controller.c climbs the four-layer sync ladder and     *)
(* pushes the roster by a chain of CMD_BUS_* commands, over demux.c's      *)
(* table of pending requests and usb_link.c's reconnecting port.           *)
(***************************************************************************)
EXTENDS SyncWire

VARIABLE host

Idle == [link |-> "down",     \* link_state_t; "gone" while a vanished device is still open
         proto |-> "UNKNOWN", \* proto_state_t
         identity |-> FALSE,  \* have_identity
         acked |-> "never",   \* age of last_ack_ms: under 60 ms, under 150 ms, older
         get |-> FALSE,       \* get_manifest_pending
         prov |-> "IDLE",     \* prov_state_t
         idx |-> 0,           \* prov_idx
         pend |-> {},         \* demux.c's pending requests of on_prov_reply
         next |-> 1]          \* next_id

Protos == {"UNKNOWN", "BOOT", "L1_ACKED", "MANIFEST_OK", "OPERATIONAL"}
Awaiting == {"CLEAR", "REGISTER", "SET_POLL", "LIST"}
Hosts == [link : {"down", "up", "gone"}, proto : Protos, identity : BOOLEAN,
          acked : {"never", "now", "gap", "old"}, get : BOOLEAN,
          prov : Awaiting \cup {"IDLE", "DONE", "FAIL"}, idx : 0..RosterCount,
          pend : SUBSET Nat, next : Nat]
HostType == host \in Hosts

HostInit == host = Idle

\* [mutant of ResetSync] the provisioning is not started over
ResetSyncProvisioned(h) == [h EXCEPT !.proto = "UNKNOWN", !.acked = "never", !.get = FALSE]

ResetSync(h) == [h EXCEPT !.proto = "UNKNOWN", !.acked = "never", !.get = FALSE,
                          !.prov = "IDLE", !.idx = 0]
-----------------------------------------------------------------------------
\* on_prov_reply with any other status, for the requests in rids.
Failed(h, rids) == [h EXCEPT !.pend = @ \ rids, !.prov = IF rids = {} THEN @ ELSE "FAIL"]

\* [mutant of Down] the pending requests outlive the link
DownPending(h) == ResetSync([h EXCEPT !.link = "down", !.identity = FALSE])

\* go_down: every pending request fails (demux.c), then the ladder is reset.
Down(h) == ResetSync([Failed(h, h.pend) EXCEPT !.link = "down", !.identity = FALSE])
-----------------------------------------------------------------------------
\* A step of the host that sends: the host after it and the frames sent.
Does(h, out) == [host |-> h, out |-> out]

\* usb_send.  A closed port refuses; a write that finds the port gone takes the
\* link down before it returns, and reports success.  "way", sent or broken,
\* is what a write does to an open port.
Put(h, f, way) ==
  IF h.link = "down" THEN Does(h, <<>>)
  ELSE IF way = "broken" THEN Does(Down(h), <<>>)
  ELSE Does(h, <<f>>)

\* demux_send_shell with the callback on_prov_reply: a send that was not
\* refused gets its entry, after what the write did.
Send(h, cmd, arg, way) ==
  LET put == Put(h, Exec(h.next, cmd, arg), way) IN
  IF h.link = "down" THEN put
  ELSE Does([put.host EXCEPT !.pend = @ \cup {h.next}, !.next = @ + 1], put.out)

AfterSlaves(h, way) ==
  IF PollCfgSet THEN Send([h EXCEPT !.prov = "SET_POLL"], "setpoll", 0, way)
                ELSE Send([h EXCEPT !.prov = "LIST"], "list", 0, way)

\* [mutant of Register] the roster is read past its end
RegisterPast(h, i, way) ==
  IF i <= RosterCount THEN Send([h EXCEPT !.prov = "REGISTER", !.idx = i], "register", i + 1, way)
                      ELSE AfterSlaves([h EXCEPT !.idx = i], way)

\* prov_idx counts the slaves registered; the next one is sent, or the chain goes on.
Register(h, i, way) ==
  IF i < RosterCount THEN Send([h EXCEPT !.prov = "REGISTER", !.idx = i], "register", i + 1, way)
                     ELSE AfterSlaves([h EXCEPT !.idx = i], way)

\* [mutant of Advance] SET_POLL ends the chain
AdvanceUnlisted(h, result, way) ==
  CASE h.prov = "CLEAR"    -> Register(h, 0, way)
    [] h.prov = "REGISTER" -> Register(h, h.idx + 1, way)
    [] h.prov = "LIST"     -> Does([h EXCEPT !.prov = IF result >= RosterCount THEN "DONE" ELSE "FAIL"], <<>>)
    [] OTHER               -> Does(h, <<>>)

\* on_prov_reply with status OK: the next command of the chain.
Advance(h, result, way) ==
  CASE h.prov = "CLEAR"    -> Register(h, 0, way)
    [] h.prov = "REGISTER" -> Register(h, h.idx + 1, way)
    [] h.prov = "SET_POLL" -> Send([h EXCEPT !.prov = "LIST"], "list", 0, way)
    [] h.prov = "LIST"     -> Does([h EXCEPT !.prov = IF result >= RosterCount THEN "DONE" ELSE "FAIL"], <<>>)
    [] OTHER               -> Does(h, <<>>)

Did(step) == host' = step.host /\ to_dongle' = to_dongle \o step.out
-----------------------------------------------------------------------------
\* drive_boot: the ACK is throttled; GET_MANIFEST follows 60 ms after it.
DriveBoot(h, way) ==
  IF h.acked \in {"now", "gap"} THEN Does(h, <<>>)
  ELSE LET put == Put(h, Bare("ack"), way) IN
       Does([put.host EXCEPT !.acked = "now", !.get = TRUE, !.proto = "L1_ACKED"], put.out)

\* [mutant of HearRegister] a dongle that starts over is not noticed
HearRegisterLatched(h, way) ==
  LET known == [h EXCEPT !.identity = TRUE] IN
  IF h.proto \in {"MANIFEST_OK", "OPERATIONAL"} THEN Does(known, <<>>)
  ELSE DriveBoot([known EXCEPT !.proto = IF @ = "UNKNOWN" THEN "BOOT" ELSE @], way)

\* OP_REGISTER: the dongle is in BOOT; the ladder starts over if it was past it.
HearRegister(h, way) ==
  LET known == [h EXCEPT !.identity = TRUE]
      low == IF h.proto \in {"MANIFEST_OK", "OPERATIONAL"} THEN ResetSync(known) ELSE known IN
  DriveBoot([low EXCEPT !.proto = IF @ = "UNKNOWN" THEN "BOOT" ELSE @], way)

HearManifest(h, way) ==
  LET put == Put([h EXCEPT !.get = FALSE], Bare("begin"), way) IN
  Does([put.host EXCEPT !.proto = "MANIFEST_OK"], put.out)

HearHeartbeat(h) ==
  Does(IF h.proto = "OPERATIONAL" THEN h ELSE [h EXCEPT !.get = FALSE, !.proto = "OPERATIONAL"],
       <<>>)

\* demux.c: a reply of unknown request id is dropped.
HearReply(h, f, way) ==
  IF f.rid \notin h.pend THEN Does(h, <<>>)
  ELSE IF f.ok THEN Advance([h EXCEPT !.pend = @ \ {f.rid}], f.result, way)
  ELSE Does(Failed(h, {f.rid}), <<>>)

Heard(h, f, way) == CASE f.kind = "register"  -> HearRegister(h, way)
                      [] f.kind = "manifest"  -> HearManifest(h, way)
                      [] f.kind = "heartbeat" -> HearHeartbeat(h)
                      [] f.kind = "reply"     -> HearReply(h, f, way)

\* service_rx hands one frame up.
Hear ==
  /\ host.link = "up" /\ to_host # <<>>
  /\ Did(Heard(host, Head(to_host), "sent"))
  /\ to_host' = Tail(to_host)
  /\ NoMishap /\ UNCHANGED line

\* The port goes away under a write: DTR falls, what was on its way is gone.
Broken(h) ==
  /\ Mishap("broken")
  /\ host' = h /\ line' = FALSE /\ to_dongle' = <<>>

\* The host that was h at the first of k frames read at once, after the others.
HandedUp(h, frames, k) ==
  LET after[i \in 1..k] == IF i = 1 THEN h ELSE Heard(after[i - 1], frames[i], "sent").host
  IN  after[k]

\* ... under the answer to a frame: the frames that were read with it are still
\* handed up, to a port that is closed.
HearBroken ==
  /\ host.link = "up" /\ to_host # <<>>
  /\ LET h == Heard(host, Head(to_host), "broken").host IN
     /\ h.link = "down"
     /\ \E k \in 1..Len(to_host) :
          /\ Broken(HandedUp(h, to_host, k))
          /\ to_host' = SubSeq(to_host, k + 1, Len(to_host))

\* Time passes since the last ACK.
Age ==
  /\ host.acked \in {"now", "gap"}
  /\ host' = [host EXCEPT !.acked = IF @ = "now" THEN "gap" ELSE "old"]
  /\ UNCHANGED wireVars
-----------------------------------------------------------------------------
\* The rest of controller_poll: old requests time out, GET_MANIFEST fires when
\* its gap is over, and the roster is pushed to a dongle that is ready for it.
FireGet(h, way) ==
  IF h.get /\ h.acked \in {"gap", "old"}
    THEN LET put == Put(h, Bare("get"), way) IN Does([put.host EXCEPT !.get = FALSE], put.out)
    ELSE Does(h, <<>>)

ProvStart(h, way) ==
  IF h.prov = "IDLE" /\ h.proto = "OPERATIONAL" /\ h.identity
    THEN Send([h EXCEPT !.prov = "CLEAR", !.idx = 0], "clear", 0, way) ELSE Does(h, <<>>)

Passed(h, expired, way) ==
  LET fired == FireGet(Failed(h, expired), way)
      began == ProvStart(fired.host, way) IN
  Does(began.host, fired.out \o began.out)

\* It runs whether the port is open or not.
Pass(expired) ==
  /\ host.link # "gone" /\ expired \subseteq host.pend
  /\ Did(Passed(host, expired, "sent"))
  /\ UNCHANGED <<line, to_host>>

PassBroken ==
  /\ host.link = "up"
  /\ LET h == Passed(host, {}, "broken").host IN h.link = "down" /\ Broken(h)
  /\ UNCHANGED to_host

\* The back-off before the port is opened again, 200 ms, is longer than the gap
\* of GET_MANIFEST, and controller_poll runs meanwhile.
Settled(h) == ~h.get /\ ProvStart(h, "sent").host = h

\* The port opens: frames that came before are flushed, or lost to a decoder
\* that starts in the middle of one.
Open ==
  /\ host.link = "down" /\ Settled(host)
  /\ host' = [host EXCEPT !.link = "up"] /\ line' = TRUE
  /\ \E k \in 0..Len(to_host) : to_host' = SubSeq(to_host, k + 1, Len(to_host))
  /\ UNCHANGED to_dongle

GoDown ==
  /\ host.link # "down"
  /\ host' = Down(host) /\ line' = FALSE /\ to_dongle' = <<>>
  /\ UNCHANGED to_host
=============================================================================
