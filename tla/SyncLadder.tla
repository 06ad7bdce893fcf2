----------------------------- MODULE SyncLadder -----------------------------
(***************************************************************************)
(* The host and its bus controller dongle climb the sync ladder together   *)
(* and provision the roster, through restarts of the dongle and of the     *)
(* link.                                                                   *)
(***************************************************************************)
EXTENDS SyncHost, SyncDongle

vars == <<wireVars, host, dongle>>

Init == WireInit /\ HostInit /\ DongleInit

\* A request whose command and reply are both gone, or whose time is up first.
OnItsWay(rid) ==
  \/ \E i \in DOMAIN to_dongle : to_dongle[i].kind = "shell" /\ to_dongle[i].rid = rid
  \/ \E i \in DOMAIN to_host : to_host[i].kind = "reply" /\ to_host[i].rid = rid
  \/ \E i \in DOMAIN dongle.shell : dongle.shell[i].rid = rid

Poll ==
  \E expired \in SUBSET host.pend :
    /\ Pass(expired)
    /\ IF \E rid \in expired : OnItsWay(rid) THEN Mishap("late") ELSE NoMishap

\* The dongle drains its ring only once it sees the port open.
Listen == dongle.seen /\ Hear

\* The dongle has seen the port closed before it opens again, unless a long
\* shell command kept its main loop from looking.
Attach ==
  /\ Open
  /\ IF dongle.seen THEN dongle.state = "op" /\ Mishap("unseen") ELSE NoMishap

\* The host's own write is the first to find that the port is gone.
Break == (dongle.seen /\ HearBroken) \/ PassBroken

Detach == GoDown /\ IF host.link = "up" THEN Mishap("bounce") ELSE NoMishap

\* The dongle restarts: its RAM and what is on the cable are gone, and the
\* host holds a port that no longer exists.
Reboot ==
  /\ Mishap("reboot")
  /\ dongle' = Boot
  /\ host' = IF host.link = "up" THEN [host EXCEPT !.link = "gone"] ELSE host
  /\ line' = FALSE /\ to_dongle' = <<>> /\ to_host' = <<>>

HostStep == (Listen \/ Age \/ Poll \/ Attach \/ Break \/ Detach) /\ UNCHANGED dongle
DongleStep == (Beat \/ Edge \/ Receive) /\ UNCHANGED host

Next == HostStep \/ DongleStep \/ Reboot

Spec == Init /\ [][Next]_vars

\* The event loop of the host and the main loop of the dongle keep turning;
\* the dongle keeps announcing itself.
OfHost(A) == A /\ UNCHANGED dongle
OfDongle(A) == A /\ UNCHANGED host
FairSpec ==
  /\ Spec
  /\ WF_vars(OfHost(Listen)) /\ WF_vars(OfHost(Age)) /\ WF_vars(OfHost(Poll))
  /\ WF_vars(OfHost(Attach)) /\ WF_vars(OfHost(GoDown /\ host.link = "gone" /\ NoMishap))
  /\ WF_vars(OfDongle(Beat)) /\ WF_vars(OfDongle(Edge)) /\ WF_vars(OfDongle(Receive))
-----------------------------------------------------------------------------
\* Type invariant of the cable, the host and the dongle.
TypeOK == WireType /\ HostType /\ DongleType

\* The provisioning chain waits for exactly one reply while it runs and for
\* none otherwise, though on_prov_reply does not look at the request id.  A
\* second bounce may start a chain beside the request of the one before.
ChainIsSingle ==
  "broken" \notin happened /\ bounces < 2 =>
    Cardinality(host.pend) = IF host.prov \in Awaiting THEN 1 ELSE 0

\* controller_prov_state says DONE only while the dongle it is linked to holds
\* the whole roster, whatever either side has forgotten in between.
DoneMeansProvisioned == host.prov = "DONE" /\ host.link = "up" => dongle.roster = Slaves

\* rx_drain_to_event_queue pushes the event only with its payload "otherwise
\* the handler would replay an older payload": a payload belongs to the event
\* that brought it, none is left behind.
PayloadsMatchEvents == dongle.shell = <<>>

\* Both sides become and stay OPERATIONAL after the last restart ("auto-resync");
\* only a frame lost in a full ring excuses them.
LadderCompletes ==
  <>[](\/ host.proto = "OPERATIONAL" /\ dongle.state = "op"
       \/ "full" \in happened)

\* The roster is pushed again after any reset; excused are a reply that came
\* late or never, and a reopened port that the dongle did not notice.
Provisioned ==
  <>[](host.prov = "DONE" \/ happened \cap {"full", "late", "unseen", "broken"} # {})
=============================================================================
