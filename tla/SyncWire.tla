------------------------------ MODULE SyncWire ------------------------------
(***************************************************************************)
(* The USB cable between the Layer-2 controller (SyncHost) and the bus     *)
(* controller dongle (SyncDongle): two queues of frames and the DTR line   *)
(* by which the dongle knows that a host is there.                         *)
(***************************************************************************)
EXTENDS Naturals, Sequences, FiniteSets

CONSTANTS
  RosterCount,  \* roster_t.count: the slaves the host provisions
  PollCfgSet,   \* roster_t.poll_cfg_set
  ShellDepth,   \* SHELL_PENDING_DEPTH
  MaxBeats,     \* bound on the periodic frames of one kind that wait unread
  MaxMishaps,   \* bound on the mishaps of a behaviour
  MaxBounces,   \* bound on the bounces among them
  Mishaps       \* which of the mishaps below may happen

MishapKinds == {"reboot",  \* the dongle restarts
                "bounce",  \* the host loses or closes the port
                "unseen",  \* ... and opens it again before the dongle looks
                "full",    \* the dongle's TX ring has no room for a frame
                "late",    \* a reply takes longer than demux_poll waits
                "broken"}  \* a write of the host finds the port gone

ASSUME SyncConstants ==
  /\ RosterCount \in Nat /\ PollCfgSet \in BOOLEAN
  /\ ShellDepth \in Nat \ {0} /\ MaxBeats \in Nat \ {0}
  /\ MaxMishaps \in Nat /\ MaxBounces \in Nat
  /\ Mishaps \subseteq MishapKinds

VARIABLES
  line,       \* DTR: the host holds the port of this dongle open
  to_dongle,  \* frames on their way to the dongle
  to_host,    \* frames in the dongle's TX ring, on their way to the host
  mishaps,    \* how many mishaps have happened
  bounces,    \* how many of them were bounces
  happened    \* and of which kinds they were

wireVars == <<line, to_dongle, to_host, mishaps, bounces, happened>>

Mishap(kind) ==
  /\ kind \in Mishaps /\ mishaps < MaxMishaps
  /\ kind = "bounce" => bounces < MaxBounces
  /\ mishaps' = mishaps + 1 /\ happened' = happened \cup {kind}
  /\ bounces' = IF kind = "bounce" THEN bounces + 1 ELSE bounces
NoMishap == UNCHANGED <<mishaps, bounces, happened>>

Slaves == 1..RosterCount

\* Frames to the dongle, and frames to the host.
Bare(kind) == [kind |-> kind]
Exec(rid, cmd, arg) == [kind |-> "shell", rid |-> rid, cmd |-> cmd, arg |-> arg]
Reply(rid, ok, result) == [kind |-> "reply", rid |-> rid, ok |-> ok, result |-> result]

ShellFrame == [kind : {"shell"}, rid : Nat, cmd : {"register"}, arg : Slaves]
                \cup [kind : {"shell"}, rid : Nat, cmd : {"clear", "setpoll", "list"}, arg : {0}]
DownFrame == [kind : {"ack", "get", "begin"}] \cup ShellFrame
UpFrame == [kind : {"register", "manifest", "heartbeat"}]
             \cup [kind : {"reply"}, rid : Nat, ok : BOOLEAN, result : 0..RosterCount]

WireType ==
  /\ line \in BOOLEAN
  /\ to_dongle \in Seq(DownFrame) /\ to_host \in Seq(UpFrame)
  /\ mishaps \in 0..MaxMishaps /\ bounces \in 0..MaxBounces /\ happened \subseteq Mishaps

WireInit ==
  /\ line = FALSE /\ to_dongle = <<>> /\ to_host = <<>>
  /\ mishaps = 0 /\ bounces = 0 /\ happened = {}
=============================================================================
