---------------------------- MODULE DongleLadder ----------------------------
(***************************************************************************)
(* What the bus controller's dongle promises its host, whatever engine     *)
(* runs its program: commands are served in the order they came, each with *)
(* the one answer its rung of the ladder has for it, and only the          *)
(* acknowledgement, the begin and a host that opens the port again change  *)
(* the rung.  One command too many brings the dongle down, and it comes    *)
(* back on the first rung.                                                 *)
(***************************************************************************)
EXTENDS Sequences, Naturals

CONSTANT Depth  \* commands that can wait

VARIABLES rung,    \* dongle_state, or down
          queue,   \* commands received and not yet served
          answers  \* what the last step said to them

ladder == <<rung, queue, answers>>

Commands == {"ACK", "GET", "BEGIN", "PING", "SHELL", "REATTACH"}

\* The program's dispatch tables: what each rung does with each command.
After(r, c) == CASE c = "REATTACH" -> "boot"
                 [] r = "boot" /\ c = "ACK" -> "l1"
                 [] r = "l1" /\ c = "BEGIN" -> "op"
                 [] OTHER -> r

Reply(r, c) == CASE c = "REATTACH" \/ After(r, c) # r -> <<>>
                 [] r # "boot" /\ c = "GET" -> <<"send_manifest_reply">>
                 [] r = "op" /\ c = "PING" -> <<"send_pong">>
                 [] r = "op" /\ c = "SHELL" -> <<"handle_shell_exec">>
                 [] OTHER -> <<"send_nak">>

Start == rung = "boot" /\ queue = <<>> /\ answers = <<>>

Accept ==
  /\ rung # "down" /\ Len(queue) < Depth
  /\ \E c \in Commands : queue' = Append(queue, c)
  /\ answers' = <<>>
  /\ UNCHANGED rung

Serve ==
  /\ queue # <<>>
  /\ queue' = Tail(queue)
  /\ rung' = After(rung, Head(queue))
  /\ answers' = Reply(rung, Head(queue))

\* A tick of the program that serves nothing.
Idle == answers' = <<>> /\ UNCHANGED <<rung, queue>>

Overrun ==
  /\ Len(queue) = Depth
  /\ rung' = "down" /\ queue' = <<>> /\ answers' = <<>>

Recover ==
  /\ rung = "down"
  /\ rung' = "boot"
  /\ UNCHANGED <<queue, answers>>

LadderNext == Accept \/ Serve \/ Idle \/ Overrun \/ Recover
LadderSpec == Start /\ [][LadderNext]_ladder

\* Whatever waits is served, unless the dongle comes down; it comes back.
Served == /\ \A n \in 1..Depth : (Len(queue) = n) ~> (Len(queue) < n)
          /\ rung = "down" ~> rung # "down"
=============================================================================
