--------------------------- MODULE CommandChannel ---------------------------
(***************************************************************************)
(* What a caller of send() may rely on, with none of the machinery of      *)
(* AckQueue: no timers, no sequence numbers, no link.  One command is      *)
(* served at a time; the others wait in a bounded line and are served in   *)
(* the order they came, or all of them are given up together.  A command   *)
(* leaves the server only with a result, and a result is final.            *)
(***************************************************************************)
EXTENDS Naturals, Sequences

CONSTANTS Commands, NoCmd, Capacity

VARIABLES
  current,   \* the command being served, or NoCmd
  line,      \* the commands waiting
  outcome    \* the result of each call, "waiting" until it has one

vars == <<current, line, outcome>>

Served  == {"ok", "device_error", "ack_timeout", "send_failed", "link_failed"}
Refused == {"not_connected", "queue_full"}
GivenUp == {"not_connected", "link_failed"}

Init ==
  /\ current = NoCmd
  /\ line = <<>>
  /\ outcome = [c \in Commands |-> "none"]

Submit(c) ==
  /\ outcome[c] = "none"
  /\ \/ /\ \E r \in Refused : outcome' = [outcome EXCEPT ![c] = r]
        /\ UNCHANGED <<current, line>>
     \/ /\ Len(line) < Capacity
        /\ line' = Append(line, c)
        /\ outcome' = [outcome EXCEPT ![c] = "waiting"]
        /\ UNCHANGED current
     \/ /\ current = NoCmd /\ line = <<>>
        /\ current' = c
        /\ outcome' = [outcome EXCEPT ![c] = "waiting"]
        /\ UNCHANGED line

\* The server is free, with the results out: it rests, takes the next command,
\* or gives up the whole line.
Continue(out) ==
  \/ /\ current' = NoCmd
     /\ outcome' = out
     /\ UNCHANGED line
  \/ /\ line # <<>>
     /\ current' = Head(line)
     /\ line' = Tail(line)
     /\ outcome' = out
  \/ /\ current' = NoCmd
     /\ line' = <<>>
     /\ \E r \in GivenUp :
          outcome' = [c \in Commands |->
                        IF \E i \in 1..Len(line) : line[i] = c THEN r ELSE out[c]]

Finish ==
  /\ current # NoCmd
  /\ \E r \in Served : Continue([outcome EXCEPT ![current] = r])

Resume == current = NoCmd /\ Continue(outcome)

Next == Finish \/ Resume \/ \E c \in Commands : Submit(c)

Spec == Init /\ [][Next]_vars
=============================================================================
