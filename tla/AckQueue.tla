------------------------------ MODULE AckQueue ------------------------------
(***************************************************************************)
(* The command channel every device call goes through                      *)
(* (src/src/transport/ack-queue.ts), driven by the client that owns it:    *)
(* the WebSocket client over Wi-Fi or the Web Serial client over USB.      *)
(*                                                                         *)
(* A command is sent at most once and is named by the call that sent it.   *)
(* A handler runs to its end without interruption (one JavaScript task),   *)
(* so it is one action; timers, frames, write settlements and link events  *)
(* interleave in any order between handlers.                               *)
(***************************************************************************)
EXTENDS Integers, Sequences, FiniteSets

CONSTANTS
  Commands,    \* the calls of send()
  NoCmd,       \* no command: null in pendingAck, no answer in answeredBy
  Capacity,    \* SEND_QUEUE_CAPACITY
  SeqMax,      \* USB_SEQ_MAX
  LinkKind,    \* the owner: "wifi" (WebSocketClient) or "usb" (SerialClient)
  EchoesSeq,   \* the firmware copies a command's seq into its reply
  PortSwaps    \* connect() may be called over an open USB port

ASSUME CommandsAssumption == NoCmd \notin Commands
ASSUME BoundsAssumption   == Capacity \in Nat /\ SeqMax \in Nat \ {0}
ASSUME LinkAssumption     == /\ LinkKind \in {"wifi", "usb"}
                             /\ EchoesSeq \in BOOLEAN
                             /\ PortSwaps \in BOOLEAN

VARIABLES
  pendingAck, pendingSends, staleAckDiscards, staleAckFlushTimer, lastSeq,
  outcome,       \* what each call's promise resolved to
  seqOf,         \* the seq a command was dispatched with, 0 if it never was
  ackTimers,     \* the commands whose acknowledgement timer is armed
  link,          \* what the owner's canSend() and read side make of the link
  outbound,      \* writes not yet settled, oldest first
  streamBroken,  \* the USB write stream has failed: its writes will reject
  wire,          \* the commands the device may have received and still answer
  answeredBy,    \* history: the command whose reply settled each call
  forgotten      \* history: a reply that may still come is no longer expected

queueVars == <<pendingAck, pendingSends, staleAckDiscards, staleAckFlushTimer,
               lastSeq, outcome, seqOf, ackTimers>>
vars == <<queueVars, link, outbound, streamBroken, wire, answeredBy, forgotten>>

Replies  == {"ok", "device_error"}
Refusals == {"not_connected", "queue_full"}
Failures == {"ack_timeout", "send_failed", "link_failed"}
Settled  == Replies \cup Refusals \cup Failures

(***************************************************************************)
(* "open": sends and reads.  "closing": canSend() is already false but the *)
(* queue was not told yet (a socket past OPEN; a port being replaced).     *)
(* "dropping": canSend() is still true but nothing is read any more (the   *)
(* USB read loop has ended, its handles are not released yet).             *)
(***************************************************************************)
LinkStates == {"closed", "open", "closing", "dropping"}

canSend == link \in {"open", "dropping"}

Init ==
  /\ pendingAck = NoCmd
  /\ pendingSends = <<>>
  /\ staleAckDiscards = 0
  /\ staleAckFlushTimer = FALSE
  /\ lastSeq = 0
  /\ outcome = [c \in Commands |-> "none"]
  /\ seqOf = [c \in Commands |-> 0]
  /\ ackTimers = {}
  /\ link = "closed"
  /\ outbound = <<>>
  /\ streamBroken = FALSE
  /\ wire = {}
  /\ answeredBy = [c \in Commands |-> NoCmd]
  /\ forgotten = FALSE

-----------------------------------------------------------------------------
(***************************************************************************)
(* The helpers of the class.  A handler settles promises before it drains  *)
(* the queue, so a helper is given what the handler has made so far of the *)
(* promises (out), of the timers and of the writes.                        *)
(***************************************************************************)
takeSeq == IF lastSeq >= SeqMax THEN 1 ELSE lastSeq + 1

dispatch(c, out, timers, writes) ==
  /\ lastSeq' = takeSeq
  /\ seqOf' = [seqOf EXCEPT ![c] = takeSeq]
  /\ outcome' = [out EXCEPT ![c] = "waiting"]
  /\ pendingAck' = c
  /\ ackTimers' = timers \cup {c}
  /\ outbound' = Append(writes, c)

InLine(c) == \E i \in 1..Len(pendingSends) : pendingSends[i] = c

\* Resolving every queued call with one reason.
QueueFailed(out, reason) == [c \in Commands |-> IF InLine(c) THEN reason ELSE out[c]]

\* drainQueued, reached with no command pending and no stale reply expected.
\* Every queued call is refused if the link cannot send, else the first goes.
drainQueued(out, timers, writes) ==
  IF pendingSends # <<>> /\ canSend
  THEN /\ dispatch(Head(pendingSends), out, timers, writes)
       /\ pendingSends' = Tail(pendingSends)
  ELSE /\ outcome' = QueueFailed(out, "not_connected")
       /\ pendingSends' = <<>>
       /\ pendingAck' = NoCmd
       /\ ackTimers' = timers
       /\ outbound' = writes
       /\ UNCHANGED <<lastSeq, seqOf>>

\* A promise that has resolved keeps its value.
Resolved(c, result) ==
  [outcome EXCEPT ![c] = IF @ = "waiting" THEN result ELSE @]

\* Faulted send: it does not wait for the stale replies.
sendPastStale(c) ==
  /\ outcome[c] = "none"
  /\ IF canSend /\ pendingAck = NoCmd
     THEN dispatch(c, outcome, ackTimers, outbound) /\ UNCHANGED pendingSends
     ELSE /\ outcome' = [outcome EXCEPT ![c] =
                           IF ~canSend THEN "not_connected"
                           ELSE IF Len(pendingSends) >= Capacity THEN "queue_full"
                           ELSE "waiting"]
          /\ pendingSends' = IF outcome'[c] = "waiting" THEN Append(pendingSends, c)
                             ELSE pendingSends
          /\ UNCHANGED <<pendingAck, lastSeq, seqOf, ackTimers, outbound>>
  /\ UNCHANGED <<staleAckDiscards, staleAckFlushTimer, link, streamBroken, wire,
                 answeredBy, forgotten>>

send(c) ==
  /\ outcome[c] = "none"
  /\ \/ /\ ~canSend
        /\ outcome' = [outcome EXCEPT ![c] = "not_connected"]
        /\ UNCHANGED <<pendingAck, pendingSends, lastSeq, seqOf, ackTimers, outbound>>
     \/ /\ canSend
        /\ pendingAck # NoCmd \/ staleAckDiscards > 0
        /\ IF Len(pendingSends) >= Capacity
           THEN /\ outcome' = [outcome EXCEPT ![c] = "queue_full"]
                /\ UNCHANGED pendingSends
           ELSE /\ outcome' = [outcome EXCEPT ![c] = "waiting"]
                /\ pendingSends' = Append(pendingSends, c)
        /\ UNCHANGED <<pendingAck, lastSeq, seqOf, ackTimers, outbound>>
     \/ /\ canSend
        /\ pendingAck = NoCmd /\ staleAckDiscards = 0
        /\ dispatch(c, outcome, ackTimers, outbound)
        /\ UNCHANGED pendingSends
  /\ UNCHANGED <<staleAckDiscards, staleAckFlushTimer, link, streamBroken, wire,
                 answeredBy, forgotten>>

-----------------------------------------------------------------------------
(***************************************************************************)
(* routeAck: the device's status frame for command c is read.              *)
(***************************************************************************)
\* Faulted answersAnotherCommand: the seq of a reply is not looked at.
answersAnyCommand(c) == c = NoCmd

answersAnotherCommand(c) ==
  EchoesSeq /\ seqOf[c] # (IF pendingAck = NoCmd THEN 0 ELSE seqOf[pendingAck])

consumeStaleAck ==
  /\ staleAckDiscards > 0
  /\ staleAckDiscards' = staleAckDiscards - 1
  /\ IF staleAckDiscards > 1
     THEN UNCHANGED <<pendingAck, pendingSends, lastSeq, seqOf, outcome, ackTimers,
                      outbound, staleAckFlushTimer>>
     ELSE /\ staleAckFlushTimer' = FALSE
          /\ IF pendingAck = NoCmd
             THEN drainQueued(outcome, ackTimers, outbound)
             ELSE UNCHANGED <<pendingAck, pendingSends, lastSeq, seqOf, outcome,
                              ackTimers, outbound>>
  /\ UNCHANGED answeredBy

ignoreFrame(c) ==
  /\ staleAckDiscards = 0
  /\ answersAnotherCommand(c) \/ pendingAck = NoCmd
  /\ UNCHANGED <<queueVars, outbound, answeredBy>>

\* Faulted settlePending: the timer of the answered command is left running.
settleLeavingTimer(c, result) ==
  /\ staleAckDiscards = 0
  /\ ~answersAnotherCommand(c) /\ pendingAck # NoCmd
  /\ answeredBy' = [answeredBy EXCEPT ![pendingAck] = c]
  /\ drainQueued(Resolved(pendingAck, result), ackTimers, outbound)
  /\ UNCHANGED <<staleAckDiscards, staleAckFlushTimer>>

settlePending(c, result) ==
  /\ staleAckDiscards = 0
  /\ ~answersAnotherCommand(c) /\ pendingAck # NoCmd
  /\ answeredBy' = [answeredBy EXCEPT ![pendingAck] = c]
  /\ drainQueued(Resolved(pendingAck, result), ackTimers \ {pendingAck}, outbound)
  /\ UNCHANGED <<staleAckDiscards, staleAckFlushTimer>>

routeAck(c) ==
  /\ link = "open"
  /\ c \in wire
  /\ wire' = wire \ {c}
  /\ \/ consumeStaleAck
     \/ ignoreFrame(c)
     \/ \E result \in Replies : settlePending(c, result)
  /\ UNCHANGED <<link, streamBroken, forgotten>>

-----------------------------------------------------------------------------
(***************************************************************************)
(* Timers.                                                                 *)
(***************************************************************************)
\* Faulted ackTimeout: the late reply is not expected.
ackTimeoutNoWindow(c) ==
  /\ c \in ackTimers
  /\ outcome' = Resolved(c, "ack_timeout")
  /\ pendingAck' = NoCmd
  /\ ackTimers' = ackTimers \ {c}
  /\ UNCHANGED <<pendingSends, staleAckDiscards, staleAckFlushTimer, lastSeq, seqOf,
                 link, outbound, streamBroken, wire, answeredBy, forgotten>>

\* Faulted ackTimeout: the command is sent once more instead of given up.
ackTimeoutRetries(c) ==
  /\ c \in ackTimers
  /\ lastSeq' = takeSeq
  /\ seqOf' = [seqOf EXCEPT ![c] = takeSeq]
  /\ UNCHANGED <<pendingAck, pendingSends, staleAckDiscards, staleAckFlushTimer, outcome,
                 ackTimers, link, outbound, streamBroken, wire, answeredBy, forgotten>>

ackTimeout(c) ==
  /\ c \in ackTimers
  /\ ackTimers' = ackTimers \ {c}
  /\ pendingAck' = NoCmd
  /\ staleAckDiscards' = staleAckDiscards + 1
  /\ staleAckFlushTimer' = TRUE
  /\ outcome' = Resolved(c, "ack_timeout")
  /\ UNCHANGED <<pendingSends, lastSeq, seqOf, link, outbound, streamBroken, wire,
                 answeredBy, forgotten>>

\* Faulted staleFlush: the calls queued behind the window are not resumed.
staleFlushNoDrain ==
  /\ staleAckFlushTimer
  /\ staleAckFlushTimer' = FALSE
  /\ staleAckDiscards' = 0
  /\ forgotten' = TRUE
  /\ UNCHANGED <<pendingAck, pendingSends, lastSeq, seqOf, outcome, ackTimers, outbound,
                 link, streamBroken, wire, answeredBy>>

staleFlush ==
  /\ staleAckFlushTimer
  /\ staleAckFlushTimer' = FALSE
  /\ staleAckDiscards' = 0
  /\ forgotten' = TRUE
  /\ IF pendingAck = NoCmd
     THEN drainQueued(outcome, ackTimers, outbound)
     ELSE UNCHANGED <<pendingAck, pendingSends, lastSeq, seqOf, outcome, ackTimers,
                      outbound>>
  /\ UNCHANGED <<link, streamBroken, wire, answeredBy>>

-----------------------------------------------------------------------------
(***************************************************************************)
(* The write promise of deps.write().  A WebSocket write is done when it   *)
(* returns; a USB write settles later, in the order of the writes, and all *)
(* of them reject once the stream has failed.                              *)
(***************************************************************************)
writeResolves ==
  /\ outbound # <<>> /\ ~streamBroken
  /\ wire' = wire \cup {Head(outbound)}
  /\ outbound' = Tail(outbound)
  /\ UNCHANGED <<queueVars, link, streamBroken, answeredBy, forgotten>>

\* Its acknowledgement is lost; the bytes may have reached the device before.
writeRejects ==
  /\ outbound # <<>> /\ streamBroken
  /\ LET c == Head(outbound)
         left == Resolved(c, "send_failed")
     IN IF staleAckDiscards = 0
        THEN drainQueued(left, ackTimers \ {c}, Tail(outbound))
        ELSE /\ outcome' = left
             /\ ackTimers' = ackTimers \ {c}
             /\ pendingAck' = NoCmd
             /\ outbound' = Tail(outbound)
             /\ UNCHANGED <<pendingSends, lastSeq, seqOf>>
  /\ \/ UNCHANGED <<wire, forgotten>>
     \/ wire' = wire \cup {Head(outbound)} /\ forgotten' = TRUE
  /\ UNCHANGED <<staleAckDiscards, staleAckFlushTimer, link, streamBroken, answeredBy>>

breakStream ==
  /\ LinkKind = "usb" /\ link # "closed" /\ ~streamBroken
  /\ streamBroken' = TRUE
  /\ UNCHANGED <<queueVars, link, outbound, wire, answeredBy, forgotten>>

-----------------------------------------------------------------------------
(***************************************************************************)
(* What the owner calls: failPending, clearStaleFlush, drainAllWithError.  *)
(*                                                                         *)
(* The replies on their way die with a socket.  A USB device is not reset  *)
(* when its port is let go of and reopened: it may answer afterwards.      *)
(***************************************************************************)
repliesLeft == IF LinkKind = "wifi" THEN {} ELSE wire

\* A stale window that is cleared, or a command that is failed, while the
\* device may still answer.
windowCut   == staleAckDiscards > 0 /\ LinkKind = "usb"
commandLeft == pendingAck # NoCmd /\ LinkKind = "usb"

\* Faulted failAll: the queued calls are resolved but stay in line.
failAllKeepingLine ==
  /\ outcome' = QueueFailed(IF pendingAck = NoCmd THEN outcome
                            ELSE Resolved(pendingAck, "link_failed"), "link_failed")
  /\ pendingAck' = NoCmd
  /\ ackTimers' = ackTimers \ {pendingAck}
  /\ staleAckDiscards' = 0
  /\ staleAckFlushTimer' = FALSE
  /\ forgotten' = (forgotten \/ windowCut \/ commandLeft)
  /\ UNCHANGED <<pendingSends, lastSeq, seqOf, answeredBy>>

\* Faulted failAll: a command that was sent is reported as never sent.
failAllUnsent ==
  /\ outcome' = QueueFailed(IF pendingAck = NoCmd THEN outcome
                            ELSE Resolved(pendingAck, "not_connected"), "link_failed")
  /\ pendingAck' = NoCmd
  /\ ackTimers' = ackTimers \ {pendingAck}
  /\ pendingSends' = <<>>
  /\ staleAckDiscards' = 0
  /\ staleAckFlushTimer' = FALSE
  /\ forgotten' = (forgotten \/ windowCut \/ commandLeft)
  /\ UNCHANGED <<lastSeq, seqOf, answeredBy>>

failAll ==
  LET failed == IF pendingAck = NoCmd THEN outcome ELSE Resolved(pendingAck, "link_failed")
  IN /\ outcome' = QueueFailed(failed, "link_failed")
     /\ pendingAck' = NoCmd
     /\ ackTimers' = ackTimers \ {pendingAck}
     /\ pendingSends' = <<>>
     /\ staleAckDiscards' = 0
     /\ staleAckFlushTimer' = FALSE
     /\ forgotten' = (forgotten \/ windowCut \/ commandLeft)
     /\ UNCHANGED <<lastSeq, seqOf, answeredBy>>

\* adopt: a socket or port has opened.  It clears the stale window only.
linkOpens ==
  /\ \/ link = "closed"
     \/ LinkKind = "usb" /\ link = "closing" /\ streamBroken /\ outbound = <<>>
  /\ link' = "open"
  /\ staleAckDiscards' = 0
  /\ staleAckFlushTimer' = FALSE
  /\ streamBroken' = FALSE
  /\ forgotten' = (forgotten \/ windowCut)
  /\ UNCHANGED <<pendingAck, pendingSends, lastSeq, outcome, seqOf, ackTimers,
                 outbound, wire, answeredBy>>

\* The socket leaves OPEN before its close event; teardownPort lets go of the
\* port that connect() replaces.  Nothing is read from it any more.
linkCloses ==
  /\ link = "open"
  /\ LinkKind = "usb" => PortSwaps
  /\ link' = "closing"
  /\ wire' = repliesLeft
  /\ IF LinkKind = "wifi" THEN outbound' = <<>> ELSE UNCHANGED outbound
  /\ UNCHANGED <<queueVars, streamBroken, answeredBy, forgotten>>

\* SerialClient: the read loop ends by itself, or disconnect() fails every
\* call and cancels the reader.  canSend() stays true until handleClose.
readEnds ==
  /\ LinkKind = "usb" /\ link = "open"
  /\ link' = "dropping"
  /\ wire' = repliesLeft
  /\ failAll \/ UNCHANGED <<queueVars, answeredBy, forgotten>>
  /\ UNCHANGED <<outbound, streamBroken>>

\* handleClose and disconnect of WebSocketClient; handleClose of SerialClient,
\* after releaseHandles has aborted the writer and its writes have rejected.
linkClosed ==
  /\ IF LinkKind = "wifi"
     THEN link \in {"open", "closing"}
     ELSE link \in {"dropping", "closing"} /\ streamBroken /\ outbound = <<>>
  /\ failAll
  /\ link' = "closed"
  /\ wire' = repliesLeft
  /\ outbound' = <<>>
  /\ UNCHANGED streamBroken

-----------------------------------------------------------------------------
Next ==
  \/ \E c \in Commands : send(c) \/ routeAck(c) \/ ackTimeout(c)
  \/ staleFlush
  \/ writeResolves \/ writeRejects \/ breakStream
  \/ linkOpens \/ linkCloses \/ readEnds \/ linkClosed

\* A browser fires a timer that is armed; nothing else is promised.
Fairness == /\ \A c \in Commands : WF_vars(ackTimeout(c))
            /\ WF_vars(staleFlush)

Spec == Init /\ [][Next]_vars /\ Fairness

-----------------------------------------------------------------------------
TypeOK ==
  /\ pendingAck \in Commands \cup {NoCmd}
  /\ pendingSends \in Seq(Commands)
  /\ staleAckDiscards \in Nat
  /\ staleAckFlushTimer \in BOOLEAN
  /\ lastSeq \in 0..SeqMax
  /\ outcome \in [Commands -> Settled \cup {"none", "waiting"}]
  /\ seqOf \in [Commands -> 0..SeqMax]
  /\ ackTimers \in SUBSET Commands
  /\ link \in LinkStates
  /\ outbound \in Seq(Commands)
  /\ streamBroken \in BOOLEAN
  /\ wire \in SUBSET Commands
  /\ answeredBy \in [Commands -> Commands \cup {NoCmd}]
  /\ forgotten \in BOOLEAN

\* One command is in flight at a time: the only armed acknowledgement timer is
\* the pending command's, unless a failed USB stream still has writes to reject
\* (ack-queue.ts:141-170 arms the timer, :163-168 clears pendingAck whichever
\* command it holds by then).
OneInFlight ==
  /\ pendingAck # NoCmd => pendingAck \in ackTimers
  /\ ~streamBroken => ackTimers \subseteq {pendingAck}

\* A call waits only while something will wake it: it is the pending command or
\* its own timer runs, or it is queued behind a pending command or an open
\* stale window whose timer runs.  Without this a caller awaits forever.
NoStrandedSend ==
  ~PortSwaps =>
    \A c \in Commands : outcome[c] = "waiting" =>
      \/ c \in ackTimers
      \/ InLine(c) /\ (pendingAck # NoCmd \/ staleAckFlushTimer)

\* A call that got a reply got the reply to its own command.  A firmware that
\* does not echo the seq can break this only after the queue has stopped to
\* expect a reply that may still come: its stale window expired, or the port was
\* closed, failed or replaced before the reply was read, and adopt() cleared the
\* window (ack-queue.ts:81-104, 186-201; webserial-client.ts:208-216).
OwnReply ==
  \A c \in Commands :
    answeredBy[c] \in {NoCmd, c} \/ (~EchoesSeq /\ forgotten)

\* "not_connected" and "queue_full" tell the caller that nothing was sent, so
\* the command may be repeated; a reply is only for a command that was sent.
RetryIsSafe ==
  \A c \in Commands :
    /\ outcome[c] \in Refusals => seqOf[c] = 0
    /\ outcome[c] \in Replies => seqOf[c] # 0

\* Commands leave in the order they were sent: a step that dispatches one that
\* was not at the head of the line found the line empty.
NoOvertaking ==
  [][\A c \in Commands :
       (seqOf[c] = 0 /\ seqOf'[c] # 0) =>
          (pendingSends = <<>> \/ Head(pendingSends) = c)]_vars

\* Every call of send() gets a result.
EverySendSettles ==
  \A c \in Commands : (outcome[c] = "waiting") ~> (outcome[c] \in Settled)

-----------------------------------------------------------------------------
(***************************************************************************)
(* The inductive invariant behind the properties above.                    *)
(***************************************************************************)
InOutbound(c) == \E i \in 1..Len(outbound) : outbound[i] = c

\* A pending command has its timer armed and no stale reply ahead of it; a
\* stale window is open exactly while its timer runs.
PendingInv ==
  /\ pendingAck # NoCmd => pendingAck \in ackTimers /\ staleAckDiscards = 0
  /\ staleAckFlushTimer <=> staleAckDiscards > 0

\* Another timer can only be that of a write the failed stream will reject;
\* the pending command is the last one written.
StreamInv ==
  /\ \A c \in ackTimers : c = pendingAck \/ InOutbound(c)
  /\ ~streamBroken => ackTimers \subseteq {pendingAck}
  /\ (outbound # <<>> /\ pendingAck # NoCmd) => outbound[Len(outbound)] = pendingAck
  /\ link = "closed" => outbound = <<>>
  /\ LinkKind = "wifi" => ~streamBroken

\* Where a call stands follows from its outcome.
OutcomeInv ==
  \A c \in Commands :
    /\ outcome[c] = "none" => seqOf[c] = 0
    /\ InLine(c) => outcome[c] = "waiting" /\ seqOf[c] = 0
    /\ c \in ackTimers => outcome[c] = "waiting" /\ seqOf[c] # 0
    /\ outcome[c] = "waiting" => c \in ackTimers \/ InLine(c)
    /\ outcome[c] \in Refusals => seqOf[c] = 0
    /\ outcome[c] \in Replies => seqOf[c] # 0

\* Only a dispatched command is on its way to the device or with it.
SentInv == \A c \in Commands : c \in wire \/ InOutbound(c) => seqOf[c] # 0

\* A command stands in line once.
LineInv ==
  \A i, j \in 1..Len(pendingSends) : pendingSends[i] = pendingSends[j] => i = j

\* While the line is not empty something will drain it; a closed link has
\* nothing to drain, and a port is let go of unclosed only by a swap.
WakeInv ==
  /\ (~PortSwaps /\ pendingSends # <<>>) => pendingAck # NoCmd \/ staleAckDiscards > 0
  /\ link = "closed" => pendingSends = <<>> /\ pendingAck = NoCmd /\ staleAckDiscards = 0
  /\ LinkKind = "usb" /\ link = "closing" => PortSwaps

IInv ==
  TypeOK /\ PendingInv /\ StreamInv /\ OutcomeInv /\ SentInv /\ LineInv /\ WakeInv

\* Until the counter wraps, the seqs given out are all different.
Dispatched == {c \in Commands : seqOf[c] # 0}

SeqInv ==
  /\ lastSeq = Cardinality(Dispatched)
  /\ \A c \in Commands : seqOf[c] <= lastSeq
  /\ \A c, d \in Dispatched : seqOf[c] = seqOf[d] => c = d
  /\ \A c \in Commands : answeredBy[c] \in {NoCmd, c}

-----------------------------------------------------------------------------
(***************************************************************************)
(* What the callers are promised: a single server with a bounded line.     *)
(***************************************************************************)
Channel == INSTANCE CommandChannel
             WITH current <- pendingAck, line <- pendingSends

\* Over Wi-Fi the class implements that channel, whatever the timers, the late
\* replies and the link do.
ImplementsChannel == Channel!Spec
=============================================================================
