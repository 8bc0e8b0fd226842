--------------------------- MODULE WebSocketClient ---------------------------
(***************************************************************************)
(* The connection to the dash over Wi-Fi (src/src/transport/websocket-     *)
(* client.ts) with its ReconnectScheduler and contention watch.            *)
(*                                                                         *)
(* Sockets are the browser's: each opens or fails some time after it was   *)
(* created, and an open one may drop at any time.  The command channel of  *)
(* AckQueue is reduced to whether a command is outstanding.                *)
(***************************************************************************)
EXTENDS ReconnectScheduler, FiniteSets

CONSTANTS
  Sockets,       \* the sockets alive at one time
  NoSocket,      \* null
  MaxDrops       \* CONTENTION_DROPS

ASSUME SocketsAssumption == NoSocket \notin Sockets
ASSUME DropsAssumption   == MaxDrops \in Nat \ {0}

VARIABLES
  socket,        \* the adopted socket
  opening,       \* the socket of the promise connect() hands out again
  status, lastError, intentionalDisconnect,
  drops,         \* drops the contention watch still counts
  commandOut,    \* the command channel holds an unanswered command
  sockState,     \* the browser's side of each socket
  origin,        \* who opened it: connect() or a reconnect attempt
  overlapped     \* history: the last call was made while a socket was on its way

clientVars == <<socket, opening, status, lastError, intentionalDisconnect>>
vars == <<schedulerVars, clientVars, drops, commandOut, sockState, origin, overlapped>>

Statuses == {"disconnected", "connecting", "connected", "reconnecting"}
Errors   == {"none", "connection_closed", "connect_failed", "replaced",
             "auto_reconnect_failed"}

TypeOK ==
  /\ SchedulerTypeOK
  /\ socket \in Sockets \cup {NoSocket}
  /\ opening \in Sockets \cup {NoSocket}
  /\ status \in Statuses
  /\ lastError \in Errors
  /\ intentionalDisconnect \in BOOLEAN
  /\ drops \in 0..MaxDrops
  /\ commandOut \in BOOLEAN
  /\ sockState \in [Sockets -> {"free", "connecting", "open", "closing"}]
  /\ origin \in [Sockets -> {"connect", "attempt"}]
  /\ overlapped \in BOOLEAN

Init ==
  /\ SchedulerInit
  /\ socket = NoSocket
  /\ opening = NoSocket
  /\ status = "disconnected"
  /\ lastError = "none"
  /\ intentionalDisconnect = FALSE
  /\ drops = 0
  /\ commandOut = FALSE
  /\ sockState = [s \in Sockets |-> "free"]
  /\ origin = [s \in Sockets |-> "connect"]
  /\ overlapped = FALSE

-----------------------------------------------------------------------------
setStatus(next) == status' = next /\ UNCHANGED lastError
setStatusError(next, error) == status' = next /\ lastError' = error

enabled == ~intentionalDisconnect

\* open(): a new socket starts to connect; backedOff is what the scheduler's
\* isBackedOff() says by then.
open(s, who, backedOff) ==
  /\ sockState[s] = "free"
  /\ sockState' = [sockState EXCEPT ![s] = "connecting"]
  /\ origin' = [origin EXCEPT ![s] = who]
  /\ setStatus(IF backedOff THEN "reconnecting" ELSE "connecting")

\* A call may be made at any moment; a caller that waits makes it at a quiet one.
quiet == \A s \in Sockets : sockState[s] \in {"free", "open"}
called == overlapped' = ~quiet

connect ==
  /\ called
  /\ socket = NoSocket /\ opening = NoSocket
  /\ intentionalDisconnect' = FALSE
  /\ reset
  /\ drops' = 0
  /\ \E s \in Sockets : open(s, "connect", FALSE) /\ opening' = s
  /\ UNCHANGED <<socket, commandOut>>

\* Faulted disconnect: the scheduled attempt is left to run.
disconnectLeavingTimer ==
  /\ called
  /\ intentionalDisconnect' = TRUE
  /\ opening' = NoSocket
  /\ commandOut' = FALSE
  /\ socket' = NoSocket
  /\ sockState' = [s \in Sockets |-> IF s = socket THEN "closing" ELSE sockState[s]]
  /\ setStatus("disconnected")
  /\ UNCHANGED <<schedulerVars, drops, origin>>

disconnect ==
  /\ called
  /\ intentionalDisconnect' = TRUE
  /\ cancel
  /\ opening' = NoSocket
  /\ commandOut' = FALSE
  /\ socket' = NoSocket
  /\ sockState' = [s \in Sockets |-> IF s = socket THEN "closing" ELSE sockState[s]]
  /\ setStatus("disconnected")
  /\ UNCHANGED <<drops, origin>>

\* The scheduler's timer fires: attempt() opens a socket with the delay doubled.
attempt ==
  /\ timerFires
  /\ \E s \in Sockets : open(s, "attempt", delay' > InitialMs)
  /\ UNCHANGED <<socket, opening, intentionalDisconnect, drops, commandOut, overlapped>>

\* connect()'s promise has settled: its finally() forgets whatever is opening.
forgetOpening(s) == opening' = IF origin[s] = "connect" THEN NoSocket ELSE opening

-----------------------------------------------------------------------------
(***************************************************************************)
(* onopen: settleOpen and, unless another socket was adopted or the user   *)
(* disconnected meanwhile, adopt.                                          *)
(***************************************************************************)
\* Faulted superseded: a socket may be adopted over another one.
supersededByUser == intentionalDisconnect

superseded == intentionalDisconnect \/ socket # NoSocket

socketOpens(s) ==
  /\ sockState[s] = "connecting"
  /\ forgetOpening(s)
  /\ IF superseded
     THEN /\ sockState' = [sockState EXCEPT ![s] = "closing"]
          /\ UNCHANGED <<schedulerVars, socket, status, lastError>>
     ELSE /\ sockState' = [sockState EXCEPT ![s] = "open"]
          /\ socket' = s
          /\ noteOpened
          /\ setStatusError("connected", "none")
  /\ UNCHANGED <<intentionalDisconnect, drops, commandOut, origin, overlapped>>

(***************************************************************************)
(* onclose of a socket that never opened: failToOpen, then for a reconnect *)
(* attempt the scheduler's catch schedules the next one.                   *)
(***************************************************************************)
socketFails(s) ==
  /\ sockState[s] = "connecting"
  /\ sockState' = [sockState EXCEPT ![s] = "free"]
  /\ forgetOpening(s)
  /\ IF origin[s] = "attempt"
     THEN schedule(enabled, timer) /\ UNCHANGED <<delay, openedAt>>
     ELSE UNCHANGED schedulerVars
  /\ \/ /\ origin[s] = "attempt" /\ schedules(enabled, timer)
        /\ setStatusError("reconnecting", "connect_failed")
     \/ /\ origin[s] = "attempt" /\ exhausts(enabled, timer)
        /\ setStatusError("disconnected", "auto_reconnect_failed")
     \/ /\ origin[s] = "connect" \/ ~enabled \/ timer
        /\ setStatusError(IF isBackedOff THEN "reconnecting" ELSE "disconnected",
                          "connect_failed")
  /\ UNCHANGED <<socket, intentionalDisconnect, drops, commandOut, origin, overlapped>>

\* Faulted refuseAsBusy: the adopted socket is not let go of.
socketRefusedKept(s) ==
  /\ sockState[s] \in {"open", "closing"}
  /\ sockState' = [sockState EXCEPT ![s] = "free"]
  /\ commandOut' = FALSE
  /\ cancel
  /\ setStatusError("disconnected", "replaced")
  /\ UNCHANGED <<socket, opening, intentionalDisconnect, drops, origin, overlapped>>

(***************************************************************************)
(* onclose with code 4001, which a dash sends only after the handshake:    *)
(* refuseAsBusy.                                                           *)
(***************************************************************************)
socketRefused(s) ==
  /\ sockState[s] \in {"open", "closing"}
  /\ sockState' = [sockState EXCEPT ![s] = "free"]
  /\ socket' = IF socket = s THEN NoSocket ELSE socket
  /\ commandOut' = FALSE
  /\ cancel
  /\ setStatusError("disconnected", "replaced")
  /\ UNCHANGED <<opening, intentionalDisconnect, drops, origin, overlapped>>

(***************************************************************************)
(* onclose of a socket that had opened: handleClose ignores all but the    *)
(* adopted one.  A drop too many within the window means another device    *)
(* keeps taking the dash; else the scheduler takes over.                   *)
(***************************************************************************)
noteDrop == IF drops < MaxDrops THEN drops + 1 ELSE drops

contended == noteDrop >= MaxDrops

socketCloses(s) ==
  /\ sockState[s] \in {"open", "closing"}
  /\ sockState' = [sockState EXCEPT ![s] = "free"]
  /\ IF socket # s
     THEN UNCHANGED <<schedulerVars, socket, status, lastError, drops, commandOut>>
     ELSE /\ socket' = NoSocket
          /\ commandOut' = FALSE
          /\ IF intentionalDisconnect
             THEN setStatus("disconnected") /\ UNCHANGED <<schedulerVars, drops>>
             ELSE /\ drops' = noteDrop
                  /\ \/ /\ contended
                        /\ setStatusError("disconnected", "replaced")
                        /\ UNCHANGED schedulerVars
                     \/ /\ ~contended
                        /\ handleClose(enabled, TRUE)
                        /\ \/ /\ schedules(enabled, timer)
                              /\ setStatusError("reconnecting", "connection_closed")
                           \/ /\ exhausts(enabled, timer)
                              /\ setStatusError("disconnected", "auto_reconnect_failed")
                           \/ /\ timer
                              /\ setStatusError("disconnected", "connection_closed")
  /\ UNCHANGED <<opening, intentionalDisconnect, origin, overlapped>>

-----------------------------------------------------------------------------
\* A drop leaves the contention window; a connection grows old.
dropAges ==
  /\ drops > 0
  /\ drops' = drops - 1
  /\ UNCHANGED <<schedulerVars, clientVars, commandOut, sockState, origin, overlapped>>

connectionAges ==
  /\ uptimePasses
  /\ UNCHANGED <<clientVars, drops, commandOut, sockState, origin, overlapped>>

canSend == status = "connected" /\ socket # NoSocket

sendCommand ==
  /\ canSend /\ ~commandOut
  /\ commandOut' = TRUE
  /\ UNCHANGED <<schedulerVars, clientVars, drops, sockState, origin, overlapped>>

commandAnswered ==
  /\ commandOut
  /\ commandOut' = FALSE
  /\ UNCHANGED <<schedulerVars, clientVars, drops, sockState, origin, overlapped>>

Next ==
  \/ connect \/ disconnect \/ attempt
  \/ \E s \in Sockets : \/ socketOpens(s) \/ socketFails(s)
                        \/ socketRefused(s) \/ socketCloses(s)
  \/ dropAges \/ connectionAges
  \/ sendCommand \/ commandAnswered

\* Armed timers fire, and the browser gives up on a socket that does not open
\* and completes a close.
Fairness ==
  /\ WF_vars(attempt)
  /\ \A s \in Sockets :
       /\ WF_vars(socketOpens(s) \/ socketFails(s))
       /\ WF_vars(sockState[s] = "closing" /\ socketCloses(s))

Spec == Init /\ [][Next]_vars /\ Fairness

-----------------------------------------------------------------------------
\* The page never holds a second link to the dash, which talks to one device:
\* the only socket left open is the adopted one (settleOpen, disconnect).
NoLeakedSocket ==
  \A s \in Sockets : sockState[s] = "open" => socket = s

\* What the interface shows is the link: "connected" exactly while an adopted
\* socket is there, for a caller that waits for its sockets to settle (the code
\* under handleClose and refuseAsBusy; websocket-client.test.ts:124-139).
StatusMatchesSocket ==
  ~overlapped => (status = "connected" <=> socket # NoSocket)

\* After a deliberate disconnect nothing is scheduled and the status stays
\* "disconnected" until connect() is called (websocket-client.test.ts:78-84).
StaysDown ==
  intentionalDisconnect => ~timer /\ status = "disconnected"

\* The part of it the code keeps: once the sockets were settled when
\* disconnect() was called, no late answer brings the status back.
StaysDownOnceSettled == ~overlapped => StaysDown

\* No timer survives a deliberate disconnect, even with attempts in flight, and
\* none is armed past the last attempt (reconnect-scheduler.ts:73-80).
NoTimerWhenDown ==
  timer => ~intentionalDisconnect /\ attempts < MaxAttempts

\* A command is outstanding only over an adopted socket: whatever takes the
\* socket away fails the commands first.
CommandsNeedSocket == commandOut => socket # NoSocket

\* The inductive invariant behind NoLeakedSocket, NoTimerWhenDown and
\* CommandsNeedSocket: the adopted socket is the open one.
AdoptedInv == \A s \in Sockets : sockState[s] = "open" <=> socket = s

LinkInv == TypeOK /\ AdoptedInv /\ NoTimerWhenDown /\ CommandsNeedSocket

\* A drop is followed by an attempt, and attempts end: the status does not stay
\* "connecting" or "reconnecting" for ever, unless a call overlaps them.
ReconnectSettles ==
  (status \in {"connecting", "reconnecting"})
    ~> (status \in {"connected", "disconnected"} \/ overlapped)
=============================================================================
