---------------------------- MODULE SerialClient ----------------------------
(***************************************************************************)
(* The connection to the dash over USB (src/src/transport/webserial-client *)
(* .ts) with its ReconnectScheduler: ports that open, drop and close, the  *)
(* read loop of each, and connect() and disconnect() made at any moment.   *)
(* The command channel it drives is in AckQueue.                           *)
(***************************************************************************)
EXTENDS ReconnectScheduler

CONSTANTS
  Ports,
  Callers,         \* bound: the connect() calls under way at one time
  Scheduler,       \* the attempt of the scheduler, a call like theirs
  NoPort           \* null

ASSUME SerialAssumption == NoPort \notin Ports /\ Scheduler \notin Callers

VARIABLES
  active, readLoop,            \* the adopted port, and the one whose loop is kept
  usbStatus, intentional, suppressNextReconnect,
  portState,                   \* the browser's side of each port
  loops,                       \* the read loop of each port
  opens,                       \* what each call waits for: [step, port]
  target,                      \* the port the scheduler would open again
  downAfter,                   \* the loops a disconnect() waits for
  usbOverlapped                \* history: a call was made while something was on its way

serialVars == <<schedulerVars, active, readLoop, usbStatus, intentional,
                suppressNextReconnect, portState, loops, opens, target, downAfter,
                usbOverlapped>>

Calls == Callers \cup {Scheduler}
Waiting(step, port) == [step |-> step, port |-> port]
NotCalled == Waiting("idle", NoPort)

SerialInit ==
  /\ SchedulerInit
  /\ active = NoPort /\ readLoop = NoPort
  /\ usbStatus = "disconnected"
  /\ intentional = FALSE /\ suppressNextReconnect = FALSE
  /\ portState = [p \in Ports |-> "closed"]
  /\ loops = [p \in Ports |-> "none"]
  /\ opens = [c \in Calls |-> NotCalled]
  /\ target = NoPort
  /\ downAfter = {}
  /\ usbOverlapped = FALSE

serialEnabled == ~intentional

\* Nothing is on its way: the moments a patient caller calls at.
quietUsb ==
  /\ \A c \in Calls : opens[c] = NotCalled
  /\ \A p \in Ports : portState[p] \in {"closed", "open"} /\ loops[p] # "finishing"

usbCalled == usbOverlapped' = (usbOverlapped \/ ~quietUsb)

\* reader.cancel(): the loop of the port comes to its end.
cancelReader(p) ==
  loops' = IF p # NoPort /\ loops[p] = "reading"
           THEN [loops EXCEPT ![p] = "finishing"] ELSE loops

-----------------------------------------------------------------------------
(* connect(): it tears down the active port, picks one and opens it.       *)

\* Faulted connect: the close of the port it lets go of is taken for a drop.
connectUsbUnsuppressed(c) ==
  /\ opens[c] = NotCalled
  /\ usbCalled
  /\ intentional' = FALSE
  /\ reset
  /\ opens' = [opens EXCEPT ![c] = IF active # NoPort THEN Waiting("teardown", readLoop)
                                                      ELSE Waiting("picking", NoPort)]
  /\ cancelReader(active)
  /\ active' = NoPort
  /\ readLoop' = IF active # NoPort THEN NoPort ELSE readLoop
  /\ UNCHANGED <<usbStatus, suppressNextReconnect, portState, target, downAfter>>

connectUsb(c) ==
  /\ opens[c] = NotCalled
  /\ usbCalled
  /\ intentional' = FALSE
  /\ reset
  /\ suppressNextReconnect' = (suppressNextReconnect \/ active # NoPort)
  /\ opens' = [opens EXCEPT ![c] = IF active # NoPort THEN Waiting("teardown", readLoop)
                                                      ELSE Waiting("picking", NoPort)]
  /\ cancelReader(active)
  /\ active' = NoPort
  /\ readLoop' = IF active # NoPort THEN NoPort ELSE readLoop
  /\ UNCHANGED <<usbStatus, portState, target, downAfter>>

tornDown(c) ==
  /\ opens[c].step = "teardown"
  /\ opens[c].port # NoPort => loops[opens[c].port] = "none"
  /\ opens' = [opens EXCEPT ![c] = Waiting("picking", NoPort)]
  /\ UNCHANGED <<schedulerVars, active, readLoop, usbStatus, intentional,
                 suppressNextReconnect, portState, loops, target, downAfter, usbOverlapped>>

pickNone(c) ==
  /\ opens[c].step = "picking"
  /\ opens' = [opens EXCEPT ![c] = NotCalled]
  /\ usbStatus' = "disconnected"
  /\ UNCHANGED <<schedulerVars, active, readLoop, intentional, suppressNextReconnect,
                 portState, loops, target, downAfter, usbOverlapped>>

\* openPort(): the browser refuses to open a port that is not closed.
startsOpening(c, p, backedOff) ==
  /\ usbStatus' = IF backedOff THEN "reconnecting" ELSE "connecting"
  /\ IF portState[p] = "closed"
     THEN /\ portState' = [portState EXCEPT ![p] = "opening"]
          /\ opens' = [opens EXCEPT ![c] = Waiting("opening", p)]
     ELSE /\ opens' = [opens EXCEPT ![c] = Waiting("refused", p)]
          /\ UNCHANGED portState

\* The user picks a port, or autoConnect() takes the one it was granted.
pickPort(c, p) ==
  /\ opens[c].step = "picking"
  /\ startsOpening(c, p, isBackedOff)
  /\ UNCHANGED <<schedulerVars, active, readLoop, intentional, suppressNextReconnect,
                 loops, target, downAfter, usbOverlapped>>

\* The timer fires: one attempt at a time.
usbAttempt ==
  /\ timerFires
  /\ opens[Scheduler] = NotCalled
  /\ startsOpening(Scheduler, target, delay' > InitialMs)
  /\ UNCHANGED <<active, readLoop, intentional, suppressNextReconnect, loops, target,
                 downAfter, usbOverlapped>>

\* adopt(), which looks neither at disconnect() nor at another port adopted since.
opened(c) ==
  /\ opens[c].step = "opening"
  /\ LET p == opens[c].port
     IN /\ portState' = [portState EXCEPT ![p] = "open"]
        /\ loops' = [loops EXCEPT ![p] = "reading"]
        /\ active' = p /\ readLoop' = p
  /\ opens' = [opens EXCEPT ![c] = NotCalled]
  /\ noteOpened
  /\ usbStatus' = "connected"
  /\ UNCHANGED <<intentional, suppressNextReconnect, target, downAfter, usbOverlapped>>

\* What the scheduler makes of a close or of a failed attempt.
afterSchedule(enabled, armed, otherwise) ==
  usbStatus' = CASE schedules(enabled, armed) -> "reconnecting"
                 [] exhausts(enabled, armed)  -> "disconnected"
                 [] OTHER                     -> otherwise

\* failOpen(), and the catch of the scheduler for an attempt of its own.
openFails(c) ==
  /\ opens[c].step \in {"opening", "refused"}
  /\ portState' = IF opens[c].step = "opening"
                  THEN [portState EXCEPT ![opens[c].port] = "closed"] ELSE portState
  /\ opens' = [opens EXCEPT ![c] = NotCalled]
  /\ IF c = Scheduler
     THEN /\ schedule(serialEnabled, timer) /\ UNCHANGED <<delay, openedAt>>
          /\ afterSchedule(serialEnabled, timer, "disconnected")
     ELSE usbStatus' = "disconnected" /\ UNCHANGED schedulerVars
  /\ UNCHANGED <<active, readLoop, intentional, suppressNextReconnect, loops, target,
                 downAfter, usbOverlapped>>

-----------------------------------------------------------------------------
(* The end of a read loop.                                                 *)

\* The device is unplugged or a read fails.
portDrops(p) ==
  /\ loops[p] = "reading"
  /\ cancelReader(p)
  /\ UNCHANGED <<schedulerVars, active, readLoop, usbStatus, intentional,
                 suppressNextReconnect, portState, opens, target, downAfter, usbOverlapped>>

isSuperseded(p) == active \notin {NoPort, p}

\* The client's own port has closed: it is forgotten and, unless the user let go
\* of it, the scheduler is told.
lostConnection(p) ==
  /\ active' = NoPort /\ readLoop' = NoPort
  /\ IF intentional
     THEN usbStatus' = "disconnected" /\ UNCHANGED <<schedulerVars, target>>
     ELSE /\ handleClose(serialEnabled, usbStatus = "connected")
          /\ target' = IF timer' /\ ~timer THEN p ELSE target
          /\ IF ignoresClose(usbStatus = "connected") \/ p \in downAfter
             THEN usbStatus' = "disconnected"
             ELSE afterSchedule(serialEnabled, timer, "disconnected")

\* Faulted finishReadLoop: the port is left open after a deliberate disconnect.
finishReadLoopUnclosed(p) ==
  /\ loops[p] = "finishing"
  /\ loops' = [loops EXCEPT ![p] = "none"]
  /\ portState' = IF isSuperseded(p) \/ intentional THEN portState
                                                    ELSE [portState EXCEPT ![p] = "closing"]
  /\ suppressNextReconnect' = (suppressNextReconnect /\ isSuperseded(p))
  /\ downAfter' = downAfter \ {p}
  /\ IF isSuperseded(p) \/ suppressNextReconnect
     THEN /\ usbStatus' = IF p \in downAfter THEN "disconnected" ELSE usbStatus
          /\ UNCHANGED <<schedulerVars, active, readLoop, target>>
     ELSE lostConnection(p)
  /\ UNCHANGED <<intentional, opens, usbOverlapped>>

\* finishReadLoop() and handleClose(); a disconnect() that waited for the loop
\* sets its status last.
finishReadLoop(p) ==
  /\ loops[p] = "finishing"
  /\ loops' = [loops EXCEPT ![p] = "none"]
  /\ portState' = IF isSuperseded(p) THEN portState ELSE [portState EXCEPT ![p] = "closing"]
  /\ suppressNextReconnect' = (suppressNextReconnect /\ isSuperseded(p))
  /\ downAfter' = downAfter \ {p}
  /\ IF isSuperseded(p) \/ suppressNextReconnect
     THEN /\ usbStatus' = IF p \in downAfter THEN "disconnected" ELSE usbStatus
          /\ UNCHANGED <<schedulerVars, active, readLoop, target>>
     ELSE lostConnection(p)
  /\ UNCHANGED <<intentional, opens, usbOverlapped>>

portCloses(p) ==
  /\ portState[p] = "closing"
  /\ portState' = [portState EXCEPT ![p] = "closed"]
  /\ UNCHANGED <<schedulerVars, active, readLoop, usbStatus, intentional,
                 suppressNextReconnect, loops, opens, target, downAfter, usbOverlapped>>

disconnectUsb ==
  /\ usbCalled
  /\ intentional' = TRUE
  /\ cancel
  /\ cancelReader(active)
  /\ IF readLoop # NoPort /\ loops[readLoop] # "none"
     THEN downAfter' = downAfter \cup {readLoop} /\ UNCHANGED usbStatus
     ELSE usbStatus' = "disconnected" /\ UNCHANGED downAfter
  /\ UNCHANGED <<active, readLoop, suppressNextReconnect, portState, opens, target>>

usbUptimePasses ==
  /\ uptimePasses
  /\ UNCHANGED <<active, readLoop, usbStatus, intentional, suppressNextReconnect,
                 portState, loops, opens, target, downAfter, usbOverlapped>>

SerialNext ==
  \/ \E c \in Callers : connectUsb(c) \/ tornDown(c) \/ pickNone(c) \/ \E p \in Ports : pickPort(c, p)
  \/ \E c \in Calls : opened(c) \/ openFails(c)
  \/ \E p \in Ports : portDrops(p) \/ finishReadLoop(p) \/ portCloses(p)
  \/ usbAttempt \/ disconnectUsb \/ usbUptimePasses

SerialSpec == SerialInit /\ [][SerialNext]_serialVars

-----------------------------------------------------------------------------
tearingDown == \E c \in Callers : opens[c].step = "teardown"
replacing   == \E c \in Callers : opens[c].step \in {"teardown", "picking"}

\* For a caller that waits, the status tells whether a port is held, across drops,
\* attempts and ports that replace one another; after a disconnect() nothing
\* brings it up again (webserial-client.ts:90-129, 274-307).
UsbStatusMatchesPort ==
  ~usbOverlapped =>
    /\ active # NoPort => usbStatus = "connected" /\ loops[active] # "none"
    /\ usbStatus = "connected" => active # NoPort \/ replacing
    /\ (intentional /\ quietUsb) => usbStatus = "disconnected" /\ ~timer

\* For such a caller no port stays open that nobody reads, and the close that a
\* new connection makes is not taken for a drop, nor a later drop for that close.
NoPortLeftOpen ==
  ~usbOverlapped =>
    /\ \A p \in Ports : portState[p] = "open" => loops[p] # "none"
    /\ suppressNextReconnect => tearingDown
    /\ (tearingDown /\ ~suppressNextReconnect) => ~timer
=============================================================================
