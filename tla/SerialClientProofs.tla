------------------------- MODULE SerialClientProofs -------------------------
(***************************************************************************)
(* Proofs about SerialClient, for every set of ports and of callers and    *)
(* every backoff: its types, that nobody opens a port again after a        *)
(* disconnect(), and what holds for a caller that waits.  And about the    *)
(* LineFramer behind it, for every stream of lines and size of its buffer: *)
(* what it gives are lines the dash sent.                                  *)
(***************************************************************************)
EXTENDS SerialClient, LineFramer, OrderLemmas, SequenceTheorems

USE SerialAssumption

UsbStatuses == {"disconnected", "connecting", "reconnecting", "connected"}

\* What a call waits for, and the port it waits with.
Waits == [step : {"idle", "picking"}, port : {NoPort}]
    \cup [step : {"teardown"}, port : Ports \cup {NoPort}]
    \cup [step : {"opening", "refused"}, port : Ports]

\* The types of the client, its scheduler and the browser's ports.
SerialTypeOK ==
  /\ SchedulerTypeOK
  /\ active \in Ports \cup {NoPort} /\ readLoop \in Ports \cup {NoPort}
  /\ target \in Ports \cup {NoPort}
  /\ usbStatus \in UsbStatuses
  /\ intentional \in BOOLEAN /\ suppressNextReconnect \in BOOLEAN /\ usbOverlapped \in BOOLEAN
  /\ portState \in [Ports -> {"closed", "opening", "open", "closing"}]
  /\ loops \in [Ports -> {"none", "reading", "finishing"}]
  /\ opens \in [Calls -> Waits]
  /\ downAfter \subseteq Ports

under(c) == opens[c] # NotCalled

\* A timer runs only for a user who wants the connection and with attempts left,
\* and it has a port to open.
TimerWanted ==
  /\ timer => serialEnabled /\ attempts < MaxAttempts
  /\ timer \/ under(Scheduler) => target \in Ports

SerialInv == SerialTypeOK /\ TimerWanted

-----------------------------------------------------------------------------
(* The types, and the timer.                                               *)

\* The parameters of the backoff, which the Wi-Fi client shares.
LEMMA UsbBounds ==
  /\ InitialMs \in Nat \ {0} /\ MaxMs \in Nat \ {0}
  /\ Factor \in Nat \ {0} /\ MaxAttempts \in Nat \ {0}
  /\ InitialMs < MaxMs /\ Factor > 1
  BY BackoffAssumption DEF BackoffAssumption

\* The delay of the backoff stays between its two bounds when it grows.
LEMMA UsbDelayGrows ==
  ASSUME NEW d \in InitialMs..MaxMs
  PROVE  (IF d * Factor < MaxMs THEN d * Factor ELSE MaxMs) \in InitialMs..MaxMs
  <1>1. /\ InitialMs \in Nat /\ MaxMs \in Nat /\ Factor \in Nat /\ d \in Nat
        /\ Factor >= 1 /\ InitialMs <= d /\ InitialMs <= MaxMs
    BY UsbBounds
  <1>2. d * Factor \in Nat /\ d * Factor >= d
    BY <1>1
  <1> QED BY <1>1, <1>2

\* A call is given another thing to wait for.
LEMMA WaitTypes ==
  ASSUME opens \in [Calls -> Waits], NEW c \in Calls, NEW w \in Waits,
         opens' = [opens EXCEPT ![c] = w]
  PROVE  /\ opens' \in [Calls -> Waits]
         /\ opens'[c] = w
         /\ \A d \in Calls \ {c} : opens'[d] = opens[d]
  OBVIOUS

\* What a call is ever given to wait for.
LEMMA WaitingTypes ==
  /\ NotCalled \in Waits /\ Waiting("picking", NoPort) \in Waits
  /\ \A p \in Ports \cup {NoPort} : Waiting("teardown", p) \in Waits
  /\ \A p \in Ports : Waiting("opening", p) \in Waits /\ Waiting("refused", p) \in Waits
  BY DEF NotCalled, Waiting, Waits

\* The two parts of what a call waits for.
LEMMA WaitingFields ==
  \A step, port : Waiting(step, port).step = step /\ Waiting(step, port).port = port
  BY DEF Waiting

\* A reader that is cancelled leaves a loop that finishes.
LEMMA ReaderTypes ==
  ASSUME loops \in [Ports -> {"none", "reading", "finishing"}], NEW p \in Ports \cup {NoPort},
         cancelReader(p)
  PROVE  loops' \in [Ports -> {"none", "reading", "finishing"}]
  BY DEF cancelReader

\* What schedule() leaves.
LEMMA UsbScheduleKeeps ==
  ASSUME SerialInv, schedule(serialEnabled, timer), delay' \in InitialMs..MaxMs,
         openedAt' \in Uptimes, UNCHANGED intentional
  PROVE  /\ SchedulerTypeOK' /\ (timer' => serialEnabled' /\ attempts' < MaxAttempts)
         /\ timer' \in BOOLEAN
  <1>1. /\ timer' = (timer \/ (serialEnabled /\ ~timer /\ attempts < MaxAttempts))
        /\ attempts' = attempts
    BY DEF schedule, schedules
  <1> QED BY <1>1 DEF SchedulerTypeOK, SerialInv, SerialTypeOK, TimerWanted, serialEnabled

\* A new client holds nothing and waits for nothing.
LEMMA InitSerialInv == SerialInit => SerialInv
  <1> SUFFICES ASSUME SerialInit PROVE SerialInv
    OBVIOUS
  <1> USE DEF SerialInit, SchedulerInit
  <1>1. SchedulerTypeOK
    <2>1. delay \in InitialMs..MaxMs /\ attempts \in 0..MaxAttempts
      BY UsbBounds
    <2> QED BY <2>1 DEF SchedulerTypeOK, Uptimes
  <1>2. opens \in [Calls -> Waits]
    BY WaitingTypes
  <1>3. SerialTypeOK
    BY <1>1, <1>2 DEF SerialTypeOK, UsbStatuses
  <1>4. TimerWanted
    BY DEF TimerWanted, under, Calls
  <1> QED BY <1>3, <1>4 DEF SerialInv

\* connect() starts over.
LEMMA ConnectUsbTypes == ASSUME SerialInv, NEW c \in Callers, connectUsb(c) PROVE SerialInv'
  <1> USE DEF SerialInv, connectUsb
  <1>1. SchedulerTypeOK' /\ timer' = FALSE
    <2>1. delay' \in InitialMs..MaxMs /\ attempts' \in 0..MaxAttempts
      BY UsbBounds DEF reset
    <2> QED BY <2>1 DEF reset, SchedulerTypeOK, Uptimes
  <1>2. loops' \in [Ports -> {"none", "reading", "finishing"}]
    BY ReaderTypes DEF SerialTypeOK
  <1>3. /\ opens' \in [Calls -> Waits]
        /\ opens'[Scheduler] = opens[Scheduler]
    <2>1. c \in Calls /\ Scheduler \in Calls \ {c}
      BY DEF Calls
    <2>2. (IF active # NoPort THEN Waiting("teardown", readLoop) ELSE Waiting("picking", NoPort)) \in Waits
      BY WaitingTypes DEF SerialTypeOK
    <2> QED BY <2>1, <2>2, WaitTypes DEF SerialTypeOK
  <1>4. SerialTypeOK'
    <2>1. usbOverlapped' \in BOOLEAN /\ suppressNextReconnect' \in BOOLEAN
      BY DEF usbCalled, SerialTypeOK
    <2> QED BY <1>1, <1>2, <1>3, <2>1 DEF SerialTypeOK
  <1>5. TimerWanted'
    BY <1>1, <1>3 DEF TimerWanted, under
  <1> QED BY <1>4, <1>5

\* A call goes on to pick a port, or picks none.
LEMMA PickingTypes ==
  ASSUME SerialInv, NEW c \in Callers, tornDown(c) \/ pickNone(c)
  PROVE  SerialInv'
  <1> USE DEF SerialInv, tornDown, pickNone
  <1>1. opens' \in [Calls -> Waits] /\ opens'[Scheduler] = opens[Scheduler]
    <2>1. c \in Calls /\ Scheduler \in Calls \ {c}
      BY DEF Calls
    <2> QED BY <2>1, WaitTypes, WaitingTypes DEF SerialTypeOK
  <1>2. SerialTypeOK'
    BY <1>1 DEF SerialTypeOK, SchedulerTypeOK, schedulerVars, UsbStatuses
  <1>3. TimerWanted'
    BY <1>1 DEF TimerWanted, under, schedulerVars, serialEnabled
  <1> QED BY <1>2, <1>3

\* A port is opened, or the browser refuses to.
LEMMA OpeningTypes ==
  ASSUME SerialTypeOK, NEW c \in Calls, NEW p \in Ports, NEW backedOff, startsOpening(c, p, backedOff)
  PROVE  /\ usbStatus' \in {"connecting", "reconnecting"}
         /\ portState' \in [Ports -> {"closed", "opening", "open", "closing"}]
         /\ opens' \in [Calls -> Waits]
         /\ \A d \in Calls \ {c} : opens'[d] = opens[d]
         /\ \/ portState[p] = "closed" /\ portState' = [portState EXCEPT ![p] = "opening"]
               /\ opens'[c] = Waiting("opening", p)
            \/ portState[p] # "closed" /\ UNCHANGED portState
               /\ opens'[c] = Waiting("refused", p)
  <1> USE DEF startsOpening
  <1>1. usbStatus' \in {"connecting", "reconnecting"}
    OBVIOUS
  <1>2. CASE portState[p] = "closed"
    BY <1>1, <1>2, WaitTypes, WaitingTypes DEF SerialTypeOK
  <1>3. CASE portState[p] # "closed"
    BY <1>1, <1>3, WaitTypes, WaitingTypes DEF SerialTypeOK
  <1> QED BY <1>2, <1>3

\* A port is picked.
LEMMA PickTypes ==
  ASSUME SerialInv, NEW c \in Callers, NEW p \in Ports, pickPort(c, p)
  PROVE  SerialInv'
  <1> USE DEF SerialInv, pickPort
  <1>1. c \in Calls /\ Scheduler \in Calls \ {c}
    BY DEF Calls
  <1>2. /\ usbStatus' \in {"connecting", "reconnecting"}
        /\ portState' \in [Ports -> {"closed", "opening", "open", "closing"}]
        /\ opens' \in [Calls -> Waits] /\ opens'[Scheduler] = opens[Scheduler]
    BY <1>1, OpeningTypes
  <1>3. SerialTypeOK'
    BY <1>2 DEF SerialTypeOK, SchedulerTypeOK, schedulerVars, UsbStatuses
  <1>4. TimerWanted'
    BY <1>2 DEF TimerWanted, under, schedulerVars, serialEnabled
  <1> QED BY <1>3, <1>4

\* The timer spends an attempt on the port that was lost.
LEMMA UsbAttemptTypes == ASSUME SerialInv, usbAttempt PROVE SerialInv'
  <1> USE DEF SerialInv, usbAttempt
  <1>1. Scheduler \in Calls /\ target \in Ports /\ timer /\ attempts < MaxAttempts
    BY DEF Calls, TimerWanted, timerFires
  <1>2. /\ usbStatus' \in {"connecting", "reconnecting"}
        /\ portState' \in [Ports -> {"closed", "opening", "open", "closing"}]
        /\ opens' \in [Calls -> Waits]
    BY <1>1, OpeningTypes
  <1>3. SchedulerTypeOK' /\ timer' = FALSE
    <2>1. delay' \in InitialMs..MaxMs
      BY UsbDelayGrows DEF SerialTypeOK, SchedulerTypeOK, timerFires
    <2>2. attempts' \in 0..MaxAttempts
      BY <1>1, UsbBounds DEF SerialTypeOK, SchedulerTypeOK, timerFires
    <2> QED BY <2>1, <2>2 DEF SerialTypeOK, SchedulerTypeOK, timerFires
  <1>4. SerialTypeOK'
    BY <1>2, <1>3 DEF SerialTypeOK, UsbStatuses
  <1>5. TimerWanted'
    BY <1>1, <1>3 DEF TimerWanted
  <1> QED BY <1>4, <1>5

\* What an opening call waits with is a port.
LEMMA OpeningPort ==
  ASSUME SerialTypeOK, NEW c \in Calls, opens[c].step \in {"opening", "refused"}
  PROVE  opens[c].port \in Ports
  BY DEF SerialTypeOK, Waits

\* A port that opened is adopted.
LEMMA OpenedTypes == ASSUME SerialInv, NEW c \in Calls, opened(c) PROVE SerialInv'
  <1> USE DEF SerialInv, opened
  <1>1. opens[c].port \in Ports
    BY OpeningPort
  <1>2. opens' \in [Calls -> Waits] /\ (\A d \in Calls : opens'[d] # NotCalled => opens[d] # NotCalled)
    BY WaitTypes, WaitingTypes DEF SerialTypeOK
  <1>3. SchedulerTypeOK' /\ timer' = timer /\ attempts' = 0
    BY UsbBounds DEF SerialTypeOK, SchedulerTypeOK, noteOpened, Uptimes
  <1>4. SerialTypeOK'
    BY <1>1, <1>2, <1>3 DEF SerialTypeOK, UsbStatuses
  <1>5. TimerWanted'
    BY <1>2, <1>3, UsbBounds DEF TimerWanted, under, serialEnabled, Calls
  <1> QED BY <1>4, <1>5

\* A port that did not open: only the attempt of the scheduler schedules another.
LEMMA OpenFailsTypes == ASSUME SerialInv, NEW c \in Calls, openFails(c) PROVE SerialInv'
  <1> USE DEF SerialInv, openFails
  <1>1. opens[c].port \in Ports /\ under(c)
    BY OpeningPort DEF under, NotCalled, Waiting
  <1>2. opens' \in [Calls -> Waits] /\ (\A d \in Calls : opens'[d] # NotCalled => opens[d] # NotCalled)
    BY WaitTypes, WaitingTypes DEF SerialTypeOK
  <1>3. portState' \in [Ports -> {"closed", "opening", "open", "closing"}]
    BY <1>1 DEF SerialTypeOK
  <1>4. usbStatus' \in UsbStatuses
    BY DEF afterSchedule, UsbStatuses
  <1>5. /\ SchedulerTypeOK' /\ (timer' => serialEnabled' /\ attempts' < MaxAttempts)
        /\ timer' => timer \/ c = Scheduler
    <2>1. CASE c = Scheduler
      BY <2>1, UsbScheduleKeeps DEF SerialTypeOK, SchedulerTypeOK
    <2>2. CASE c # Scheduler
      BY <2>2 DEF SerialTypeOK, SchedulerTypeOK, schedulerVars, TimerWanted, serialEnabled
    <2> QED BY <2>1, <2>2
  <1>6. SerialTypeOK'
    BY <1>2, <1>3, <1>4, <1>5 DEF SerialTypeOK
  <1>7. TimerWanted'
    BY <1>1, <1>2, <1>5 DEF TimerWanted, under, Calls
  <1> QED BY <1>6, <1>7

\* The browser's side of a port moves.
LEMMA DropTypes ==
  ASSUME SerialInv, NEW p \in Ports, portDrops(p) \/ portCloses(p) PROVE SerialInv'
  <1> USE DEF SerialInv, portDrops, portCloses
  <1>1. SerialTypeOK'
    BY ReaderTypes DEF SerialTypeOK, SchedulerTypeOK, schedulerVars
  <1>2. TimerWanted'
    BY DEF TimerWanted, under, schedulerVars, serialEnabled
  <1> QED BY <1>1, <1>2

\* A loop that ends may arm the timer, for its own port.
LEMMA FinishTypes == ASSUME SerialInv, NEW p \in Ports, finishReadLoop(p) PROVE SerialInv'
  <1> USE DEF SerialInv, finishReadLoop
  <1>1. /\ loops' \in [Ports -> {"none", "reading", "finishing"}]
        /\ portState' \in [Ports -> {"closed", "opening", "open", "closing"}]
        /\ suppressNextReconnect' \in BOOLEAN /\ downAfter' \subseteq Ports
    BY DEF SerialTypeOK
  <1>2. CASE isSuperseded(p) \/ suppressNextReconnect
    <2>1. UNCHANGED <<schedulerVars, active, readLoop, target>> /\ usbStatus' \in UsbStatuses
      BY <1>2 DEF SerialTypeOK, UsbStatuses
    <2>2. SerialTypeOK'
      BY <1>1, <2>1 DEF SerialTypeOK, SchedulerTypeOK, schedulerVars
    <2>3. TimerWanted'
      BY <2>1 DEF TimerWanted, under, schedulerVars, serialEnabled
    <2> QED BY <2>2, <2>3
  <1>3. CASE ~(isSuperseded(p) \/ suppressNextReconnect)
    <2>1. lostConnection(p)
      BY <1>3
    <2>2. /\ active' = NoPort /\ readLoop' = NoPort /\ usbStatus' \in UsbStatuses
          /\ target' \in Ports \cup {NoPort}
      BY <2>1 DEF lostConnection, afterSchedule, UsbStatuses, SerialTypeOK
    <2>3. /\ SchedulerTypeOK' /\ (timer' => serialEnabled' /\ attempts' < MaxAttempts)
          /\ timer' => timer \/ target' = p
          /\ target' # p => target' = target
      <3>1. CASE intentional
        BY <2>1, <3>1 DEF lostConnection, SerialTypeOK, SchedulerTypeOK, schedulerVars, TimerWanted,
                          serialEnabled
      <3>2. CASE ~intentional
        <4>1. handleClose(serialEnabled, usbStatus = "connected")
              /\ target' = IF timer' /\ ~timer THEN p ELSE target
          BY <2>1, <3>2 DEF lostConnection
        <4>2. CASE ignoresClose(usbStatus = "connected")
          BY <4>1, <4>2 DEF handleClose, SerialTypeOK, SchedulerTypeOK, TimerWanted, serialEnabled, Uptimes
        <4>3. CASE ~ignoresClose(usbStatus = "connected")
          <5>1. /\ schedule(serialEnabled, timer) /\ openedAt' \in Uptimes
                /\ delay' \in InitialMs..MaxMs
            BY <4>1, <4>3, UsbBounds DEF handleClose, SerialTypeOK, SchedulerTypeOK, Uptimes
          <5> QED BY <4>1, <5>1, UsbScheduleKeeps
        <4> QED BY <4>2, <4>3
      <3> QED BY <3>1, <3>2
    <2>4. SerialTypeOK'
      BY <1>1, <2>2, <2>3 DEF SerialTypeOK
    <2>5. TimerWanted'
      BY <2>2, <2>3 DEF TimerWanted, under
    <2> QED BY <2>4, <2>5
  <1> QED BY <1>2, <1>3

\* disconnect() stops the timer.
LEMMA DisconnectUsbTypes == ASSUME SerialInv, disconnectUsb PROVE SerialInv'
  <1> USE DEF SerialInv, disconnectUsb
  <1>1. loops' \in [Ports -> {"none", "reading", "finishing"}]
    BY ReaderTypes DEF SerialTypeOK
  <1>2. /\ SchedulerTypeOK' /\ timer' = FALSE /\ usbOverlapped' \in BOOLEAN
        /\ usbStatus' \in UsbStatuses /\ downAfter' \subseteq Ports
    BY DEF SerialTypeOK, SchedulerTypeOK, cancel, usbCalled, UsbStatuses
  <1>3. SerialTypeOK'
    BY <1>1, <1>2 DEF SerialTypeOK
  <1>4. TimerWanted'
    BY <1>2 DEF TimerWanted, under
  <1> QED BY <1>3, <1>4

\* Every step keeps the types, and arms no timer the user does not want
\* (webserial-client.ts:90-129, 274-307).
THEOREM SerialStepInv == SerialInv /\ [SerialNext]_serialVars => SerialInv'
  <1> SUFFICES ASSUME SerialInv, [SerialNext]_serialVars PROVE SerialInv'
    OBVIOUS
  <1>1. CASE UNCHANGED serialVars
    BY <1>1 DEF SerialInv, SerialTypeOK, SchedulerTypeOK, TimerWanted, under, serialVars,
                schedulerVars, serialEnabled
  <1>2. CASE usbUptimePasses
    BY <1>2 DEF SerialInv, SerialTypeOK, SchedulerTypeOK, TimerWanted, under, usbUptimePasses,
                uptimePasses, Uptimes, serialEnabled
  <1> QED BY <1>1, <1>2, ConnectUsbTypes, PickingTypes, PickTypes, UsbAttemptTypes, OpenedTypes,
             OpenFailsTypes, DropTypes, FinishTypes, DisconnectUsbTypes DEF SerialNext

-----------------------------------------------------------------------------
(* A caller that waits: one thing is on its way at a time.                 *)

\* A replaced port closes: the call that replaces it waits for its loop, and its
\* close is not to be taken for a drop.
Replaced(p) ==
  /\ suppressNextReconnect /\ loops[p] = "finishing"
  /\ \E c \in Callers : opens[c] = Waiting("teardown", p)

\* One call at a time, and while it is under way the client holds no port.
OneUsbCall == \A c, d \in Calls : under(c) /\ under(d) => c = d

CallAlone(c) ==
  /\ active = NoPort /\ ~timer /\ ~intentional
  /\ opens[c].step \in {"teardown", "picking"} => c \in Callers
  /\ opens[c].step = "teardown" =>
       /\ opens[c].port # NoPort
       /\ loops[opens[c].port] = "finishing" => suppressNextReconnect

CallsAlone == \A c \in Calls : under(c) => CallAlone(c)

\* A loop is that of the port held or of the port being replaced.
LoopsAlone ==
  /\ \A p \in Ports : loops[p] # "none" => p = active \/ Replaced(p)
  /\ suppressNextReconnect => \E p \in Ports : Replaced(p)

OpenIsRead == \A p \in Ports : portState[p] = "open" => loops[p] # "none"

\* What the status says of the port held, and without one.
PortHeld == active # NoPort =>
  /\ loops[active] # "none" /\ usbStatus = "connected" /\ ~timer /\ ~suppressNextReconnect
  /\ intentional => loops[active] = "finishing"

NothingHeld == active = NoPort =>
  /\ usbStatus = "connected" => replacing
  /\ intentional => usbStatus = "disconnected"

Patient ==
  /\ readLoop = active /\ (\A p \in downAfter : p = active /\ intentional)
  /\ OneUsbCall /\ CallsAlone /\ LoopsAlone /\ OpenIsRead /\ PortHeld /\ NothingHeld

PatientInv == SerialInv /\ (~usbOverlapped => Patient)

\* With no call under way nothing is asked of any.
LEMMA NoCallAlone ==
  ASSUME \A c \in Calls : opens[c] = NotCalled
  PROVE  OneUsbCall /\ CallsAlone /\ ~replacing /\ ~tearingDown
  BY DEF OneUsbCall, CallsAlone, under, replacing, tearingDown, Calls, NotCalled, Waiting

\* A new client: nothing was called.
LEMMA InitPatient == SerialInit => PatientInv
  <1> SUFFICES ASSUME SerialInit PROVE PatientInv
    OBVIOUS
  <1> USE DEF SerialInit
  <1>1. OneUsbCall /\ CallsAlone
    BY NoCallAlone
  <1>2. LoopsAlone /\ OpenIsRead /\ PortHeld /\ NothingHeld
    BY DEF LoopsAlone, OpenIsRead, PortHeld, NothingHeld
  <1> QED BY <1>1, <1>2, InitSerialInv DEF Patient, PatientInv

\* When nothing is on its way, no port is being replaced.
LEMMA QuietReplacesNothing ==
  ASSUME SerialTypeOK, Patient, quietUsb
  PROVE  /\ ~suppressNextReconnect
         /\ \A p \in Ports : loops[p] # "none" => p = active /\ loops[p] = "reading"
         /\ \A c \in Calls : ~under(c)
         /\ downAfter = {}
  <1>1. \A p \in Ports : ~Replaced(p)
    BY DEF quietUsb, Replaced
  <1>2. ~suppressNextReconnect
    BY <1>1 DEF Patient, LoopsAlone
  <1>3. ASSUME NEW p \in Ports, loops[p] # "none" PROVE p = active /\ loops[p] = "reading"
    <2>1. loops[p] \in {"reading", "finishing"}
      BY <1>3 DEF SerialTypeOK
    <2> QED BY <1>1, <1>3, <2>1 DEF Patient, LoopsAlone, quietUsb
  <1>4. ASSUME NEW p \in downAfter PROVE FALSE
    <2>1. p = active /\ p \in Ports /\ intentional /\ active # NoPort
      BY DEF Patient, SerialTypeOK
    <2> QED BY <2>1 DEF Patient, PortHeld, quietUsb
  <1> QED BY <1>2, <1>3, <1>4 DEF quietUsb, under

\* connect() lets go of the port it held, and its close is announced.
LEMMA ConnectUsbPatient ==
  ASSUME PatientInv, NEW c \in Callers, connectUsb(c), ~usbOverlapped'
  PROVE  Patient'
  <1> USE DEF PatientInv, SerialInv
  <1>1. Patient /\ quietUsb
    BY DEF connectUsb, usbCalled
  <1>2. /\ ~suppressNextReconnect /\ downAfter = {}
        /\ \A p \in Ports : loops[p] # "none" => p = active /\ loops[p] = "reading"
        /\ \A d \in Calls : opens[d] = NotCalled
    BY <1>1, QuietReplacesNothing DEF under
  <1>3. /\ active' = NoPort /\ readLoop' = NoPort /\ ~intentional' /\ ~timer'
        /\ suppressNextReconnect' = (active # NoPort) /\ downAfter' = {}
        /\ UNCHANGED <<usbStatus, portState>>
    BY <1>1, <1>2 DEF connectUsb, reset, Patient
  <1>4. /\ opens' \in [Calls -> Waits] /\ c \in Calls
        /\ opens'[c] = IF active # NoPort THEN Waiting("teardown", active) ELSE Waiting("picking", NoPort)
        /\ \A d \in Calls \ {c} : opens'[d] = NotCalled
    <2>1. c \in Calls
      BY DEF Calls
    <2> DEFINE w == IF active # NoPort THEN Waiting("teardown", active) ELSE Waiting("picking", NoPort)
    <2>2. w \in Waits /\ opens' = [opens EXCEPT ![c] = w]
      BY <1>1, WaitingTypes DEF SerialTypeOK, connectUsb, Patient
    <2> HIDE DEF w
    <2>3. opens' \in [Calls -> Waits] /\ opens'[c] = w /\ \A d \in Calls \ {c} : opens'[d] = opens[d]
      BY <2>1, <2>2, WaitTypes DEF SerialTypeOK
    <2> QED BY <1>2, <2>1, <2>3 DEF w
  <1>5. /\ active = NoPort => loops' = loops /\ \A p \in Ports : loops[p] = "none"
        /\ active # NoPort => /\ active \in Ports /\ loops'[active] = "finishing"
                              /\ \A p \in Ports \ {active} : loops'[p] = "none"
    <2>1. \A p \in Ports : p # active => loops[p] = "none"
      BY <1>2
    <2>2. active # NoPort => active \in Ports /\ loops[active] = "reading"
      BY <1>1, <1>2 DEF Patient, PortHeld, SerialTypeOK
    <2> QED BY <2>1, <2>2 DEF connectUsb, cancelReader, SerialTypeOK
  <1>6. OneUsbCall'
    BY <1>4 DEF OneUsbCall, under
  <1>7. CallsAlone'
    <2> SUFFICES ASSUME NEW d \in Calls, under(d)' PROVE CallAlone(d)'
      BY DEF CallsAlone
    <2>1. d = c /\ c \in Callers
      BY <1>4 DEF under
    <2>2. opens'[c].step = "teardown" =>
            /\ opens'[c].port = active /\ active # NoPort /\ suppressNextReconnect'
      <3>1. CASE active # NoPort
        <4>1. opens'[c] = Waiting("teardown", active)
          BY <1>4, <3>1
        <4>2. Waiting("teardown", active).port = active
          BY WaitingFields
        <4> QED BY <1>3, <3>1, <4>1, <4>2
      <3>2. CASE active = NoPort
        <4>1. opens'[c] = Waiting("picking", NoPort)
          BY <1>4, <3>2
        <4> QED BY <4>1, WaitingFields
      <3> QED BY <3>1, <3>2
    <2> QED BY <1>3, <2>1, <2>2 DEF CallAlone
  <1>8. LoopsAlone'
    BY <1>3, <1>4, <1>5 DEF LoopsAlone, Replaced
  <1>9. OpenIsRead'
    BY <1>1, <1>2, <1>3, <1>5 DEF Patient, OpenIsRead
  <1>10. PortHeld' /\ NothingHeld'
    <2>1. replacing'
      BY <1>4 DEF replacing, Waiting
    <2> QED BY <1>3, <2>1 DEF PortHeld, NothingHeld
  <1> QED BY <1>3, <1>6, <1>7, <1>8, <1>9, <1>10 DEF Patient

\* The call of a caller is the only one, and the client holds no port meanwhile.
LEMMA CallerAlone ==
  ASSUME SerialTypeOK, Patient, NEW c \in Calls, under(c)
  PROVE  /\ active = NoPort /\ readLoop = NoPort /\ ~timer /\ ~intentional /\ downAfter = {}
         /\ \A d \in Calls \ {c} : ~under(d)
         /\ \A p \in Ports : loops[p] # "none" => opens[c].step = "teardown" /\ opens[c].port = p
         /\ opens[c].step # "teardown" => ~suppressNextReconnect
  <1>1. active = NoPort /\ ~timer /\ ~intentional
    BY DEF Patient, CallsAlone, CallAlone
  <1>2. \A d \in Calls \ {c} : ~under(d)
    BY DEF Patient, OneUsbCall
  <1>3. ASSUME NEW p \in Ports, Replaced(p) PROVE opens[c] = Waiting("teardown", p)
    <2>1. PICK d \in Callers : opens[d] = Waiting("teardown", p)
      BY <1>3 DEF Replaced
    <2>2. d \in Calls /\ under(d)
      BY <2>1 DEF Calls, under, NotCalled, Waiting
    <2> QED BY <1>2, <2>1, <2>2
  <1>4. \A p \in Ports : loops[p] # "none" => Replaced(p)
    BY <1>1 DEF Patient, LoopsAlone
  <1>5. suppressNextReconnect => opens[c].step = "teardown"
    <2> SUFFICES ASSUME suppressNextReconnect PROVE opens[c].step = "teardown"
      OBVIOUS
    <2>1. PICK p \in Ports : Replaced(p)
      BY DEF Patient, LoopsAlone
    <2>2. opens[c] = Waiting("teardown", p)
      BY <1>3, <2>1
    <2> QED BY <2>2, WaitingFields
  <1>6. ASSUME NEW p \in Ports, loops[p] # "none" PROVE opens[c].step = "teardown" /\ opens[c].port = p
    <2>1. opens[c] = Waiting("teardown", p)
      BY <1>3, <1>4, <1>6
    <2> QED BY <2>1, WaitingFields
  <1> QED BY <1>1, <1>2, <1>5, <1>6 DEF Patient

\* The loop of the replaced port has ended: a port is picked.
LEMMA TornDownPatient ==
  ASSUME PatientInv, NEW c \in Callers, tornDown(c), ~usbOverlapped'
  PROVE  Patient'
  <1> USE DEF PatientInv, SerialInv
  <1>1. /\ Patient /\ c \in Calls /\ under(c)
        /\ UNCHANGED <<timer, active, readLoop, usbStatus, intentional,
                       suppressNextReconnect, portState, loops, downAfter>>
    BY DEF tornDown, Calls, under, NotCalled, Waiting, schedulerVars
  <1>2. /\ active = NoPort /\ readLoop = NoPort /\ ~timer /\ ~intentional /\ downAfter = {}
        /\ \A d \in Calls \ {c} : ~under(d)
        /\ \A p \in Ports : loops[p] # "none" => opens[c].port = p
    BY <1>1, CallerAlone
  <1>3. \A p \in Ports : loops[p] = "none"
    BY <1>2 DEF tornDown
  <1>4. ~suppressNextReconnect
    BY <1>1, <1>3 DEF Patient, LoopsAlone, Replaced
  <1>5. /\ opens'[c] = Waiting("picking", NoPort)
        /\ \A d \in Calls \ {c} : opens'[d] = opens[d]
    BY <1>1, WaitTypes, WaitingTypes DEF SerialTypeOK, tornDown
  <1>6. OneUsbCall' /\ CallsAlone'
    BY <1>1, <1>2, <1>5 DEF OneUsbCall, CallsAlone, CallAlone, under, Waiting
  <1>7. LoopsAlone' /\ OpenIsRead'
    BY <1>1, <1>3, <1>4 DEF LoopsAlone, OpenIsRead, Patient
  <1>8. PortHeld' /\ NothingHeld'
    <2>1. replacing'
      BY <1>5 DEF replacing, Waiting
    <2> QED BY <1>1, <1>2, <2>1 DEF PortHeld, NothingHeld
  <1> QED BY <1>1, <1>2, <1>6, <1>7, <1>8 DEF Patient

\* The user picks no port.
LEMMA PickNonePatient ==
  ASSUME PatientInv, NEW c \in Callers, pickNone(c), ~usbOverlapped'
  PROVE  Patient'
  <1> USE DEF PatientInv, SerialInv
  <1>1. /\ Patient /\ c \in Calls /\ under(c)
        /\ UNCHANGED <<timer, active, readLoop, intentional,
                       suppressNextReconnect, portState, loops, downAfter>>
    BY DEF pickNone, Calls, under, NotCalled, Waiting, schedulerVars
  <1>2. /\ active = NoPort /\ readLoop = NoPort /\ downAfter = {} /\ ~suppressNextReconnect
        /\ \A d \in Calls \ {c} : ~under(d)
        /\ \A p \in Ports : loops[p] = "none"
    BY <1>1, CallerAlone DEF pickNone
  <1>3. \A d \in Calls : opens'[d] = NotCalled
    BY <1>1, <1>2, WaitTypes, WaitingTypes DEF SerialTypeOK, pickNone, under
  <1>4. OneUsbCall' /\ CallsAlone'
    BY <1>3 DEF OneUsbCall, CallsAlone, under
  <1>5. LoopsAlone' /\ OpenIsRead'
    BY <1>1, <1>2 DEF LoopsAlone, OpenIsRead, Patient
  <1>6. PortHeld' /\ NothingHeld'
    BY <1>1, <1>2 DEF PortHeld, NothingHeld, pickNone
  <1> QED BY <1>1, <1>2, <1>4, <1>5, <1>6 DEF Patient

\* A port is opened for the only call there is.
LEMMA StartsOpeningPatient ==
  ASSUME SerialTypeOK, NEW c \in Calls, NEW p \in Ports, NEW backedOff, startsOpening(c, p, backedOff),
         active = NoPort, readLoop = NoPort, ~suppressNextReconnect, ~intentional, ~timer',
         downAfter = {}, OpenIsRead,
         \A d \in Calls \ {c} : ~under(d), \A q \in Ports : loops[q] = "none",
         UNCHANGED <<active, readLoop, intentional, suppressNextReconnect, loops, downAfter>>
  PROVE  Patient'
  <1>1. /\ usbStatus' \in {"connecting", "reconnecting"}
        /\ \A d \in Calls \ {c} : opens'[d] = opens[d]
        /\ \/ portState' = [portState EXCEPT ![p] = "opening"] /\ opens'[c] = Waiting("opening", p)
           \/ UNCHANGED portState /\ opens'[c] = Waiting("refused", p)
    BY OpeningTypes
  <1>2. OneUsbCall' /\ CallsAlone'
    <2>1. opens'[c].step \in {"opening", "refused"}
      BY <1>1 DEF Waiting
    <2> QED BY <1>1, <2>1 DEF OneUsbCall, CallsAlone, CallAlone, under
  <1>3. LoopsAlone'
    BY DEF LoopsAlone
  <1>4. OpenIsRead'
    BY <1>1 DEF OpenIsRead, SerialTypeOK
  <1>5. PortHeld' /\ NothingHeld'
    BY <1>1 DEF PortHeld, NothingHeld
  <1> QED BY <1>2, <1>3, <1>4, <1>5 DEF Patient

\* The user picks a port for the only call.
LEMMA PickPatient ==
  ASSUME PatientInv, NEW c \in Callers, NEW p \in Ports, pickPort(c, p), ~usbOverlapped'
  PROVE  Patient'
  <1> USE DEF PatientInv, SerialInv
  <1>1. Patient /\ c \in Calls /\ under(c) /\ timer' = timer
    BY DEF pickPort, Calls, under, NotCalled, Waiting, schedulerVars
  <1>2. /\ active = NoPort /\ readLoop = NoPort /\ ~timer /\ ~intentional /\ downAfter = {}
        /\ \A d \in Calls \ {c} : ~under(d)
        /\ ~suppressNextReconnect /\ \A q \in Ports : loops[q] = "none"
    BY <1>1, CallerAlone DEF pickPort
  <1> QED BY <1>1, <1>2, StartsOpeningPatient DEF pickPort, Patient

\* While a timer runs nothing else is on its way, but for a port that closes.
LEMMA TimerAlone ==
  ASSUME SerialTypeOK, TimerWanted, Patient, timer
  PROVE  /\ active = NoPort /\ readLoop = NoPort /\ ~suppressNextReconnect /\ ~intentional
         /\ downAfter = {}
         /\ \A d \in Calls : ~under(d)
         /\ \A q \in Ports : loops[q] = "none"
  <1>1. active = NoPort /\ ~intentional /\ readLoop = NoPort /\ downAfter = {}
    BY DEF Patient, PortHeld, TimerWanted, serialEnabled
  <1>2. \A d \in Calls : ~under(d)
    BY DEF Patient, CallsAlone, CallAlone
  <1>3. \A q \in Ports : ~Replaced(q)
    BY <1>2 DEF Replaced, under, Calls, NotCalled, Waiting
  <1> QED BY <1>1, <1>2, <1>3 DEF Patient, LoopsAlone

\* The attempt of the scheduler is the only call.
LEMMA UsbAttemptPatient == ASSUME PatientInv, usbAttempt, ~usbOverlapped' PROVE Patient'
  <1> USE DEF PatientInv, SerialInv
  <1>1. Patient /\ timer /\ ~timer' /\ target \in Ports /\ Scheduler \in Calls
    BY DEF usbAttempt, timerFires, TimerWanted, Calls
  <1> QED BY <1>1, TimerAlone, StartsOpeningPatient DEF usbAttempt, Patient

\* The port of the only call is adopted: no other was.
LEMMA OpenedPatient == ASSUME PatientInv, NEW c \in Calls, opened(c), ~usbOverlapped' PROVE Patient'
  <1> USE DEF PatientInv, SerialInv
  <1> DEFINE p == opens[c].port
  <1>1. Patient /\ under(c) /\ p \in Ports /\ opens[c].step = "opening"
    BY OpeningPort DEF opened, under, NotCalled, Waiting
  <1>2. /\ ~timer /\ ~intentional /\ downAfter = {} /\ ~suppressNextReconnect
        /\ \A d \in Calls \ {c} : ~under(d)
        /\ \A q \in Ports : loops[q] = "none"
    BY <1>1, CallerAlone
  <1>3. /\ portState' = [portState EXCEPT ![p] = "open"] /\ loops' = [loops EXCEPT ![p] = "reading"]
        /\ active' = p /\ readLoop' = p /\ usbStatus' = "connected" /\ timer' = timer
        /\ UNCHANGED <<intentional, suppressNextReconnect, downAfter>>
    BY DEF opened, noteOpened
  <1>4. \A d \in Calls : opens'[d] = NotCalled
    BY <1>1, <1>2, WaitTypes, WaitingTypes DEF SerialTypeOK, opened, under
  <1> HIDE DEF p
  <1>5. OneUsbCall' /\ CallsAlone'
    BY <1>4 DEF OneUsbCall, CallsAlone, under
  <1>6. LoopsAlone' /\ OpenIsRead'
    BY <1>1, <1>2, <1>3 DEF LoopsAlone, OpenIsRead, SerialTypeOK, Patient
  <1>7. PortHeld' /\ NothingHeld'
    BY <1>1, <1>2, <1>3 DEF PortHeld, NothingHeld, SerialTypeOK
  <1> QED BY <1>2, <1>3, <1>5, <1>6, <1>7 DEF Patient

\* The port of the only call does not open.
LEMMA OpenFailsPatient ==
  ASSUME PatientInv, NEW c \in Calls, openFails(c), ~usbOverlapped'
  PROVE  Patient'
  <1> USE DEF PatientInv, SerialInv
  <1>1. /\ Patient /\ under(c) /\ opens[c].port \in Ports /\ opens[c].step # "teardown"
        /\ UNCHANGED <<active, readLoop, intentional, suppressNextReconnect, loops, downAfter>>
    BY OpeningPort DEF openFails, under, NotCalled, Waiting
  <1>2. /\ active = NoPort /\ readLoop = NoPort /\ ~intentional /\ downAfter = {} /\ ~suppressNextReconnect
        /\ \A d \in Calls \ {c} : ~under(d)
        /\ \A q \in Ports : loops[q] = "none"
    BY <1>1, CallerAlone
  <1>3. \A d \in Calls : opens'[d] = NotCalled
    BY <1>1, <1>2, WaitTypes, WaitingTypes DEF SerialTypeOK, openFails, under
  <1>4. usbStatus' # "connected"
    BY DEF openFails, afterSchedule
  <1>5. OneUsbCall' /\ CallsAlone'
    BY <1>3 DEF OneUsbCall, CallsAlone, under
  <1>6. OpenIsRead'
    BY <1>1 DEF OpenIsRead, openFails, SerialTypeOK, Patient
  <1>7. LoopsAlone' /\ PortHeld' /\ NothingHeld'
    BY <1>1, <1>2, <1>4 DEF LoopsAlone, PortHeld, NothingHeld
  <1> QED BY <1>1, <1>2, <1>5, <1>6, <1>7 DEF Patient

\* The port the client holds drops: its loop comes to its end.
LEMMA PortDropsPatient ==
  ASSUME PatientInv, NEW p \in Ports, portDrops(p), ~usbOverlapped'
  PROVE  Patient'
  <1> USE DEF PatientInv, SerialInv
  <1>1. /\ Patient /\ loops[p] = "reading" /\ loops' = [loops EXCEPT ![p] = "finishing"] /\ active = p
        /\ UNCHANGED <<schedulerVars, active, readLoop, usbStatus, intentional,
                       suppressNextReconnect, portState, opens, downAfter>>
    BY DEF portDrops, cancelReader, Patient, LoopsAlone, Replaced
  <1>2. ~suppressNextReconnect /\ active # NoPort
    BY <1>1 DEF Patient, PortHeld
  <1>3. OneUsbCall' /\ CallsAlone'
    BY <1>1, <1>2 DEF OneUsbCall, CallsAlone, CallAlone, under, Patient
  <1>4. LoopsAlone' /\ OpenIsRead'
    BY <1>1, <1>2 DEF LoopsAlone, OpenIsRead, Patient, SerialTypeOK, Replaced
  <1>5. PortHeld' /\ NothingHeld'
    BY <1>1, <1>2 DEF PortHeld, NothingHeld, Patient, schedulerVars, SerialTypeOK
  <1> QED BY <1>1, <1>3, <1>4, <1>5 DEF Patient

\* A port that closes was held by nobody.
LEMMA PortClosesPatient ==
  ASSUME PatientInv, NEW p \in Ports, portCloses(p), ~usbOverlapped'
  PROVE  Patient'
  <1> USE DEF PatientInv, SerialInv, portCloses
  <1>1. Patient
    OBVIOUS
  <1>2. OneUsbCall' /\ CallsAlone'
    BY <1>1 DEF OneUsbCall, CallsAlone, CallAlone, under, Patient, schedulerVars
  <1>3. LoopsAlone'
    BY <1>1 DEF LoopsAlone, Replaced, Patient
  <1>4. OpenIsRead'
    BY <1>1 DEF OpenIsRead, Patient, SerialTypeOK
  <1>5. PortHeld' /\ NothingHeld'
    BY <1>1 DEF PortHeld, NothingHeld, Patient, schedulerVars, replacing
  <1> QED BY <1>1, <1>2, <1>3, <1>4, <1>5 DEF Patient

\* A loop ends: that of a port being replaced, or that of the port held.
LEMMA FinishPatient ==
  ASSUME PatientInv, NEW p \in Ports, finishReadLoop(p), ~usbOverlapped'
  PROVE  Patient'
  <1> USE DEF PatientInv, SerialInv
  <1>1. /\ Patient /\ loops[p] = "finishing" /\ loops' = [loops EXCEPT ![p] = "none"]
        /\ UNCHANGED <<intentional, opens>>
    BY DEF finishReadLoop
  <1>2. p = active \/ Replaced(p)
    BY <1>1 DEF Patient, LoopsAlone
  <1>3. CASE Replaced(p)
    <2>1. PICK c \in Callers : opens[c] = Waiting("teardown", p)
      BY <1>3 DEF Replaced
    <2>2. c \in Calls /\ under(c) /\ suppressNextReconnect
      BY <1>3, <2>1 DEF Replaced, Calls, under, NotCalled, Waiting
    <2>3. /\ active = NoPort /\ readLoop = NoPort /\ ~timer /\ ~intentional /\ downAfter = {}
          /\ \A d \in Calls \ {c} : ~under(d)
          /\ \A q \in Ports : loops[q] # "none" => q = p
      BY <1>1, <2>1, <2>2, CallerAlone, WaitingFields
    <2>4. /\ UNCHANGED <<timer, active, readLoop, usbStatus>> /\ ~suppressNextReconnect' /\ downAfter' = {}
          /\ portState' = [portState EXCEPT ![p] = "closing"]
      BY <2>2, <2>3 DEF finishReadLoop, isSuperseded, schedulerVars
    <2>5. \A q \in Ports : loops'[q] = "none"
      BY <1>1, <2>3 DEF SerialTypeOK
    <2>6. OneUsbCall'
      BY <1>1 DEF OneUsbCall, under, Patient
    <2>7. CallsAlone'
      <3> SUFFICES ASSUME NEW d \in Calls, under(d)' PROVE CallAlone(d)'
        BY DEF CallsAlone
      <3>1. d = c
        BY <1>1, <2>3 DEF under
      <3>2. opens'[d].port = p
        BY <1>1, <2>1, <3>1 DEF Waiting
      <3> QED BY <1>1, <2>3, <2>4, <2>5, <3>1, <3>2 DEF CallAlone
    <2>8. LoopsAlone' /\ OpenIsRead'
      BY <1>1, <2>3, <2>4, <2>5 DEF LoopsAlone, OpenIsRead, Patient, SerialTypeOK
    <2>9. PortHeld' /\ NothingHeld'
      <3>1. replacing'
        BY <1>1, <2>1 DEF replacing, Waiting
      <3> QED BY <1>1, <2>3, <2>4, <3>1 DEF PortHeld, NothingHeld
    <2> QED BY <1>1, <2>3, <2>4, <2>6, <2>7, <2>8, <2>9 DEF Patient
  <1>4. CASE p = active
    <2>1. /\ active # NoPort /\ ~suppressNextReconnect /\ ~timer
          /\ \A c \in Calls : ~under(c)
          /\ \A q \in Ports \ {p} : loops[q] = "none"
      BY <1>1, <1>4 DEF Patient, PortHeld, CallsAlone, CallAlone, LoopsAlone, Replaced
    <2>2. lostConnection(p) /\ ~suppressNextReconnect' /\ downAfter' = downAfter \ {p}
          /\ portState' = [portState EXCEPT ![p] = "closing"]
      BY <1>4, <2>1 DEF finishReadLoop, isSuperseded
    <2>3. /\ active' = NoPort /\ readLoop' = NoPort /\ downAfter' = {}
          /\ usbStatus' # "connected" /\ (intentional => usbStatus' = "disconnected")
      BY <1>1, <1>4, <2>2 DEF lostConnection, afterSchedule, Patient
    <2>4. \A q \in Ports : loops'[q] = "none"
      BY <1>1, <2>1 DEF SerialTypeOK
    <2>5. OneUsbCall' /\ CallsAlone'
      BY <1>1, <2>1 DEF OneUsbCall, CallsAlone, under
    <2>6. LoopsAlone' /\ OpenIsRead'
      BY <1>1, <2>1, <2>2, <2>4 DEF LoopsAlone, OpenIsRead, Patient, SerialTypeOK
    <2>7. PortHeld' /\ NothingHeld'
      BY <1>1, <2>3 DEF PortHeld, NothingHeld
    <2> QED BY <2>3, <2>5, <2>6, <2>7 DEF Patient
  <1> QED BY <1>2, <1>3, <1>4

\* disconnect() waits for the loop of the port it holds, if any.
LEMMA DisconnectUsbPatient == ASSUME PatientInv, disconnectUsb, ~usbOverlapped' PROVE Patient'
  <1> USE DEF PatientInv, SerialInv
  <1>1. Patient /\ quietUsb
    BY DEF disconnectUsb, usbCalled
  <1>2. /\ ~suppressNextReconnect /\ downAfter = {}
        /\ \A p \in Ports : loops[p] # "none" => p = active /\ loops[p] = "reading"
        /\ \A d \in Calls : ~under(d)
    BY <1>1, QuietReplacesNothing
  <1>3. /\ intentional' /\ ~timer' /\ cancelReader(active)
        /\ UNCHANGED <<active, readLoop, suppressNextReconnect, portState, opens>>
        /\ readLoop = active
    BY <1>1 DEF disconnectUsb, cancel, Patient
  <1>4. /\ active # NoPort => active \in Ports /\ loops[active] = "reading"
        /\ active = NoPort => loops' = loops /\ usbStatus' = "disconnected" /\ downAfter' = {}
        /\ active # NoPort => /\ loops' = [loops EXCEPT ![active] = "finishing"]
                              /\ usbStatus' = usbStatus /\ downAfter' = {active}
    <2>1. active # NoPort => active \in Ports /\ loops[active] = "reading"
      BY <1>1, <1>2 DEF Patient, PortHeld, SerialTypeOK
    <2> QED BY <1>2, <1>3, <2>1 DEF disconnectUsb, cancelReader
  <1>5. OneUsbCall' /\ CallsAlone'
    BY <1>2, <1>3 DEF OneUsbCall, CallsAlone, under
  <1>6. LoopsAlone' /\ OpenIsRead'
    BY <1>1, <1>2, <1>3, <1>4 DEF LoopsAlone, OpenIsRead, Patient, SerialTypeOK
  <1>7. PortHeld' /\ NothingHeld'
    BY <1>1, <1>2, <1>3, <1>4 DEF PortHeld, NothingHeld, Patient, SerialTypeOK
  <1> QED BY <1>3, <1>4, <1>5, <1>6, <1>7 DEF Patient

\* A step of the scheduler's clock, or none.
LEMMA IdlePatient ==
  ASSUME Patient, UNCHANGED <<timer, active, readLoop, usbStatus, intentional, suppressNextReconnect,
                              portState, loops, opens, downAfter>>
  PROVE  Patient'
  <1>1. OneUsbCall' /\ CallsAlone'
    BY DEF OneUsbCall, CallsAlone, CallAlone, under, Patient
  <1>2. LoopsAlone' /\ OpenIsRead'
    BY DEF LoopsAlone, OpenIsRead, Replaced, Patient
  <1>3. PortHeld' /\ NothingHeld'
    BY DEF PortHeld, NothingHeld, replacing, Patient
  <1> QED BY <1>1, <1>2, <1>3 DEF Patient

\* Every step keeps what a patient caller relies on.
THEOREM SerialPatientStep == PatientInv /\ [SerialNext]_serialVars => PatientInv'
  <1> SUFFICES ASSUME PatientInv, [SerialNext]_serialVars PROVE PatientInv'
    OBVIOUS
  <1>1. SerialInv'
    BY SerialStepInv DEF PatientInv
  <1>2. ASSUME ~usbOverlapped' PROVE Patient'
    <2>1. CASE UNCHANGED serialVars
      BY <1>2, <2>1, IdlePatient DEF serialVars, schedulerVars, PatientInv
    <2>2. CASE usbUptimePasses
      BY <1>2, <2>2, IdlePatient DEF usbUptimePasses, uptimePasses, PatientInv
    <2> QED BY <1>2, <2>1, <2>2, ConnectUsbPatient, TornDownPatient, PickNonePatient, PickPatient,
               UsbAttemptPatient, OpenedPatient, OpenFailsPatient, PortDropsPatient,
               PortClosesPatient, FinishPatient, DisconnectUsbPatient DEF SerialNext
  <1> QED BY <1>1, <1>2 DEF PatientInv

\* The invariant holds throughout (webserial-client.ts).
THEOREM SerialInvariance == SerialSpec => []PatientInv
  BY InitPatient, SerialPatientStep, PTL DEF SerialSpec

\* The types of the client, whoever calls and whenever.
THEOREM SerialTypes == SerialSpec => []SerialInv
  <1>1. PatientInv => SerialInv
    BY DEF PatientInv
  <1> QED BY <1>1, SerialInvariance, PTL

\* For a caller that waits, the status is that of the port.
THEOREM SerialStatusMatchesPort == SerialSpec => []UsbStatusMatchesPort
  <1>1. PatientInv => UsbStatusMatchesPort
    <2> SUFFICES ASSUME PatientInv, ~usbOverlapped
                 PROVE  /\ active # NoPort => usbStatus = "connected" /\ loops[active] # "none"
                        /\ usbStatus = "connected" => active # NoPort \/ replacing
                        /\ (intentional /\ quietUsb) => usbStatus = "disconnected" /\ ~timer
      BY DEF UsbStatusMatchesPort
    <2>1. SerialInv /\ Patient
      BY DEF PatientInv
    <2>2. intentional => ~timer
      BY <2>1 DEF SerialInv, TimerWanted, serialEnabled
    <2>3. intentional /\ quietUsb => active = NoPort
      BY <2>1 DEF Patient, PortHeld, quietUsb, SerialInv, SerialTypeOK
    <2> QED BY <2>1, <2>2, <2>3 DEF Patient, PortHeld, NothingHeld
  <1> QED BY <1>1, SerialInvariance, PTL

\* For a caller that waits, a port that is open is read, and the close a new
\* connection makes is told from a drop.
THEOREM SerialNoPortLeftOpen == SerialSpec => []NoPortLeftOpen
  <1>1. PatientInv => NoPortLeftOpen
    <2> SUFFICES ASSUME PatientInv, ~usbOverlapped
                 PROVE  /\ \A p \in Ports : portState[p] = "open" => loops[p] # "none"
                        /\ suppressNextReconnect => tearingDown
                        /\ tearingDown => ~timer
      BY DEF NoPortLeftOpen
    <2>1. Patient
      BY DEF PatientInv
    <2>2. suppressNextReconnect => tearingDown
      <3> SUFFICES ASSUME suppressNextReconnect PROVE tearingDown
        OBVIOUS
      <3>1. PICK p \in Ports : Replaced(p)
        BY <2>1 DEF Patient, LoopsAlone
      <3>2. PICK c \in Callers : opens[c] = Waiting("teardown", p)
        BY <3>1 DEF Replaced
      <3>3. opens[c].step = "teardown"
        BY <3>2, WaitingFields
      <3> QED BY <3>3 DEF tearingDown
    <2>3. tearingDown => ~timer
      BY <2>1 DEF Patient, CallsAlone, CallAlone, under, tearingDown, Calls, NotCalled, Waiting
    <2> QED BY <2>1, <2>2, <2>3 DEF Patient, OpenIsRead
  <1> QED BY <1>1, SerialInvariance, PTL

-----------------------------------------------------------------------------
(* The stream.                                                             *)

isStream(e) ==
  /\ e \in [1 .. Lines -> Nat]
  /\ \A m, n \in 1 .. Lines : m < n => e[m] < e[n]
  /\ \A n \in 1 .. Lines : e[n] > 0

\* Lines follow each other.
LEMMA StreamsAre ==
  ASSUME NEW e \in Streams
  PROVE  isStream(e)
<1>1. /\ e \in [1 .. Lines -> 1 .. Lines * (MaxLength + 1)]
      /\ \A n \in 1 .. Lines : \A m \in 1 .. n - 1 : e[m] < e[n]
  BY DEF Streams
<1>2. Lines \in Nat /\ Lines * (MaxLength + 1) \in Nat
  BY LineFramerAssumption
<1>3. e \in [1 .. Lines -> Nat] /\ \A n \in 1 .. Lines : e[n] > 0
  <2> DEFINE bound == Lines * (MaxLength + 1)
  <2> HIDE DEF bound
  <2> QED BY <1>1, <1>2 DEF bound
<1>4. \A m, n \in 1 .. Lines : m < n => e[m] < e[n]
  BY <1>1, <1>2
<1> QED BY <1>3, <1>4 DEF isStream

\* A line ends before a later one begins.
LEMMA EndsApart ==
  ASSUME isStream(eols)
  PROVE  /\ \A n \in 0 .. Lines : endOf(n) \in Nat /\ endOf(n) <= endOf(Lines)
         /\ \A n \in 1 .. Lines : endOf(n) = eols[n] /\ endOf(n - 1) < eols[n] /\ endOf(n - 1) \in Nat
         /\ \A m, n \in 1 .. Lines : m < n => eols[m] <= endOf(n - 1)
         /\ \A m, n \in 0 .. Lines : m < n => endOf(m) < endOf(n)
<1>1. Lines \in Nat
  BY LineFramerAssumption
<1>2. \A n \in 1 .. Lines : eols[n] \in Nat /\ eols[n] > 0 /\ endOf(n) = eols[n]
  BY DEF isStream, endOf
<1>3. endOf(0) = 0
  BY DEF endOf
<1>4. \A m, n \in 0 .. Lines : m < n => endOf(m) < endOf(n)
  <2> TAKE m, n \in 0 .. Lines
  <2> HAVE m < n
  <2>1. n \in 1 .. Lines /\ (m = 0 \/ m \in 1 .. Lines)
    BY <1>1
  <2>2. m \in 1 .. Lines => eols[m] < eols[n]
    BY <2>1 DEF isStream
  <2> QED BY <1>2, <1>3, <2>1, <2>2
<1>5. \A n \in 0 .. Lines : endOf(n) \in Nat /\ (n = Lines \/ n < Lines)
  BY <1>1, <1>2, <1>3
<1>6. \A n \in 0 .. Lines : endOf(n) <= endOf(Lines)
  <2> TAKE n \in 0 .. Lines
  <2>1. Lines \in 0 .. Lines
    BY <1>1
  <2> QED BY <1>4, <1>5, <2>1
<1>7. \A n \in 1 .. Lines : n - 1 \in 0 .. Lines /\ n \in 0 .. Lines /\ n - 1 < n
  BY <1>1
<1>8. \A m, n \in 1 .. Lines : m < n => m = n - 1 \/ m < n - 1
  BY <1>1
<1>9. \A m, n \in 1 .. Lines : m < n => eols[m] <= endOf(n - 1)
  BY <1>2, <1>4, <1>5, <1>7, <1>8
<1> QED BY <1>2, <1>4, <1>5, <1>6, <1>7, <1>9

\* What is at a place of the stream.
LEMMA StreamAt ==
  ASSUME isStream(eols)
  PROVE  /\ stream \in Seq(Nat) /\ Len(stream) = endOf(Lines)
         /\ \A i \in 1 .. endOf(Lines) : stream[i] \in Nat
         /\ \A i \in 1 .. endOf(Lines) : stream[i] = NewLine <=> \E n \in 1 .. Lines : i = eols[n]
         /\ \A i \in 1 .. endOf(Lines) :
              stream[i] # NewLine => /\ stream[i] \in 1 .. Lines
                                     /\ endOf(stream[i] - 1) < i /\ i < eols[stream[i]]
         /\ \A n \in 1 .. Lines : \A i \in endOf(n - 1) + 1 .. eols[n] - 1 :
              i \in 1 .. endOf(Lines) /\ stream[i] = n
<1>1. Lines \in Nat
  BY LineFramerAssumption
<1> USE EndsApart
<1>2. ASSUME NEW i \in 1 .. endOf(Lines)
      PROVE  \E n \in 1 .. Lines : endOf(n - 1) < i /\ i <= eols[n]
  <2> DEFINE S == {n \in 1 .. Lines : i <= eols[n]}
  <2>1. S \in SUBSET Nat /\ i \in Nat /\ i > 0
    BY <1>1
  <2>2. S # {}
    <3>1. Lines = 0 => endOf(Lines) = 0
      BY DEF endOf
    <3>2. Lines # 0 => Lines \in 1 .. Lines /\ endOf(Lines) = eols[Lines]
      BY <1>1
    <3> QED BY <1>1, <3>1, <3>2
  <2>3. PICK n \in S : \A m \in S : n <= m
    BY <2>1, <2>2, Least
  <2>4. n = 1 => endOf(n - 1) = 0
    BY DEF endOf
  <2>5. n # 1 => n - 1 \in 1 .. Lines /\ endOf(n - 1) = eols[n - 1] /\ ~(n <= n - 1)
    BY <1>1, <2>3
  <2>6. endOf(n - 1) < i
    <3>1. CASE n = 1
      BY <2>1, <2>4, <3>1
    <3>2. CASE n # 1
      <4>1. n - 1 \notin S
        BY <2>3, <2>5, <3>2
      <4>2. ~(i <= eols[n - 1]) /\ eols[n - 1] \in Nat
        BY <2>5, <3>2, <4>1
      <4> QED BY <2>1, <2>5, <3>2, <4>2
    <3> QED BY <3>1, <3>2
  <2> QED BY <2>3, <2>6
<1>3. ASSUME NEW i \in 1 .. endOf(Lines), NEW n \in 1 .. Lines, endOf(n - 1) < i, i < eols[n]
      PROVE  stream[i] = n
  <2>1. \A m \in 1 .. Lines : m # n => ~(endOf(m - 1) < i /\ i <= eols[m])
    <3> TAKE m \in 1 .. Lines
    <3> HAVE m # n
    <3>1. m < n \/ n < m
      BY <1>1
    <3>2. i \in Nat /\ eols[m] \in Nat /\ eols[n] \in Nat /\ endOf(n - 1) \in Nat /\ endOf(m - 1) \in Nat
      BY DEF isStream
    <3>3. CASE m < n
      <4>1. eols[m] <= endOf(n - 1)
        BY <3>3
      <4> QED BY <1>3, <3>2, <4>1
    <3>4. CASE n < m
      <4>1. eols[n] <= endOf(m - 1)
        BY <3>4
      <4> QED BY <1>3, <3>2, <4>1
    <3> QED BY <3>1, <3>3, <3>4
  <2>2. \A m \in 1 .. Lines : i # eols[m]
    <3> TAKE m \in 1 .. Lines
    <3>1. eols[m] \in Nat /\ endOf(m - 1) < eols[m] /\ i \in Nat
      BY DEF isStream
    <3> QED BY <1>3, <2>1, <3>1
  <2>3. \A m \in 1 .. Lines : (endOf(m - 1) < i /\ i < eols[m]) <=> m = n
    <3> TAKE m \in 1 .. Lines
    <3>1. eols[m] \in Nat /\ i \in Nat
      BY DEF isStream
    <3> QED BY <1>3, <2>1, <3>1
  <2>4. stream[i] = CHOOSE m \in 1 .. Lines : endOf(m - 1) < i /\ i < eols[m]
    BY <2>2 DEF stream
  <2> QED BY <2>3, <2>4
<1>4. ASSUME NEW i \in 1 .. endOf(Lines)
      PROVE  \/ stream[i] = NewLine /\ \E n \in 1 .. Lines : i = eols[n]
             \/ /\ stream[i] \in 1 .. Lines /\ endOf(stream[i] - 1) < i /\ i < eols[stream[i]]
                /\ \A n \in 1 .. Lines : i # eols[n]
  <2>1. CASE \E n \in 1 .. Lines : i = eols[n]
    BY <2>1 DEF stream
  <2>2. CASE \A n \in 1 .. Lines : i # eols[n]
    <3>1. PICK n \in 1 .. Lines : endOf(n - 1) < i /\ i <= eols[n]
      BY <1>2
    <3>2. i < eols[n]
      <4>1. eols[n] \in Nat /\ i \in Nat
        BY DEF isStream
      <4> QED BY <2>2, <3>1, <4>1
    <3>3. stream[i] = n
      BY <1>3, <3>1, <3>2
    <3> QED BY <2>2, <3>1, <3>2, <3>3
  <2> QED BY <2>1, <2>2
<1>5. DOMAIN stream = 1 .. endOf(Lines) /\ stream = [i \in 1 .. endOf(Lines) |-> stream[i]]
  BY DEF stream
<1>6. ASSUME NEW n \in 1 .. Lines, NEW i \in endOf(n - 1) + 1 .. eols[n] - 1
      PROVE  i \in 1 .. endOf(Lines) /\ stream[i] = n
  <2>1. /\ endOf(n - 1) \in Nat /\ eols[n] \in Nat /\ eols[n] <= endOf(Lines)
        /\ endOf(Lines) \in Nat /\ n \in 0 .. Lines
    BY <1>1 DEF isStream
  <2>2. i \in 1 .. endOf(Lines) /\ endOf(n - 1) < i /\ i < eols[n]
    BY <2>1
  <2> QED BY <1>3, <2>2
<1>7. \A n \in 1 .. Lines : n # NewLine /\ n \in Nat
  BY <1>1 DEF NewLine
<1>8. NewLine \in Nat
  BY DEF NewLine
<1>9. stream \in Seq(Nat) /\ Len(stream) = endOf(Lines)
  <2>1. endOf(Lines) \in Nat
    BY <1>1
  <2>2. \A i \in 1 .. endOf(Lines) : stream[i] \in Nat
    BY <1>4, <1>7, <1>8
  <2>3. stream \in [1 .. endOf(Lines) -> Nat]
    BY <1>5, <2>2
  <2> QED BY <2>1, <2>3
<1> QED BY <1>4, <1>6, <1>7, <1>8, <1>9

-----------------------------------------------------------------------------
(* What is cut out of a part of the stream.                                *)

\* A part of a list is as long as it says and has those entries.
LEMMA CutOut ==
  ASSUME NEW chars \in Seq(Nat), NEW a \in Nat, NEW c \in Nat, a <= c, c <= Len(chars)
  PROVE  /\ SubSeq(chars, a + 1, c) \in Seq(Nat) /\ Len(SubSeq(chars, a + 1, c)) = c - a
         /\ \A i \in 1 .. c - a : SubSeq(chars, a + 1, c)[i] = chars[a + i]
<1> DEFINE m == a + 1
           part == SubSeq(chars, m, c)
<1>1. m \in Int /\ c \in Int /\ \A i \in m .. c : chars[i] \in Nat
  <2>1. \A i \in m .. c : i \in 1 .. Len(chars)
    OBVIOUS
  <2> QED BY <2>1
<1>2. /\ c - m + 1 = c - a /\ (IF m <= c THEN c - m + 1 ELSE 0) = c - a
      /\ \A i \in 1 .. c - a : m + i - 1 = a + i
  OBVIOUS
<1> HIDE DEF m
<1>3. /\ part \in Seq(Nat) /\ Len(part) = IF m <= c THEN c - m + 1 ELSE 0
      /\ \A i \in 1 .. c - m + 1 : part[i] = chars[m + i - 1]
  BY <1>1, SubSeqProperties
<1> HIDE DEF part
<1>4. /\ part \in Seq(Nat) /\ Len(part) = c - a
      /\ \A i \in 1 .. c - a : part[i] = chars[a + i]
  BY <1>2, <1>3
<1> QED BY <1>4 DEF part, m

\* The characters are those of the stream after a place.
isPart(chars, from) ==
  /\ chars \in Seq(Nat) /\ from \in Nat /\ from + Len(chars) <= endOf(Lines)
  /\ \A i \in 1 .. Len(chars) : chars[i] = stream[from + i]

\* Its new lines are the ends of lines.
LEMMA NewLinesAre ==
  ASSUME isStream(eols), NEW chars, NEW from, isPart(chars, from)
  PROVE  /\ Len(chars) \in Nat /\ newLines(chars) \in SUBSET (1 .. Len(chars))
         /\ IsFiniteSet(newLines(chars))
         /\ \A i \in 1 .. Len(chars) :
              i \in newLines(chars) <=> \E n \in 1 .. Lines : from + i = eols[n]
<1>1. /\ Len(chars) \in Nat /\ DOMAIN chars = 1 .. Len(chars) /\ from \in Nat
      /\ from + Len(chars) <= endOf(Lines) /\ endOf(Lines) \in Nat
  <2>1. Lines \in 0 .. Lines
    BY LineFramerAssumption
  <2> QED BY <2>1, EndsApart DEF isPart
<1>2. newLines(chars) \in SUBSET (1 .. Len(chars))
  BY <1>1 DEF newLines
<1>3. IsFiniteSet(newLines(chars))
  <2>1. IsFiniteSet(1 .. Len(chars))
    BY <1>1, FS_Interval
  <2> QED BY <1>2, <2>1, FS_Subset
<1>4. ASSUME NEW i \in 1 .. Len(chars)
      PROVE  i \in newLines(chars) <=> \E n \in 1 .. Lines : from + i = eols[n]
  <2>1. from + i \in 1 .. endOf(Lines)
    BY <1>1
  <2>2. i \in newLines(chars) <=> stream[from + i] = NewLine
    BY <1>1 DEF newLines, isPart
  <2> QED BY <2>1, <2>2, StreamAt
<1> QED BY <1>1, <1>2, <1>3, <1>4

\* The new line before a place is the last one there, or the begin of the part.
LEMMA BeforeIs ==
  ASSUME isStream(eols), NEW chars, NEW from, isPart(chars, from), NEW at \in 1 .. Len(chars) + 1
  PROVE  LET b == newLineBefore(chars, at)
         IN /\ b \in newLines(chars) \cup {0} /\ b \in Nat /\ b < at /\ b <= Len(chars)
            /\ \A f \in newLines(chars) : f < at => f <= b
<1> DEFINE good(e) == e < at /\ \A f \in newLines(chars) : f < at => f <= e
           S == {f \in newLines(chars) : f < at}
<1>1. /\ Len(chars) \in Nat /\ newLines(chars) \in SUBSET (1 .. Len(chars)) /\ at \in Nat
  BY NewLinesAre
<1>2. \E e \in newLines(chars) \cup {0} : good(e)
  <2>1. CASE S = {}
    BY <1>1, <2>1
  <2>2. CASE S # {}
    <3>1. S \in SUBSET (1 .. Len(chars))
      BY <1>1
    <3>2. PICK e \in S : \A f \in S : f <= e
      BY <1>1, <2>2, <3>1, Greatest
    <3> QED BY <3>2
  <2> QED BY <2>1, <2>2
<1>3. newLineBefore(chars, at) = CHOOSE e \in newLines(chars) \cup {0} : good(e)
  BY DEF newLineBefore
<1> DEFINE b == newLineBefore(chars, at)
<1>4. b \in newLines(chars) \cup {0} /\ good(b)
  <2> HIDE DEF good
  <2> QED BY <1>2, <1>3
<1> HIDE DEF b
<1> QED BY <1>1, <1>4 DEF b

\* A part whose end is at a new line is cut at whole lines: the line before a new line
\* is whole, unless it had begun before the part.
LEMMA LineIsWhole ==
  ASSUME isStream(eols), NEW chars, NEW from, isPart(chars, from),
         NEW n \in 1 .. Lines, NEW e \in newLines(chars), from + e = eols[n],
         (\E m \in 0 .. Lines : from = endOf(m)) \/ (\E f \in newLines(chars) : f < e)
  PROVE  lineUpTo(chars, e) = wholeLine(n)
<1> DEFINE b == newLineBefore(chars, e)
<1>1. /\ Len(chars) \in Nat /\ newLines(chars) \in SUBSET (1 .. Len(chars)) /\ from \in Nat
      /\ e \in 1 .. Len(chars) /\ Lines \in Nat /\ chars \in Seq(Nat)
  BY NewLinesAre, LineFramerAssumption DEF isPart
<1>2. /\ b \in newLines(chars) \cup {0} /\ b \in Nat /\ b < e
      /\ \A f \in newLines(chars) : f < e => f <= b
  <2>1. e \in 1 .. Len(chars) + 1
    BY <1>1
  <2> QED BY <2>1, BeforeIs
<1> HIDE DEF b
<1>3. \A m \in 1 .. Lines : eols[m] \in Nat /\ endOf(m) = eols[m] /\ endOf(m - 1) \in Nat
  BY EndsApart DEF isStream
<1>4. PICK m \in 0 .. Lines : from + b = endOf(m)
  <2>1. CASE b \in newLines(chars)
    <3>1. PICK m \in 1 .. Lines : from + b = eols[m]
      BY <1>1, <2>1, NewLinesAre
    <3> QED BY <1>1, <1>3, <3>1
  <2>2. CASE b \notin newLines(chars)
    <3>1. b = 0
      BY <1>2, <2>2
    <3>2. ~\E f \in newLines(chars) : f < e
      BY <1>1, <1>2, <3>1
    <3> QED BY <1>1, <3>1, <3>2
  <2> QED BY <2>1, <2>2
<1>5. m = n - 1
  <2>1. endOf(m) < eols[n] /\ endOf(m) \in Nat
    <3>1. from + b < from + e /\ from + b \in Nat
      BY <1>1, <1>2
    <3> QED BY <1>4, <3>1
  <2>2. ~(m >= n)
    <3> SUFFICES ASSUME m >= n PROVE FALSE
      OBVIOUS
    <3>1. m = n \/ n < m
      BY <1>1
    <3>2. n \in 0 .. Lines
      BY <1>1
    <3>3. n < m => endOf(n) < endOf(m)
      BY <3>2, EndsApart
    <3> QED BY <1>3, <2>1, <3>1, <3>3
  <2>3. ~(m < n - 1)
    <3> SUFFICES ASSUME m < n - 1 PROVE FALSE
      OBVIOUS
    <3>1. n - 1 \in 1 .. Lines /\ n - 1 \in 0 .. Lines
      BY <1>1
    <3>2. endOf(m) < eols[n - 1] /\ eols[n - 1] < eols[n] /\ eols[n - 1] \in Nat
      BY <1>3, <3>1, EndsApart
    <3> DEFINE last == eols[n - 1]
               f    == last - from
    <3>3. from + b < last /\ last < from + e /\ last \in Nat
      BY <1>4, <3>2
    <3> HIDE DEF last
    <3>4. f \in 1 .. Len(chars) /\ from + f = last /\ b < f /\ f < e
      BY <1>1, <1>2, <3>3
    <3> HIDE DEF f
    <3>5. f \in newLines(chars)
      BY <3>1, <3>4, NewLinesAre DEF last
    <3> QED BY <1>1, <1>2, <3>4, <3>5
  <2> QED BY <1>1, <2>2, <2>3
<1>6. lineUpTo(chars, e) = [i \in 1 .. e - 1 - b |-> chars[b + i]]
  <2> DEFINE line == SubSeq(chars, b + 1, e - 1)
  <2>1. lineUpTo(chars, e) = line
    BY DEF lineUpTo, b
  <2>2. e - 1 \in Nat /\ b <= e - 1 /\ e - 1 <= Len(chars)
    BY <1>1, <1>2
  <2>3. line \in Seq(Nat) /\ Len(line) = e - 1 - b /\ \A i \in 1 .. e - 1 - b : line[i] = chars[b + i]
    BY <1>1, <1>2, <2>2, CutOut
  <2> HIDE DEF line
  <2>4. line = [i \in 1 .. e - 1 - b |-> line[i]]
    BY <2>3
  <2> QED BY <2>1, <2>3, <2>4
<1>7. e - 1 - b = endOf(n) - endOf(n - 1) - 1
  <2> DEFINE first == endOf(n - 1)
             last  == endOf(n)
  <2>1. from + b = first /\ from + e = last
    BY <1>3, <1>4, <1>5
  <2>2. from \in Nat /\ b \in Nat /\ e \in Nat
    BY <1>1, <1>2
  <2> HIDE DEF first, last
  <2>3. e - 1 - b = last - first - 1
    BY <2>1, <2>2
  <2> QED BY <2>3 DEF first, last
<1>8. \A i \in 1 .. e - 1 - b : chars[b + i] = n
  <2> TAKE i \in 1 .. e - 1 - b
  <2>1. b + i \in 1 .. Len(chars)
    BY <1>1, <1>2
  <2>2. from + (b + i) \in endOf(n - 1) + 1 .. eols[n] - 1
    <3> DEFINE first == endOf(n - 1)
               last  == eols[n]
    <3>1. from + b = first /\ from + e = last
      BY <1>4, <1>5
    <3>2. from \in Nat /\ b \in Nat /\ e \in Nat /\ i \in 1 .. e - 1 - b
      BY <1>1, <1>2
    <3> HIDE DEF first, last
    <3>3. from + (b + i) \in first + 1 .. last - 1
      BY <3>1, <3>2
    <3> QED BY <3>3 DEF first, last
  <2>3. stream[from + (b + i)] = n
    BY <2>2, StreamAt
  <2> QED BY <2>1, <2>3 DEF isPart
<1> DEFINE last == e - 1 - b
<1> HIDE DEF last
<1>9. lineUpTo(chars, e) = [i \in 1 .. last |-> n]
  BY <1>6, <1>8 DEF last
<1> QED BY <1>7, <1>9 DEF wholeLine, last

\* What is left after the last new line has none.
LEMMA RestIs ==
  ASSUME isStream(eols), NEW chars, NEW from, isPart(chars, from)
  PROVE  LET rest == incomplete(chars)
             b    == newLineBefore(chars, Len(chars) + 1)
         IN /\ rest \in Seq(Nat) /\ Len(rest) = Len(chars) - b /\ b \in 0 .. Len(chars)
            /\ \A i \in 1 .. Len(rest) : rest[i] = stream[from + b + i] /\ rest[i] # NewLine
            /\ \A f \in newLines(chars) : f <= b
            /\ b = 0 \/ b \in newLines(chars)
            /\ b = 0 <=> newLines(chars) = {}
<1> DEFINE rest == incomplete(chars)
           b    == newLineBefore(chars, Len(chars) + 1)
<1>1. /\ Len(chars) \in Nat /\ newLines(chars) \in SUBSET (1 .. Len(chars)) /\ from \in Nat
      /\ chars \in Seq(Nat) /\ DOMAIN chars = 1 .. Len(chars)
  <2>1. from \in Nat /\ chars \in Seq(Nat) /\ DOMAIN chars = 1 .. Len(chars)
    BY DEF isPart
  <2> QED BY <2>1, NewLinesAre
<1>2. /\ b \in newLines(chars) \cup {0} /\ b \in Nat /\ b <= Len(chars)
      /\ \A f \in newLines(chars) : f < Len(chars) + 1 => f <= b
  <2>1. Len(chars) + 1 \in 1 .. Len(chars) + 1
    BY <1>1
  <2> QED BY <2>1, BeforeIs
<1>3. rest = SubSeq(chars, b + 1, Len(chars))
  <2>1. rest = SubSeq(chars, b + 1, (Len(chars) + 1) - 1)
    BY DEF incomplete, lineUpTo
  <2> HIDE DEF rest, b
  <2>2. (Len(chars) + 1) - 1 = Len(chars)
    BY <1>1
  <2> QED BY <2>1, <2>2
<1> HIDE DEF rest, b
<1>4. /\ rest \in Seq(Nat) /\ Len(rest) = Len(chars) - b
      /\ \A i \in 1 .. Len(rest) : rest[i] = chars[b + i]
  <2> DEFINE cutOut == SubSeq(chars, b + 1, Len(chars))
  <2>1. Len(chars) <= Len(chars)
    BY <1>1
  <2>2. /\ cutOut \in Seq(Nat) /\ Len(cutOut) = Len(chars) - b
        /\ \A i \in 1 .. Len(chars) - b : cutOut[i] = chars[b + i]
    BY <1>1, <1>2, <2>1, CutOut
  <2> HIDE DEF cutOut
  <2>3. rest = cutOut
    BY <1>3 DEF cutOut
  <2> QED BY <2>2, <2>3
<1>5. \A f \in newLines(chars) : f <= b
  BY <1>1, <1>2
<1>6. \A i \in 1 .. Len(rest) : rest[i] = stream[from + b + i] /\ rest[i] # NewLine
  <2> TAKE i \in 1 .. Len(rest)
  <2>1. b + i \in 1 .. Len(chars) /\ from + (b + i) = from + b + i /\ ~(b + i <= b)
    <3>1. i \in 1 .. Len(chars) - b
      BY <1>4
    <3>2. from \in Nat /\ b \in Nat /\ Len(chars) \in Nat
      BY <1>1, <1>2
    <3> QED BY <3>1, <3>2
  <2>2. b + i \notin newLines(chars)
    BY <1>5, <2>1
  <2>3. chars[b + i] # NewLine
    BY <1>1, <2>1, <2>2 DEF newLines
  <2> QED BY <1>4, <2>1, <2>3 DEF isPart
<1>7. b = 0 <=> newLines(chars) = {}
  BY <1>1, <1>2, <1>5
<1> QED BY <1>2, <1>4, <1>5, <1>6, <1>7 DEF rest, b

\* The lines are given in their order, each once.
LEMMA NthIs ==
  ASSUME NEW at \in SUBSET Nat, IsFiniteSet(at)
  PROVE  /\ Cardinality(at) \in Nat
         /\ \A k \in 1 .. Cardinality(at) : nth(at, k) \in at
         /\ \A j, k \in 1 .. Cardinality(at) : j < k => nth(at, j) < nth(at, k)
         /\ \A e \in at : \E k \in 1 .. Cardinality(at) : nth(at, k) = e
<1> DEFINE below(e) == Cardinality({f \in at : f < e})
           N == Cardinality(at)
<1>1. /\ N \in Nat
      /\ \A d, e \in at : d < e <=> below(d) < below(e)
      /\ \A e \in at : below(e) \in 0 .. N - 1
      /\ \A k \in 0 .. N - 1 : \E e \in at : below(e) = k
  BY Counted
<1>2. \A k : nth(at, k) = CHOOSE e \in at : below(e) = k - 1
  BY DEF nth
<1> HIDE DEF below, N
<1>3. \A k \in 1 .. N : nth(at, k) \in at /\ below(nth(at, k)) = k - 1
  <2> TAKE k \in 1 .. N
  <2>1. k - 1 \in 0 .. N - 1
    BY <1>1
  <2> QED BY <1>1, <1>2, <2>1
<1>4. \A j, k \in 1 .. N : j < k => nth(at, j) < nth(at, k)
  <2> TAKE j, k \in 1 .. N
  <2> HAVE j < k
  <2>1. j - 1 < k - 1
    BY <1>1
  <2> QED BY <1>1, <1>3, <2>1
<1>5. \A e \in at : \E k \in 1 .. N : nth(at, k) = e
  <2> TAKE e \in at
  <2> DEFINE k == below(e) + 1
  <2>1. k \in 1 .. N /\ k - 1 = below(e)
    BY <1>1
  <2>2. nth(at, k) \in at /\ below(nth(at, k)) = below(e)
    BY <1>3, <2>1
  <2>3. ~(nth(at, k) < e) /\ ~(e < nth(at, k))
    <3> HIDE DEF k
    <3>1. below(e) \in Int
      BY <1>1
    <3>2. ~(below(e) < below(e))
      BY <3>1
    <3> QED BY <1>1, <2>2, <3>2
  <2> HIDE DEF k
  <2>4. nth(at, k) \in Int /\ e \in Int
    <3>1. \A d \in at : d \in Int
      OBVIOUS
    <3> QED BY <2>2, <3>1
  <2>5. nth(at, k) = e
    BY <2>3, <2>4
  <2> QED BY <2>1, <2>5
<1> QED BY <1>1, <1>3, <1>4, <1>5 DEF N

-----------------------------------------------------------------------------
(* The invariant.                                                          *)

\* What a line that is not empty is.
isLine(n) == endOf(n - 1) + 1 < eols[n]

\* At a place of the stream, the buffer has what came since the last line ended, but
\* while what is left of a line longer than the buffer is thrown away.
isBuffer(at, chars, resync) ==
  /\ isPart(chars, at - Len(chars)) /\ at \in Nat
  /\ \A i \in 1 .. Len(chars) : chars[i] # NewLine
  /\ resync \in BOOLEAN
  /\ ~resync => \E n \in 0 .. Lines : at - Len(chars) = endOf(n)
  /\ resync => \E n \in 1 .. Lines : /\ endOf(n - 1) <= at - Len(chars) /\ at < eols[n]
                                     /\ MaxChars < eols[n] - endOf(n - 1) - 1

\* What was given up to there.
areGiven(at, lines, lost) ==
  /\ lines \in Seq(Seq(Nat))
  /\ \A i \in 1 .. Len(lines) : \E n \in 1 .. Lines :
       lines[i] = wholeLine(n) /\ isLine(n) /\ eols[n] <= at
  /\ \A i, j \in 1 .. Len(lines) : j < i => lines[j][1] < lines[i][1]
  /\ \A n \in 1 .. Lines :
       Len(wholeLine(n)) \in 1 .. MaxChars /\ eols[n] <= at /\ n \notin lost
         => \E i \in 1 .. Len(lines) : lines[i] = wholeLine(n)

FramerInv ==
  /\ isStream(eols)
  /\ isBuffer(received, buffer, resyncing)
  /\ areGiven(received, delivered, cut)

\* A line is of its own characters.
LEMMA WholeLines ==
  ASSUME isStream(eols), NEW n \in 1 .. Lines
  PROVE  /\ Len(wholeLine(n)) = eols[n] - endOf(n - 1) - 1 /\ Len(wholeLine(n)) \in Nat
         /\ wholeLine(n) \in Seq(Nat)
         /\ wholeLine(n) # <<>> <=> isLine(n)
         /\ isLine(n) => wholeLine(n)[1] = n
         /\ \A i \in 1 .. Len(wholeLine(n)) : wholeLine(n)[i] = n
<1> DEFINE size == eols[n] - endOf(n - 1) - 1
           line == wholeLine(n)
<1>1. /\ endOf(n) = eols[n] /\ eols[n] \in Nat /\ endOf(n - 1) \in Nat /\ endOf(n - 1) < eols[n]
      /\ n \in Nat
  BY EndsApart, LineFramerAssumption DEF isStream
<1>2. size \in Nat /\ (isLine(n) <=> size >= 1)
  BY <1>1 DEF isLine
<1>3. line = [i \in 1 .. size |-> n]
  BY <1>1 DEF wholeLine
<1> HIDE DEF size, line
<1>4. line \in Seq(Nat) /\ Len(line) = size /\ \A i \in 1 .. size : line[i] = n
  BY <1>1, <1>2, <1>3
<1>5. line # <<>> <=> size >= 1
  BY <1>2, <1>4
<1>6. size >= 1 => line[1] = n
  BY <1>2, <1>4
<1> QED BY <1>2, <1>4, <1>5, <1>6 DEF size, line

\* A chunk and the buffer before it are a part of the stream.
LEMMA ChunkIsPart ==
  ASSUME FramerInv, NEW size \in 1 .. endOf(Lines), received + size <= endOf(Lines)
  PROVE  LET chars == buffer \o SubSeq(stream, received + 1, received + size)
             from  == received - Len(buffer)
         IN /\ isPart(chars, from) /\ received \in Nat /\ from + Len(chars) = received + size
            /\ from <= received /\ \A e \in newLines(chars) : received < from + e
<1> DEFINE now   == received + size
           chunk == SubSeq(stream, received + 1, now)
           chars == buffer \o chunk
           from  == received - Len(buffer)
<1>1. /\ isStream(eols) /\ isPart(buffer, from) /\ received \in Nat /\ size \in Nat
      /\ \A i \in 1 .. Len(buffer) : buffer[i] # NewLine
  BY EndsApart DEF FramerInv, isBuffer
<1>2. /\ buffer \in Seq(Nat) /\ Len(buffer) \in Nat /\ from \in Nat
      /\ \A i \in 1 .. Len(buffer) : buffer[i] = stream[from + i]
  BY <1>1 DEF isPart
<1>3. now \in Nat /\ received <= now /\ now <= Len(stream) /\ stream \in Seq(Nat)
  BY <1>1, StreamAt
<1> HIDE DEF now
<1>4. /\ chunk \in Seq(Nat) /\ Len(chunk) = now - received
      /\ \A i \in 1 .. now - received : chunk[i] = stream[received + i]
  BY <1>1, <1>3, CutOut
<1>5. now - received = size
  BY <1>1 DEF now
<1> HIDE DEF chunk
<1>6. /\ chars \in Seq(Nat) /\ Len(chars) = Len(buffer) + size
      /\ \A i \in 1 .. Len(buffer) + size :
           chars[i] = IF i <= Len(buffer) THEN buffer[i] ELSE chunk[i - Len(buffer)]
  <2>1. Len(chunk) = size /\ chunk \in Seq(Nat) /\ buffer \in Seq(Nat)
    BY <1>2, <1>4, <1>5
  <2>2. /\ chars \in Seq(Nat) /\ Len(chars) = Len(buffer) + Len(chunk)
        /\ \A i \in 1 .. Len(buffer) + Len(chunk) :
             chars[i] = IF i <= Len(buffer) THEN buffer[i] ELSE chunk[i - Len(buffer)]
    BY <2>1, ConcatProperties
  <2> HIDE DEF chars
  <2> QED BY <2>1, <2>2
<1>7. ASSUME NEW i \in 1 .. Len(buffer) + size
      PROVE  chars[i] = stream[from + i]
  <2>1. CASE i <= Len(buffer)
    BY <1>2, <1>6, <2>1
  <2>2. CASE ~(i <= Len(buffer))
    <3>1. i - Len(buffer) \in 1 .. now - received /\ received + (i - Len(buffer)) = from + i
      BY <1>1, <1>2, <1>5, <2>2
    <3> QED BY <1>4, <1>6, <2>2, <3>1
  <2> QED BY <2>1, <2>2
<1>8. from + Len(chars) = received + size
  BY <1>1, <1>2, <1>6
<1>9. isPart(chars, from)
  BY <1>2, <1>6, <1>7, <1>8 DEF isPart
<1>10. \A e \in newLines(chars) : received < from + e
  <2> TAKE e \in newLines(chars)
  <2>1. e \in 1 .. Len(buffer) + size /\ chars[e] = NewLine
    BY <1>6 DEF newLines
  <2>2. ~(e <= Len(buffer))
    BY <1>1, <1>2, <1>6, <2>1
  <2> QED BY <1>1, <1>2, <2>1, <2>2
<1>11. from <= received
  BY <1>1, <1>2
<1> QED BY <1>1, <1>8, <1>9, <1>10, <1>11 DEF now, chunk

\* What drain() leaves is the buffer at the end of the part.
LEMMA DrainLeavesBuffer ==
  ASSUME isStream(eols), NEW chars, NEW from, isPart(chars, from), NEW at \in Nat,
         resyncing \in BOOLEAN, from <= at, at <= from + Len(chars),
         \A e \in newLines(chars) : at < from + e,
         ~resyncing => \E n \in 0 .. Lines : from = endOf(n),
         resyncing => \E n \in 1 .. Lines : /\ endOf(n - 1) <= from /\ at < eols[n]
                                            /\ MaxChars < eols[n] - endOf(n - 1) - 1,
         drain(chars)
  PROVE  isBuffer(from + Len(chars), buffer', resyncing')
<1> DEFINE now  == from + Len(chars)
           rest == incomplete(chars)
           b    == newLineBefore(chars, Len(chars) + 1)
<1>1. /\ Len(chars) \in Nat /\ from \in Nat /\ now \in Nat /\ now <= endOf(Lines)
      /\ MaxChars \in Nat /\ Lines \in Nat /\ endOf(Lines) \in Nat
  <2>1. from \in Nat /\ now <= endOf(Lines)
    BY DEF isPart
  <2>2. Lines \in Nat /\ MaxChars \in Nat /\ Lines \in 0 .. Lines
    BY LineFramerAssumption
  <2> QED BY <2>1, <2>2, NewLinesAre, EndsApart
<1>2. /\ rest \in Seq(Nat) /\ Len(rest) = Len(chars) - b /\ b \in 0 .. Len(chars)
      /\ \A i \in 1 .. Len(rest) : rest[i] = stream[from + b + i] /\ rest[i] # NewLine
      /\ \A f \in newLines(chars) : f <= b
      /\ b = 0 \/ b \in newLines(chars)
      /\ b = 0 <=> newLines(chars) = {}
  BY RestIs
<1>3. /\ buffer' = IF Len(rest) > MaxChars THEN <<>> ELSE rest
      /\ resyncing' = (Len(rest) > MaxChars \/ (resyncing /\ newLines(chars) = {}))
  BY DEF drain
<1> HIDE DEF rest, b
<1>4. \A n \in 1 .. Lines : eols[n] \in Nat /\ endOf(n - 1) \in Nat /\ endOf(n) = eols[n]
  BY EndsApart DEF isStream
\* No line ends after the last new line of the part and before its end.
<1>5. ASSUME NEW n \in 1 .. Lines, from + b < eols[n], eols[n] <= now
      PROVE  FALSE
  <2> DEFINE e == eols[n] - from
  <2>1. e \in 1 .. Len(chars) /\ from + e = eols[n] /\ ~(e <= b)
    <3> DEFINE last == eols[n]
    <3>1. last \in Nat /\ from + b < last /\ last <= from + Len(chars) /\ b \in Nat
      BY <1>2, <1>4, <1>5
    <3>2. from \in Nat /\ Len(chars) \in Nat
      BY <1>1
    <3> HIDE DEF last
    <3>3. last - from \in 1 .. Len(chars) /\ from + (last - from) = last /\ ~(last - from <= b)
      BY <3>1, <3>2
    <3> QED BY <3>3 DEF last
  <2> HIDE DEF e
  <2>2. e \in newLines(chars)
    BY <2>1, NewLinesAre
  <2> QED BY <1>2, <2>1, <2>2
<1>6. CASE Len(rest) > MaxChars
  <2>1. buffer' = <<>> /\ resyncing' = TRUE
    BY <1>3, <1>6
  <2>2. Len(rest) \in 1 .. Len(rest) /\ from + b + Len(rest) = now
    BY <1>1, <1>2, <1>6
  <2>3. stream[now] # NewLine /\ now \in 1 .. endOf(Lines)
    <3>1. stream[from + b + Len(rest)] # NewLine
      BY <1>2, <2>2
    <3>2. now > 0
      BY <1>1, <1>2, <2>2
    <3> HIDE DEF now
    <3> QED BY <1>1, <2>2, <3>1, <3>2
  <2>4. PICK n \in 1 .. Lines : endOf(n - 1) < now /\ now < eols[n]
    BY <2>3, StreamAt
  <2>5. endOf(n - 1) <= from + b
    <3>1. CASE n = 1
      <4>1. endOf(n - 1) = 0
        BY <3>1 DEF endOf
      <4> QED BY <1>1, <1>2, <4>1
    <3>2. CASE n # 1
      <4>1. n - 1 \in 1 .. Lines /\ endOf(n - 1) = eols[n - 1] /\ eols[n - 1] \in Nat
        BY <1>1, <1>4, <3>2
      <4>2. ~(from + b < eols[n - 1])
        BY <1>1, <1>5, <2>4, <4>1
      <4> QED BY <1>1, <1>2, <4>1, <4>2
    <3> QED BY <3>1, <3>2
  <2>6. /\ endOf(n - 1) <= now /\ now < eols[n] /\ MaxChars < eols[n] - endOf(n - 1) - 1
    <3> DEFINE first == endOf(n - 1)
               last  == eols[n]
               size  == Len(rest)
    <3>1. /\ first \in Nat /\ last \in Nat /\ size \in Nat /\ b \in Nat
          /\ from \in Nat /\ MaxChars \in Nat
      <4>1. first \in Nat /\ last \in Nat
        BY <1>4
      <4>2. size \in Nat /\ b \in Nat
        BY <1>2, <2>2
      <4> QED BY <1>1, <4>1, <4>2
    <3>2. first <= from + b /\ now < last /\ from + b + size = now /\ size > MaxChars
      BY <1>6, <2>2, <2>4, <2>5
    <3> HIDE DEF first, last, size, now
    <3>3. first <= now /\ now < last /\ MaxChars < last - first - 1
      BY <1>1, <3>1, <3>2
    <3> QED BY <3>3 DEF first, last
  <2>7. isPart(<<>>, now) /\ Len(<<>>) = 0 /\ now - 0 = now
    BY <1>1 DEF isPart
  <2>8. \E m \in 1 .. Lines : /\ endOf(m - 1) <= now /\ now < eols[m]
                              /\ MaxChars < eols[m] - endOf(m - 1) - 1
    BY <2>6
  <2>9. isPart(<<>>, now - Len(<<>>)) /\ now - Len(<<>>) = now
    BY <2>7
  <2> HIDE DEF now
  <2>10. isBuffer(now, <<>>, TRUE)
    BY <1>1, <2>7, <2>8, <2>9 DEF isBuffer
  <2> QED BY <2>1, <2>10 DEF now
<1>7. CASE ~(Len(rest) > MaxChars)
  <2>1. buffer' = rest /\ resyncing' = (resyncing /\ newLines(chars) = {})
    BY <1>3, <1>7
  <2>2. now - Len(rest) = from + b /\ from + b \in Nat /\ from + b + Len(rest) = now
    BY <1>1, <1>2
  <2>3. isPart(rest, from + b)
    BY <1>1, <1>2, <2>2 DEF isPart
  <2>4. ~resyncing' => \E n \in 0 .. Lines : from + b = endOf(n)
    <3>1. CASE newLines(chars) = {}
      <4>1. b = 0 /\ from + b = from
        BY <1>1, <1>2, <3>1
      <4> QED BY <2>1, <3>1, <4>1
    <3>2. CASE newLines(chars) # {}
      <4>1. b \in newLines(chars) /\ b \in 1 .. Len(chars)
        BY <1>1, <1>2, <3>2
      <4>2. PICK n \in 1 .. Lines : from + b = eols[n]
        BY <4>1, NewLinesAre
      <4> QED BY <1>1, <1>4, <4>2
    <3> QED BY <3>1, <3>2
  <2>5. resyncing' => \E n \in 1 .. Lines : /\ endOf(n - 1) <= from + b /\ now < eols[n]
                                            /\ MaxChars < eols[n] - endOf(n - 1) - 1
    <3> SUFFICES ASSUME resyncing, newLines(chars) = {}
                 PROVE  \E n \in 1 .. Lines : /\ endOf(n - 1) <= from + b /\ now < eols[n]
                                              /\ MaxChars < eols[n] - endOf(n - 1) - 1
      BY <2>1
    <3>1. b = 0 /\ from + b = from
      BY <1>1, <1>2
    <3>2. PICK n \in 1 .. Lines : /\ endOf(n - 1) <= from /\ at < eols[n]
                                  /\ MaxChars < eols[n] - endOf(n - 1) - 1
      OBVIOUS
    <3>3. now < eols[n]
      <4>1. from + b < eols[n] /\ eols[n] \in Nat
        <5>1. eols[n] \in Nat
          BY <1>4
        <5> QED BY <1>1, <3>1, <3>2, <5>1
      <4>2. ~(eols[n] <= now)
        BY <1>5, <4>1
      <4> QED BY <1>1, <4>1, <4>2
    <3> QED BY <3>1, <3>2, <3>3
  <2>6. resyncing' \in BOOLEAN
    BY <2>1
  <2>7. \A i \in 1 .. Len(rest) : rest[i] # NewLine
    BY <1>2
  <2> HIDE DEF now
  <2>8. isBuffer(now, rest, resyncing')
    BY <1>1, <2>2, <2>3, <2>4, <2>5, <2>6, <2>7 DEF isBuffer
  <2> QED BY <2>1, <2>8 DEF now
<1> QED BY <1>6, <1>7

\* What drain() gives are the lines that end in the part, whole and in order.
LEMMA DrainGives ==
  ASSUME isStream(eols), NEW chars, NEW from, isPart(chars, from), NEW at \in Nat,
         resyncing \in BOOLEAN,
         \A e \in newLines(chars) : at < from + e,
         ~resyncing => \E n \in 0 .. Lines : from = endOf(n),
         resyncing => \E n \in 1 .. Lines : /\ endOf(n - 1) <= from /\ at < eols[n]
                                            /\ MaxChars < eols[n] - endOf(n - 1) - 1,
         from <= at
  PROVE  LET news == linesEndedAt(chars, notEmpty(chars, dropResyncRemnant(chars)))
             now  == from + Len(chars)
         IN /\ news \in Seq(Seq(Nat))
            /\ \A k \in 1 .. Len(news) : \E n \in 1 .. Lines :
                 news[k] = wholeLine(n) /\ isLine(n) /\ at < eols[n] /\ eols[n] <= now
            /\ \A j, k \in 1 .. Len(news) : j < k => news[j][1] < news[k][1]
            /\ \A n \in 1 .. Lines :
                 Len(wholeLine(n)) \in 1 .. MaxChars /\ at < eols[n] /\ eols[n] <= now
                   => \E k \in 1 .. Len(news) : news[k] = wholeLine(n)
<1> DEFINE kept == notEmpty(chars, dropResyncRemnant(chars))
           news == linesEndedAt(chars, kept)
           now  == from + Len(chars)
           size == Cardinality(kept)
<1>1. /\ Len(chars) \in Nat /\ from \in Nat /\ now \in Nat /\ Lines \in Nat /\ MaxChars \in Nat
      /\ newLines(chars) \in SUBSET (1 .. Len(chars)) /\ IsFiniteSet(newLines(chars))
  <2>1. from \in Nat
    BY DEF isPart
  <2> QED BY <2>1, NewLinesAre, LineFramerAssumption
<1>2. \A n \in 1 .. Lines : eols[n] \in Nat /\ endOf(n - 1) \in Nat /\ endOf(n) = eols[n]
  BY EndsApart DEF isStream
<1>3. \A e : e \in kept <=> /\ e \in newLines(chars) /\ lineUpTo(chars, e) # <<>>
                            /\ resyncing => \E f \in newLines(chars) : f < e
  BY DEF notEmpty, dropResyncRemnant
<1> HIDE DEF kept
<1>4. kept \in SUBSET Nat /\ IsFiniteSet(kept)
  <2>1. kept \subseteq newLines(chars)
    BY <1>3
  <2>2. IsFiniteSet(kept)
    BY <1>1, <2>1, FS_Subset
  <2> QED BY <1>1, <2>1, <2>2
<1>5. /\ size \in Nat
      /\ \A k \in 1 .. size : nth(kept, k) \in kept
      /\ \A j, k \in 1 .. size : j < k => nth(kept, j) < nth(kept, k)
      /\ \A e \in kept : \E k \in 1 .. size : nth(kept, k) = e
  BY <1>4, NthIs
<1> HIDE DEF size
<1>6. news = [k \in 1 .. size |-> lineUpTo(chars, nth(kept, k))]
  BY DEF linesEndedAt, size
\* Each of them is the line that ends there.
<1>7. ASSUME NEW e \in kept
      PROVE  \E n \in 1 .. Lines :
               /\ from + e = eols[n] /\ lineUpTo(chars, e) = wholeLine(n) /\ isLine(n)
               /\ at < eols[n] /\ eols[n] <= now
  <2>1. /\ e \in newLines(chars) /\ e \in 1 .. Len(chars) /\ lineUpTo(chars, e) # <<>>
        /\ resyncing => \E f \in newLines(chars) : f < e
    BY <1>1, <1>3
  <2>2. PICK n \in 1 .. Lines : from + e = eols[n]
    BY <2>1, NewLinesAre
  <2>3. lineUpTo(chars, e) = wholeLine(n)
    BY <2>1, <2>2, LineIsWhole
  <2>4. isLine(n)
    BY <2>1, <2>3, WholeLines
  <2>5. at < eols[n] /\ eols[n] <= now
    BY <1>1, <2>1, <2>2
  <2> QED BY <2>2, <2>3, <2>4, <2>5
<1>8. ASSUME NEW k \in 1 .. size
      PROVE  \E n \in 1 .. Lines :
               /\ from + nth(kept, k) = eols[n] /\ news[k] = wholeLine(n) /\ isLine(n)
               /\ at < eols[n] /\ eols[n] <= now
  <2>1. nth(kept, k) \in kept /\ news[k] = lineUpTo(chars, nth(kept, k))
    BY <1>5, <1>6
  <2> QED BY <1>7, <2>1
<1>9. news \in Seq(Seq(Nat)) /\ Len(news) = size
  <2>1. \A k \in 1 .. size : news[k] \in Seq(Nat)
    BY <1>8, WholeLines
  <2>2. news = [k \in 1 .. size |-> news[k]]
    BY <1>6
  <2> HIDE DEF news
  <2>3. news \in [1 .. size -> Seq(Nat)]
    BY <2>1, <2>2
  <2> QED BY <1>5, <2>3
<1> HIDE DEF news
<1>10. ASSUME NEW j \in 1 .. size, NEW k \in 1 .. size, j < k
       PROVE  news[j][1] < news[k][1]
  <2>1. PICK m \in 1 .. Lines :
          from + nth(kept, j) = eols[m] /\ news[j] = wholeLine(m) /\ isLine(m)
    BY <1>8
  <2>2. PICK n \in 1 .. Lines :
          from + nth(kept, k) = eols[n] /\ news[k] = wholeLine(n) /\ isLine(n)
    BY <1>8
  <2>3. eols[m] < eols[n]
    <3>1. /\ nth(kept, j) < nth(kept, k) /\ nth(kept, j) \in kept /\ nth(kept, k) \in kept
      BY <1>5, <1>10
    <3>2. nth(kept, j) \in Nat /\ nth(kept, k) \in Nat
      BY <1>4, <3>1
    <3> QED BY <1>1, <2>1, <2>2, <3>1, <3>2
  <2>4. m < n
    <3>1. ~(n < m) /\ m # n
      BY <1>2, <2>3 DEF isStream
    <3> QED BY <1>1, <3>1
  <2>5. news[j][1] = m /\ news[k][1] = n
    BY <2>1, <2>2, WholeLines
  <2> QED BY <2>4, <2>5
<1>11. ASSUME NEW n \in 1 .. Lines, Len(wholeLine(n)) \in 1 .. MaxChars, at < eols[n], eols[n] <= now
       PROVE  \E k \in 1 .. size : news[k] = wholeLine(n)
  <2> DEFINE e == eols[n] - from
  <2>1. e \in 1 .. Len(chars) /\ from + e = eols[n]
    BY <1>1, <1>2, <1>11
  <2> HIDE DEF e
  <2>2. e \in newLines(chars)
    BY <2>1, NewLinesAre
  <2>3. resyncing => \E f \in newLines(chars) : f < e
    <3> SUFFICES ASSUME resyncing PROVE \E f \in newLines(chars) : f < e
      OBVIOUS
    <3>1. PICK m \in 1 .. Lines : /\ endOf(m - 1) <= from /\ at < eols[m]
                                  /\ MaxChars < eols[m] - endOf(m - 1) - 1
      OBVIOUS
    <3>2. m # n
      <4>1. ~(MaxChars < Len(wholeLine(n)))
        BY <1>1, <1>11
      <4>2. Len(wholeLine(n)) = eols[n] - endOf(n - 1) - 1
        BY WholeLines
      <4> QED BY <3>1, <4>1, <4>2
    <3>3. ~(n < m)
      <4> SUFFICES ASSUME n < m PROVE FALSE
        OBVIOUS
      <4> DEFINE last  == eols[n]
                 first == endOf(m - 1)
      <4>1. last <= first
        BY EndsApart
      <4>2. last \in Nat /\ first \in Nat /\ at < last /\ first <= from /\ from <= at
        BY <1>2, <1>11, <3>1
      <4> HIDE DEF last, first
      <4> QED BY <1>1, <4>1, <4>2
    <3>4. m < n
      BY <1>1, <3>2, <3>3
    <3>5. eols[m] < eols[n]
      BY <3>4 DEF isStream
    <3> DEFINE f == eols[m] - from
    <3>6. f \in 1 .. Len(chars) /\ from + f = eols[m] /\ f < e
      <4> DEFINE last == eols[m]
      <4>1. last \in Nat /\ at < last /\ last < from + e
        BY <1>2, <2>1, <3>1, <3>5
      <4> HIDE DEF last
      <4>2. last - from \in 1 .. Len(chars) /\ from + (last - from) = last /\ last - from < e
        BY <1>1, <2>1, <4>1
      <4> QED BY <4>2 DEF last
    <3> HIDE DEF f
    <3>7. f \in newLines(chars)
      BY <3>6, NewLinesAre
    <3> QED BY <3>6, <3>7
  <2>4. lineUpTo(chars, e) = wholeLine(n)
    BY <2>1, <2>2, <2>3, LineIsWhole
  <2>5. wholeLine(n) # <<>>
    BY <1>11
  <2>6. e \in kept
    BY <1>3, <2>2, <2>3, <2>4, <2>5
  <2>7. PICK k \in 1 .. size : nth(kept, k) = e
    BY <1>5, <2>6
  <2>8. news[k] = wholeLine(n)
    BY <1>6, <2>4, <2>7
  <2> QED BY <2>8
<1> QED BY <1>8, <1>9, <1>10, <1>11 DEF news, kept

\* What is given goes to the end of what was given.
LEMMA GivenAppended ==
  ASSUME isStream(eols), NEW at \in Nat, NEW now \in Nat, at <= now, NEW lines, NEW lost,
         areGiven(at, lines, lost),
         NEW news \in Seq(Seq(Nat)),
         \A k \in 1 .. Len(news) : \E n \in 1 .. Lines :
           news[k] = wholeLine(n) /\ isLine(n) /\ at < eols[n] /\ eols[n] <= now,
         \A j, k \in 1 .. Len(news) : j < k => news[j][1] < news[k][1],
         \A n \in 1 .. Lines :
           Len(wholeLine(n)) \in 1 .. MaxChars /\ at < eols[n] /\ eols[n] <= now
             => \E k \in 1 .. Len(news) : news[k] = wholeLine(n)
  PROVE  areGiven(now, lines \o news, lost)
<1> DEFINE all == lines \o news
<1>1. lines \in Seq(Seq(Nat)) /\ Len(lines) \in Nat /\ Len(news) \in Nat /\ Lines \in Nat
  BY LineFramerAssumption DEF areGiven
<1>2. /\ all \in Seq(Seq(Nat)) /\ Len(all) = Len(lines) + Len(news)
      /\ \A i \in 1 .. Len(lines) + Len(news) :
           all[i] = IF i <= Len(lines) THEN lines[i] ELSE news[i - Len(lines)]
  BY <1>1, ConcatProperties
<1> HIDE DEF all
<1>3. /\ \A i \in 1 .. Len(lines) : i \in 1 .. Len(all) /\ all[i] = lines[i]
      /\ \A k \in 1 .. Len(news) : Len(lines) + k \in 1 .. Len(all) /\ all[Len(lines) + k] = news[k]
  <2>1. \A k \in 1 .. Len(news) : /\ Len(lines) + k \in 1 .. Len(lines) + Len(news)
                                  /\ ~(Len(lines) + k <= Len(lines))
                                  /\ (Len(lines) + k) - Len(lines) = k
    BY <1>1
  <2>2. \A i \in 1 .. Len(lines) : i \in 1 .. Len(lines) + Len(news) /\ i <= Len(lines)
    BY <1>1
  <2> QED BY <1>2, <2>1, <2>2
<1>4. \A i \in 1 .. Len(all) : \/ i \in 1 .. Len(lines) /\ all[i] = lines[i]
                               \/ /\ i - Len(lines) \in 1 .. Len(news)
                                  /\ all[i] = news[i - Len(lines)] /\ Len(lines) < i
  <2> TAKE i \in 1 .. Len(all)
  <2>1. CASE i <= Len(lines)
    BY <1>1, <1>2, <2>1
  <2>2. CASE ~(i <= Len(lines))
    BY <1>1, <1>2, <2>2
  <2> QED BY <2>1, <2>2
<1>5. \A n \in 1 .. Lines : eols[n] \in Nat
  BY DEF isStream
<1>6. ASSUME NEW i \in 1 .. Len(all)
      PROVE  \E n \in 1 .. Lines : all[i] = wholeLine(n) /\ isLine(n) /\ eols[n] <= now
  <2>1. CASE i \in 1 .. Len(lines) /\ all[i] = lines[i]
    <3>1. PICK n \in 1 .. Lines : lines[i] = wholeLine(n) /\ isLine(n) /\ eols[n] <= at
      BY <2>1 DEF areGiven
    <3>2. eols[n] <= now
      BY <1>5, <3>1
    <3> QED BY <2>1, <3>1, <3>2
  <2>2. CASE i - Len(lines) \in 1 .. Len(news) /\ all[i] = news[i - Len(lines)]
    BY <2>2
  <2> QED BY <1>4, <2>1, <2>2
<1>7. ASSUME NEW i \in 1 .. Len(all), NEW j \in 1 .. Len(all), j < i
      PROVE  all[j][1] < all[i][1]
  <2>1. CASE i \in 1 .. Len(lines)
    <3>1. j \in 1 .. Len(lines)
      BY <1>1, <1>7, <2>1
    <3> QED BY <1>3, <1>7, <2>1, <3>1 DEF areGiven
  <2>2. CASE i \notin 1 .. Len(lines) /\ j \in 1 .. Len(lines)
    <3>1. all[j] = lines[j] /\ i - Len(lines) \in 1 .. Len(news) /\ all[i] = news[i - Len(lines)]
      BY <1>3, <1>4, <2>2
    <3>2. PICK m \in 1 .. Lines : lines[j] = wholeLine(m) /\ isLine(m) /\ eols[m] <= at
      BY <2>2 DEF areGiven
    <3>3. PICK n \in 1 .. Lines : all[i] = wholeLine(n) /\ isLine(n) /\ at < eols[n]
      <4>1. PICK n \in 1 .. Lines :
              news[i - Len(lines)] = wholeLine(n) /\ isLine(n) /\ at < eols[n]
        BY <3>1
      <4> HIDE DEF all
      <4> QED BY <3>1, <4>1
    <3>4. m < n
      <4>1. eols[m] < eols[n] /\ eols[m] \in Nat /\ eols[n] \in Nat
        BY <1>5, <3>2, <3>3
      <4>2. ~(n < m) /\ m # n
        BY <4>1 DEF isStream
      <4> QED BY <1>1, <4>2
    <3>5. all[j][1] = m /\ all[i][1] = n
      BY <3>1, <3>2, <3>3, WholeLines
    <3> QED BY <3>4, <3>5
  <2>3. CASE i \notin 1 .. Len(lines) /\ j \notin 1 .. Len(lines)
    <3>1. /\ i - Len(lines) \in 1 .. Len(news) /\ all[i] = news[i - Len(lines)]
          /\ j - Len(lines) \in 1 .. Len(news) /\ all[j] = news[j - Len(lines)]
      BY <1>4, <2>3
    <3>2. j - Len(lines) < i - Len(lines)
      BY <1>1, <1>2, <1>7
    <3> QED BY <3>1, <3>2
  <2> QED BY <2>1, <2>2, <2>3
<1>8. ASSUME NEW n \in 1 .. Lines, Len(wholeLine(n)) \in 1 .. MaxChars, eols[n] <= now, n \notin lost
      PROVE  \E i \in 1 .. Len(all) : all[i] = wholeLine(n)
  <2>1. CASE eols[n] <= at
    <3>1. PICK i \in 1 .. Len(lines) : lines[i] = wholeLine(n)
      BY <1>8, <2>1 DEF areGiven
    <3> QED BY <1>3, <3>1
  <2>2. CASE at < eols[n]
    <3>1. PICK k \in 1 .. Len(news) : news[k] = wholeLine(n)
      BY <1>8, <2>2
    <3> QED BY <1>3, <3>1
  <2> QED BY <1>5, <2>1, <2>2
<1> QED BY <1>2, <1>6, <1>7, <1>8 DEF areGiven, all

\* While the stream is the same, what is said of it is.
LEMMA SameStream ==
  ASSUME eols' = eols
  PROVE  /\ isBuffer(received, buffer, resyncing)' <=> isBuffer(received', buffer', resyncing')
         /\ areGiven(received, delivered, cut)' <=> areGiven(received', delivered', cut')
<1>1. \A n : endOf(n)' = endOf(n)
  BY DEF endOf
<1>2. stream' = stream
  BY DEF stream, endOf
<1>3. \A n : wholeLine(n)' = wholeLine(n)
  BY <1>1 DEF wholeLine
<1> QED BY <1>1, <1>2, <1>3 DEF isBuffer, isPart, areGiven, isLine

\* A chunk keeps the invariant.
LEMMA PushKeepsFramer ==
  ASSUME FramerInv, NEW size \in 1 .. endOf(Lines), push(size)
  PROVE  FramerInv'
<1> DEFINE chars == buffer \o SubSeq(stream, received + 1, received + size)
           from  == received - Len(buffer)
           now   == received + size
           news  == linesEndedAt(chars, notEmpty(chars, dropResyncRemnant(chars)))
<1>1. /\ now <= endOf(Lines) /\ received' = now /\ drain(chars)
      /\ eols' = eols /\ cut' = cut
  BY DEF push
<1>2. /\ isPart(chars, from) /\ received \in Nat /\ from + Len(chars) = now /\ from <= received
      /\ \A e \in newLines(chars) : received < from + e
  BY <1>1, ChunkIsPart
<1>3. received <= now /\ now \in Nat /\ size \in Nat
  <2>1. size \in Nat /\ 0 <= size
    OBVIOUS
  <2> QED BY <1>2, <2>1
<1>4. delivered' = delivered \o news
  BY <1>1 DEF drain
<1>5. /\ isStream(eols) /\ resyncing \in BOOLEAN
      /\ ~resyncing => \E n \in 0 .. Lines : from = endOf(n)
      /\ resyncing => \E n \in 1 .. Lines : /\ endOf(n - 1) <= from /\ received < eols[n]
                                            /\ MaxChars < eols[n] - endOf(n - 1) - 1
      /\ areGiven(received, delivered, cut)
  BY DEF FramerInv, isBuffer
<1> HIDE DEF chars, from, now
<1>6. isBuffer(now, buffer', resyncing')
  BY <1>1, <1>2, <1>3, <1>5, DrainLeavesBuffer
<1>7. areGiven(now, delivered \o news, cut)
  <2>1. /\ news \in Seq(Seq(Nat))
        /\ \A k \in 1 .. Len(news) : \E n \in 1 .. Lines :
             news[k] = wholeLine(n) /\ isLine(n) /\ received < eols[n] /\ eols[n] <= now
        /\ \A j, k \in 1 .. Len(news) : j < k => news[j][1] < news[k][1]
        /\ \A n \in 1 .. Lines :
             Len(wholeLine(n)) \in 1 .. MaxChars /\ received < eols[n] /\ eols[n] <= now
               => \E k \in 1 .. Len(news) : news[k] = wholeLine(n)
    <3> DEFINE end == from + Len(chars)
    <3>1. /\ news \in Seq(Seq(Nat))
          /\ \A k \in 1 .. Len(news) : \E n \in 1 .. Lines :
               news[k] = wholeLine(n) /\ isLine(n) /\ received < eols[n] /\ eols[n] <= end
          /\ \A j, k \in 1 .. Len(news) : j < k => news[j][1] < news[k][1]
          /\ \A n \in 1 .. Lines :
               Len(wholeLine(n)) \in 1 .. MaxChars /\ received < eols[n] /\ eols[n] <= end
                 => \E k \in 1 .. Len(news) : news[k] = wholeLine(n)
      BY <1>2, <1>5, DrainGives
    <3> HIDE DEF end, news
    <3>2. end = now
      BY <1>2 DEF end
    <3> QED BY <3>1, <3>2
  <2> HIDE DEF news
  <2> QED BY <1>2, <1>3, <1>5, <2>1, GivenAppended
<1>8. isStream(eols') /\ isBuffer(received', buffer', resyncing') /\ areGiven(received', delivered', cut')
  BY <1>1, <1>4, <1>5, <1>6, <1>7
<1> QED BY <1>1, <1>8, SameStream DEF FramerInv

\* So does a link that comes back.
LEMMA RelinkKeepsFramer ==
  ASSUME FramerInv, relink
  PROVE  FramerInv'
<1> DEFINE n == stream[received]
<1>1. /\ received # 0 /\ n # NewLine /\ received' = eols[n] /\ cut' = cut \cup {n}
      /\ buffer' = <<>> /\ resyncing' = FALSE /\ eols' = eols /\ delivered' = delivered
  BY DEF relink
<1>2. /\ isStream(eols) /\ areGiven(received, delivered, cut) /\ received \in Nat
      /\ received <= endOf(Lines) /\ endOf(Lines) \in Nat
  <2>1. isStream(eols) /\ isBuffer(received, buffer, resyncing) /\ areGiven(received, delivered, cut)
    BY DEF FramerInv
  <2>2. /\ received \in Nat /\ Len(buffer) \in Nat
        /\ (received - Len(buffer)) + Len(buffer) <= endOf(Lines)
    BY <2>1 DEF isBuffer, isPart
  <2>3. Lines \in 0 .. Lines
    BY LineFramerAssumption
  <2> QED BY <2>1, <2>2, <2>3, EndsApart
<1>3. n \in 1 .. Lines /\ endOf(n - 1) < received /\ received < eols[n]
  BY <1>1, <1>2, StreamAt
<1> HIDE DEF n
<1>4. eols[n] \in Nat /\ eols[n] <= endOf(Lines) /\ endOf(n) = eols[n] /\ n \in 0 .. Lines
  BY <1>2, <1>3, EndsApart DEF isStream
<1>5. isBuffer(eols[n], <<>>, FALSE)
  <2>1. eols[n] - Len(<<>>) = eols[n] /\ Len(<<>>) = 0
    BY <1>4
  <2>2. isPart(<<>>, eols[n])
    BY <1>4 DEF isPart
  <2>3. \E m \in 0 .. Lines : eols[n] - Len(<<>>) = endOf(m)
    BY <1>4, <2>1
  <2> QED BY <1>4, <2>1, <2>2, <2>3 DEF isBuffer
<1>6. areGiven(eols[n], delivered, cut \cup {n})
  <2>1. \A m \in 1 .. Lines : eols[m] \in Nat
    BY <1>2 DEF isStream
  <2>2. \A m \in 1 .. Lines : eols[m] <= received => eols[m] <= eols[n]
    BY <1>2, <1>3, <1>4, <2>1
  <2>3. \A m \in 1 .. Lines : eols[m] <= eols[n] /\ m # n => eols[m] <= received
    <3> TAKE m \in 1 .. Lines
    <3> HAVE eols[m] <= eols[n] /\ m # n
    <3>1. m < n
      <4>1. ~(n < m)
        BY <1>2, <1>3, <1>4, <2>1 DEF isStream
      <4> QED BY <1>3, <4>1, LineFramerAssumption
    <3>2. eols[m] <= endOf(n - 1) /\ endOf(n - 1) \in Nat
      BY <1>2, <1>3, <3>1, EndsApart
    <3> QED BY <1>2, <1>3, <2>1, <3>2
  <2> QED BY <1>2, <2>2, <2>3 DEF areGiven
<1>7. isStream(eols') /\ isBuffer(received', buffer', resyncing') /\ areGiven(received', delivered', cut')
  BY <1>1, <1>2, <1>5, <1>6
<1> QED BY <1>1, <1>7, SameStream DEF FramerInv

\* At the begin of a stream nothing was given.
LEMMA BeginsFramed == isStream(eols) => isBuffer(0, <<>>, FALSE) /\ areGiven(0, <<>>, {})
<1> SUFFICES ASSUME isStream(eols) PROVE isBuffer(0, <<>>, FALSE) /\ areGiven(0, <<>>, {})
  OBVIOUS
<1>1. Lines \in Nat /\ endOf(0) = 0 /\ 0 \in 0 .. Lines
  BY LineFramerAssumption DEF endOf
<1>2. endOf(Lines) \in Nat /\ Lines \in 0 .. Lines
  BY <1>1, EndsApart
<1>3. Len(<<>>) = 0 /\ 0 - Len(<<>>) = 0 /\ <<>> \in Seq(Nat) /\ <<>> \in Seq(Seq(Nat))
  <2>1. Len(<<>>) = 0 /\ <<>> \in Seq(Nat)
    OBVIOUS
  <2>2. <<>> \in Seq(Seq(Nat))
    BY EmptySeq
  <2>3. \A i \in Nat : i - Len(<<>>) = i
    BY <2>1
  <2>4. 0 - Len(<<>>) = 0
    BY <2>3
  <2> QED BY <2>1, <2>2, <2>4
<1>4. isPart(<<>>, 0)
  BY <1>2, <1>3 DEF isPart
<1>5. isBuffer(0, <<>>, FALSE)
  BY <1>1, <1>3, <1>4 DEF isBuffer
<1>6. \A n \in 1 .. Lines : ~(eols[n] <= 0)
  BY DEF isStream
<1>7. areGiven(0, <<>>, {})
  BY <1>3, <1>6 DEF areGiven
<1> QED BY <1>5, <1>7

\* In every state the buffer and what was given are those of the stream so far.
THEOREM SerialFramerInvariant == LineFramerSpec => []FramerInv
<1>1. LineFramerInit => FramerInv
  BY StreamsAre, BeginsFramed DEF LineFramerInit, FramerInv
<1>2. (isStream(eols) => isBuffer(0, <<>>, FALSE) /\ areGiven(0, <<>>, {}))'
  BY BeginsFramed, PTL
<1>3. FramerInv /\ [LineFramerNext]_lineFramerVars => FramerInv'
  <2> SUFFICES ASSUME FramerInv, [LineFramerNext]_lineFramerVars PROVE FramerInv'
    OBVIOUS
  <2>1. CASE UNCHANGED lineFramerVars
    <3>1. /\ eols' = eols /\ received' = received /\ buffer' = buffer
          /\ resyncing' = resyncing /\ delivered' = delivered /\ cut' = cut
      BY <2>1 DEF lineFramerVars
    <3>2. isStream(eols') /\ isBuffer(received', buffer', resyncing')
          /\ areGiven(received', delivered', cut')
      BY <3>1 DEF FramerInv
    <3> QED BY <3>1, <3>2, SameStream DEF FramerInv
  <2>2. CASE streamAgain
    <3>1. eols' \in Streams /\ received' = 0 /\ buffer' = <<>> /\ resyncing' = FALSE
          /\ delivered' = <<>> /\ cut' = {}
      BY <2>2 DEF streamAgain
    <3>2. isStream(eols')
      BY <3>1, StreamsAre
    <3> QED BY <1>2, <3>1, <3>2 DEF FramerInv, isBuffer, areGiven
  <2> QED BY <2>1, <2>2, PushKeepsFramer, RelinkKeepsFramer DEF LineFramerNext
<1> QED BY <1>1, <1>3, PTL DEF LineFramerSpec

\* Always: what the framer gives are lines the dash sent, each whole, once and in order,
\* and none that fits the buffer is lost that the link carried to its end.
THEOREM SerialLinesAreWhole == LineFramerSpec => []LinesAreWhole
<1>1. FramerInv => LinesAreWhole
  <2> SUFFICES ASSUME FramerInv PROVE LinesAreWhole
    OBVIOUS
  <2>1. isStream(eols) /\ areGiven(received, delivered, cut)
    BY DEF FramerInv
  <2>2. /\ DOMAIN delivered = 1 .. Len(delivered) /\ Len(delivered) \in Nat
        /\ \A i \in 1 .. Len(delivered) : \E n \in 1 .. Lines :
             delivered[i] = wholeLine(n) /\ isLine(n)
        /\ \A i, j \in 1 .. Len(delivered) : j < i => delivered[j][1] < delivered[i][1]
    BY <2>1 DEF areGiven
  <2>3. \A i \in DOMAIN delivered : delivered[i] = wholeLine(delivered[i][1])
    BY <2>1, <2>2, WholeLines
  <2>4. \A i \in DOMAIN delivered : \A j \in 1 .. i - 1 : delivered[j][1] < delivered[i][1]
    <3> TAKE i \in DOMAIN delivered
    <3> TAKE j \in 1 .. i - 1
    <3>1. i \in 1 .. Len(delivered) /\ j \in 1 .. Len(delivered) /\ j < i
      BY <2>2
    <3> QED BY <2>2, <3>1
  <2>5. ASSUME NEW n \in 1 .. Lines,
               Len(wholeLine(n)) \in 1 .. MaxChars, eols[n] <= received, n \notin cut
        PROVE  \E i \in DOMAIN delivered : delivered[i][1] = n
    <3>1. PICK i \in 1 .. Len(delivered) : delivered[i] = wholeLine(n)
      BY <2>1, <2>5 DEF areGiven
    <3>2. wholeLine(n) # <<>>
      BY <2>5
    <3>3. wholeLine(n)[1] = n
      BY <2>1, <3>2, WholeLines
    <3> QED BY <2>2, <3>1, <3>3
  <2> QED BY <2>3, <2>4, <2>5 DEF LinesAreWhole
<1> QED BY <1>1, SerialFramerInvariant, PTL
=============================================================================
