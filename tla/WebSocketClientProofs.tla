------------------------ MODULE WebSocketClientProofs ------------------------
(***************************************************************************)
(* Proofs about WebSocketClient: its types, the safety properties that     *)
(* hold whenever connect() and disconnect() are called, and those that     *)
(* hold for a caller that waits.                                           *)
(***************************************************************************)
EXTENDS WebSocketClient, TLAPS

USE SocketsAssumption, DropsAssumption

\* The four parameters of the backoff are positive numbers, and the delay has
\* room to grow (reconnect-scheduler.ts:1-4).
LEMMA Bounds ==
  /\ InitialMs \in Nat \ {0} /\ MaxMs \in Nat \ {0}
  /\ Factor \in Nat \ {0} /\ MaxAttempts \in Nat \ {0}
  /\ InitialMs < MaxMs /\ Factor > 1
  BY BackoffAssumption DEF BackoffAssumption

\* The backoff delay stays between its two bounds when an attempt doubles it
\* (ReconnectScheduler, the timer callback).
LEMMA DelayGrows ==
  ASSUME NEW d \in InitialMs..MaxMs
  PROVE  (IF d * Factor < MaxMs THEN d * Factor ELSE MaxMs) \in InitialMs..MaxMs
  <1>1. /\ InitialMs \in Nat /\ MaxMs \in Nat /\ Factor \in Nat /\ d \in Nat
        /\ Factor >= 1 /\ InitialMs <= d /\ InitialMs <= MaxMs
    BY Bounds
  <1>2. d * Factor \in Nat /\ d * Factor >= d
    BY <1>1
  <1> QED BY <1>1, <1>2

\* A new client has no socket, no timer and no command.
THEOREM InitLinkInv == Init => LinkInv
  <1>. SUFFICES ASSUME Init PROVE LinkInv
    OBVIOUS
  <1>. USE DEF Init, SchedulerInit
  <1>1. SchedulerTypeOK
    <2>1. delay \in InitialMs..MaxMs /\ attempts \in 0..MaxAttempts
      BY Bounds
    <2>2. timer \in BOOLEAN /\ openedAt \in Uptimes
      BY DEF Uptimes
    <2> QED BY <2>1, <2>2 DEF SchedulerTypeOK
  <1>2. TypeOK
    <2>1. drops \in 0..MaxDrops
      BY DropsAssumption
    <2>2. /\ socket \in Sockets \cup {NoSocket} /\ opening \in Sockets \cup {NoSocket}
          /\ status \in Statuses /\ lastError \in Errors
      BY DEF Statuses, Errors
    <2>3. intentionalDisconnect \in BOOLEAN /\ commandOut \in BOOLEAN /\ overlapped \in BOOLEAN
      OBVIOUS
    <2>4. /\ sockState \in [Sockets -> {"free", "connecting", "open", "closing"}]
          /\ origin \in [Sockets -> {"connect", "attempt"}]
      OBVIOUS
    <2> QED BY <1>1, <2>1, <2>2, <2>3, <2>4 DEF TypeOK
  <1>3. AdoptedInv /\ NoTimerWhenDown /\ CommandsNeedSocket
    BY DEF AdoptedInv, NoTimerWhenDown, CommandsNeedSocket
  <1> QED BY <1>2, <1>3 DEF LinkInv

\* What a scheduler that is asked to schedule leaves: its types, and a timer
\* only for an owner that wants one and has attempts left.
LEMMA ScheduleKeeps ==
  ASSUME SchedulerTypeOK, NoTimerWhenDown, schedule(enabled, timer),
         delay' \in InitialMs..MaxMs, openedAt' \in Uptimes,
         UNCHANGED intentionalDisconnect
  PROVE  SchedulerTypeOK' /\ NoTimerWhenDown'
  <1>1. /\ timer' = (timer \/ (enabled /\ ~timer /\ attempts < MaxAttempts))
        /\ attempts' = attempts
    BY DEF schedule, schedules
  <1>2. SchedulerTypeOK'
    BY <1>1 DEF SchedulerTypeOK
  <1>3. NoTimerWhenDown'
    BY <1>1 DEF NoTimerWhenDown, enabled
  <1> QED BY <1>2, <1>3

\* A step that leaves the scheduler and the user's intention alone.
LEMMA SchedulerIdle ==
  ASSUME SchedulerTypeOK, NoTimerWhenDown, UNCHANGED <<schedulerVars, intentionalDisconnect>>
  PROVE  SchedulerTypeOK' /\ NoTimerWhenDown'
  <1>1. SchedulerTypeOK'
    BY DEF SchedulerTypeOK, schedulerVars
  <1>2. NoTimerWhenDown'
    BY DEF NoTimerWhenDown, schedulerVars
  <1> QED BY <1>1, <1>2

\* connect() starts over with one socket more, which is not open yet.
LEMMA ConnectStep == ASSUME LinkInv, connect PROVE LinkInv'
  <1>. USE DEF LinkInv, connect
  <1>1. SchedulerTypeOK' /\ NoTimerWhenDown'
    <2>1. delay' \in InitialMs..MaxMs /\ attempts' \in 0..MaxAttempts
      BY Bounds DEF reset
    <2>2. timer' = FALSE /\ timer' \in BOOLEAN /\ openedAt' \in Uptimes
      BY DEF reset, Uptimes
    <2> QED BY <2>1, <2>2 DEF SchedulerTypeOK, NoTimerWhenDown
  <1>2. PICK s \in Sockets : open(s, "connect", FALSE) /\ opening' = s
    OBVIOUS
  <1>3. TypeOK'
    <2>1. drops' \in 0..MaxDrops
      BY DropsAssumption
    <2>2. status' \in Statuses /\ lastError' \in Errors
      BY <1>2 DEF TypeOK, open, setStatus, Statuses
    <2>3. intentionalDisconnect' \in BOOLEAN /\ commandOut' \in BOOLEAN
          /\ overlapped' \in BOOLEAN
      BY DEF TypeOK, called
    <2> QED BY <1>1, <1>2, <2>1, <2>2, <2>3 DEF TypeOK, open
  <1>4. AdoptedInv'
    BY <1>2 DEF TypeOK, AdoptedInv, open
  <1>5. CommandsNeedSocket'
    BY DEF CommandsNeedSocket
  <1> QED BY <1>1, <1>3, <1>4, <1>5

\* disconnect() lets go of the socket, the timer and the commands together.
LEMMA DisconnectStep == ASSUME LinkInv, disconnect PROVE LinkInv'
  <1>. USE DEF LinkInv, disconnect
  <1>1. TypeOK'
    <2>1. overlapped' \in BOOLEAN
      BY DEF called
    <2> QED BY <2>1 DEF TypeOK, SchedulerTypeOK, cancel, setStatus, Statuses
  <1>2. AdoptedInv'
    BY DEF TypeOK, AdoptedInv
  <1>3. NoTimerWhenDown' /\ CommandsNeedSocket'
    BY DEF NoTimerWhenDown, CommandsNeedSocket, cancel
  <1> QED BY <1>1, <1>2, <1>3

\* A reconnect attempt consumes the timer and one of the attempts left.
LEMMA AttemptStep == ASSUME LinkInv, attempt PROVE LinkInv'
  <1>. USE DEF LinkInv, attempt
  <1>1. delay' \in InitialMs..MaxMs
    BY DelayGrows DEF TypeOK, SchedulerTypeOK, timerFires
  <1>2. SchedulerTypeOK' /\ NoTimerWhenDown'
    <2>1. timer /\ attempts \in 0..MaxAttempts /\ attempts < MaxAttempts
      BY DEF TypeOK, SchedulerTypeOK, NoTimerWhenDown, timerFires
    <2>2. attempts' \in 0..MaxAttempts
      BY <2>1, Bounds DEF timerFires
    <2>3. timer' = FALSE /\ timer' \in BOOLEAN /\ openedAt' \in Uptimes
      BY DEF timerFires, TypeOK, SchedulerTypeOK
    <2> QED BY <1>1, <2>2, <2>3 DEF SchedulerTypeOK, NoTimerWhenDown
  <1>3. PICK s \in Sockets : open(s, "attempt", delay' > InitialMs)
    OBVIOUS
  <1>4. TypeOK'
    BY <1>2, <1>3 DEF TypeOK, open, setStatus, Statuses
  <1>5. AdoptedInv'
    BY <1>3 DEF TypeOK, AdoptedInv, open
  <1>6. CommandsNeedSocket'
    BY DEF CommandsNeedSocket
  <1> QED BY <1>2, <1>4, <1>5, <1>6

\* A socket that opens is adopted when there is no other, else closed again.
LEMMA OpensStep == ASSUME LinkInv, NEW s \in Sockets, socketOpens(s) PROVE LinkInv'
  <1>. USE DEF LinkInv, socketOpens
  <1>1. opening' \in Sockets \cup {NoSocket}
    BY DEF TypeOK, forgetOpening
  <1>2. CASE superseded
    <2>1. SchedulerTypeOK' /\ NoTimerWhenDown'
      BY <1>2, SchedulerIdle DEF TypeOK
    <2>2. TypeOK'
      BY <1>1, <1>2, <2>1 DEF TypeOK
    <2>3. AdoptedInv' /\ CommandsNeedSocket'
      BY <1>2 DEF TypeOK, AdoptedInv, CommandsNeedSocket
    <2> QED BY <2>1, <2>2, <2>3
  <1>3. CASE ~superseded
    <2>1. SchedulerTypeOK' /\ NoTimerWhenDown'
      BY <1>3, Bounds DEF TypeOK, SchedulerTypeOK, NoTimerWhenDown, noteOpened, Uptimes
    <2>2. TypeOK'
      BY <1>1, <1>3, <2>1 DEF TypeOK, setStatusError, Statuses, Errors
    <2>3. AdoptedInv'
      BY <1>3 DEF TypeOK, AdoptedInv, superseded
    <2>4. CommandsNeedSocket'
      BY <1>3 DEF CommandsNeedSocket
    <2> QED BY <2>1, <2>2, <2>3, <2>4
  <1> QED BY <1>2, <1>3

\* A socket that fails to open frees its place; an attempt may schedule another.
LEMMA FailsStep == ASSUME LinkInv, NEW s \in Sockets, socketFails(s) PROVE LinkInv'
  <1>. USE DEF LinkInv, socketFails
  <1>1. SchedulerTypeOK' /\ NoTimerWhenDown'
    <2>1. CASE origin[s] = "attempt"
      BY <2>1, ScheduleKeeps DEF TypeOK, SchedulerTypeOK
    <2>2. CASE origin[s] # "attempt"
      BY <2>2, SchedulerIdle DEF TypeOK
    <2> QED BY <2>1, <2>2
  <1>2. status' \in Statuses /\ lastError' \in Errors
    BY DEF setStatusError, Statuses, Errors
  <1>3. TypeOK'
    BY <1>1, <1>2 DEF TypeOK, forgetOpening
  <1>4. AdoptedInv' /\ CommandsNeedSocket'
    BY DEF TypeOK, AdoptedInv, CommandsNeedSocket
  <1> QED BY <1>1, <1>3, <1>4

\* A busy dash takes the socket, the timer and the commands with it.
LEMMA RefusedStep == ASSUME LinkInv, NEW s \in Sockets, socketRefused(s) PROVE LinkInv'
  <1>. USE DEF LinkInv, socketRefused
  <1>1. SchedulerTypeOK' /\ NoTimerWhenDown'
    BY DEF TypeOK, SchedulerTypeOK, NoTimerWhenDown, cancel
  <1>2. TypeOK'
    BY <1>1 DEF TypeOK, setStatusError, Statuses, Errors
  <1>3. AdoptedInv' /\ CommandsNeedSocket'
    BY DEF TypeOK, AdoptedInv, CommandsNeedSocket
  <1> QED BY <1>1, <1>2, <1>3

\* The close of the adopted socket clears it; that of another changes nothing.
LEMMA ClosesStep == ASSUME LinkInv, NEW s \in Sockets, socketCloses(s) PROVE LinkInv'
  <1>. USE DEF LinkInv, socketCloses
  <1>1. CASE socket # s
    <2>1. SchedulerTypeOK' /\ NoTimerWhenDown'
      BY <1>1, SchedulerIdle DEF TypeOK
    <2>2. TypeOK'
      BY <1>1, <2>1 DEF TypeOK
    <2>3. AdoptedInv' /\ CommandsNeedSocket'
      BY <1>1 DEF TypeOK, AdoptedInv, CommandsNeedSocket
    <2> QED BY <2>1, <2>2, <2>3
  <1>2. CASE socket = s
    <2>1. SchedulerTypeOK' /\ NoTimerWhenDown'
      <3>1. CASE UNCHANGED schedulerVars
        BY <3>1, SchedulerIdle DEF TypeOK
      <3>2. CASE handleClose(enabled, TRUE)
        <4>1. ~ignoresClose(TRUE)
          BY DEF ignoresClose
        <4>2. /\ schedule(enabled, timer)
              /\ delay' = IF openedAt = "stable" THEN InitialMs ELSE delay
              /\ openedAt' = "null"
          BY <3>2, <4>1 DEF handleClose
        <4>3. delay' \in InitialMs..MaxMs
          BY <4>2, Bounds DEF TypeOK, SchedulerTypeOK
        <4>4. openedAt' \in Uptimes
          BY <4>2 DEF Uptimes
        <4> QED BY <4>2, <4>3, <4>4, ScheduleKeeps DEF TypeOK
      <3> QED BY <1>2, <3>1, <3>2
    <2>2. status' \in Statuses /\ lastError' \in Errors
      BY <1>2 DEF TypeOK, setStatus, setStatusError, Statuses, Errors
    <2>3. drops' \in 0..MaxDrops
      <3>1. drops \in 0..MaxDrops /\ (drops' = drops \/ drops' = noteDrop)
        BY <1>2 DEF TypeOK
      <3> QED BY <3>1, DropsAssumption DEF noteDrop
    <2>4. TypeOK'
      BY <1>2, <2>1, <2>2, <2>3 DEF TypeOK
    <2>5. AdoptedInv' /\ CommandsNeedSocket'
      BY <1>2 DEF TypeOK, AdoptedInv, CommandsNeedSocket
    <2> QED BY <2>1, <2>4, <2>5
  <1> QED BY <1>1, <1>2

\* Every step of the client keeps the invariant.
THEOREM NextLinkInv == LinkInv /\ [Next]_vars => LinkInv'
  <1>. SUFFICES ASSUME LinkInv, [Next]_vars PROVE LinkInv'
    OBVIOUS
  <1>1. CASE connect
    BY <1>1, ConnectStep
  <1>2. CASE disconnect
    BY <1>2, DisconnectStep
  <1>3. CASE attempt
    BY <1>3, AttemptStep
  <1>4. ASSUME NEW s \in Sockets,
               socketOpens(s) \/ socketFails(s) \/ socketRefused(s) \/ socketCloses(s)
        PROVE  LinkInv'
    BY <1>4, OpensStep, FailsStep, RefusedStep, ClosesStep
  <1>5. CASE dropAges
    BY <1>5 DEF dropAges, LinkInv, TypeOK, SchedulerTypeOK, schedulerVars, clientVars,
                AdoptedInv, NoTimerWhenDown, CommandsNeedSocket
  <1>6. CASE connectionAges
    BY <1>6 DEF connectionAges, uptimePasses, LinkInv, TypeOK, SchedulerTypeOK, Uptimes,
                clientVars, AdoptedInv, NoTimerWhenDown, CommandsNeedSocket
  <1>7. CASE sendCommand
    BY <1>7 DEF sendCommand, canSend, LinkInv, TypeOK, SchedulerTypeOK, schedulerVars,
                clientVars, AdoptedInv, NoTimerWhenDown, CommandsNeedSocket
  <1>8. CASE commandAnswered
    BY <1>8 DEF commandAnswered, LinkInv, TypeOK, SchedulerTypeOK, schedulerVars,
                clientVars, AdoptedInv, NoTimerWhenDown, CommandsNeedSocket
  <1>9. CASE UNCHANGED vars
    BY <1>9 DEF vars, LinkInv, TypeOK, SchedulerTypeOK, schedulerVars, clientVars,
                AdoptedInv, NoTimerWhenDown, CommandsNeedSocket
  <1> QED BY <1>1, <1>2, <1>3, <1>4, <1>5, <1>6, <1>7, <1>8, <1>9 DEF Next

\* The invariant holds of every behaviour of the client.
THEOREM WebSocketClientLinkInv == Spec => []LinkInv
  BY InitLinkInv, NextLinkInv, PTL DEF Spec

\* The variables keep their types, the backoff and the drop count their bounds.
THEOREM WebSocketClientTypeOK == Spec => []TypeOK
  <1>1. LinkInv => TypeOK
    BY DEF LinkInv
  <1> QED BY WebSocketClientLinkInv, <1>1, PTL

\* However many sockets are opening, none stays open beside the adopted one.
THEOREM WebSocketClientNoLeakedSocket == Spec => []NoLeakedSocket
  <1>1. LinkInv => NoLeakedSocket
    BY DEF LinkInv, AdoptedInv, NoLeakedSocket
  <1> QED BY WebSocketClientLinkInv, <1>1, PTL

\* No attempt is scheduled after a deliberate disconnect or past the last one.
THEOREM WebSocketClientNoTimerWhenDown == Spec => []NoTimerWhenDown
  <1>1. LinkInv => NoTimerWhenDown
    BY DEF LinkInv
  <1> QED BY WebSocketClientLinkInv, <1>1, PTL

\* Whatever takes the socket away fails the commands sent over it.
THEOREM WebSocketClientCommandsNeedSocket == Spec => []CommandsNeedSocket
  <1>1. LinkInv => CommandsNeedSocket
    BY DEF LinkInv
  <1> QED BY WebSocketClientLinkInv, <1>1, PTL
-----------------------------------------------------------------------------
\* What a caller that waits can rely on beyond LinkInv.  Its last call found every
\* socket free or open, so that one socket at most is being opened since, while
\* there is no other and no timer; and a socket closes only after disconnect().
OneOpens ==
  \A s, t \in Sockets : sockState[s] = "connecting" /\ sockState[t] = "connecting" => s = t

OpensAlone ==
  (\E s \in Sockets : sockState[s] = "connecting")
    => socket = NoSocket /\ ~timer /\ ~intentionalDisconnect

ClosesAlone ==
  (\E s \in Sockets : sockState[s] = "closing") => socket = NoSocket /\ intentionalDisconnect

TimerAlone == timer => socket = NoSocket

CalmInv ==
  ~overlapped =>
    /\ OneOpens /\ OpensAlone /\ ClosesAlone /\ TimerAlone
    /\ status = "connected" <=> socket # NoSocket
    /\ intentionalDisconnect => status = "disconnected"

\* A new client is down, and quiet.
LEMMA InitCalmInv == Init => CalmInv
  BY DEF Init, SchedulerInit, CalmInv, OneOpens, OpensAlone, ClosesAlone, TimerAlone

\* connect() from quiet sockets opens the only one.
LEMMA ConnectCalm == ASSUME LinkInv, connect PROVE CalmInv'
  <1>. SUFFICES ASSUME ~overlapped' PROVE CalmInv'
    BY DEF CalmInv
  <1>1. PICK s \in Sockets : open(s, "connect", FALSE)
    BY DEF connect
  <1>2. \A t \in Sockets : sockState[t] \in {"free", "open"}
    BY DEF connect, called, quiet
  <1>3. \A t \in Sockets : sockState'[t] = IF t = s THEN "connecting" ELSE sockState[t]
    BY <1>1 DEF open, LinkInv, TypeOK
  <1>4. socket' = NoSocket /\ ~timer' /\ ~intentionalDisconnect' /\ status' = "connecting"
    BY <1>1 DEF connect, reset, open, setStatus
  <1>5. OneOpens' /\ OpensAlone' /\ ClosesAlone' /\ TimerAlone'
    BY <1>2, <1>3, <1>4 DEF OneOpens, OpensAlone, ClosesAlone, TimerAlone
  <1> QED BY <1>4, <1>5 DEF CalmInv

\* disconnect() from quiet sockets leaves one that closes at most.
LEMMA DisconnectCalm == ASSUME LinkInv, disconnect PROVE CalmInv'
  <1>. SUFFICES ASSUME ~overlapped' PROVE CalmInv'
    BY DEF CalmInv
  <1>1. \A t \in Sockets : sockState'[t] \in {"free", "open", "closing"}
    BY DEF disconnect, called, quiet
  <1>2. socket' = NoSocket /\ ~timer' /\ intentionalDisconnect' /\ status' = "disconnected"
    BY DEF disconnect, cancel, setStatus
  <1>3. OneOpens' /\ OpensAlone' /\ ClosesAlone' /\ TimerAlone'
    BY <1>1, <1>2 DEF OneOpens, OpensAlone, ClosesAlone, TimerAlone
  <1> QED BY <1>2, <1>3 DEF CalmInv

\* The timer fires only where nothing is open, opening or closing.
LEMMA AttemptCalm == ASSUME LinkInv, CalmInv, attempt PROVE CalmInv'
  <1>. SUFFICES ASSUME ~overlapped' PROVE CalmInv'
    BY DEF CalmInv
  <1>1. ~overlapped /\ timer /\ ~timer' /\ UNCHANGED <<socket, intentionalDisconnect>>
    BY DEF attempt, timerFires
  <1>2. socket = NoSocket /\ ~intentionalDisconnect
    BY <1>1 DEF CalmInv, TimerAlone, LinkInv, NoTimerWhenDown
  <1>3. \A t \in Sockets : sockState[t] \notin {"connecting", "closing"}
    BY <1>1, <1>2 DEF CalmInv, OpensAlone, ClosesAlone
  <1>4. PICK s \in Sockets : open(s, "attempt", delay' > InitialMs)
    BY DEF attempt
  <1>5. \A t \in Sockets : sockState'[t] = IF t = s THEN "connecting" ELSE sockState[t]
    BY <1>4 DEF open, LinkInv, TypeOK
  <1>6. status' # "connected"
    BY <1>4 DEF open, setStatus
  <1>7. OneOpens' /\ OpensAlone' /\ ClosesAlone' /\ TimerAlone'
    BY <1>1, <1>2, <1>3, <1>5 DEF OneOpens, OpensAlone, ClosesAlone, TimerAlone
  <1> QED BY <1>1, <1>2, <1>6, <1>7 DEF CalmInv

\* The only socket that can open is adopted, as nothing supersedes it.
LEMMA OpensCalm == ASSUME LinkInv, CalmInv, NEW s \in Sockets, socketOpens(s) PROVE CalmInv'
  <1>. SUFFICES ASSUME ~overlapped' PROVE CalmInv'
    BY DEF CalmInv
  <1>1. ~overlapped /\ sockState[s] = "connecting" /\ UNCHANGED intentionalDisconnect
    BY DEF socketOpens
  <1>2. socket = NoSocket /\ ~timer /\ ~intentionalDisconnect
    BY <1>1 DEF CalmInv, OpensAlone
  <1>3. /\ sockState' = [sockState EXCEPT ![s] = "open"]
        /\ socket' = s /\ ~timer' /\ status' = "connected"
    BY <1>2 DEF socketOpens, superseded, noteOpened, setStatusError
  <1>4. \A t \in Sockets : sockState'[t] = IF t = s THEN "open" ELSE sockState[t]
    BY <1>3 DEF LinkInv, TypeOK
  <1>5. \A t \in Sockets : sockState'[t] \notin {"connecting", "closing"}
    BY <1>1, <1>2, <1>4 DEF CalmInv, OneOpens, ClosesAlone
  <1>6. s # NoSocket
    BY SocketsAssumption
  <1>7. OneOpens' /\ OpensAlone' /\ ClosesAlone' /\ TimerAlone'
    BY <1>3, <1>5 DEF OneOpens, OpensAlone, ClosesAlone, TimerAlone
  <1> QED BY <1>1, <1>2, <1>3, <1>6, <1>7 DEF CalmInv

\* What a socket that is freed leaves of the other sockets.
LEMMA FreedCalm ==
  ASSUME LinkInv, CalmInv, ~overlapped, NEW s \in Sockets,
         sockState' = [sockState EXCEPT ![s] = "free"], UNCHANGED intentionalDisconnect,
         socket' \in {socket, NoSocket}, timer' => timer \/ socket' = NoSocket,
         (\E t \in Sockets : t # s /\ sockState[t] = "connecting") => ~timer'
  PROVE  OneOpens' /\ OpensAlone' /\ ClosesAlone' /\ TimerAlone'
  <1>1. \A t \in Sockets : sockState'[t] = IF t = s THEN "free" ELSE sockState[t]
    BY DEF LinkInv, TypeOK
  <1>2. OneOpens' /\ ClosesAlone'
    BY <1>1 DEF CalmInv, OneOpens, ClosesAlone
  <1>3. OpensAlone'
    BY <1>1 DEF CalmInv, OpensAlone
  <1>4. TimerAlone'
    BY DEF CalmInv, TimerAlone
  <1> QED BY <1>2, <1>3, <1>4

\* A socket that fails was the only one: what its failure sets is the status of all.
LEMMA FailsCalm == ASSUME LinkInv, CalmInv, NEW s \in Sockets, socketFails(s) PROVE CalmInv'
  <1>. SUFFICES ASSUME ~overlapped' PROVE CalmInv'
    BY DEF CalmInv
  <1>1. ~overlapped /\ sockState[s] = "connecting" /\ UNCHANGED <<socket, intentionalDisconnect>>
    BY DEF socketFails
  <1>2. socket = NoSocket /\ ~timer /\ ~intentionalDisconnect
    BY <1>1 DEF CalmInv, OpensAlone
  <1>3. \A t \in Sockets : sockState[t] = "connecting" => t = s
    BY <1>1 DEF CalmInv, OneOpens
  <1>4. OneOpens' /\ OpensAlone' /\ ClosesAlone' /\ TimerAlone'
    BY <1>1, <1>2, <1>3, FreedCalm DEF socketFails
  <1>5. status' # "connected"
    BY DEF socketFails, setStatusError
  <1> QED BY <1>1, <1>2, <1>4, <1>5 DEF CalmInv

\* A dash that is busy refuses the adopted socket, or one that closes already.
LEMMA RefusedCalm == ASSUME LinkInv, CalmInv, NEW s \in Sockets, socketRefused(s) PROVE CalmInv'
  <1>. SUFFICES ASSUME ~overlapped' PROVE CalmInv'
    BY DEF CalmInv
  <1>1. /\ ~overlapped /\ sockState[s] \in {"open", "closing"}
        /\ ~timer' /\ UNCHANGED intentionalDisconnect
    BY DEF socketRefused, cancel
  <1>2. socket' = NoSocket
    BY <1>1 DEF socketRefused, LinkInv, AdoptedInv, CalmInv, ClosesAlone
  <1>3. OneOpens' /\ OpensAlone' /\ ClosesAlone' /\ TimerAlone'
    BY <1>1, <1>2, FreedCalm DEF socketRefused
  <1>4. status' = "disconnected"
    BY DEF socketRefused, setStatusError
  <1> QED BY <1>2, <1>3, <1>4 DEF CalmInv

\* The adopted socket drops, or the one that was let go of has closed.
LEMMA ClosesCalm == ASSUME LinkInv, CalmInv, NEW s \in Sockets, socketCloses(s) PROVE CalmInv'
  <1>. SUFFICES ASSUME ~overlapped' PROVE CalmInv'
    BY DEF CalmInv
  <1>1. /\ ~overlapped /\ sockState[s] \in {"open", "closing"}
        /\ sockState' = [sockState EXCEPT ![s] = "free"] /\ UNCHANGED intentionalDisconnect
    BY DEF socketCloses
  <1>2. CASE socket # s
    <2>1. UNCHANGED <<timer, socket, status>>
      BY <1>2 DEF socketCloses, schedulerVars
    <2>2. socket = NoSocket /\ intentionalDisconnect
      BY <1>1, <1>2 DEF LinkInv, AdoptedInv, CalmInv, ClosesAlone
    <2>3. ~timer
      BY <2>2 DEF LinkInv, NoTimerWhenDown
    <2>4. OneOpens' /\ OpensAlone' /\ ClosesAlone' /\ TimerAlone'
      BY <1>1, <2>1, <2>3, FreedCalm
    <2> QED BY <1>1, <2>1, <2>2, <2>4 DEF CalmInv
  <1>3. CASE socket = s
    <2>1. socket' = NoSocket /\ socket # NoSocket
      BY <1>3, SocketsAssumption DEF socketCloses
    <2>2. \A t \in Sockets : sockState[t] # "connecting"
      BY <2>1, <1>1 DEF CalmInv, OpensAlone
    <2>3. OneOpens' /\ OpensAlone' /\ ClosesAlone' /\ TimerAlone'
      BY <1>1, <2>1, <2>2, FreedCalm
    <2>4. status' # "connected" /\ (intentionalDisconnect => status' = "disconnected")
      BY <1>3 DEF socketCloses, setStatus, setStatusError
    <2> QED BY <1>1, <2>1, <2>3, <2>4 DEF CalmInv
  <1> QED BY <1>2, <1>3

\* Every step keeps what a caller that waits can rely on.
THEOREM NextCalmInv == LinkInv /\ CalmInv /\ [Next]_vars => CalmInv'
  <1>. SUFFICES ASSUME LinkInv, CalmInv, [Next]_vars PROVE CalmInv'
    OBVIOUS
  <1>1. ASSUME UNCHANGED <<sockState, socket, timer, intentionalDisconnect, status, overlapped>>
        PROVE  CalmInv'
    BY <1>1 DEF CalmInv, OneOpens, OpensAlone, ClosesAlone, TimerAlone
  <1>2. CASE dropAges \/ connectionAges \/ sendCommand \/ commandAnswered \/ UNCHANGED vars
    BY <1>1, <1>2 DEF dropAges, connectionAges, uptimePasses, sendCommand, commandAnswered,
                      vars, clientVars, schedulerVars
  <1>3. CASE connect \/ disconnect \/ attempt
    BY <1>3, ConnectCalm, DisconnectCalm, AttemptCalm
  <1>4. ASSUME NEW s \in Sockets,
               socketOpens(s) \/ socketFails(s) \/ socketRefused(s) \/ socketCloses(s)
        PROVE  CalmInv'
    BY <1>4, OpensCalm, FailsCalm, RefusedCalm, ClosesCalm
  <1> QED BY <1>2, <1>3, <1>4 DEF Next

\* One socket at a time for a caller that waits, with the status it implies.
THEOREM WebSocketClientCalmInv == Spec => []CalmInv
  BY InitCalmInv, NextCalmInv, WebSocketClientLinkInv, PTL DEF Spec

\* For a caller that waits, "connected" is shown exactly while a socket is adopted.
THEOREM WebSocketClientStatusMatchesSocket == Spec => []StatusMatchesSocket
  <1>1. CalmInv => StatusMatchesSocket
    BY DEF CalmInv, StatusMatchesSocket
  <1> QED BY WebSocketClientCalmInv, <1>1, PTL

\* For a caller that waits, nothing brings a disconnected client back.
THEOREM WebSocketClientStaysDownOnceSettled == Spec => []StaysDownOnceSettled
  <1>1. LinkInv /\ CalmInv => StaysDownOnceSettled
    BY DEF LinkInv, NoTimerWhenDown, CalmInv, StaysDownOnceSettled, StaysDown
  <1> QED BY WebSocketClientLinkInv, WebSocketClientCalmInv, <1>1, PTL
=============================================================================
