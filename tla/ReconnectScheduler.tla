------------------------- MODULE ReconnectScheduler -------------------------
(***************************************************************************)
(* The backoff both clients share (src/src/transport/reconnect-scheduler   *)
(* .ts).  It is a part of its owner: each method is an operator the        *)
(* owner's actions are built from, and the two callbacks into the owner    *)
(* (onScheduled, onExhausted) are the predicates the owner tests.          *)
(***************************************************************************)
EXTENDS Naturals

CONSTANTS
  InitialMs,     \* RECONNECT_INITIAL_MS
  MaxMs,         \* RECONNECT_MAX_MS
  Factor,        \* RECONNECT_FACTOR
  MaxAttempts    \* RECONNECT_MAX_ATTEMPTS

ASSUME BackoffAssumption ==
  /\ {InitialMs, MaxMs, Factor, MaxAttempts} \subseteq Nat \ {0}
  /\ InitialMs < MaxMs /\ Factor > 1

VARIABLES
  timer,       \* is an attempt scheduled?
  delay,       \* how long the next one waits
  attempts,    \* attempts made since a connection last opened
  openedAt     \* "null", or how old the open connection is: "recent" / "stable"

schedulerVars == <<timer, delay, attempts, openedAt>>

Uptimes == {"null", "recent", "stable"}

SchedulerTypeOK ==
  /\ timer \in BOOLEAN
  /\ delay \in InitialMs..MaxMs
  /\ attempts \in 0..MaxAttempts
  /\ openedAt \in Uptimes

SchedulerInit ==
  /\ timer = FALSE
  /\ delay = InitialMs
  /\ attempts = 0
  /\ openedAt = "null"

isBackedOff == delay > InitialMs

reset ==
  /\ timer' = FALSE
  /\ delay' = InitialMs
  /\ attempts' = 0
  /\ openedAt' = "null"

\* The attempts start over with every connection, the delay does not.
noteOpened ==
  /\ openedAt' = "recent"
  /\ attempts' = 0
  /\ UNCHANGED <<timer, delay>>

cancel == timer' = FALSE /\ UNCHANGED <<delay, attempts, openedAt>>

\* STABLE_UPTIME_MS pass on an open connection.
uptimePasses ==
  /\ openedAt = "recent"
  /\ openedAt' = "stable"
  /\ UNCHANGED <<timer, delay, attempts>>

(***************************************************************************)
(* schedule(): enabled() is the owner's; armed is the timer it finds.      *)
(***************************************************************************)
exhausts(enabled, armed) == enabled /\ ~armed /\ attempts >= MaxAttempts
schedules(enabled, armed) == enabled /\ ~armed /\ attempts < MaxAttempts

\* Faulted schedule: no timer is armed.
scheduleNothing(enabled, armed) == UNCHANGED <<timer, attempts>>

schedule(enabled, armed) ==
  /\ timer' = (armed \/ schedules(enabled, armed))
  /\ UNCHANGED attempts

\* handleClose() for a target that is there: nothing at all for a connection
\* that never worked while no backoff is under way.
ignoresClose(wasConnected) == ~wasConnected /\ ~isBackedOff

handleClose(enabled, wasConnected) ==
  /\ openedAt' = "null"
  /\ IF ignoresClose(wasConnected)
     THEN UNCHANGED <<timer, delay, attempts>>
     ELSE /\ delay' = IF openedAt = "stable" THEN InitialMs ELSE delay
          /\ schedule(enabled, timer)

\* Faulted timer: the backoff grows past its maximum.
timerFiresUncapped ==
  /\ timer
  /\ timer' = FALSE
  /\ attempts' = attempts + 1
  /\ delay' = delay * Factor
  /\ UNCHANGED openedAt

\* The timer fires and the owner's attempt() starts.
timerFires ==
  /\ timer
  /\ timer' = FALSE
  /\ attempts' = attempts + 1
  /\ delay' = IF delay * Factor < MaxMs THEN delay * Factor ELSE MaxMs
  /\ UNCHANGED openedAt
=============================================================================
