------------------------------- MODULE CanScan -------------------------------
(***************************************************************************)
(* The CAN scan (src/src/stores/can-scan/can-scan.store.ts) and the        *)
(* scanner of the dash it starts and stops.  Commands are answered in the  *)
(* order they were sent (CommandChannel); one that times out may or may    *)
(* not have been obeyed.  The generation counter is carried as a mark on   *)
(* each outstanding call: is its generation still the current one?         *)
(***************************************************************************)
EXTENDS Device, Naturals, Sequences

CONSTANT MaxCanCalls     \* bound: commands outstanding at one time

ASSUME CanScanAssumption == MaxCanCalls \in Nat

VARIABLES
  canStatus,
  canCalls,              \* the commands not answered yet, oldest first
  frameSubscriptions,    \* listeners on the frames of the bus
  snapshotTimer,
  dashScanning,          \* the scanner of the dash is on
  lost                   \* history: a command timed out or the link dropped,
                         \* so that the page cannot know whether it is on

canScanVars == <<deviceVars, canStatus, canCalls, frameSubscriptions, snapshotTimer,
                 dashScanning, lost>>

CanScanStatuses == {"idle", "starting", "running", "stopping", "error"}
CanCalls == [cmd : {"start", "stop", "lateStop"}, current : BOOLEAN]

CanScanTypeOK ==
  /\ DeviceTypeOK
  /\ canStatus \in CanScanStatuses
  /\ canCalls \in Seq(CanCalls) /\ Len(canCalls) <= MaxCanCalls
  /\ frameSubscriptions \in Nat
  /\ {snapshotTimer, dashScanning, lost} \subseteq BOOLEAN

CanScanInit ==
  /\ DeviceInit
  /\ canStatus = "idle"
  /\ canCalls = <<>>
  /\ frameSubscriptions = 0
  /\ snapshotTimer = FALSE
  /\ dashScanning = FALSE
  /\ lost = FALSE

\* Faulted BlocksStart: a scan may start while the last one is being stopped.
BlocksStartUnlessStopping == {"starting", "running"}

BlocksStart == {"starting", "running", "stopping"}
BlocksStop  == {"idle", "stopping"}

\* generation += 1: what is outstanding is no longer current.
superseding(calls) == [i \in DOMAIN calls |-> [calls[i] EXCEPT !.current = FALSE]]

canScanStart ==
  /\ deviceReady /\ canStatus \notin BlocksStart
  /\ Len(canCalls) < MaxCanCalls
  /\ canStatus' = "starting"
  /\ canCalls' = Append(superseding(canCalls), [cmd |-> "start", current |-> TRUE])
  /\ UNCHANGED <<deviceVars, frameSubscriptions, snapshotTimer, dashScanning, lost>>

\* Without a link the command fails at once.
canScanStop ==
  /\ canStatus \notin BlocksStop
  /\ \/ /\ linkUp /\ Len(canCalls) < MaxCanCalls
        /\ canStatus' = "stopping"
        /\ canCalls' = Append(superseding(canCalls), [cmd |-> "stop", current |-> FALSE])
     \/ ~linkUp /\ canStatus' = "idle" /\ UNCHANGED canCalls
  /\ snapshotTimer' = FALSE
  /\ frameSubscriptions' = 0
  /\ UNCHANGED <<deviceVars, dashScanning, lost>>

beginScan ==
  /\ frameSubscriptions' = frameSubscriptions + 1
  /\ snapshotTimer' = TRUE
  /\ canStatus' = "running"

\* Faulted startAnswered: the generation is not looked at.
startAnsweredAnyway(call, success, rest) ==
  /\ canCalls' = rest
  /\ IF success THEN beginScan
     ELSE canStatus' = "error" /\ UNCHANGED <<frameSubscriptions, snapshotTimer>>

\* What follows start()'s await: a start that was superseded stops the scanner it
\* has started after all.
startAnswered(call, success, rest) ==
  IF ~call.current
  THEN /\ canCalls' = IF success THEN Append(rest, [cmd |-> "lateStop", current |-> FALSE])
                                 ELSE rest
       /\ UNCHANGED <<canStatus, frameSubscriptions, snapshotTimer>>
  ELSE /\ canCalls' = rest
       /\ IF success THEN beginScan
          ELSE canStatus' = "error" /\ UNCHANGED <<frameSubscriptions, snapshotTimer>>

\* What follows stop()'s await, whatever the answer.
stopAnswered(rest) ==
  /\ canCalls' = rest
  /\ canStatus' = "idle"
  /\ UNCHANGED <<frameSubscriptions, snapshotTimer>>

continues(call, success, rest) ==
  CASE call.cmd = "start"    -> startAnswered(call, success, rest)
    [] call.cmd = "stop"     -> stopAnswered(rest)
    [] call.cmd = "lateStop" -> /\ canCalls' = rest
                                /\ UNCHANGED <<canStatus, frameSubscriptions, snapshotTimer>>

\* The dash obeys the oldest command and its answer arrives.
canCallObeyed ==
  /\ canCalls # <<>>
  /\ dashScanning' = (Head(canCalls).cmd = "start")
  /\ continues(Head(canCalls), TRUE, Tail(canCalls))
  /\ lost' = FALSE
  /\ UNCHANGED deviceVars

\* The oldest command is refused, or times out whether obeyed or not.
canCallFails ==
  /\ canCalls # <<>>
  /\ dashScanning' \in {dashScanning, Head(canCalls).cmd = "start"}
  /\ continues(Head(canCalls), FALSE, Tail(canCalls))
  /\ lost' = TRUE
  /\ UNCHANGED deviceVars

\* The link drops: every call fails, and the subscription stops a scan, whose
\* command fails at once.  A dash that restarted does not scan.
canScanLinkDrops ==
  /\ setDisconnected
  /\ canCalls' = <<>>
  /\ frameSubscriptions' = 0
  /\ snapshotTimer' = FALSE
  /\ canStatus' = IF canStatus \in {"starting", "running", "stopping"} THEN "idle" ELSE canStatus
  /\ dashScanning' \in {dashScanning, FALSE}
  /\ lost' = TRUE

\* The other changes of the device, none of which can happen during a scan.
canScanDeviceStep ==
  /\ setConnected \/ enterSimulation \/ exitSimulation
  /\ UNCHANGED <<canStatus, canCalls, frameSubscriptions, snapshotTimer, dashScanning, lost>>

CanScanNext ==
  \/ canScanStart \/ canScanStop \/ canCallObeyed \/ canCallFails
  \/ canScanLinkDrops \/ canScanDeviceStep

CanScanSpec == CanScanInit /\ [][CanScanNext]_canScanVars

-----------------------------------------------------------------------------
\* Frames are counted, and the table refreshed, exactly while a scan runs: no
\* start, stop or drop in whatever order leaves a listener or a timer behind, or
\* a running scan without one (can-scan.store.ts:76-123).
OneSubscription ==
  /\ frameSubscriptions = IF canStatus = "running" THEN 1 ELSE 0
  /\ snapshotTimer <=> canStatus = "running"

\* Once every command was answered the scanner of the dash is on exactly while
\* the page shows a scan, however starts and stops crossed.
DashFollowsScan ==
  (canCalls = <<>> /\ ~lost) => (dashScanning <=> canStatus = "running")
=============================================================================
