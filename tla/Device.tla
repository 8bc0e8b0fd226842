------------------------------- MODULE Device -------------------------------
(***************************************************************************)
(* What the interface knows of the dash (src/src/stores/device.store.ts),  *)
(* as the link's status events and the offline mode change it (connection  *)
(* .store.ts).  The stores that talk to the dash extend this module: they  *)
(* read it before they send and follow its changes.                        *)
(***************************************************************************)

VARIABLES
  linkUp,           \* the link's status is "connected"
  connected,        \* the store's own idea of it
  simulationMode    \* the setup is edited offline

deviceVars == <<linkUp, connected, simulationMode>>

DeviceTypeOK == {linkUp, connected, simulationMode} \subseteq BOOLEAN

DeviceInit ==
  /\ linkUp = FALSE
  /\ simulationMode \in BOOLEAN          \* what readSimulationMode() finds
  /\ connected = simulationMode

deviceReady == connected /\ ~simulationMode

\* The link's "connected" event.
setConnected ==
  /\ ~linkUp
  /\ linkUp' = TRUE
  /\ connected' = TRUE
  /\ simulationMode' = FALSE

\* The link's "disconnected" event: a drop, or an attempt that failed.  It leaves
\* the offline mode on.
setDisconnected ==
  /\ connected
  /\ linkUp' = FALSE
  /\ connected' = FALSE
  /\ UNCHANGED simulationMode

\* "Keep editing" is offered while the link is down.
enterSimulation ==
  /\ ~linkUp /\ ~simulationMode
  /\ simulationMode' = TRUE
  /\ connected' = TRUE
  /\ UNCHANGED linkUp

exitSimulation ==
  /\ simulationMode
  /\ simulationMode' = FALSE
  /\ connected' = FALSE
  /\ UNCHANGED linkUp

deviceStep == setConnected \/ setDisconnected \/ enterSimulation \/ exitSimulation
=============================================================================
