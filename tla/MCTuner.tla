------------------------------ MODULE MCTuner ------------------------------
(***************************************************************************)
(* The stores and clients beside the command queue and the send, for TLC.  *)
(* They share no state but the device's and the reconnect scheduler's, and *)
(* a behaviour exercises one of them: the other ones keep their initial    *)
(* state, so that one run explores each of them in turn.                   *)
(***************************************************************************)
EXTENDS WebSocketClient, SerialClient, CanScan, CarScan, TroubleCodes, ScanAccumulator,
        SessionLogs, FirmwareUpdate, ChangeList, GaugeLayout, LineFramer, Autosave

VARIABLE exercised       \* the component a behaviour exercises

Components == {"wifi", "usb", "canScan", "carScan", "troubleCodes", "accumulator",
               "sessionLogs", "firmware", "changeList", "gaugeLayout",
               "lineFramer", "autosave"}

\* What each component has for itself.
wifiOwn     == <<clientVars, drops, commandOut, sockState, origin, overlapped>>
usbOwn      == <<active, readLoop, usbStatus, intentional, suppressNextReconnect, portState,
                 loops, opens, target, downAfter, usbOverlapped>>
canScanOwn  == <<canStatus, canCalls, frameSubscriptions, snapshotTimer, dashScanning, lost>>
carScanOwn  == <<carStoreVars, carCalls, dashBusScan>>
dtcOwn      == <<dtcStoreVars, confirmOpen, carCodes, anotherSource>>
firmwareOwn == <<filesVars, view, cancelRequested, installs, otaCalls, dashVars,
                 firmwareHistory, unanswered>>

stores == <<canScanOwn, carScanOwn, dtcOwn, firmwareOwn>>
links  == <<schedulerVars, wifiOwn, usbOwn, lineFramerVars>>
editor == <<changeListVars, gaugeLayoutVars, autosaveVars>>
rest   == <<accumulatorVars, sessionLogsVars, editor>>

tunerVars == <<exercised, deviceVars, stores, links, rest>>

TunerInit ==
  /\ exercised \in Components
  /\ Init /\ SerialInit
  /\ CanScanInit /\ CarScanInit /\ TroubleCodesInit /\ FirmwareInit
  /\ AccumulatorInit /\ SessionLogsInit /\ LineFramerInit
  /\ ChangeListInit /\ GaugeLayoutInit /\ AutosaveInit
  /\ simulationMode => exercised \in {"canScan", "carScan", "troubleCodes", "firmware"}
  /\ carCodes # {} => exercised = "troubleCodes"
  /\ overWifi => exercised = "sessionLogs"
  /\ baseline = NoDashboard => exercised = "changeList"
  /\ page # (CHOOSE arrangement \in Arrangements : TRUE) => exercised = "gaugeLayout"
  /\ (\E n \in 1 .. Lines : eols[n] > n) => exercised = "lineFramer"
  /\ autosaved # NoDraft => exercised = "autosave"

TunerNext ==
  \/ /\ exercised = "wifi" /\ Next
     /\ UNCHANGED <<exercised, deviceVars, stores, usbOwn, lineFramerVars, rest>>
  \/ /\ exercised = "usb" /\ SerialNext
     /\ UNCHANGED <<exercised, deviceVars, stores, wifiOwn, lineFramerVars, rest>>
  \/ /\ exercised = "canScan" /\ CanScanNext
     /\ UNCHANGED <<exercised, carScanOwn, dtcOwn, firmwareOwn, links, rest>>
  \/ /\ exercised = "carScan" /\ CarScanNext
     /\ UNCHANGED <<exercised, canScanOwn, dtcOwn, firmwareOwn, links, rest>>
  \/ /\ exercised = "troubleCodes" /\ TroubleCodesNext
     /\ UNCHANGED <<exercised, canScanOwn, carScanOwn, firmwareOwn, links, rest>>
  \/ /\ exercised = "firmware" /\ FirmwareNext
     /\ UNCHANGED <<exercised, canScanOwn, carScanOwn, dtcOwn, links, rest>>
  \/ /\ exercised = "accumulator" /\ AccumulatorNext
     /\ UNCHANGED <<exercised, deviceVars, stores, links, sessionLogsVars, editor>>
  \/ /\ exercised = "sessionLogs" /\ SessionLogsNext
     /\ UNCHANGED <<exercised, deviceVars, stores, links, accumulatorVars, editor>>
  \/ /\ exercised = "changeList" /\ ChangeListNext
     /\ UNCHANGED <<exercised, deviceVars, stores, links, accumulatorVars, sessionLogsVars,
                    gaugeLayoutVars, autosaveVars>>
  \/ /\ exercised = "gaugeLayout" /\ GaugeLayoutNext
     /\ UNCHANGED <<exercised, deviceVars, stores, links, accumulatorVars, sessionLogsVars,
                    changeListVars, autosaveVars>>
  \/ /\ exercised = "lineFramer" /\ LineFramerNext
     /\ UNCHANGED <<exercised, deviceVars, stores, schedulerVars, wifiOwn, usbOwn, rest>>
  \/ /\ exercised = "autosave" /\ AutosaveNext
     /\ UNCHANGED <<exercised, deviceVars, stores, links, accumulatorVars, sessionLogsVars,
                    changeListVars, gaugeLayoutVars>>

\* The fairness of the two components that have a liveness property, stated by
\* WebSocketClient and FirmwareUpdate.
TunerSpec ==
  /\ TunerInit /\ [][TunerNext]_tunerVars
  /\ WF_vars(exercised = "wifi" /\ attempt)
  /\ \A s \in Sockets :
       /\ WF_vars(exercised = "wifi" /\ (socketOpens(s) \/ socketFails(s)))
       /\ WF_vars(exercised = "wifi" /\ sockState[s] = "closing" /\ socketCloses(s))
  /\ WF_firmwareVars(exercised = "firmware" /\ otaCallEnds)
  /\ \A i \in Installs : WF_firmwareVars(exercised = "firmware" /\ waitEnds(i))

-----------------------------------------------------------------------------
(* A dash with three pages, the second shown first. *)
MCPage(gauges) == [look |-> "plain", gauges |-> gauges]
MCGauge == [g \in {"g1"} |-> "plain"]
MCHeld  == [order |-> <<"p1", "p2", "p3">>, first |-> "p2",
            pages |-> [p \in {"p1", "p2", "p3"} |-> MCPage(IF p = "p1" THEN MCGauge ELSE <<>>)]]
MCSim   == [order |-> <<"p1">>, first |-> "p1", pages |-> [p \in {"p1"} |-> MCPage(MCGauge)]]
MCDashboards == {MCHeld}

(* Two pages of a grid of three columns and two rows, one full, one not. *)
MCPlaced(x, y, cols, rows) == [col |-> x, row |-> y, colSpan |-> cols, rowSpan |-> rows]
MCArrangements ==
  {<<MCPlaced(0, 0, 1, 1), MCPlaced(1, 0, 1, 2), MCPlaced(2, 0, 1, 1)>>,
   <<MCPlaced(0, 0, 2, 1), MCPlaced(1, 1, 2, 1)>>}
MCNewSpans      == {[colSpan |-> 2, rowSpan |-> 1]}
MCStandardSizes == {[colSpan |-> 2, rowSpan |-> 2], [colSpan |-> 2, rowSpan |-> 1]}
MCFallbackSpans == <<[colSpan |-> 1, rowSpan |-> 1]>>
=============================================================================
