---------------------------- MODULE TroubleCodes ----------------------------
(***************************************************************************)
(* The trouble codes of the car (src/src/stores/dtc.store.ts) as the panel *)
(* drives them (components/obd2/DtcPanel.tsx): one operation at a time, a  *)
(* clear asked for in a dialog and followed by another read.               *)
(***************************************************************************)
EXTENDS Device

CONSTANTS Codes, SimulatedCodes

VARIABLES
  codes, hasRead, dtcStatus, dtcError,
  dtcCall,       \* the command on its way: "none", "read", "clear" or "reread"
  confirmOpen,   \* the dialog asks whether to clear
  carCodes,      \* what the car has stored
  anotherSource  \* history: the codes come from the simulation, or the link has
                 \* dropped or the car stored another code since

dtcStoreVars == <<codes, hasRead, dtcStatus, dtcError, dtcCall>>
troubleCodesVars == <<deviceVars, dtcStoreVars, confirmOpen, carCodes, anotherSource>>

TroubleCodesTypeOK ==
  /\ DeviceTypeOK
  /\ codes \subseteq Codes \cup SimulatedCodes
  /\ carCodes \subseteq Codes
  /\ {hasRead, dtcError, confirmOpen, anotherSource} \subseteq BOOLEAN
  /\ dtcStatus \in {"idle", "reading", "clearing"}
  /\ dtcCall \in {"none", "read", "clear", "reread"}

TroubleCodesInit ==
  /\ DeviceInit
  /\ codes = {} /\ hasRead = FALSE /\ dtcStatus = "idle" /\ dtcError = FALSE
  /\ dtcCall = "none"
  /\ confirmOpen = FALSE
  /\ carCodes \in SUBSET Codes
  /\ anotherSource = FALSE

-----------------------------------------------------------------------------
\* Offline a read shows simulated codes, whatever the link reported meanwhile.
canRead  == (connected \/ simulationMode) /\ dtcStatus = "idle"
canClear == canRead /\ codes # {}

\* An operation ends with the codes it found, or with an error.
finds(found) ==
  /\ codes' = found
  /\ hasRead' = TRUE
  /\ dtcStatus' = "idle"
  /\ dtcCall' = "none"
  /\ UNCHANGED dtcError

failsDtc ==
  /\ dtcStatus' = "idle"
  /\ dtcError' = TRUE
  /\ dtcCall' = "none"

readOutcomeFails == failsDtc /\ UNCHANGED <<codes, hasRead>>

\* After a clear the old codes are gone even if they cannot be read again.
rereadOutcomeFails == failsDtc /\ codes' = {} /\ hasRead' = TRUE

begins(status, call) ==
  /\ dtcStatus' = status
  /\ dtcError' = FALSE
  /\ dtcCall' = call
  /\ UNCHANGED <<codes, hasRead>>

\* The dialog is modal: nothing else is pressed while it asks.
readCodes ==
  /\ canRead /\ ~confirmOpen
  /\ IF simulationMode
     THEN /\ codes' = SimulatedCodes /\ hasRead' = TRUE /\ dtcError' = FALSE
          /\ anotherSource' = TRUE
          /\ UNCHANGED <<dtcStatus, dtcCall>>
     ELSE begins("reading", "read") /\ UNCHANGED anotherSource
  /\ UNCHANGED <<deviceVars, confirmOpen, carCodes>>

askToClear ==
  /\ canClear /\ ~confirmOpen
  /\ confirmOpen' = TRUE
  /\ UNCHANGED <<deviceVars, dtcStoreVars, carCodes, anotherSource>>

dismiss ==
  /\ confirmOpen
  /\ confirmOpen' = FALSE
  /\ UNCHANGED <<deviceVars, dtcStoreVars, carCodes, anotherSource>>

\* The link is not looked at again when the dialog is answered.
clearCodes ==
  /\ confirmOpen
  /\ confirmOpen' = FALSE
  /\ IF simulationMode
     THEN /\ codes' = {} /\ hasRead' = TRUE /\ dtcError' = FALSE
          /\ anotherSource' = TRUE
          /\ UNCHANGED <<dtcStatus, dtcCall>>
     ELSE /\ IF linkUp THEN begins("clearing", "clear")
                       ELSE readOutcomeFails
          /\ UNCHANGED anotherSource
  /\ UNCHANGED <<deviceVars, carCodes>>

\* Faulted clearAnswered: the codes are taken to be gone.
clearAnsweredAtOnce ==
  /\ dtcCall = "clear"
  /\ carCodes' \in SUBSET carCodes
  /\ finds({})
  /\ UNCHANGED <<deviceVars, confirmOpen, anotherSource>>

\* A car keeps the codes of a fault that is still there.
clearAnswered ==
  /\ dtcCall = "clear"
  /\ carCodes' \in SUBSET carCodes
  /\ dtcCall' = "reread"
  /\ UNCHANGED <<deviceVars, codes, hasRead, dtcStatus, dtcError, confirmOpen, anotherSource>>

readAnswered ==
  /\ dtcCall \in {"read", "reread"}
  /\ finds(carCodes)
  /\ anotherSource' = FALSE
  /\ UNCHANGED <<deviceVars, confirmOpen, carCodes>>

callFails == IF dtcCall = "reread" THEN rereadOutcomeFails ELSE readOutcomeFails

\* Refused or timed out; a clear may have been obeyed.
dtcCallFails ==
  /\ dtcCall # "none"
  /\ carCodes' \in IF dtcCall = "clear" THEN SUBSET carCodes ELSE {carCodes}
  /\ callFails
  /\ UNCHANGED <<deviceVars, confirmOpen, anotherSource>>

dtcLinkDrops ==
  /\ setDisconnected
  /\ IF dtcCall # "none" THEN callFails ELSE UNCHANGED dtcStoreVars
  /\ anotherSource' = TRUE
  /\ UNCHANGED <<confirmOpen, carCodes>>

\* Another car, or another fault.
carChanges ==
  /\ dtcCall = "none"
  /\ carCodes' \in SUBSET Codes
  /\ anotherSource' = TRUE
  /\ UNCHANGED <<deviceVars, dtcStoreVars, confirmOpen>>

dtcDeviceStep ==
  /\ setConnected \/ enterSimulation \/ exitSimulation
  /\ UNCHANGED <<dtcStoreVars, confirmOpen, carCodes, anotherSource>>

TroubleCodesNext ==
  \/ readCodes \/ askToClear \/ dismiss \/ clearCodes
  \/ clearAnswered \/ readAnswered \/ dtcCallFails \/ dtcLinkDrops
  \/ carChanges \/ dtcDeviceStep

TroubleCodesSpec == TroubleCodesInit /\ [][TroubleCodesNext]_troubleCodesVars

-----------------------------------------------------------------------------
\* A list shown without an error is what the car has: a clear the car did not
\* fully obey is not shown as one, and a failed one does not pass for a success
\* (dtc.store.ts:24-42).
ShownCodesAreTheCars ==
  (hasRead /\ dtcStatus = "idle" /\ ~dtcError /\ ~anotherSource) => codes = carCodes
=============================================================================
