------------------------------- MODULE CarScan -------------------------------
(***************************************************************************)
(* "Scan my car" (src/src/stores/car-scan/car-scan.store.ts): the page     *)
(* asks the dash for a bus scan, polls it until it is done or the deadline *)
(* passes, and matches the frames seen with the car catalogue.  Every      *)
(* await is followed by a look at the generation, which a failure, a reset *)
(* and a new start increment.                                              *)
(***************************************************************************)
EXTENDS Device, Naturals, Sequences

CONSTANTS
  MaxCarScans,     \* bound: generations
  MaxPolls         \* SCAN_DEADLINE_MS in polls

ASSUME CarScanAssumption == MaxPolls \in Nat

VARIABLES
  carPhase, carGeneration,
  pollTimer,       \* the generation whose poll is scheduled, 0 for none
  pollsLeft,       \* polls before the deadline
  carCalls,        \* the commands not answered yet, oldest first
  matching,        \* the generations that wait for the catalogue
  carResult,       \* the generation whose scan is shown, 0 for none
  dashBusScan      \* the dash: whose bus scan, and is it done

carScanVars == <<deviceVars, carPhase, carGeneration, pollTimer, pollsLeft, carCalls,
                 matching, carResult, dashBusScan>>

carStoreVars == <<carPhase, carGeneration, pollTimer, pollsLeft, matching, carResult>>

CarBusy == {"starting", "scanning", "matching"}

CarScanInit ==
  /\ DeviceInit
  /\ carPhase = "idle" /\ carGeneration = 0
  /\ pollTimer = 0 /\ pollsLeft = 0
  /\ carCalls = <<>>
  /\ matching = {}
  /\ carResult = 0
  /\ dashBusScan = [of |-> 0, done |-> FALSE]

-----------------------------------------------------------------------------
carFails ==
  /\ pollTimer' = 0
  /\ carGeneration' = carGeneration + 1
  /\ carPhase' = "error"
  /\ UNCHANGED <<pollsLeft, carResult>>

schedulePoll(gen) == pollTimer' = gen

carScanStart ==
  /\ deviceReady /\ carPhase \notin CarBusy
  /\ carGeneration < MaxCarScans
  /\ carGeneration' = carGeneration + 1
  /\ carPhase' = "starting"
  /\ carResult' = 0
  /\ carCalls' = Append(carCalls, [cmd |-> "start", gen |-> carGeneration'])
  /\ UNCHANGED <<deviceVars, pollTimer, pollsLeft, matching, dashBusScan>>

\* Faulted reset: the answers on their way are still taken.
carScanResetKeeping ==
  /\ carGeneration < MaxCarScans
  /\ pollTimer' = 0
  /\ carPhase' = "idle"
  /\ carResult' = 0
  /\ UNCHANGED <<deviceVars, carGeneration, pollsLeft, carCalls, matching, dashBusScan>>

carScanReset ==
  /\ carGeneration < MaxCarScans
  /\ pollTimer' = 0
  /\ carGeneration' = carGeneration + 1
  /\ carPhase' = "idle"
  /\ carResult' = 0
  /\ UNCHANGED <<deviceVars, pollsLeft, carCalls, matching, dashBusScan>>

pollOnce ==
  /\ pollTimer # 0
  /\ pollTimer' = 0
  /\ carCalls' = Append(carCalls, [cmd |-> "poll", gen |-> pollTimer])
  /\ UNCHANGED <<deviceVars, carPhase, carGeneration, pollsLeft, matching, carResult, dashBusScan>>

\* What follows the await of start(), and of a poll.
startContinues(gen, success) ==
  IF gen # carGeneration THEN UNCHANGED carStoreVars
  ELSE IF ~success THEN carFails /\ UNCHANGED matching
  ELSE /\ carPhase' = "scanning"
       /\ pollsLeft' = MaxPolls
       /\ schedulePoll(gen)
       /\ UNCHANGED <<carGeneration, matching, carResult>>

finish(gen, of) ==
  /\ carPhase' = "matching"
  /\ carResult' = of
  /\ matching' = matching \cup {gen}
  /\ UNCHANGED <<carGeneration, pollTimer, pollsLeft>>

\* Faulted pollContinues: the generation is not looked at.
pollContinuesAnyway(gen, success) ==
  IF success /\ dashBusScan.done THEN finish(gen, dashBusScan.of)
  ELSE IF success /\ pollsLeft > 0
  THEN /\ pollsLeft' = pollsLeft - 1
       /\ schedulePoll(gen)
       /\ UNCHANGED <<carPhase, carGeneration, matching, carResult>>
  ELSE carFails /\ UNCHANGED matching

pollContinues(gen, success) ==
  IF gen # carGeneration THEN UNCHANGED carStoreVars
  ELSE IF success /\ dashBusScan.done THEN finish(gen, dashBusScan.of)
  ELSE IF success /\ pollsLeft > 0
  THEN /\ pollsLeft' = pollsLeft - 1
       /\ schedulePoll(gen)
       /\ UNCHANGED <<carPhase, carGeneration, matching, carResult>>
  ELSE carFails /\ UNCHANGED matching

\* The dash obeys the oldest command: a start begins a new scan.
carCallAnswered ==
  /\ carCalls # <<>>
  /\ carCalls' = Tail(carCalls)
  /\ LET gen == Head(carCalls).gen
     IN \/ /\ Head(carCalls).cmd = "start"
           /\ dashBusScan' = [of |-> gen, done |-> FALSE]
           /\ startContinues(gen, TRUE)
        \/ /\ Head(carCalls).cmd = "poll"
           /\ UNCHANGED dashBusScan
           /\ pollContinues(gen, TRUE)
  /\ UNCHANGED deviceVars

\* The oldest command is refused, or times out whether obeyed or not.
carCallFails ==
  /\ carCalls # <<>>
  /\ carCalls' = Tail(carCalls)
  /\ LET gen == Head(carCalls).gen
     IN \/ /\ Head(carCalls).cmd = "start"
           /\ dashBusScan' \in {dashBusScan, [of |-> gen, done |-> FALSE]}
           /\ startContinues(gen, FALSE)
        \/ /\ Head(carCalls).cmd = "poll"
           /\ UNCHANGED dashBusScan
           /\ pollContinues(gen, FALSE)
  /\ UNCHANGED deviceVars

dashScanEnds ==
  /\ dashBusScan.of # 0 /\ ~dashBusScan.done
  /\ dashBusScan' = [dashBusScan EXCEPT !.done = TRUE]
  /\ UNCHANGED <<deviceVars, carStoreVars, carCalls>>

\* The catalogue is there, or could not be loaded.
catalogueAnswers(gen) ==
  /\ gen \in matching
  /\ matching' = matching \ {gen}
  /\ IF gen # carGeneration
     THEN UNCHANGED <<carPhase, carGeneration, pollTimer, pollsLeft, carResult>>
     ELSE \/ /\ carPhase' = "done"
             /\ UNCHANGED <<carGeneration, pollTimer, pollsLeft, carResult>>
          \/ carFails
  /\ UNCHANGED <<deviceVars, carCalls, dashBusScan>>

\* The link drops: the subscription fails a busy scan, and then the calls fail,
\* whose generation has passed.
carScanLinkDrops ==
  /\ setDisconnected
  /\ IF carPhase \in CarBusy THEN carFails /\ UNCHANGED matching ELSE UNCHANGED carStoreVars
  /\ carCalls' = <<>>
  /\ dashBusScan' \in {dashBusScan, [of |-> 0, done |-> FALSE]}

carScanDeviceStep ==
  /\ setConnected \/ enterSimulation \/ exitSimulation
  /\ UNCHANGED <<carStoreVars, carCalls, dashBusScan>>

CarScanNext ==
  \/ carScanStart \/ carScanReset \/ pollOnce \/ carCallAnswered \/ carCallFails
  \/ dashScanEnds \/ (\E gen \in matching : catalogueAnswers(gen))
  \/ carScanLinkDrops \/ carScanDeviceStep

CarScanSpec == CarScanInit /\ [][CarScanNext]_carScanVars

-----------------------------------------------------------------------------
\* What waits to continue the scan of a generation.
continuations(gen) ==
  {<<"timer", g>> : g \in {pollTimer} \cap {gen}}
  \cup {<<"call", i>> : i \in {j \in DOMAIN carCalls : carCalls[j].gen = gen}}
  \cup {<<"catalogue", g>> : g \in matching \cap {gen}}

\* A busy scan has exactly one thing to wait for (a timer, an answer or the
\* catalogue), so that it neither stalls nor polls twice; a scan that is over has
\* nothing that could bring it back.
OneContinuation ==
  IF carPhase \in CarBusy THEN \E c \in continuations(carGeneration) : continuations(carGeneration) = {c}
  ELSE carGeneration > 0 => continuations(carGeneration) = {}

\* The car suggested is the one of this scan: no answer that crossed a failure, a
\* reset or another start is taken for it.
CarResultIsOwn ==
  carPhase \in {"matching", "done"} => carResult = carGeneration
=============================================================================
