----------------------------- MODULE SendSetup -----------------------------
(***************************************************************************)
(* "Send to dash" (src/src/stores/sync, src/src/lib/sync): the draft the   *)
(* user edits, the baseline the tuner takes for what the dash holds, the   *)
(* dash itself, the send that writes the differences one after the other,  *)
(* and the answers read on every connection, which move the baseline.      *)
(*                                                                         *)
(* A setup maps each of its parts to a value, Null when it is not known.   *)
(* One action is one uninterrupted run of the page's code, from the reply  *)
(* (or failure) of a command to the next command.                          *)
(***************************************************************************)
EXTENDS Naturals, Sequences, FiniteSets

CONSTANTS
  Fields,             \* the parts of a setup this instance looks at
  Values, Null,
  Newer,              \* a dashboard of a newer tuner, which this one cannot read
  SimConfig,          \* DEFAULT_SIM_CONFIG
  DefaultBrightness,  \* DEFAULT_BRIGHTNESS
  OtherTuner,         \* another device may change the dash while it is free
  Overlaps            \* a send may run while the answers of a connection are awaited

Parts == {"dashboard", "brightness", "dayMode", "sound", "deviceConfig", "car", "rotation"}

ASSUME FieldsAssumption == Fields \subseteq Parts
ASSUME ValuesAssumption == Null # Newer /\ {Null, Newer} \cap Values = {}
                           /\ {SimConfig, DefaultBrightness} \subseteq Values
ASSUME FlagsAssumption  == {OtherTuner, Overlaps} \subseteq BOOLEAN

VARIABLES
  draft,         \* the editor, the settings draft and the car
  device,        \* the baseline: the setup last confirmed by the dash
  sendState, dashNewer,
  snapshot, confirmed, steps,  \* the locals of a running sendSetup
  verifying,     \* the dashboard was pushed and verifyBurnedConfig polls
  reading,       \* answers of this connection still awaited
  connected,
  dash,          \* what the dash holds
  asked,         \* history: what the running send has to change
  edited,        \* history: what the user edited while it runs
  touched        \* history: it changed the dash, or the one that failed did

storeVars == <<draft, device, sendState, dashNewer>>
localVars == <<snapshot, confirmed, steps, verifying>>
history   == <<asked, edited, touched>>
vars == <<storeVars, localVars, reading, connected, dash, history>>

Setup   == [Fields -> Values \cup {Null}]

\* Only a dash may be without a dashboard, or hold one of a newer tuner.
HeldSetup == {d \in [Fields -> Values \cup {Null, Newer}] :
                \A f \in Fields : f = "dashboard" \/ d[f] \in Values}

Unknown == [f \in Fields |-> Null]
Restart == {"deviceConfig", "car", "rotation"}
Answers == {"dashboard", "deviceConfig", "handshake"}

TypeOK ==
  /\ {draft, device, snapshot, confirmed} \subseteq Setup /\ dash \in HeldSetup
  /\ sendState \in {"idle", "sending", "refused", "failed"}
  /\ steps \in Seq(Fields) /\ (steps # <<>> <=> sendState = "sending")
  /\ {dashNewer, verifying, connected} \subseteq BOOLEAN
  /\ reading \subseteq Answers
  /\ {asked, edited} \subseteq SUBSET Fields /\ touched \in BOOLEAN

\* a ?? b
orElse(a, b) == IF a = Null THEN b ELSE a
at(setup, f) == IF f \in Fields THEN setup[f] ELSE Null
put(setup, f, v) == [g \in Fields |-> IF g = f THEN v ELSE setup[g]]

\* A part the change list shows, and a send writes.
differs(snap, dev, f) == snap[f] # Null /\ snap[f] # dev[f]
unsent(f) == differs(draft, device, f)

Init ==
  /\ device \in {Unknown, [f \in Fields |-> SimConfig]}
  /\ draft = [f \in Fields |-> IF f \in {"dashboard", "car"} THEN SimConfig ELSE device[f]]
  /\ dash \in {d \in HeldSetup : \A f \in Fields :
                 device[f] # Null /\ ~OtherTuner => d[f] = device[f]}
  /\ sendState = "idle" /\ dashNewer = FALSE
  /\ snapshot = Unknown /\ confirmed = Unknown /\ steps = <<>>
  /\ verifying = FALSE
  /\ reading = {} /\ connected = FALSE
  /\ asked = {} /\ edited = {} /\ touched = FALSE

-----------------------------------------------------------------------------
\* The user edits one part.  There is nothing to edit before a setup is loaded,
\* nor the sound of a board that has not told it has any.
edit(f, v) ==
  /\ v # draft[f]
  /\ f = "dashboard" => draft[f] # Null
  /\ f = "sound" => device[f] # Null
  /\ draft' = put(draft, f, v)
  /\ edited' = IF sendState = "sending" THEN edited \cup {f} ELSE edited
  /\ UNCHANGED <<device, sendState, dashNewer, localVars, reading, connected, dash,
                 asked, touched>>

revertAll == [f \in Fields |-> orElse(device[f], draft[f])]

\* undoAllChanges and pullFromDash.
undoAllChanges ==
  /\ draft' = revertAll
  /\ draft' # draft
  /\ edited' = {}
  /\ UNCHANGED <<device, sendState, dashNewer, localVars, reading, connected, dash,
                 asked, touched>>

-----------------------------------------------------------------------------
(***************************************************************************)
(* sendToDash, up to the first command.                                    *)
(***************************************************************************)
stepOf(f, snap, dev) == IF f \in Fields /\ differs(snap, dev, f) THEN <<f>> ELSE <<>>

liveSteps(snap, dev) ==
  stepOf("dashboard", snap, dev) \o stepOf("brightness", snap, dev)
    \o stepOf("dayMode", snap, dev) \o stepOf("sound", snap, dev)

restartSteps(snap, dev) ==
  stepOf("deviceConfig", snap, dev) \o stepOf("car", snap, dev) \o stepOf("rotation", snap, dev)

\* Faulted sendSteps: every change that restarts the dash goes in one send.
sendStepsAllAtOnce(snap, dev) == liveSteps(snap, dev) \o restartSteps(snap, dev)

\* Everything that applies in place, then the first change that restarts.
sendSteps(snap, dev) ==
  LET restart == restartSteps(snap, dev)
  IN IF restart = <<>> THEN liveSteps(snap, dev) ELSE Append(liveSteps(snap, dev), Head(restart))

refuse ==
  /\ sendState' = "refused"
  /\ touched' = FALSE
  /\ UNCHANGED <<device, localVars, asked, edited>>

\* With nothing to write the send is done, without a link it has failed; no
\* command went out.
begin(snap) ==
  LET todo == sendSteps(snap, device)
  IN /\ IF todo # <<>> /\ connected
        THEN /\ sendState' = "sending"
             /\ snapshot' = snap /\ confirmed' = device /\ steps' = todo
             /\ asked' = {f \in Fields : differs(snap, device, f)}
        ELSE /\ sendState' \in IF todo = <<>> THEN {"idle"} ELSE {"refused", "failed"}
             /\ UNCHANGED <<snapshot, confirmed, steps, asked>>
     /\ touched' = FALSE
     /\ UNCHANGED <<device, verifying, edited>>

sendToDash(snap) ==
  IF dashNewer THEN refuse
  ELSE \/ at(snap, "dashboard") # Null /\ refuse
       \/ begin(snap)

settledDown == Overlaps \/ reading = {}

tapSend ==
  /\ connected /\ sendState # "sending" /\ settledDown
  /\ \E f \in Fields : unsent(f)
  /\ sendToDash(draft)
  /\ UNCHANGED <<draft, dashNewer, reading, connected, dash>>

\* restoreBackup: the file's dashboard and car replace the draft's and are sent,
\* connected or not.
restoreBackup(file) ==
  /\ settledDown
  /\ LET restored == [f \in Fields |-> IF f \in DOMAIN file THEN file[f] ELSE draft[f]]
     IN /\ draft' = restored
        /\ IF sendState = "sending"
           THEN /\ edited' = edited \cup {f \in Fields : restored[f] # draft[f]}
                /\ UNCHANGED <<device, sendState, localVars, asked, touched>>
           ELSE sendToDash(restored)
  /\ UNCHANGED <<dashNewer, reading, connected, dash>>

dismissSendOutcome ==
  /\ sendState \in {"refused", "failed"}
  /\ sendState' = "idle"
  /\ touched' = FALSE
  /\ UNCHANGED <<draft, device, dashNewer, localVars, reading, connected, dash, asked,
                 edited>>

-----------------------------------------------------------------------------
(***************************************************************************)
(* A write of sendSetup is answered.                                       *)
(***************************************************************************)
\* Faulted brightnessToKeep: the brightness of before the send.
brightnessBefore ==
  orElse(at(device, "brightness"), DefaultBrightness)

brightnessToKeep ==
  orElse(at(snapshot, "brightness"), orElse(at(confirmed, "brightness"), DefaultBrightness))

\* What the dash holds once it has obeyed the write of f.  The sound and the
\* rotation travel with a brightness.
written(f) ==
  LET alone == put(dash, f, snapshot[f])
  IN IF f \in {"sound", "rotation"} THEN put(alone, "brightness", brightnessToKeep) ELSE alone

obeyed(f) == dash' = written(f)
ignored   == UNCHANGED dash

touches == touched' = (sendState' \in {"sending", "failed"} /\ (touched \/ dash' # dash))

noLocals ==
  /\ snapshot' = Unknown /\ confirmed' = Unknown
  /\ steps' = <<>> /\ verifying' = FALSE
  /\ asked' = {} /\ edited' = {}

\* setDevice(result.confirmed) and the reporter of the result.
report(outcome, result) ==
  /\ sendState' = outcome
  /\ device' = result
  /\ noLocals

\* Faulted confirm: what was written is not recorded.
confirmUnrecorded(f) ==
  IF Len(steps) = 1
  THEN report("idle", confirmed)
  ELSE /\ steps' = Tail(steps)
       /\ verifying' = FALSE
       /\ UNCHANGED <<sendState, device, snapshot, confirmed, asked, edited>>

\* Faulted confirm: the setup of the moment is recorded, not the one written.
confirmDraft(f) ==
  LET now == put(confirmed, f, draft[f])
  IN IF Len(steps) = 1
     THEN report("idle", now)
     ELSE /\ confirmed' = now
          /\ steps' = Tail(steps)
          /\ verifying' = FALSE
          /\ UNCHANGED <<sendState, device, snapshot, asked, edited>>

\* The write of f is confirmed: the next step follows at once, or the result.
confirm(f) ==
  LET now == put(confirmed, f, snapshot[f])
  IN IF Len(steps) = 1
     THEN report("idle", now)
     ELSE /\ confirmed' = now
          /\ steps' = Tail(steps)
          /\ verifying' = FALSE
          /\ UNCHANGED <<sendState, device, snapshot, asked, edited>>

writeAcknowledged ==
  /\ sendState = "sending" /\ connected /\ ~verifying
  /\ LET f == Head(steps)
     IN IF f = "dashboard"
        THEN /\ obeyed(f) \/ ignored
             /\ verifying' = TRUE
             /\ UNCHANGED <<sendState, device, snapshot, confirmed, steps, asked, edited>>
        ELSE obeyed(f) /\ confirm(f)
  /\ touches
  /\ UNCHANGED <<draft, dashNewer, reading, connected>>

\* A refusal leaves the dash alone; a lost acknowledgement may not.
writeFails ==
  /\ sendState = "sending" /\ connected /\ ~verifying
  /\ \/ ignored /\ report("refused", confirmed)
     \/ ignored /\ report("failed", confirmed)
     \/ obeyed(Head(steps)) /\ report("failed", confirmed)
  /\ touches
  /\ UNCHANGED <<draft, dashNewer, reading, connected>>

\* Faulted verified: the file read back is not compared.
verifiedUncompared ==
  /\ verifying /\ connected
  /\ confirm("dashboard")
  /\ ignored
  /\ touches
  /\ UNCHANGED <<draft, dashNewer, reading, connected>>

\* The polls of verifyBurnedConfig outlive a drop of the link.
verified ==
  /\ verifying /\ connected
  /\ dash["dashboard"] # Null
  /\ IF dash["dashboard"] = snapshot["dashboard"]
     THEN confirm("dashboard")
     ELSE report("refused", confirmed)
  /\ ignored
  /\ touches
  /\ UNCHANGED <<draft, dashNewer, reading, connected>>

\* Faulted notVerified: the polls have no deadline.
notVerifiedYet == verifying /\ UNCHANGED vars

notVerified ==
  /\ verifying
  /\ report("failed", confirmed)
  /\ ignored
  /\ touches
  /\ UNCHANGED <<draft, dashNewer, reading, connected>>

-----------------------------------------------------------------------------
(***************************************************************************)
(* The answers read on a connection (useDashSync, useVersionHandshake).    *)
(***************************************************************************)
\* Faulted untouched: an answer replaces any draft.
untouchedAlways(f) == TRUE

untouched(f) == draft[f] = Null \/ draft[f] = device[f]

adoptDeviceDashboard ==
  LET f == "dashboard"
      config == dash[f]
      demo == draft[f] = Null \/ draft[f] = orElse(device[f], SimConfig)
  IN /\ device' = put(device, f, config)
     /\ draft' = IF config # Null
                 THEN IF demo THEN put(draft, f, config) ELSE draft
                 ELSE put(draft, f, orElse(draft[f], SimConfig))

\* Faulted readFails: the baseline of an earlier connection stays.
readFailsKeeping == dashNewer' = FALSE /\ UNCHANGED device

\* A read that fails forgets what the dash was last known to hold.
readFails == dashNewer' = FALSE /\ device' = put(device, "dashboard", Null)

readDashboard ==
  /\ connected /\ "dashboard" \in reading
  /\ reading' = (reading \ {"dashboard"}) \cup {"deviceConfig"}
  /\ IF "dashboard" \notin Fields
     THEN UNCHANGED <<draft, device, dashNewer>>
     ELSE \/ /\ dash["dashboard"] = Newer
             /\ dashNewer' = TRUE
             /\ UNCHANGED <<draft, device>>
          \/ /\ dash["dashboard"] # Newer
             /\ dashNewer' = FALSE
             /\ adoptDeviceDashboard
          \/ readFails /\ UNCHANGED draft
  /\ UNCHANGED <<sendState, localVars, connected, dash, history>>

\* adoptDeviceConfig, adoptDayMode and adoptSound, for the parts in fs.  The answer of
\* a board without sound, which would replace any sound (draft.ts:81), is left out.
adopt(fs) ==
  /\ draft' = [f \in Fields |-> IF f \in fs /\ untouched(f) THEN dash[f] ELSE draft[f]]
  /\ device' = [f \in Fields |-> IF f \in fs THEN dash[f] ELSE device[f]]

\* readDeviceConfig, and the version handshake; either may fail.
readRest(answer, fs) ==
  /\ connected /\ answer \in reading
  /\ reading' = reading \ {answer}
  /\ adopt(fs) \/ UNCHANGED <<draft, device>>
  /\ UNCHANGED <<sendState, dashNewer, localVars, connected, dash, history>>

readDeviceConfig == readRest("deviceConfig", {"deviceConfig"})
handshake        == readRest("handshake", {"dayMode", "sound"})

-----------------------------------------------------------------------------
\* The link opens: the hooks start to read.
linkOpens ==
  /\ ~connected
  /\ Overlaps \/ sendState # "sending"
  /\ connected' = TRUE
  /\ reading' = {"dashboard", "handshake"}
  /\ UNCHANGED <<storeVars, localVars, dash, history>>

\* The link drops: every outstanding command fails at once.  A read of the
\* dashboard that fails forgets its baseline; a send that was not polling ends.
forgets == "dashboard" \in reading \cap Fields

linkDrops ==
  /\ connected
  /\ connected' = FALSE
  /\ reading' = {}
  /\ dashNewer' = IF forgets THEN FALSE ELSE dashNewer
  /\ LET base == IF forgets THEN put(device, "dashboard", Null) ELSE device
     IN IF sendState = "sending" /\ ~verifying
        THEN /\ obeyed(Head(steps)) \/ ignored
             /\ \/ report("failed", confirmed)
                \/ forgets /\ report("failed", put(confirmed, "dashboard", Null))
        ELSE /\ device' = base
             /\ ignored
             /\ UNCHANGED <<sendState, localVars, asked, edited>>
  /\ touches
  /\ UNCHANGED draft

\* The page is reloaded: the draft and the baseline come back from storage.
reload ==
  /\ sendState' = "idle" /\ dashNewer' = FALSE
  /\ noLocals /\ touched' = FALSE
  /\ reading' = {} /\ connected' = FALSE
  /\ \/ ignored
     \/ sendState = "sending" /\ ~verifying /\ obeyed(Head(steps))
  /\ UNCHANGED <<draft, device>>

\* Another device sends to the dash, which talks to one at a time.
otherTuner(f, v) ==
  /\ OtherTuner /\ ~connected /\ dash[f] # v
  /\ v = Newer => f = "dashboard"
  /\ dash' = put(dash, f, v)
  /\ UNCHANGED <<storeVars, localVars, reading, connected, history>>

sendMoves == writeAcknowledged \/ writeFails \/ verified \/ notVerified

Next ==
  \/ \E f \in Fields, v \in Values : edit(f, v)
  \/ \E f \in Fields, v \in Values \cup {Newer} : otherTuner(f, v)
  \/ undoAllChanges
  \/ tapSend \/ dismissSendOutcome
  \/ \E file \in [Fields \cap {"dashboard", "car"} -> Values] : restoreBackup(file)
  \/ sendMoves
  \/ readDashboard \/ readDeviceConfig \/ handshake
  \/ linkOpens \/ linkDrops \/ reload

\* Every command is answered, refused or timed out, and the polls have a deadline.
Spec == Init /\ [][Next]_vars /\ WF_vars(sendMoves)

-----------------------------------------------------------------------------
sends == sendState = "sending"

\* What a running send has confirmed is on the dash, and stays there while the
\* rest is written: it becomes the baseline (send-setup.ts:163-169).
ConfirmedIsOnDash ==
  sends => \A f \in asked \ Restart :
             (\A i \in 1..Len(steps) : steps[i] # f) =>
                confirmed[f] = dash[f] /\ dash[f] = snapshot[f]

\* "One send restarts it at most once" (docs/tour.md:24), and it restarts last:
\* nothing is written to a dash that is rebooting (send-setup.ts:139-144).
OneRestart ==
  [][\A f \in Fields \cap Restart :
       (sends /\ connected /\ dash'[f] # dash[f]) => sendState' # "sending"]_vars

\* When a send succeeds, what it was given and did not leave for the next send
\* is on the dash, the brightness the sound and the rotation carry included, and
\* no longer listed unless the draft has moved on (send-actions.test.ts:72-77).
SentClears ==
  [][(sends /\ sendState' = "idle" /\ connected') =>
       \A f \in (asked \ Restart) \cup {Head(steps)} :
         /\ dash'[f] = snapshot[f]
         /\ draft'[f] = snapshot[f] => draft'[f] = device'[f]]_vars

\* An answer of the dash replaces no listed change; the demo layout alone is
\* given up for the setup of the dash (draft.ts:49-85).
AnswersKeepChanges ==
  [][reading' # reading =>
       \A f \in Fields :
         unsent(f) => \/ draft'[f] = draft[f]
                      \/ f = "dashboard" /\ draft[f] = SimConfig /\ device[f] = Null]_vars

\* A change made while a send runs is still listed when the send ends, unless
\* the dash holds it (send-actions.test.ts:79-90).
EditStaysUnsent ==
  [][(sends /\ sendState' # "sending") =>
       \A f \in edited :
         (unsent(f) /\ draft[f] # dash'[f]) => draft'[f] # device'[f]]_vars

newerDash == at(dash, "dashboard") = Newer

\* A dash with the setup of a newer tuner.  While this tuner knows, it writes
\* nothing, restores included (send-actions.test.ts:108-118).  A read that fails
\* makes it forget (useDashSync.ts:30-37), and a send then goes out: the newer
\* dashboard is written over by a send that takes the dashboard of the dash for
\* unknown, and by no other.
NewerDashKept ==
  [][connected => /\ dashNewer => dash' = dash
                  /\ newerDash /\ ~newerDash' => confirmed["dashboard"] = Null]_vars

\* "If the Wi-Fi drops mid-send, nothing changed on the dash" (docs/tour.md:27).
NothingChangedOnDrop == sendState = "failed" => ~touched

\* A send changes what it lists and nothing else; the sound travels with the
\* brightness the dash has (sound-sync.test.ts:51-59).
ChangesOnlyAsked ==
  [][\A f \in Fields :
       (sends /\ connected /\ dash'[f] # dash[f]) => f = Head(steps)]_vars

\* A send ends.
SendEnds == sends ~> ~sends
=============================================================================
