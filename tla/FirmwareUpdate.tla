--------------------------- MODULE FirmwareUpdate ---------------------------
(***************************************************************************)
(* The firmware update: the files picked, the dialog, the upload and its   *)
(* outcome (src/src/stores/firmware.store.ts, lib/firmware-update.ts,      *)
(* lib/wait-for-dash.ts) against the update of the dash.  Commands are     *)
(* answered in the order they were sent (CommandChannel).                  *)
(***************************************************************************)
EXTENDS Device, Integers, Sequences, FiniteSets

CONSTANTS
  Versions,
  Signatures,      \* the versions there is a signature file of
  Chunks,          \* the chunks of a firmware file
  MaxReads,        \* bound: files being read at one time
  Installs         \* bound: the installs that can run at one time

ASSUME FirmwareAssumption == Chunks \in Nat \ {0}

VARIABLES
  bin, sig,        \* the version whose file was picked, or NoFile
  reads,           \* the picked files that are being read
  view, cancelRequested,
  installs,        \* what each install waits for, and what it sends
  otaCalls,        \* the installs with a command not answered yet, oldest first
  dashVersion,     \* what the dash runs
  dashUpload,      \* the update the dash is receiving
  doubled,         \* history: the last install began while another ran
  before, sending, \* history: what the dash ran when it began, and what it sends
  unanswered       \* history: the step of it that failed first, or NoStep

firmwareVars == <<deviceVars, bin, sig, reads, view, cancelRequested, installs, otaCalls,
                  dashVersion, dashUpload, doubled, before, sending, unanswered>>

NoFile == "no file"
Old    == "old"
NoStep == "none"
Idle      == [pc |-> "idle", version |-> NoFile, sig |-> NoFile, sent |-> 0]
NoUpload  == [open |-> FALSE, version |-> NoFile, sig |-> NoFile, received |-> 0]
RunningViews == {"upload", "signature", "restart"}

FirmwareInit ==
  /\ DeviceInit
  /\ bin = NoFile /\ sig = NoFile /\ reads = {}
  /\ view = "choosing" /\ cancelRequested = FALSE
  /\ installs = [i \in Installs |-> Idle]
  /\ otaCalls = <<>>
  /\ dashVersion = Old /\ dashUpload = NoUpload
  /\ doubled = FALSE /\ before = Old /\ sending = NoFile
  /\ unanswered = NoStep

running == {i \in Installs : installs[i].pc # "idle"}

filesVars == <<bin, sig, reads>>
dashVars  == <<dashVersion, dashUpload>>
firmwareHistory == <<doubled, before, sending>>

-----------------------------------------------------------------------------
\* A file is picked, and read; a file that is not a firmware empties the slot.
pickFile(slot, file) ==
  /\ view = "choosing" /\ Cardinality(reads) < MaxReads
  /\ reads' = reads \cup {[slot |-> slot, file |-> file]}
  /\ UNCHANGED <<deviceVars, bin, sig, view, cancelRequested, installs, otaCalls, dashVars,
                 firmwareHistory, unanswered>>

choose(read) ==
  /\ read \in reads
  /\ reads' = reads \ {read}
  /\ IF read.slot = "bin" THEN bin' = read.file /\ UNCHANGED sig
                          ELSE sig' = read.file /\ UNCHANGED bin
  /\ UNCHANGED <<deviceVars, view, cancelRequested, installs, otaCalls, dashVars,
                 firmwareHistory, unanswered>>

askToInstall ==
  /\ view = "choosing" /\ NoFile \notin {bin, sig}
  /\ linkUp /\ ~simulationMode
  /\ view' = "confirming"
  /\ UNCHANGED <<deviceVars, filesVars, cancelRequested, installs, otaCalls, dashVars,
                 firmwareHistory, unanswered>>

backToChoosing ==
  /\ view \in {"confirming", "failed"}
  /\ view' = "choosing"
  /\ UNCHANGED <<deviceVars, filesVars, cancelRequested, installs, otaCalls, dashVars,
                 firmwareHistory, unanswered>>

finishUpdate ==
  /\ view \in {"success", "reconnect", "failed"}
  /\ view' = "choosing" /\ bin' = NoFile /\ sig' = NoFile
  /\ UNCHANGED <<deviceVars, reads, cancelRequested, installs, otaCalls, dashVars,
                 firmwareHistory, unanswered>>

cancelUpload ==
  /\ view = "upload"
  /\ cancelRequested' = TRUE
  /\ UNCHANGED <<deviceVars, filesVars, view, installs, otaCalls, dashVars,
                 firmwareHistory, unanswered>>

\* runInstall(), up to its first command.
beginsInstall(i) ==
  /\ installs' = [installs EXCEPT ![i] = [pc |-> "begin", version |-> bin, sig |-> sig, sent |-> 0]]
  /\ otaCalls' = Append(otaCalls, i)
  /\ cancelRequested' = FALSE
  /\ doubled' = (running # {})
  /\ before' = dashVersion
  /\ sending' = bin
  /\ unanswered' = NoStep

\* The button of the dialog runs install() and then closes the dialog, whose
\* onOpenChange goes back to choosing: the running view shows from the first
\* chunk on.
confirmInstall ==
  /\ view = "confirming"
  /\ view' = "choosing"
  /\ IF NoFile \in {bin, sig}
     THEN UNCHANGED <<installs, otaCalls, cancelRequested, firmwareHistory, unanswered>>
     ELSE \E i \in Installs \ running : beginsInstall(i)
  /\ UNCHANGED <<deviceVars, filesVars, dashVars>>

-----------------------------------------------------------------------------
(* The dash. *)

call == installs[Head(otaCalls)]

accepts ==
  CASE call.pc = "begin"  -> TRUE
    [] call.pc = "write"  -> /\ dashUpload.open /\ dashUpload.received = call.sent
                             /\ dashUpload.version = call.version
    [] call.pc = "commit" -> /\ dashUpload.open /\ dashUpload.received = Chunks
                             /\ dashUpload.version = dashUpload.sig
    [] OTHER              -> TRUE

obeyCall ==
  /\ dashVersion' = IF call.pc = "commit" THEN dashUpload.version ELSE dashVersion
  /\ dashUpload' = CASE call.pc = "begin" -> [open |-> TRUE, version |-> call.version,
                                              sig |-> call.sig, received |-> 0]
                     [] call.pc = "write" -> [dashUpload EXCEPT !.received = @ + 1]
                     [] OTHER             -> NoUpload

-----------------------------------------------------------------------------
(* What follows the answer to the oldest command, of install i.            *)

sends(i, step, sent) ==
  /\ installs' = [installs EXCEPT ![i].pc = step, ![i].sent = sent]
  /\ otaCalls' = Append(Tail(otaCalls), i)
  /\ UNCHANGED deviceVars

ends(i, shown) ==
  /\ installs' = [installs EXCEPT ![i] = Idle]
  /\ otaCalls' = Tail(otaCalls)
  /\ view' = shown
  /\ UNCHANGED deviceVars

\* Faulted sendChunks: a cancelled upload is just left.
sendChunksUnaborted(i, sent) ==
  IF sent = Chunks THEN view' = "signature" /\ sends(i, "commit", sent)
  ELSE IF cancelRequested THEN ends(i, "choosing")
  ELSE view' = (IF sent = 0 THEN view ELSE "upload") /\ sends(i, "write", sent)

\* The loop over the chunks, at the top: progress was shown after every chunk.
sendChunks(i, sent) ==
  IF sent = Chunks THEN view' = "signature" /\ sends(i, "commit", sent)
  ELSE /\ view' = IF sent = 0 THEN view ELSE "upload"
       /\ sends(i, IF cancelRequested THEN "abortCancelled" ELSE "write", sent)

\* waitForDash() drops the link first.
waitsForDash(i) ==
  /\ installs' = [installs EXCEPT ![i].pc = "waiting"]
  /\ otaCalls' = Tail(otaCalls)
  /\ view' = "restart"
  /\ linkUp' = FALSE /\ connected' = FALSE
  /\ UNCHANGED simulationMode

succeeds(i) ==
  CASE call.pc = "begin"          -> sendChunks(i, 0)
    [] call.pc = "write"          -> sendChunks(i, call.sent + 1)
    [] call.pc = "abortCancelled" -> ends(i, "choosing")
    [] call.pc = "abortFailed"    -> ends(i, "failed")
    [] call.pc = "commit"         -> waitsForDash(i)

\* Faulted failure of the commit: the dash is thought to be restarting.
failsUnlessCommitted(i) ==
  CASE call.pc = "commit"         -> waitsForDash(i)
    [] call.pc = "write"          -> UNCHANGED view /\ sends(i, "abortFailed", call.sent)
    [] call.pc = "abortCancelled" -> ends(i, "choosing")
    [] OTHER                      -> ends(i, "failed")

fails(i) ==
  CASE call.pc = "write"          -> UNCHANGED view /\ sends(i, "abortFailed", call.sent)
    [] call.pc = "abortCancelled" -> ends(i, "choosing")
    [] OTHER                      -> ends(i, "failed")

otaCallSucceeds ==
  /\ otaCalls # <<>> /\ linkUp /\ accepts
  /\ obeyCall
  /\ succeeds(Head(otaCalls))
  /\ UNCHANGED <<filesVars, cancelRequested, firmwareHistory, unanswered>>

\* Refused, or no answer comes and the dash may have obeyed; at once on a link
\* that is down.
otaCallFails ==
  /\ otaCalls # <<>>
  /\ \/ linkUp /\ accepts /\ obeyCall
     \/ UNCHANGED dashVars
  /\ fails(Head(otaCalls))
  /\ unanswered' = IF unanswered = NoStep THEN call.pc ELSE unanswered
  /\ UNCHANGED <<filesVars, cancelRequested, firmwareHistory>>

\* The link drops: the calls fail.  The dash may have obeyed the oldest, and
\* forgets an update it was receiving when it restarted.
firmwareLinkDrops ==
  /\ setDisconnected
  /\ \/ otaCalls # <<>> /\ linkUp /\ accepts /\ obeyCall
     \/ UNCHANGED dashVars
     \/ dashUpload' = NoUpload /\ UNCHANGED dashVersion
  /\ UNCHANGED <<filesVars, view, cancelRequested, installs, otaCalls, firmwareHistory>>
  /\ unanswered' = IF unanswered = NoStep /\ otaCalls # <<>> THEN call.pc ELSE unanswered

firmwareDeviceStep ==
  /\ otaCalls = <<>>
  /\ setConnected \/ enterSimulation \/ exitSimulation
  /\ UNCHANGED <<filesVars, view, cancelRequested, installs, otaCalls, dashVars,
                 firmwareHistory, unanswered>>

\* Faulted waitForDash: the deadline is not looked at.
dashAnswersWait(i) ==
  /\ installs[i].pc = "waiting" /\ linkUp
  /\ view' = "success"
  /\ installs' = [installs EXCEPT ![i] = Idle]
  /\ UNCHANGED <<deviceVars, filesVars, cancelRequested, otaCalls, dashVars,
                 firmwareHistory, unanswered>>

\* The dash is back, or the deadline of waitForDash() has passed.
waitEnds(i) ==
  /\ installs[i].pc = "waiting"
  /\ view' = IF linkUp THEN "success" ELSE "reconnect"
  /\ installs' = [installs EXCEPT ![i] = Idle]
  /\ UNCHANGED <<deviceVars, filesVars, cancelRequested, otaCalls, dashVars,
                 firmwareHistory, unanswered>>

otaCallEnds == otaCallSucceeds \/ otaCallFails

FirmwareNext ==
  \/ \E file \in Versions \cup {NoFile} : pickFile("bin", file)
  \/ \E file \in Signatures \cup {NoFile} : pickFile("sig", file)
  \/ \E read \in reads : choose(read)
  \/ askToInstall \/ backToChoosing \/ finishUpdate \/ cancelUpload \/ confirmInstall
  \/ otaCallEnds \/ (\E i \in Installs : waitEnds(i)) \/ firmwareLinkDrops \/ firmwareDeviceStep

\* Every command is answered or times out (AckQueue), and a wait has a deadline.
FirmwareSpec ==
  /\ FirmwareInit /\ [][FirmwareNext]_firmwareVars
  /\ WF_firmwareVars(otaCallEnds)
  /\ \A i \in Installs : WF_firmwareVars(waitEnds(i))

-----------------------------------------------------------------------------
\* The outcome shown is what happened: a dash said to have been updated runs the
\* version that was sent, and one said to have kept its version did, unless the
\* commit is what got no answer (firmware-update.ts:58-72, firmware.store.ts:64-93).
OutcomeIsTrue ==
  ~doubled =>
    /\ view \in {"restart", "success", "reconnect"} => dashVersion = sending
    /\ (view = "failed" /\ unanswered # "commit") => dashVersion = before

\* An install that ended, cancelled or refused included, leaves no half received
\* update on the dash, when every command was answered.
NoUploadLeft ==
  (~doubled /\ running = {} /\ unanswered = NoStep) => ~dashUpload.open

\* Every install ends (the deadline of the wait included).
InstallEnds == \A i \in Installs : installs[i].pc # "idle" ~> installs[i].pc = "idle"

\* What firmware.store.test.ts says of the store: "never starts a second install
\* while one runs".
OneInstall == Cardinality(running) <= 1
=============================================================================
