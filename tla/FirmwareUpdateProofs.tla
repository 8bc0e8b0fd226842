------------------------ MODULE FirmwareUpdateProofs ------------------------
(***************************************************************************)
(* Proofs about FirmwareUpdate, for every number of chunks and of installs *)
(* and every set of versions: the types, the queue of commands, and what   *)
(* holds of an install that runs alone.                                    *)
(***************************************************************************)
EXTENDS FirmwareUpdate, SequenceTheorems, TLAPS

\* What the parts of the state range over.
Views     == {"choosing", "confirming", "upload", "signature", "restart", "success",
              "reconnect", "failed"}
CallSteps == {"begin", "write", "commit", "abortCancelled", "abortFailed"}
Running   == [pc : CallSteps \cup {"waiting"}, version : Versions, sig : Signatures, sent : 0 .. Chunks]
Receiving == [open : {TRUE}, version : Versions, sig : Signatures, received : 0 .. Chunks]
Picked    == [slot : {"bin"}, file : Versions \cup {NoFile}]
        \cup [slot : {"sig"}, file : Signatures \cup {NoFile}]

FirmwareTypeOK ==
  /\ DeviceTypeOK
  /\ bin \in Versions \cup {NoFile} /\ sig \in Signatures \cup {NoFile} /\ reads \subseteq Picked
  /\ view \in Views /\ cancelRequested \in BOOLEAN /\ doubled \in BOOLEAN
  /\ installs \in [Installs -> Running \cup {Idle}]
  /\ \A i \in Installs : installs[i].pc = "write" => installs[i].sent < Chunks
  /\ otaCalls \in Seq(Installs)
  /\ dashVersion \in Versions \cup {Old} /\ dashUpload \in Receiving \cup {NoUpload}
  /\ before \in Versions \cup {Old} /\ sending \in Versions \cup {NoFile}
  /\ unanswered \in CallSteps \cup {NoStep}

\* Every command out is that of an install that waits for it, and an install has
\* one command out at most.
QueueInv ==
  /\ \A k \in 1 .. Len(otaCalls) : installs[otaCalls[k]].pc \in CallSteps
  /\ \A k, l \in 1 .. Len(otaCalls) : otaCalls[k] = otaCalls[l] => k = l
  /\ \A i \in Installs : installs[i].pc \in CallSteps => \E k \in 1 .. Len(otaCalls) : otaCalls[k] = i

\* An install that runs alone is in order: the view is one of its own or of the
\* dialog, the dash runs the old version until the commit and the new one after it,
\* and receives nothing but what is sent.  A step that failed first is the one the
\* install is about to hear of.
Ongoing(i) ==
  LET pc == installs[i].pc
  IN /\ installs[i].version = sending
     /\ view \in IF pc = "waiting" THEN {"restart"} ELSE {"choosing", "confirming", "upload", "signature"}
     /\ pc \in {"begin", "write", "commit"} => unanswered = NoStep \/ (unanswered = pc /\ ~linkUp)
     /\ pc \in CallSteps \ {"commit"} => dashVersion = before
     /\ pc = "commit" => dashVersion = before \/ unanswered = "commit"
     /\ pc = "waiting" => dashVersion = sending /\ ~dashUpload.open
     /\ pc # "begin" /\ dashUpload.open => dashUpload.version = sending

\* No install runs: the outcome shown is true, and nothing is left on the dash
\* unless a command was not answered.
Ended ==
  /\ view \notin RunningViews
  /\ view \in {"success", "reconnect"} => dashVersion = sending
  /\ view = "failed" /\ unanswered # "commit" => dashVersion = before
  /\ unanswered = NoStep => ~dashUpload.open

\* One install at most, in order while it runs and after it.
Single ==
  /\ \A i, j \in running : i = j
  /\ \A i \in running : Ongoing(i)
  /\ running = {} => Ended

\* The inductive invariant: the order of an install is claimed only when none other
\* ran with it.
FirmwareInv == FirmwareTypeOK /\ QueueInv /\ (~doubled => Single)

-----------------------------------------------------------------------------
(* The queue of commands.                                                  *)

\* The oldest command is that of an install that waits for its answer.
LEMMA HeadCalls ==
  ASSUME FirmwareTypeOK, QueueInv, otaCalls # <<>>
  PROVE  /\ Head(otaCalls) \in Installs /\ call = installs[Head(otaCalls)]
         /\ call \in Running /\ call.pc \in CallSteps
         /\ Len(otaCalls) \in Nat \ {0} /\ Head(otaCalls) = otaCalls[1]
  <1>1. /\ Len(otaCalls) \in Nat \ {0} /\ Head(otaCalls) = otaCalls[1]
        /\ otaCalls[1] \in Installs
    BY DEF FirmwareTypeOK
  <1>2. installs[otaCalls[1]].pc \in CallSteps
    BY <1>1 DEF QueueInv
  <1>3. installs[otaCalls[1]] \in Running
    BY <1>1, <1>2 DEF FirmwareTypeOK, Idle, CallSteps
  <1> QED BY <1>1, <1>2, <1>3 DEF call

\* An install that begins has no command in the queue yet.
LEMMA QueueGrows ==
  ASSUME FirmwareTypeOK, QueueInv, NEW i \in Installs, installs[i].pc \notin CallSteps,
         installs' \in [Installs -> Running \cup {Idle}], installs'[i].pc \in CallSteps,
         \A j \in Installs \ {i} : installs'[j] = installs[j], otaCalls' = Append(otaCalls, i)
  PROVE  QueueInv' /\ otaCalls' \in Seq(Installs)
  <1> DEFINE n == Len(otaCalls)
  <1>1. /\ otaCalls \in Seq(Installs) /\ n \in Nat
        /\ \A k \in 1 .. n : otaCalls[k] \in Installs /\ otaCalls[k] # i
    BY DEF FirmwareTypeOK, QueueInv
  <1>2. /\ otaCalls' \in Seq(Installs) /\ Len(otaCalls') = n + 1 /\ otaCalls'[n + 1] = i
        /\ \A k \in 1 .. n : otaCalls'[k] = otaCalls[k]
    BY <1>1
  <1> HIDE DEF n
  <1>3. \A k \in 1 .. n + 1 : k \in 1 .. n \/ k = n + 1
    BY <1>1
  <1>4. \A k \in 1 .. Len(otaCalls') : installs'[otaCalls'[k]].pc \in CallSteps
    BY <1>1, <1>2, <1>3 DEF QueueInv, n
  <1>5. \A k, l \in 1 .. Len(otaCalls') : otaCalls'[k] = otaCalls'[l] => k = l
    BY <1>1, <1>2, <1>3 DEF QueueInv, n
  <1>6. ASSUME NEW j \in Installs, installs'[j].pc \in CallSteps
        PROVE  \E k \in 1 .. Len(otaCalls') : otaCalls'[k] = j
    <2>1. CASE j = i
      <3>1. n + 1 \in 1 .. n + 1
        BY <1>1
      <3> QED BY <1>2, <2>1, <3>1
    <2>2. CASE j # i
      <3>1. PICK k \in 1 .. n : otaCalls[k] = j
        BY <1>6, <2>2 DEF QueueInv, n
      <3>2. k \in 1 .. n + 1
        BY <1>1
      <3> QED BY <1>2, <3>1, <3>2
    <2> QED BY <2>1, <2>2
  <1> QED BY <1>2, <1>4, <1>5, <1>6 DEF QueueInv

\* The oldest command is answered, and its install sends no other.
LEMMA QueueShrinks ==
  ASSUME FirmwareTypeOK, QueueInv, otaCalls # <<>>,
         installs' \in [Installs -> Running \cup {Idle}],
         installs'[Head(otaCalls)].pc \notin CallSteps,
         \A j \in Installs \ {Head(otaCalls)} : installs'[j] = installs[j],
         otaCalls' = Tail(otaCalls)
  PROVE  QueueInv' /\ otaCalls' \in Seq(Installs)
  <1> DEFINE n == Len(otaCalls)  i == Head(otaCalls)
  <1>1. /\ otaCalls \in Seq(Installs) /\ n \in Nat \ {0} /\ i = otaCalls[1] /\ i \in Installs
        /\ \A k \in 1 .. n : otaCalls[k] \in Installs
    BY HeadCalls DEF FirmwareTypeOK
  <1>2. /\ otaCalls' \in Seq(Installs) /\ Len(otaCalls') = n - 1
        /\ \A k \in 1 .. n - 1 : otaCalls'[k] = otaCalls[k + 1]
    BY <1>1
  <1> HIDE DEF n, i
  <1>3. \A k \in 1 .. n - 1 : k + 1 \in 1 .. n /\ otaCalls[k + 1] # i /\ otaCalls[k + 1] \in Installs
    <2>1. 1 \in 1 .. n /\ \A k \in 1 .. n - 1 : k + 1 \in 1 .. n /\ k + 1 # 1
      BY <1>1
    <2> QED BY <1>1, <2>1 DEF QueueInv, n
  <1>4. \A k \in 1 .. Len(otaCalls') : installs'[otaCalls'[k]].pc \in CallSteps
    BY <1>1, <1>2, <1>3 DEF QueueInv, n, i
  <1>5. ASSUME NEW k \in 1 .. Len(otaCalls'), NEW l \in 1 .. Len(otaCalls'),
               otaCalls'[k] = otaCalls'[l]
        PROVE  k = l
    <2>1. k + 1 = l + 1
      BY <1>2, <1>3, <1>5 DEF QueueInv, n
    <2> QED BY <1>1, <1>2, <2>1
  <1>6. ASSUME NEW j \in Installs, installs'[j].pc \in CallSteps
        PROVE  \E k \in 1 .. Len(otaCalls') : otaCalls'[k] = j
    <2>1. j # i /\ installs[j].pc \in CallSteps
      BY <1>6 DEF i
    <2>2. PICK k \in 1 .. n : otaCalls[k] = j
      BY <2>1 DEF QueueInv, n
    <2>3. k # 1 /\ k - 1 \in 1 .. n - 1 /\ (k - 1) + 1 = k
      BY <1>1, <2>1, <2>2
    <2> QED BY <1>2, <2>2, <2>3
  <1> QED BY <1>2, <1>4, <1>5, <1>6 DEF QueueInv

\* The oldest command is answered, and its install sends the next.
LEMMA QueueTurns ==
  ASSUME FirmwareTypeOK, QueueInv, otaCalls # <<>>,
         installs' \in [Installs -> Running \cup {Idle}],
         installs'[Head(otaCalls)].pc \in CallSteps,
         \A j \in Installs \ {Head(otaCalls)} : installs'[j] = installs[j],
         otaCalls' = Append(Tail(otaCalls), Head(otaCalls))
  PROVE  QueueInv' /\ otaCalls' \in Seq(Installs)
  <1> DEFINE n == Len(otaCalls)  i == Head(otaCalls)
  <1>1. /\ otaCalls \in Seq(Installs) /\ n \in Nat \ {0} /\ i = otaCalls[1] /\ i \in Installs
        /\ \A k \in 1 .. n : otaCalls[k] \in Installs
    BY HeadCalls DEF FirmwareTypeOK
  <1>2. /\ Tail(otaCalls) \in Seq(Installs) /\ Len(Tail(otaCalls)) = n - 1
        /\ \A k \in 1 .. n - 1 : Tail(otaCalls)[k] = otaCalls[k + 1]
    BY <1>1
  <1>3. /\ otaCalls' \in Seq(Installs) /\ Len(otaCalls') = n /\ otaCalls'[n] = i
        /\ \A k \in 1 .. n - 1 : otaCalls'[k] = otaCalls[k + 1]
    BY <1>1, <1>2
  <1> HIDE DEF n, i
  <1>4. \A k \in 1 .. n : k \in 1 .. n - 1 \/ k = n
    BY <1>1
  <1>5. \A k \in 1 .. n - 1 : k + 1 \in 1 .. n /\ otaCalls[k + 1] # i /\ otaCalls[k + 1] \in Installs
    <2>1. 1 \in 1 .. n /\ \A k \in 1 .. n - 1 : k + 1 \in 1 .. n /\ k + 1 # 1
      BY <1>1
    <2> QED BY <1>1, <2>1 DEF QueueInv, n
  <1>6. ASSUME NEW k \in 1 .. n PROVE installs'[otaCalls'[k]].pc \in CallSteps
    <2>1. CASE k = n
      BY <1>3, <2>1 DEF i
    <2>2. CASE k \in 1 .. n - 1
      BY <1>3, <1>5, <2>2 DEF QueueInv, n, i
    <2> QED BY <1>4, <2>1, <2>2
  <1>7. ASSUME NEW k \in 1 .. n, NEW l \in 1 .. n, otaCalls'[k] = otaCalls'[l] PROVE k = l
    <2>1. CASE k = n /\ l = n
      BY <2>1
    <2>2. CASE k \in 1 .. n - 1 /\ l \in 1 .. n - 1
      <3>1. k + 1 = l + 1
        BY <1>3, <1>5, <1>7, <2>2 DEF QueueInv, n
      <3> QED BY <2>2, <3>1
    <2>3. CASE k = n /\ l \in 1 .. n - 1
      BY <1>3, <1>5, <1>7, <2>3
    <2>4. CASE k \in 1 .. n - 1 /\ l = n
      BY <1>3, <1>5, <1>7, <2>4
    <2> QED BY <1>4, <2>1, <2>2, <2>3, <2>4
  <1>8. ASSUME NEW j \in Installs, installs'[j].pc \in CallSteps
        PROVE  \E k \in 1 .. n : otaCalls'[k] = j
    <2>1. CASE j = i
      <3>1. n \in 1 .. n
        BY <1>1
      <3> QED BY <1>3, <2>1, <3>1
    <2>2. CASE j # i
      <3>1. PICK k \in 1 .. n : otaCalls[k] = j
        BY <1>8, <2>2 DEF QueueInv, n, i
      <3>2. k # 1 /\ k - 1 \in 1 .. n - 1 /\ (k - 1) + 1 = k /\ k - 1 \in 1 .. n
        BY <1>1, <2>2, <3>1
      <3> QED BY <1>3, <3>1, <3>2
    <2> QED BY <2>1, <2>2
  <1> QED BY <1>3, <1>6, <1>7, <1>8 DEF QueueInv

-----------------------------------------------------------------------------
(* The types.                                                              *)

\* The part that holds of installs that overlap too.
TypedQueue == FirmwareTypeOK /\ QueueInv

\* The types and the queue, at the start.
LEMMA InitTypedQueue == FirmwareInit => TypedQueue
  <1> SUFFICES ASSUME FirmwareInit PROVE TypedQueue
    OBVIOUS
  <1> USE DEF FirmwareInit
  <1>1. installs \in [Installs -> Running \cup {Idle}] /\ \A i \in Installs : installs[i].pc = "idle"
    BY DEF Idle
  <1>2. otaCalls \in Seq(Installs) /\ Len(otaCalls) = 0
    OBVIOUS
  <1>3. DeviceTypeOK
    BY DEF DeviceTypeOK, DeviceInit
  <1>4. FirmwareTypeOK
    BY <1>1, <1>2, <1>3 DEF FirmwareTypeOK, Views
  <1>5. QueueInv
    BY <1>1, <1>2 DEF QueueInv, CallSteps
  <1> QED BY <1>4, <1>5 DEF TypedQueue

\* The steps that leave the installs and their commands alone: the files, the
\* dialog, the link.
LEMMA AsideTypes ==
  ASSUME TypedQueue, UNCHANGED <<installs, otaCalls, doubled, before, sending>>,
         DeviceTypeOK', bin' \in Versions \cup {NoFile}, sig' \in Signatures \cup {NoFile},
         reads' \subseteq Picked, view' \in Views, cancelRequested' \in BOOLEAN,
         dashVersion' \in Versions \cup {Old}, dashUpload' \in Receiving \cup {NoUpload},
         unanswered' \in CallSteps \cup {NoStep}
  PROVE  TypedQueue'
  BY DEF TypedQueue, FirmwareTypeOK, QueueInv

\* A step that leaves the link alone leaves it well typed.
LEMMA DeviceSame == DeviceTypeOK /\ UNCHANGED deviceVars => DeviceTypeOK'
  BY DEF DeviceTypeOK, deviceVars

\* The steps on the files and in the dialog.
LEMMA FilesTypes ==
  ASSUME TypedQueue,
         \/ \E file \in Versions \cup {NoFile} : pickFile("bin", file)
         \/ \E file \in Signatures \cup {NoFile} : pickFile("sig", file)
         \/ \E read \in reads : choose(read)
         \/ askToInstall \/ backToChoosing \/ finishUpdate \/ cancelUpload
  PROVE  TypedQueue'
  <1> USE DEF TypedQueue, firmwareHistory, dashVars, filesVars
  <1>1. UNCHANGED <<deviceVars, installs, otaCalls, dashVersion, dashUpload, doubled, before, sending, unanswered>>
    BY DEF pickFile, choose, askToInstall, backToChoosing, finishUpdate, cancelUpload
  <1>2. DeviceTypeOK'
    BY <1>1, DeviceSame DEF FirmwareTypeOK
  <1>3. /\ bin' \in Versions \cup {NoFile} /\ sig' \in Signatures \cup {NoFile}
        /\ reads' \subseteq Picked
    <2>1. CASE \E file \in Versions \cup {NoFile} : pickFile("bin", file)
      BY <2>1 DEF FirmwareTypeOK, pickFile, Picked
    <2>2. CASE \E file \in Signatures \cup {NoFile} : pickFile("sig", file)
      BY <2>2 DEF FirmwareTypeOK, pickFile, Picked
    <2>3. CASE \E read \in reads : choose(read)
      <3>1. PICK read \in reads : choose(read)
        BY <2>3
      <3>2. /\ read.slot = "bin" => read.file \in Versions \cup {NoFile}
            /\ read.slot # "bin" => read.file \in Signatures \cup {NoFile}
        BY DEF FirmwareTypeOK, Picked
      <3> QED BY <3>1, <3>2 DEF FirmwareTypeOK, choose
    <2>4. CASE askToInstall \/ backToChoosing \/ finishUpdate \/ cancelUpload
      BY <2>4 DEF FirmwareTypeOK, askToInstall, backToChoosing, finishUpdate, cancelUpload
    <2> QED BY <2>1, <2>2, <2>3, <2>4
  <1>4. view' \in Views /\ cancelRequested' \in BOOLEAN
    BY DEF FirmwareTypeOK, Views, pickFile, choose, askToInstall, backToChoosing, finishUpdate,
           cancelUpload
  <1> QED BY <1>1, <1>2, <1>3, <1>4, AsideTypes DEF FirmwareTypeOK

\* An install begins with the two files there are.
LEMMA BeginsTypes ==
  ASSUME TypedQueue, NEW i \in Installs \ running, beginsInstall(i), NoFile \notin {bin, sig},
         view' = "choosing", UNCHANGED <<deviceVars, filesVars, dashVars>>
  PROVE  /\ TypedQueue'
         /\ installs'[i] = [pc |-> "begin", version |-> bin, sig |-> sig, sent |-> 0]
         /\ \A j \in Installs \ {i} : installs'[j] = installs[j]
  <1> USE DEF TypedQueue, beginsInstall
  <1> DEFINE begun == [pc |-> "begin", version |-> bin, sig |-> sig, sent |-> 0]
  <1>1. begun \in Running /\ begun.pc = "begin"
    BY FirmwareAssumption DEF Running, CallSteps, FirmwareTypeOK, FirmwareAssumption
  <1>2. /\ installs' = [installs EXCEPT ![i] = begun]
        /\ otaCalls' = Append(otaCalls, i) /\ installs[i].pc = "idle"
    BY DEF running
  <1> HIDE DEF begun
  <1>3. /\ installs' \in [Installs -> Running \cup {Idle}] /\ installs'[i] = begun
        /\ \A j \in Installs \ {i} : installs'[j] = installs[j]
    BY <1>1, <1>2 DEF FirmwareTypeOK
  <1>4. QueueInv' /\ otaCalls' \in Seq(Installs)
    BY <1>1, <1>2, <1>3, QueueGrows DEF CallSteps
  <1>5. DeviceTypeOK'
    BY DeviceSame DEF FirmwareTypeOK
  <1>6. \A j \in Installs : installs'[j].pc = "write" => installs'[j].sent < Chunks
    BY <1>1, <1>3 DEF FirmwareTypeOK
  <1>7. doubled' \in BOOLEAN /\ sending' \in Versions \cup {NoFile} /\ before' \in Versions \cup {Old}
    BY DEF FirmwareTypeOK
  <1>8. FirmwareTypeOK'
    BY <1>3, <1>4, <1>5, <1>6, <1>7 DEF FirmwareTypeOK, Views, filesVars, dashVars
  <1> QED BY <1>3, <1>4, <1>8 DEF begun

\* The install whose command was answered goes on, or ends.
LEMMA MovesTypes ==
  ASSUME TypedQueue, otaCalls # <<>>, NEW i, i = Head(otaCalls),
         NEW run \in Running \cup {Idle}, installs' = [installs EXCEPT ![i] = run],
         run.pc = "write" => run.sent < Chunks,
         \/ run.pc \in CallSteps /\ otaCalls' = Append(Tail(otaCalls), i)
         \/ run.pc \notin CallSteps /\ otaCalls' = Tail(otaCalls)
  PROVE  /\ QueueInv' /\ otaCalls' \in Seq(Installs)
         /\ installs' \in [Installs -> Running \cup {Idle}]
         /\ installs'[i] = run /\ \A j \in Installs \ {i} : installs'[j] = installs[j]
         /\ \A j \in Installs : installs'[j].pc = "write" => installs'[j].sent < Chunks
  <1> USE DEF TypedQueue
  <1>1. i \in Installs
    BY HeadCalls
  <1>2. /\ installs' \in [Installs -> Running \cup {Idle}]
        /\ installs'[i] = run /\ \A j \in Installs \ {i} : installs'[j] = installs[j]
    BY <1>1 DEF FirmwareTypeOK
  <1>3. QueueInv' /\ otaCalls' \in Seq(Installs)
    <2>1. CASE run.pc \in CallSteps /\ otaCalls' = Append(Tail(otaCalls), i)
      BY <1>2, <2>1, QueueTurns
    <2>2. CASE run.pc \notin CallSteps /\ otaCalls' = Tail(otaCalls)
      BY <1>2, <2>2, QueueShrinks
    <2> QED BY <2>1, <2>2
  <1>4. \A j \in Installs : installs'[j].pc = "write" => installs'[j].sent < Chunks
    BY <1>2 DEF FirmwareTypeOK
  <1> QED BY <1>2, <1>3, <1>4

\* What the answer to the oldest command makes of its install: the next step,
\* the end with the outcome shown, or the wait for the dash.
Moves(i, run) ==
  /\ installs' = [installs EXCEPT ![i] = run]
  /\ \/ run.pc \in CallSteps /\ otaCalls' = Append(Tail(otaCalls), i)
     \/ run.pc \notin CallSteps /\ otaCalls' = Tail(otaCalls)

\* Sending the next command, ending and waiting are such moves.
LEMMA SendsMoves ==
  ASSUME TypedQueue, otaCalls # <<>>, NEW step \in CallSteps, NEW sent \in 0 .. Chunks,
         sends(Head(otaCalls), step, sent)
  PROVE  \E run \in Running : /\ Moves(Head(otaCalls), run) /\ run.pc = step
                              /\ run.version = call.version /\ run.sent = sent
  <1> DEFINE i == Head(otaCalls)
             run == [installs[i] EXCEPT !.pc = step, !.sent = sent]
  <1>1. installs[i] \in Running /\ i \in Installs /\ call = installs[i]
    BY HeadCalls DEF TypedQueue
  <1>2. run \in Running /\ run.pc = step /\ run.version = installs[i].version /\ run.sent = sent
    BY <1>1 DEF Running
  <1>3. installs' = [installs EXCEPT ![i] = run] /\ otaCalls' = Append(Tail(otaCalls), i)
    BY <1>1 DEF sends, TypedQueue, FirmwareTypeOK
  <1> HIDE DEF run
  <1> QED BY <1>1, <1>2, <1>3 DEF Moves

\* An end makes the install idle.
LEMMA EndsMoves ==
  ASSUME NEW i, NEW shown, ends(i, shown)
  PROVE  Moves(i, Idle) /\ view' = shown /\ UNCHANGED deviceVars
  BY DEF ends, Moves, Idle, CallSteps

\* The wait begins with no command out.
LEMMA WaitsMoves ==
  ASSUME TypedQueue, otaCalls # <<>>, waitsForDash(Head(otaCalls))
  PROVE  \E run \in Running : /\ Moves(Head(otaCalls), run) /\ run.pc = "waiting"
                              /\ run.version = call.version
  <1> DEFINE i == Head(otaCalls)
             run == [installs[i] EXCEPT !.pc = "waiting"]
  <1>1. installs[i] \in Running /\ i \in Installs /\ call = installs[i]
    BY HeadCalls DEF TypedQueue
  <1>2. run \in Running /\ run.pc = "waiting" /\ run.version = installs[i].version
    BY <1>1 DEF Running
  <1>3. installs' = [installs EXCEPT ![i] = run] /\ otaCalls' = Tail(otaCalls)
    BY <1>1 DEF waitsForDash, TypedQueue, FirmwareTypeOK
  <1> HIDE DEF run
  <1> QED BY <1>1, <1>2, <1>3 DEF Moves, CallSteps

\* The answers, one by one: where the install goes and what is shown.
GoesOn(from, to) ==
  \E run \in Running : /\ Moves(Head(otaCalls), run)
                       /\ call.pc = from /\ run.pc \in to
                       /\ run.version = call.version
                       /\ run.pc = "write" => run.sent < Chunks

\* The top of the loop over the chunks: the next one, or the abort.
LEMMA NextChunk ==
  ASSUME TypedQueue, otaCalls # <<>>, NEW sent \in 0 .. Chunks, sent < Chunks,
         sends(Head(otaCalls), IF cancelRequested THEN "abortCancelled" ELSE "write", sent)
  PROVE  GoesOn(call.pc, {"write", "abortCancelled"}) /\ UNCHANGED deviceVars
  <1> DEFINE next == IF cancelRequested THEN "abortCancelled" ELSE "write"
  <1>1. next \in CallSteps /\ next \in {"write", "abortCancelled"}
    BY DEF CallSteps
  <1>2. sends(Head(otaCalls), next, sent)
    OBVIOUS
  <1> HIDE DEF next
  <1>3. PICK run \in Running : /\ Moves(Head(otaCalls), run) /\ run.pc = next
                               /\ run.version = call.version /\ run.sent = sent
    BY <1>1, <1>2, SendsMoves
  <1> QED BY <1>1, <1>2, <1>3 DEF GoesOn, sends

\* The six ways an answer can be followed by.
LEMMA SucceedsTo ==
  ASSUME TypedQueue, otaCalls # <<>>, succeeds(Head(otaCalls))
  PROVE  \/ GoesOn("begin", {"write", "abortCancelled"}) /\ UNCHANGED <<view, deviceVars>>
         \/ GoesOn("write", {"write", "abortCancelled"}) /\ view' = "upload" /\ UNCHANGED deviceVars
         \/ GoesOn("write", {"commit"}) /\ view' = "signature" /\ UNCHANGED deviceVars
         \/ call.pc = "abortCancelled" /\ ends(Head(otaCalls), "choosing")
         \/ call.pc = "abortFailed" /\ ends(Head(otaCalls), "failed")
         \/ GoesOn("commit", {"waiting"}) /\ waitsForDash(Head(otaCalls))
  <1> DEFINE i == Head(otaCalls)
             next == IF cancelRequested THEN "abortCancelled" ELSE "write"
  <1>1. call.pc \in CallSteps /\ call \in Running /\ (call.pc = "write" => call.sent < Chunks)
    BY HeadCalls DEF TypedQueue, FirmwareTypeOK
  <1>3. CASE call.pc = "begin"
    <2>1. sendChunks(i, 0)
      BY <1>3 DEF succeeds
    <2>2. 0 # Chunks /\ 0 \in 0 .. Chunks /\ 0 < Chunks
      BY FirmwareAssumption DEF FirmwareAssumption
    <2>3. view' = view /\ sends(i, next, 0)
      BY <2>1, <2>2 DEF sendChunks
    <2> QED BY <1>3, <2>2, <2>3, NextChunk
  <1>4. CASE call.pc = "write"
    <2>1. sendChunks(i, call.sent + 1)
      BY <1>4 DEF succeeds
    <2>2. /\ call.sent + 1 \in 0 .. Chunks /\ call.sent + 1 # 0
          /\ call.sent + 1 # Chunks => call.sent + 1 < Chunks
      BY <1>1, <1>4, FirmwareAssumption DEF Running, FirmwareAssumption
    <2>3. CASE call.sent + 1 = Chunks
      <3>1. view' = "signature" /\ sends(i, "commit", call.sent + 1) /\ "commit" \in CallSteps
        BY <2>1, <2>3 DEF sendChunks, CallSteps
      <3> QED BY <1>4, <2>2, <3>1, SendsMoves DEF GoesOn, sends
    <2>4. CASE call.sent + 1 # Chunks
      <3>1. view' = "upload" /\ sends(i, next, call.sent + 1)
        BY <2>1, <2>2, <2>4 DEF sendChunks
      <3> QED BY <1>4, <2>2, <2>4, <3>1, NextChunk
    <2> QED BY <2>3, <2>4
  <1>5. CASE call.pc = "abortCancelled"
    BY <1>5 DEF succeeds
  <1>6. CASE call.pc = "abortFailed"
    BY <1>6 DEF succeeds
  <1>7. CASE call.pc = "commit"
    <2>1. waitsForDash(i)
      BY <1>7 DEF succeeds
    <2> QED BY <1>7, <2>1, WaitsMoves DEF GoesOn
  <1> QED BY <1>1, <1>3, <1>4, <1>5, <1>6, <1>7 DEF CallSteps

\* The three ways a failed command can be followed by.
LEMMA FailsTo ==
  ASSUME TypedQueue, otaCalls # <<>>, fails(Head(otaCalls))
  PROVE  \/ GoesOn("write", {"abortFailed"}) /\ UNCHANGED <<view, deviceVars>>
         \/ call.pc = "abortCancelled" /\ ends(Head(otaCalls), "choosing")
         \/ call.pc \in {"begin", "commit", "abortFailed"} /\ ends(Head(otaCalls), "failed")
  <1>1. call.pc \in CallSteps /\ call \in Running
    BY HeadCalls DEF TypedQueue
  <1>2. CASE call.pc = "write"
    <2>1. /\ UNCHANGED view /\ sends(Head(otaCalls), "abortFailed", call.sent)
          /\ "abortFailed" \in CallSteps /\ call.sent \in 0 .. Chunks
      BY <1>1, <1>2 DEF fails, Running, CallSteps
    <2> QED BY <1>2, <2>1, SendsMoves DEF GoesOn, sends
  <1>3. CASE call.pc = "abortCancelled"
    BY <1>3 DEF fails
  <1>4. CASE call.pc \notin {"write", "abortCancelled"}
    BY <1>1, <1>4 DEF fails, CallSteps
  <1> QED BY <1>2, <1>3, <1>4

\* A dash that obeys: the update it receives, and the version it runs.
LEMMA ObeyTypes ==
  ASSUME TypedQueue, otaCalls # <<>>, accepts, obeyCall
  PROVE  dashVersion' \in Versions \cup {Old} /\ dashUpload' \in Receiving \cup {NoUpload}
  <1>1. call \in Running /\ (call.pc = "write" => call.sent < Chunks)
    BY HeadCalls DEF TypedQueue, FirmwareTypeOK
  <1>2. dashUpload.open => dashUpload \in Receiving
    BY DEF TypedQueue, FirmwareTypeOK, NoUpload
  <1>3. CASE call.pc = "begin"
    <2>1. [open |-> TRUE, version |-> call.version, sig |-> call.sig, received |-> 0] \in Receiving
      BY <1>1, FirmwareAssumption DEF Running, Receiving, FirmwareAssumption
    <2> QED BY <1>3, <2>1 DEF obeyCall, TypedQueue, FirmwareTypeOK
  <1>4. CASE call.pc = "write"
    <2>1. dashUpload \in Receiving /\ dashUpload.received = call.sent
      BY <1>2, <1>4 DEF accepts
    <2>2. call.sent + 1 \in 0 .. Chunks
      BY <1>1, <1>4, FirmwareAssumption DEF Running, FirmwareAssumption
    <2>3. [dashUpload EXCEPT !.received = @ + 1] \in Receiving
      BY <2>1, <2>2 DEF Receiving
    <2> QED BY <1>4, <2>3 DEF obeyCall, TypedQueue, FirmwareTypeOK
  <1>5. CASE call.pc = "commit"
    <2>1. dashUpload.version \in Versions
      BY <1>2, <1>5 DEF accepts, Receiving
    <2> QED BY <1>5, <2>1 DEF obeyCall
  <1>6. CASE call.pc \notin {"begin", "write", "commit"}
    BY <1>6 DEF obeyCall, TypedQueue, FirmwareTypeOK
  <1> QED BY <1>3, <1>4, <1>5, <1>6

\* The answers, good and bad.
LEMMA AnswerTypes == ASSUME TypedQueue, otaCallEnds PROVE TypedQueue'
  <1>1. otaCalls # <<>> /\ call.pc \in CallSteps
    BY HeadCalls DEF otaCallEnds, otaCallSucceeds, otaCallFails, TypedQueue
  <1>2. /\ \E run \in Running \cup {Idle} :
             Moves(Head(otaCalls), run) /\ (run.pc = "write" => run.sent < Chunks)
        /\ view' \in Views /\ DeviceTypeOK'
    <2>0. /\ view \in Views /\ DeviceTypeOK
          /\ {"upload", "signature", "restart", "choosing", "failed"} \subseteq Views
      BY DEF TypedQueue, FirmwareTypeOK, Views
    <2>1. ASSUME NEW shown \in {"choosing", "failed"}, ends(Head(otaCalls), shown)
          PROVE  /\ Moves(Head(otaCalls), Idle) /\ Idle.pc # "write"
                 /\ view' \in Views /\ DeviceTypeOK'
      BY <2>0, <2>1, DeviceSame, EndsMoves DEF Idle
    <2>2. ASSUME NEW from, NEW to, GoesOn(from, to)
          PROVE  \E run \in Running :
                   Moves(Head(otaCalls), run) /\ (run.pc = "write" => run.sent < Chunks)
      <3>1. PICK run \in Running : /\ Moves(Head(otaCalls), run) /\ run.pc \in to
                                   /\ (run.pc = "write" => run.sent < Chunks)
        BY <2>2 DEF GoesOn
      <3> QED BY <3>1
    <2>3. CASE otaCallSucceeds
      <3>1. succeeds(Head(otaCalls))
        BY <2>3 DEF otaCallSucceeds
      <3>2. waitsForDash(Head(otaCalls)) => view' = "restart" /\ DeviceTypeOK'
        BY <2>0 DEF waitsForDash, DeviceTypeOK
      <3> QED BY <1>1, <2>0, <2>1, <2>2, <3>1, <3>2, SucceedsTo, DeviceSame
    <2>4. CASE otaCallFails
      <3>1. fails(Head(otaCalls))
        BY <2>4 DEF otaCallFails
      <3> QED BY <1>1, <2>0, <2>1, <2>2, <3>1, FailsTo, DeviceSame
    <2> QED BY <2>3, <2>4 DEF otaCallEnds
  <1>3. /\ QueueInv' /\ otaCalls' \in Seq(Installs)
        /\ installs' \in [Installs -> Running \cup {Idle}]
        /\ \A j \in Installs : installs'[j].pc = "write" => installs'[j].sent < Chunks
    BY <1>1, <1>2, MovesTypes DEF Moves
  <1>4. /\ dashVersion' \in Versions \cup {Old} /\ dashUpload' \in Receiving \cup {NoUpload}
        /\ unanswered' \in CallSteps \cup {NoStep}
        /\ UNCHANGED <<bin, sig, reads, cancelRequested, doubled, before, sending>>
    BY <1>1, ObeyTypes DEF otaCallEnds, otaCallSucceeds, otaCallFails, filesVars, firmwareHistory,
       dashVars, TypedQueue, FirmwareTypeOK
  <1> QED BY <1>2, <1>3, <1>4 DEF TypedQueue, FirmwareTypeOK

\* The link and the dash it leads to.
LEMMA LinkTypes == ASSUME TypedQueue, firmwareLinkDrops \/ firmwareDeviceStep PROVE TypedQueue'
  <1>1. DeviceTypeOK'
    BY DEF TypedQueue, FirmwareTypeOK, DeviceTypeOK, firmwareLinkDrops, firmwareDeviceStep,
           setConnected, setDisconnected, enterSimulation, exitSimulation
  <1>2. /\ UNCHANGED <<installs, otaCalls, doubled, before, sending, bin, sig, reads, view, cancelRequested>>
        /\ dashVersion' \in Versions \cup {Old} /\ dashUpload' \in Receiving \cup {NoUpload}
        /\ unanswered' \in CallSteps \cup {NoStep}
    <2>1. CASE firmwareLinkDrops
      <3>1. otaCalls # <<>> => call.pc \in CallSteps
        BY HeadCalls DEF TypedQueue
      <3>2. otaCalls # <<>> /\ accepts /\ obeyCall =>
              dashVersion' \in Versions \cup {Old} /\ dashUpload' \in Receiving \cup {NoUpload}
        BY ObeyTypes
      <3> QED BY <2>1, <3>1, <3>2 DEF firmwareLinkDrops, firmwareHistory, filesVars, dashVars,
                                     TypedQueue, FirmwareTypeOK
    <2>2. CASE firmwareDeviceStep
      BY <2>2 DEF firmwareDeviceStep, firmwareHistory, filesVars, dashVars, TypedQueue, FirmwareTypeOK
    <2> QED BY <2>1, <2>2
  <1> QED BY <1>1, <1>2, AsideTypes DEF TypedQueue, FirmwareTypeOK

\* A wait ends: its install has no command out.
LEMMA WaitTypes ==
  ASSUME TypedQueue, NEW i \in Installs, waitEnds(i)
  PROVE  /\ TypedQueue' /\ installs'[i] = Idle
         /\ \A j \in Installs \ {i} : installs'[j] = installs[j]
  <1> USE DEF TypedQueue, waitEnds
  <1>1. /\ installs' \in [Installs -> Running \cup {Idle}] /\ installs'[i] = Idle
        /\ \A j \in Installs \ {i} : installs'[j] = installs[j]
    BY DEF FirmwareTypeOK
  <1>2. Idle.pc = "idle" /\ "idle" \notin CallSteps /\ "waiting" \notin CallSteps
    BY DEF Idle, CallSteps
  <1>3. QueueInv'
    <2>1. \A k \in 1 .. Len(otaCalls) : otaCalls[k] \in Installs /\ otaCalls[k] # i
      BY <1>2 DEF QueueInv, FirmwareTypeOK
    <2> QED BY <1>1, <1>2, <2>1 DEF QueueInv
  <1>4. \A j \in Installs : installs'[j].pc = "write" => installs'[j].sent < Chunks
    BY <1>1, <1>2 DEF FirmwareTypeOK
  <1>5. DeviceTypeOK' /\ view' \in Views
    BY DeviceSame DEF FirmwareTypeOK, Views
  <1> QED BY <1>1, <1>3, <1>4, <1>5 DEF FirmwareTypeOK, filesVars, dashVars, firmwareHistory

\* The confirmation of the dialog.
LEMMA ConfirmTypes == ASSUME TypedQueue, confirmInstall PROVE TypedQueue'
  <1>1. CASE NoFile \in {bin, sig}
    <2>1. UNCHANGED <<deviceVars, installs, otaCalls, cancelRequested, bin, sig, reads, dashVersion,
                     dashUpload, doubled, before, sending, unanswered>>
          /\ view' = "choosing"
      BY <1>1 DEF confirmInstall, filesVars, dashVars, firmwareHistory
    <2>2. DeviceTypeOK' /\ view' \in Views
      BY <2>1, DeviceSame DEF TypedQueue, FirmwareTypeOK, Views
    <2> QED BY <2>1, <2>2, AsideTypes DEF TypedQueue, FirmwareTypeOK
  <1>2. CASE NoFile \notin {bin, sig}
    BY <1>2, BeginsTypes DEF confirmInstall
  <1> QED BY <1>1, <1>2

\* Every step keeps the types and the queue, with installs that overlap too.
THEOREM FirmwareStepTypes == TypedQueue /\ [FirmwareNext]_firmwareVars => TypedQueue'
  <1> SUFFICES ASSUME TypedQueue, [FirmwareNext]_firmwareVars PROVE TypedQueue'
    OBVIOUS
  <1>1. CASE UNCHANGED firmwareVars
    BY <1>1, DeviceSame, AsideTypes DEF firmwareVars, dashVars, TypedQueue, FirmwareTypeOK
  <1> QED BY <1>1, FilesTypes, ConfirmTypes, AnswerTypes, WaitTypes, LinkTypes DEF FirmwareNext

-----------------------------------------------------------------------------
(* An install that runs alone.                                             *)

\* The commands are those of the one install that runs.
LEMMA SingleHead ==
  ASSUME TypedQueue, Single, otaCalls # <<>>
  PROVE  /\ Head(otaCalls) \in running /\ running = {Head(otaCalls)}
         /\ Ongoing(Head(otaCalls))
  <1>1. Head(otaCalls) \in running
    BY HeadCalls DEF TypedQueue, running, CallSteps
  <1> QED BY <1>1 DEF Single

\* The install that runs alone goes on alone, when it is in order after the step.
LEMMA SingleGoesOn ==
  ASSUME TypedQueue, Single, otaCalls # <<>>, NEW i, i = Head(otaCalls),
         NEW run \in Running, Moves(i, run), Ongoing(i)'
  PROVE  Single'
  <1>1. running = {i} /\ i \in Installs
    BY SingleHead DEF running
  <1>2. installs'[i] = run /\ \A j \in Installs \ {i} : installs'[j] = installs[j]
    BY <1>1 DEF Moves, TypedQueue, FirmwareTypeOK
  <1>3. run.pc # "idle"
    BY DEF Running, CallSteps
  <1>4. running' = {i}
    BY <1>1, <1>2, <1>3 DEF running
  <1> QED BY <1>4 DEF Single

\* It ends, and nothing runs.
LEMMA SingleEnds ==
  ASSUME TypedQueue, Single, NEW i \in running, installs' = [installs EXCEPT ![i] = Idle], Ended'
  PROVE  Single'
  <1>1. running = {i} /\ i \in Installs
    BY DEF Single, running
  <1>2. installs'[i] = Idle /\ \A j \in Installs \ {i} : installs'[j] = installs[j]
    BY <1>1 DEF TypedQueue, FirmwareTypeOK
  <1>3. running' = {}
    BY <1>1, <1>2 DEF running, Idle
  <1> QED BY <1>3 DEF Single

\* The files and the dialog: an outcome that is shown is only taken away.
LEMMA SingleAside ==
  ASSUME Single,
         UNCHANGED <<installs, dashVersion, dashUpload, before, sending, unanswered, linkUp>>,
         \/ view' = view
         \/ view = "choosing" /\ view' = "confirming"
         \/ view \in {"confirming", "failed", "success", "reconnect"} /\ view' = "choosing"
  PROVE  Single'
  <1>1. running' = running
    BY DEF running
  <1>2. ASSUME NEW i \in running PROVE Ongoing(i)'
    BY <1>2 DEF Single, Ongoing
  <1>3. Ended => Ended'
    BY DEF Ended, RunningViews
  <1> QED BY <1>1, <1>2, <1>3 DEF Single

\* The steps on the files and in the dialog are such steps.
LEMMA SingleFiles ==
  ASSUME Single,
         \/ \E file \in Versions \cup {NoFile} : pickFile("bin", file)
         \/ \E file \in Signatures \cup {NoFile} : pickFile("sig", file)
         \/ \E read \in reads : choose(read)
         \/ askToInstall \/ backToChoosing \/ finishUpdate \/ cancelUpload
  PROVE  Single'
  <1>1. UNCHANGED <<installs, dashVersion, dashUpload, before, sending, unanswered, linkUp>>
    BY DEF pickFile, choose, askToInstall, backToChoosing, finishUpdate, cancelUpload, dashVars,
           firmwareHistory, deviceVars
  <1>2. \/ view' = view
        \/ view = "choosing" /\ view' = "confirming"
        \/ view \in {"confirming", "failed", "success", "reconnect"} /\ view' = "choosing"
    BY DEF pickFile, choose, askToInstall, backToChoosing, finishUpdate, cancelUpload
  <1> QED BY <1>1, <1>2, SingleAside

\* An install that begins while none runs is the only one, and has failed nothing.
LEMMA SingleConfirms ==
  ASSUME TypedQueue, confirmInstall, ~doubled => Single, ~doubled'
  PROVE  Single'
  <1>1. CASE NoFile \in {bin, sig}
    BY <1>1, SingleAside DEF confirmInstall, deviceVars, dashVars, firmwareHistory
  <1>2. CASE NoFile \notin {bin, sig}
    <2>1. PICK i \in Installs \ running : beginsInstall(i)
      BY <1>2 DEF confirmInstall
    <2>2. /\ view' = "choosing" /\ UNCHANGED <<deviceVars, filesVars, dashVars>>
      BY DEF confirmInstall
    <2>3. /\ installs'[i].pc = "begin" /\ installs'[i].version = bin
          /\ \A j \in Installs \ {i} : installs'[j] = installs[j]
      BY <1>2, <2>1, <2>2, BeginsTypes
    <2>4. running = {} /\ sending' = bin /\ before' = dashVersion /\ unanswered' = NoStep
      BY <2>1 DEF beginsInstall
    <2>5. running' = {i}
      BY <2>3, <2>4 DEF running
    <2>6. Ongoing(i)'
      BY <2>2, <2>3, <2>4 DEF Ongoing, CallSteps, dashVars
    <2> QED BY <2>5, <2>6 DEF Single
  <1> QED BY <1>1, <1>2

\* The answer to a command: the install goes on in order, or ends with the
\* outcome that is true.
LEMMA SingleSucceeds ==
  ASSUME TypedQueue, otaCallSucceeds, Single
  PROVE  Single'
  <1>1. PICK i : i = Head(otaCalls)
    OBVIOUS
  <1>2. /\ otaCalls # <<>> /\ linkUp /\ accepts /\ obeyCall /\ succeeds(i)
        /\ UNCHANGED <<before, sending, unanswered>>
    BY <1>1 DEF otaCallSucceeds, firmwareHistory
  <1>3. /\ Ongoing(i) /\ i \in running /\ call = installs[i] /\ call.pc \in CallSteps
    BY <1>1, <1>2, SingleHead, HeadCalls DEF TypedQueue
  <1>4. /\ call.version = sending
        /\ view \in {"choosing", "confirming", "upload", "signature"}
        /\ call.pc \in {"begin", "write", "commit"} => unanswered = NoStep
        /\ call.pc # "commit" => dashVersion = before
        /\ call.pc # "begin" /\ dashUpload.open => dashUpload.version = sending
    BY <1>2, <1>3 DEF Ongoing, CallSteps, NoStep
  <1>5. CASE GoesOn("begin", {"write", "abortCancelled"}) /\ UNCHANGED <<view, deviceVars>>
    <2>1. PICK run \in Running : /\ Moves(i, run) /\ run.pc \in {"write", "abortCancelled"}
                                 /\ call.pc = "begin" /\ run.version = call.version
      BY <1>1, <1>5 DEF GoesOn
    <2>2. dashVersion' = dashVersion /\ dashUpload'.version = sending
      BY <1>2, <1>4, <2>1 DEF obeyCall
    <2>3. installs'[i] = run
      BY <1>3, <2>1 DEF Moves, running, TypedQueue, FirmwareTypeOK
    <2>4. Ongoing(i)'
      BY <1>2, <1>4, <1>5, <2>1, <2>2, <2>3 DEF Ongoing, NoStep
    <2> QED BY <1>1, <1>2, <2>1, <2>4, SingleGoesOn
  <1>6. CASE \E to \in {"upload", "signature"} :
               /\ GoesOn("write", {"write", "abortCancelled", "commit"}) /\ view' = to
    <2>1. PICK run \in Running : /\ Moves(i, run) /\ run.pc \in {"write", "abortCancelled", "commit"}
                                 /\ call.pc = "write" /\ run.version = call.version
      BY <1>1, <1>6 DEF GoesOn
    <2>2. dashUpload.open /\ dashVersion' = dashVersion
          /\ dashUpload' = [dashUpload EXCEPT !.received = @ + 1]
      BY <1>2, <2>1 DEF obeyCall, accepts
    <2>3. dashUpload'.version = sending
      <3>1. dashUpload \in Receiving
        BY <2>2 DEF TypedQueue, FirmwareTypeOK, NoUpload
      <3> QED BY <1>4, <2>1, <2>2, <3>1 DEF Receiving
    <2>4. installs'[i] = run
      BY <1>3, <2>1 DEF Moves, running, TypedQueue, FirmwareTypeOK
    <2>5. Ongoing(i)'
      BY <1>2, <1>4, <1>6, <2>1, <2>2, <2>3, <2>4 DEF Ongoing, NoStep
    <2> QED BY <1>1, <1>2, <2>1, <2>5, SingleGoesOn
  <1>7. CASE \/ call.pc = "abortCancelled" /\ ends(i, "choosing")
             \/ call.pc = "abortFailed" /\ ends(i, "failed")
    <2>1. dashVersion' = before' /\ dashUpload' = NoUpload
      BY <1>2, <1>4, <1>7 DEF obeyCall
    <2>2. view' \in {"choosing", "failed"} /\ installs' = [installs EXCEPT ![i] = Idle]
      BY <1>7 DEF ends
    <2>3. Ended'
      BY <2>1, <2>2 DEF Ended, RunningViews, NoUpload
    <2> QED BY <1>3, <2>2, <2>3, SingleEnds
  <1>8. CASE GoesOn("commit", {"waiting"}) /\ waitsForDash(i)
    <2>1. PICK run \in Running : /\ Moves(i, run) /\ run.pc = "waiting"
                                 /\ call.pc = "commit" /\ run.version = call.version
      BY <1>1, <1>8 DEF GoesOn
    <2>2. dashVersion' = sending /\ dashUpload' = NoUpload
      BY <1>2, <1>4, <2>1 DEF obeyCall, accepts
    <2>3. installs'[i] = run /\ view' = "restart"
      BY <1>3, <1>8, <2>1 DEF Moves, running, TypedQueue, FirmwareTypeOK, waitsForDash
    <2>4. Ongoing(i)'
      BY <1>2, <1>4, <2>1, <2>2, <2>3 DEF Ongoing, CallSteps, NoUpload
    <2> QED BY <1>1, <1>2, <2>1, <2>4, SingleGoesOn
  <1>9. CASE \/ GoesOn("write", {"write", "abortCancelled"}) /\ view' = "upload"
             \/ GoesOn("write", {"commit"}) /\ view' = "signature"
    <2>1. GoesOn("write", {"write", "abortCancelled", "commit"}) /\ view' \in {"upload", "signature"}
      BY <1>9 DEF GoesOn
    <2> QED BY <1>6, <2>1
  <1> QED BY <1>1, <1>2, <1>5, <1>7, <1>8, <1>9, SucceedsTo

\* A failed command: the step is kept as the one that failed first.
LEMMA SingleFails ==
  ASSUME TypedQueue, otaCallFails, Single
  PROVE  Single'
  <1>1. PICK i : i = Head(otaCalls)
    OBVIOUS
  <1>2. /\ otaCalls # <<>> /\ fails(i) /\ UNCHANGED <<before, sending>>
        /\ unanswered' = IF unanswered = NoStep THEN call.pc ELSE unanswered
    BY <1>1 DEF otaCallFails, firmwareHistory
  <1>3. /\ Ongoing(i) /\ i \in running /\ call = installs[i] /\ call.pc \in CallSteps
    BY <1>1, <1>2, SingleHead, HeadCalls DEF TypedQueue
  <1>4. /\ call.version = sending
        /\ view \in {"choosing", "confirming", "upload", "signature"}
        /\ call.pc \in {"begin", "write", "commit"} => unanswered' = call.pc
        /\ unanswered' # NoStep
        /\ call.pc # "commit" => dashVersion = before
        /\ call.pc # "begin" /\ dashUpload.open => dashUpload.version = sending
    BY <1>2, <1>3 DEF Ongoing, CallSteps, NoStep
  <1>5. call.pc # "commit" => dashVersion' = before'
    BY <1>2, <1>4 DEF otaCallFails, obeyCall, dashVars
  <1>6. CASE GoesOn("write", {"abortFailed"}) /\ UNCHANGED <<view, deviceVars>>
    <2>1. PICK run \in Running : /\ Moves(i, run) /\ run.pc = "abortFailed"
                                 /\ call.pc = "write" /\ run.version = call.version
      BY <1>1, <1>6 DEF GoesOn
    <2>2. dashUpload'.open => dashUpload'.version = sending
      <3>1. CASE UNCHANGED dashVars
        BY <1>4, <2>1, <3>1 DEF dashVars
      <3>2. CASE linkUp /\ accepts /\ obeyCall
        <4>1. dashUpload.open /\ dashUpload' = [dashUpload EXCEPT !.received = @ + 1]
          BY <2>1, <3>2 DEF accepts, obeyCall
        <4>2. dashUpload \in Receiving
          BY <4>1 DEF TypedQueue, FirmwareTypeOK, NoUpload
        <4> QED BY <1>4, <2>1, <4>1, <4>2 DEF Receiving
      <3> QED BY <3>1, <3>2 DEF otaCallFails
    <2>3. installs'[i] = run
      BY <1>3, <2>1 DEF Moves, running, TypedQueue, FirmwareTypeOK
    <2>4. Ongoing(i)'
      BY <1>2, <1>4, <1>5, <1>6, <2>1, <2>2, <2>3 DEF Ongoing
    <2> QED BY <1>1, <1>2, <2>1, <2>4, SingleGoesOn
  <1>7. CASE \/ call.pc = "abortCancelled" /\ ends(i, "choosing")
             \/ call.pc \in {"begin", "commit", "abortFailed"} /\ ends(i, "failed")
    <2>1. /\ view' \in {"choosing", "failed"} /\ installs' = [installs EXCEPT ![i] = Idle]
          /\ view' = "failed" /\ unanswered' # "commit" => dashVersion' = before'
      BY <1>4, <1>5, <1>7 DEF ends
    <2>2. Ended'
      BY <1>4, <2>1 DEF Ended, RunningViews
    <2> QED BY <1>3, <2>1, <2>2, SingleEnds
  <1> QED BY <1>1, <1>2, <1>6, <1>7, FailsTo

\* The link drops: the oldest command is the one that fails, obeyed or not.
LEMMA SingleDrops ==
  ASSUME TypedQueue, firmwareLinkDrops, Single
  PROVE  Single'
  <1>1. /\ UNCHANGED <<view, installs, otaCalls, before, sending>> /\ linkUp' = FALSE
        /\ unanswered' = IF unanswered = NoStep /\ otaCalls # <<>> THEN call.pc ELSE unanswered
    BY DEF firmwareLinkDrops, setDisconnected, firmwareHistory
  <1>2. running' = running
    BY <1>1 DEF running
  <1>3. CASE otaCalls = <<>>
    <2>1. /\ dashVersion' = dashVersion /\ unanswered' = unanswered
          /\ dashUpload' = dashUpload \/ dashUpload' = NoUpload
      BY <1>1, <1>3 DEF firmwareLinkDrops, dashVars
    <2>2. ASSUME NEW i \in running PROVE Ongoing(i)'
      <3>1. /\ Ongoing(i)
            /\ ~dashUpload.open => ~dashUpload'.open
            /\ dashUpload'.open => dashUpload'.version = dashUpload.version
        BY <2>1, <2>2 DEF Single, NoUpload
      <3>2. installs[i].pc \notin CallSteps
        BY <1>3, <2>2 DEF TypedQueue, QueueInv, running
      <3> QED BY <1>1, <2>1, <3>1, <3>2 DEF Ongoing, CallSteps, NoUpload
    <2>3. Ended => Ended'
      BY <1>1, <2>1 DEF Ended, RunningViews, NoUpload
    <2> QED BY <1>2, <2>2, <2>3 DEF Single
  <1>4. CASE otaCalls # <<>>
    <2>1. PICK i : i = Head(otaCalls)
      OBVIOUS
    <2>2. /\ running = {i} /\ Ongoing(i) /\ call = installs[i] /\ call.pc \in CallSteps
      BY <1>4, <2>1, SingleHead, HeadCalls DEF TypedQueue
    <2>3. /\ call.version = sending
          /\ view \in {"choosing", "confirming", "upload", "signature"}
          /\ call.pc \in {"begin", "write", "commit"} => unanswered' = call.pc
          /\ call.pc # "commit" => dashVersion = before
          /\ call.pc # "begin" /\ dashUpload.open => dashUpload.version = sending
      BY <1>1, <1>4, <2>2 DEF Ongoing, CallSteps, NoStep
    <2>4. call.pc # "commit" => dashVersion' = before'
      BY <1>1, <2>3 DEF firmwareLinkDrops, obeyCall, dashVars
    <2>5. call.pc # "begin" /\ dashUpload'.open => dashUpload'.version = sending
      <3>1. CASE UNCHANGED dashVars
        BY <2>3, <3>1 DEF dashVars
      <3>2. CASE dashUpload' = NoUpload
        BY <3>2 DEF NoUpload
      <3>3. CASE accepts /\ obeyCall /\ call.pc = "write"
        <4>1. dashUpload.open /\ dashUpload' = [dashUpload EXCEPT !.received = @ + 1]
          BY <3>3 DEF accepts, obeyCall
        <4>2. dashUpload \in Receiving
          BY <4>1 DEF TypedQueue, FirmwareTypeOK, NoUpload
        <4> QED BY <2>3, <3>3, <4>1, <4>2 DEF Receiving
      <3>4. CASE accepts /\ obeyCall /\ call.pc \notin {"begin", "write"}
        BY <3>4 DEF obeyCall, NoUpload
      <3> QED BY <3>1, <3>2, <3>3, <3>4 DEF firmwareLinkDrops
    <2>6. Ongoing(i)'
      BY <1>1, <2>2, <2>3, <2>4, <2>5 DEF Ongoing, CallSteps
    <2> QED BY <1>2, <2>2, <2>6 DEF Single
  <1> QED BY <1>3, <1>4

\* The link comes back with no command out: only a wait can go on.
LEMMA SingleLinks ==
  ASSUME TypedQueue, firmwareDeviceStep, Single
  PROVE  Single'
  <1>1. /\ otaCalls = <<>>
        /\ UNCHANGED <<view, installs, dashVersion, dashUpload, before, sending, unanswered>>
    BY DEF firmwareDeviceStep, dashVars, firmwareHistory
  <1>2. running' = running
    BY <1>1 DEF running
  <1>3. ASSUME NEW i \in running PROVE Ongoing(i)'
    <2>1. Ongoing(i) /\ installs[i].pc \notin CallSteps
      BY <1>1, <1>3 DEF TypedQueue, QueueInv, running, Single
    <2> QED BY <1>1, <2>1 DEF Ongoing, CallSteps
  <1>4. Ended => Ended'
    BY <1>1 DEF Ended
  <1> QED BY <1>2, <1>3, <1>4 DEF Single

\* The wait ends: the dash runs what was sent, whether it was seen again or not.
LEMMA SingleWaits ==
  ASSUME TypedQueue, NEW i \in Installs, waitEnds(i), Single
  PROVE  Single'
  <1>1. i \in running /\ Ongoing(i) /\ installs[i].pc = "waiting"
    BY DEF waitEnds, running, Single
  <1>2. dashVersion' = sending' /\ ~dashUpload'.open
    BY <1>1 DEF waitEnds, Ongoing, dashVars, firmwareHistory
  <1>3. view' \in {"success", "reconnect"} /\ installs' = [installs EXCEPT ![i] = Idle]
    BY DEF waitEnds
  <1>4. Ended'
    BY <1>2, <1>3 DEF Ended, RunningViews
  <1> QED BY <1>1, <1>3, <1>4, SingleEnds

\* The invariant holds at the start.
LEMMA InitFirmwareInv == FirmwareInit => FirmwareInv
  <1> SUFFICES ASSUME FirmwareInit PROVE FirmwareInv
    OBVIOUS
  <1>1. running = {} /\ Ended
    BY DEF FirmwareInit, running, Idle, Ended, RunningViews, NoUpload
  <1>2. Single
    BY <1>1 DEF Single
  <1> QED BY <1>2, InitTypedQueue DEF FirmwareInv, TypedQueue

\* Every step keeps it (firmware.store.ts, firmware-update.ts): the types, the queue of
\* commands, and the order of an install that runs alone.
THEOREM FirmwareStepInv == FirmwareInv /\ [FirmwareNext]_firmwareVars => FirmwareInv'
  <1> SUFFICES ASSUME FirmwareInv, [FirmwareNext]_firmwareVars PROVE FirmwareInv'
    OBVIOUS
  <1>1. TypedQueue /\ TypedQueue'
    BY FirmwareStepTypes DEF FirmwareInv, TypedQueue
  <1>2. ASSUME ~doubled' PROVE Single'
    <2>1. ~doubled => Single
      BY DEF FirmwareInv
    <2>2. CASE confirmInstall
      BY <1>1, <1>2, <2>1, <2>2, SingleConfirms
    <2>3. CASE ~confirmInstall
      <3>1. doubled' = doubled
        BY <2>3 DEF FirmwareNext, firmwareVars, pickFile, choose, askToInstall, backToChoosing,
           finishUpdate, cancelUpload, otaCallEnds, otaCallSucceeds, otaCallFails, waitEnds,
           firmwareLinkDrops, firmwareDeviceStep, firmwareHistory
      <3>2. Single
        BY <1>2, <2>1, <3>1
      <3>3. CASE UNCHANGED firmwareVars
        BY <3>2, <3>3, SingleAside DEF firmwareVars, deviceVars, dashVars
      <3> QED BY <1>1, <2>3, <3>2, <3>3, SingleFiles, SingleSucceeds, SingleFails, SingleWaits,
                 SingleDrops, SingleLinks DEF FirmwareNext, otaCallEnds
    <2> QED BY <2>2, <2>3
  <1> QED BY <1>1, <1>2 DEF FirmwareInv, TypedQueue

\* The invariant holds in every state the update can reach.
THEOREM FirmwareInvariance == FirmwareSpec => []FirmwareInv
  <1> QED BY InitFirmwareInv, FirmwareStepInv, PTL DEF FirmwareSpec

\* Every state is well typed, and no two commands of one install wait for an answer.
THEOREM FirmwareTypes == FirmwareSpec => [](FirmwareTypeOK /\ QueueInv)
  <1>1. FirmwareInv => FirmwareTypeOK /\ QueueInv
    BY DEF FirmwareInv
  <1> QED BY <1>1, FirmwareInvariance, PTL

\* The outcome shown is the one that happened, for every number of chunks, when no
\* second install began while one ran (firmware-update.ts:58-72, firmware.store.ts:64-93).
THEOREM FirmwareOutcomeIsTrue == FirmwareSpec => []OutcomeIsTrue
  <1>1. ASSUME FirmwareInv, ~doubled
        PROVE  /\ view \in {"restart", "success", "reconnect"} => dashVersion = sending
               /\ view = "failed" /\ unanswered # "commit" => dashVersion = before
    <2>1. Single
      BY <1>1 DEF FirmwareInv
    <2>2. CASE running = {}
      BY <2>1, <2>2 DEF Single, Ended, RunningViews
    <2>3. CASE running # {}
      <3>1. PICK i \in running : Ongoing(i)
        BY <2>1, <2>3 DEF Single
      <3> QED BY <3>1 DEF Ongoing
    <2> QED BY <2>2, <2>3
  <1>2. FirmwareInv => OutcomeIsTrue
    BY <1>1 DEF OutcomeIsTrue
  <1> QED BY <1>2, FirmwareInvariance, PTL

\* An install whose commands were all answered leaves no half received update on the
\* dash, refused and cancelled ones included (firmware-update.ts:20-49).
THEOREM FirmwareNoUploadLeft == FirmwareSpec => []NoUploadLeft
  <1>1. FirmwareInv => NoUploadLeft
    BY DEF FirmwareInv, Single, Ended, NoUploadLeft
  <1> QED BY <1>1, FirmwareInvariance, PTL
=============================================================================
