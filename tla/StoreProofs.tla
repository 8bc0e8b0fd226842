----------------------------- MODULE StoreProofs -----------------------------
(***************************************************************************)
(* Proofs about the stores of the page: the scan of the CAN bus and the    *)
(* frames it has read, the scan of the car, the trouble codes, the         *)
(* autosave of the draft and the session logs.  They hold for every number *)
(* of generations, polls and outstanding requests and every set of frame   *)
(* ids, payloads, codes, drafts and session names.                         *)
(***************************************************************************)
EXTENDS CanScan, ScanAccumulator, CarScan, TroubleCodes, Autosave, SessionLogs,
        FiniteSetTheorems, SequenceTheorems, TLAPS

-----------------------------------------------------------------------------
(* The scan of the CAN bus.                                                *)

\* What its two properties rest on.  The link is up during a scan and while a command is
\* outstanding; a start that is current is the last one, and the page shows it; a start that is
\* not has a stop behind it; and a stop is the only one, and shown as well.
CallsInv ==
  /\ linkUp <=> deviceReady
  /\ canStatus = "running" => linkUp
  /\ canCalls # <<>> => linkUp /\ canStatus \notin {"running", "error"}
  /\ \A i \in DOMAIN canCalls :
       /\ canCalls[i].current => /\ canCalls[i].cmd = "start" /\ i = Len(canCalls)
                                 /\ canStatus = "starting"
       /\ (canCalls[i].cmd = "start" /\ ~canCalls[i].current)
            => \E j \in DOMAIN canCalls : j > i /\ canCalls[j].cmd = "stop"
       /\ canCalls[i].cmd = "stop"
            => /\ canStatus = "stopping"
               /\ \A j \in DOMAIN canCalls : canCalls[j].cmd = "stop" => j = i

CanScanInv == CanScanTypeOK /\ OneSubscription /\ DashFollowsScan /\ CallsInv

-----------------------------------------------------------------------------
\* What Tail and Append make of the commands outstanding.
LEMMA TailCalls ==
  ASSUME NEW calls \in Seq(CanCalls), calls # <<>>
  PROVE  /\ Tail(calls) \in Seq(CanCalls)
         /\ Len(calls) \in Nat \ {0} /\ Len(Tail(calls)) = Len(calls) - 1
         /\ DOMAIN calls = 1 .. Len(calls) /\ DOMAIN Tail(calls) = 1 .. Len(calls) - 1
         /\ \A i \in 1 .. Len(calls) - 1 : Tail(calls)[i] = calls[i + 1]
         /\ Head(calls) = calls[1] /\ Head(calls) \in CanCalls
  BY HeadTailProperties, LenProperties, EmptySeq

\* A command is added behind the others.
LEMMA AppendCall ==
  ASSUME NEW calls \in Seq(CanCalls), NEW call \in CanCalls
  PROVE  /\ Append(calls, call) \in Seq(CanCalls)
         /\ Len(calls) \in Nat /\ Len(Append(calls, call)) = Len(calls) + 1
         /\ DOMAIN Append(calls, call) = 1 .. Len(calls) + 1
         /\ \A i \in 1 .. Len(calls) : Append(calls, call)[i] = calls[i]
         /\ Append(calls, call)[Len(calls) + 1] = call
         /\ Append(calls, call) # <<>>
  BY LenProperties, EmptySeq

\* A new generation supersedes every command and keeps their order.
LEMMA SupersededCalls ==
  ASSUME NEW calls \in Seq(CanCalls)
  PROVE  /\ superseding(calls) \in Seq(CanCalls)
         /\ Len(superseding(calls)) = Len(calls)
         /\ \A i \in 1 .. Len(calls) : /\ superseding(calls)[i].cmd = calls[i].cmd
                                       /\ ~superseding(calls)[i].current
  <1>1. Len(calls) \in Nat /\ DOMAIN calls = 1 .. Len(calls)
        /\ \A i \in 1 .. Len(calls) : calls[i] \in CanCalls
    BY LenProperties
  <1>2. \A i \in 1 .. Len(calls) :
           /\ [calls[i] EXCEPT !.current = FALSE] \in CanCalls
           /\ [calls[i] EXCEPT !.current = FALSE].cmd = calls[i].cmd
           /\ ~[calls[i] EXCEPT !.current = FALSE].current
    BY <1>1 DEF CanCalls
  <1> DEFINE e(i) == [calls[i] EXCEPT !.current = FALSE]
  <1>3. superseding(calls) = [i \in 1 .. Len(calls) |-> e(i)]
    BY <1>1 DEF superseding
  <1>4. superseding(calls) \in Seq(CanCalls)
    BY <1>1, <1>2, <1>3, IsASeq
  <1>5. Len(superseding(calls)) = Len(calls)
    BY <1>1, <1>3, <1>4, LenProperties
  <1> QED BY <1>1, <1>2, <1>3, <1>4, <1>5

\* A new page has a link of its own idea, and nothing outstanding.
THEOREM InitCanScanInv == CanScanInit => CanScanInv
  <1> SUFFICES ASSUME CanScanInit PROVE CanScanInv
    OBVIOUS
  <1> USE DEF CanScanInit, DeviceInit
  <1>1. CanScanTypeOK
    <2>1. DeviceTypeOK /\ {snapshotTimer, dashScanning, lost} \subseteq BOOLEAN
      BY DEF DeviceTypeOK
    <2>2. canCalls \in Seq(CanCalls) /\ Len(canCalls) <= MaxCanCalls
      BY CanScanAssumption, EmptySeq DEF CanScanAssumption
    <2>3. canStatus \in CanScanStatuses /\ frameSubscriptions \in Nat
      BY DEF CanScanStatuses
    <2> QED BY <2>1, <2>2, <2>3 DEF CanScanTypeOK
  <1>2. OneSubscription /\ DashFollowsScan
    BY DEF OneSubscription, DashFollowsScan
  <1>3. CallsInv
    BY DEF CallsInv, deviceReady
  <1> QED BY <1>1, <1>2, <1>3 DEF CanScanInv

-----------------------------------------------------------------------------
\* The device's own steps keep the link and the offline mode apart.
LEMMA DeviceKeeps ==
  ASSUME DeviceTypeOK, linkUp <=> deviceReady, deviceStep
  PROVE  DeviceTypeOK' /\ (linkUp' <=> deviceReady')
  BY DEF DeviceTypeOK, deviceReady, deviceStep, setConnected, setDisconnected,
         enterSimulation, exitSimulation

\* A start goes to the end of the line, with nothing before it that is current.
LEMMA StartStep == ASSUME CanScanInv, canScanStart PROVE CanScanInv'
  <1> DEFINE old == superseding(canCalls)
             call == [cmd |-> "start", current |-> TRUE]
             n == Len(canCalls)
  <1> USE DEF CanScanInv
  <1>1. canCalls \in Seq(CanCalls) /\ call \in CanCalls /\ canCalls' = Append(old, call)
    BY DEF CanScanTypeOK, CanCalls, canScanStart
  <1>2. /\ old \in Seq(CanCalls) /\ Len(old) = n /\ n \in Nat /\ DOMAIN canCalls = 1 .. n
        /\ \A i \in 1 .. n : old[i].cmd = canCalls[i].cmd /\ ~old[i].current
    BY <1>1, SupersededCalls, LenProperties
  <1>3. /\ canCalls' \in Seq(CanCalls) /\ Len(canCalls') = n + 1 /\ DOMAIN canCalls' = 1 .. n + 1
        /\ \A i \in 1 .. n : canCalls'[i] = old[i]
        /\ canCalls'[n + 1] = call
    BY <1>1, <1>2, AppendCall
  <1>4. CanScanTypeOK'
    <2>1. Len(canCalls') <= MaxCanCalls
      BY <1>2, <1>3, CanScanAssumption DEF canScanStart, CanScanAssumption
    <2>2. DeviceTypeOK' /\ frameSubscriptions' \in Nat
          /\ {snapshotTimer', dashScanning', lost'} \subseteq BOOLEAN
      BY DEF CanScanTypeOK, DeviceTypeOK, canScanStart, deviceVars
    <2>3. canStatus' \in CanScanStatuses
      BY DEF canScanStart, CanScanStatuses
    <2> QED BY <1>3, <2>1, <2>2, <2>3 DEF CanScanTypeOK
  <1>5. OneSubscription'
    BY DEF OneSubscription, canScanStart, BlocksStart
  <1>6. DashFollowsScan'
    BY <1>1, <1>2, AppendCall DEF DashFollowsScan
  <1>7. CallsInv'
    <2>1. linkUp' <=> deviceReady'
      BY DEF CallsInv, deviceReady, canScanStart, deviceVars
    <2>2. linkUp' /\ canStatus' = "starting"
      BY DEF CallsInv, canScanStart, deviceVars
    <2>3. \A i \in 1 .. n : canCalls[i].cmd # "stop" /\ (canCalls[i].cmd = "start" => canCalls[i].current)
      BY <1>2 DEF CallsInv, canScanStart, BlocksStart
    <2>4. \A i \in 1 .. n : canCalls[i].cmd # "start"
      BY <1>2, <2>3 DEF CallsInv, canScanStart, BlocksStart
    <2>5. \A i \in 1 .. n : canCalls'[i].cmd \notin {"start", "stop"} /\ ~canCalls'[i].current
      BY <1>2, <1>3, <2>3, <2>4
    <2>6. \A i \in DOMAIN canCalls' :
             i \in 1 .. n \/ (i = n + 1 /\ canCalls'[i].cmd = "start" /\ canCalls'[i].current)
      BY <1>2, <1>3
    <2> QED BY <1>3, <2>1, <2>2, <2>5, <2>6 DEF CallsInv
  <1> QED BY <1>4, <1>5, <1>6, <1>7

\* A stop goes behind every start; without a link it fails at once.
LEMMA StopStep == ASSUME CanScanInv, canScanStop PROVE CanScanInv'
  <1> DEFINE old == superseding(canCalls)
             call == [cmd |-> "stop", current |-> FALSE]
             n == Len(canCalls)
  <1> USE DEF CanScanInv
  <1>0. canCalls \in Seq(CanCalls) /\ call \in CanCalls
    BY DEF CanScanTypeOK, CanCalls
  <1>1. OneSubscription'
    BY DEF OneSubscription, canScanStop
  <1>2. DeviceTypeOK' /\ frameSubscriptions' \in Nat
        /\ {snapshotTimer', dashScanning', lost'} \subseteq BOOLEAN
    BY DEF CanScanTypeOK, DeviceTypeOK, canScanStop, deviceVars
  <1>3. canStatus' \in CanScanStatuses
    BY DEF canScanStop, CanScanStatuses
  <1>4. linkUp' <=> deviceReady'
    BY DEF CallsInv, deviceReady, canScanStop, deviceVars
  <1>5. CASE linkUp
    <2>1. /\ canCalls' = Append(old, call) /\ canStatus' = "stopping" /\ linkUp'
          /\ n < MaxCanCalls /\ canStatus # "stopping"
      BY <1>5 DEF canScanStop, BlocksStop, deviceVars
    <2>2. /\ old \in Seq(CanCalls) /\ Len(old) = n /\ n \in Nat /\ DOMAIN canCalls = 1 .. n
          /\ \A i \in 1 .. n : old[i].cmd = canCalls[i].cmd /\ ~old[i].current
      BY <1>0, SupersededCalls, LenProperties
    <2>3. /\ canCalls' \in Seq(CanCalls) /\ Len(canCalls') = n + 1 /\ DOMAIN canCalls' = 1 .. n + 1
          /\ \A i \in 1 .. n : canCalls'[i] = old[i]
          /\ canCalls'[n + 1] = call /\ canCalls' # <<>>
      BY <1>0, <2>1, <2>2, AppendCall
    <2>4. CanScanTypeOK'
      <3>1. Len(canCalls') <= MaxCanCalls
        BY <2>1, <2>2, <2>3, CanScanAssumption DEF CanScanAssumption
      <3> QED BY <1>2, <1>3, <2>3, <3>1 DEF CanScanTypeOK
    <2>5. DashFollowsScan'
      BY <2>3 DEF DashFollowsScan
    <2>6. \A i \in 1 .. n : canCalls[i].cmd # "stop"
      BY <2>1, <2>2 DEF CallsInv
    <2>7. \A i \in 1 .. n : canCalls'[i].cmd # "stop" /\ ~canCalls'[i].current
      BY <2>2, <2>3, <2>6
    <2>8. \A i \in DOMAIN canCalls' :
            i \in 1 .. n \/ (i = n + 1 /\ canCalls'[i].cmd = "stop" /\ ~canCalls'[i].current)
      BY <2>2, <2>3
    <2>9. n + 1 \in DOMAIN canCalls' /\ \A i \in 1 .. n : n + 1 > i
      BY <2>2, <2>3
    <2>10. CallsInv'
      BY <1>4, <2>1, <2>7, <2>8, <2>9 DEF CallsInv
    <2> QED BY <1>1, <2>4, <2>5, <2>10
  <1>6. CASE ~linkUp
    <2>1. /\ UNCHANGED <<canCalls, dashScanning, lost, linkUp>> /\ canStatus' = "idle"
          /\ canCalls = <<>>
      BY <1>6 DEF CallsInv, canScanStop, deviceVars
    <2>2. CanScanTypeOK'
      BY <1>2, <1>3, <2>1 DEF CanScanTypeOK
    <2>3. DashFollowsScan'
      <3>1. canStatus # "running"
        BY <1>6 DEF CallsInv
      <3> QED BY <2>1, <3>1 DEF DashFollowsScan
    <2>4. CallsInv'
      BY <1>4, <2>1 DEF CallsInv
    <2> QED BY <1>1, <2>2, <2>3, <2>4
  <1> QED BY <1>5, <1>6

-----------------------------------------------------------------------------
\* What an answer to the oldest command leaves, obeyed or not.
LEMMA AnswerStep ==
  ASSUME CanScanInv, canCalls # <<>>, NEW success \in BOOLEAN,
         continues(Head(canCalls), success, Tail(canCalls)),
         UNCHANGED deviceVars, dashScanning' \in BOOLEAN, lost' \in BOOLEAN
  PROVE  CanScanTypeOK' /\ OneSubscription' /\ CallsInv'
  <1> DEFINE h == Head(canCalls)
             rest == Tail(canCalls)
             n == Len(canCalls)
             late == [cmd |-> "lateStop", current |-> FALSE]
  <1> USE DEF CanScanInv
  <1>1. /\ canCalls \in Seq(CanCalls) /\ n <= MaxCanCalls
        /\ rest \in Seq(CanCalls) /\ n \in Nat \ {0} /\ Len(rest) = n - 1
        /\ DOMAIN canCalls = 1 .. n /\ DOMAIN rest = 1 .. n - 1
        /\ \A i \in 1 .. n - 1 : rest[i] = canCalls[i + 1]
        /\ h = canCalls[1] /\ h \in CanCalls
    BY TailCalls DEF CanScanTypeOK
  <1>2. /\ 1 \in DOMAIN canCalls
        /\ \A i \in 1 .. n - 1 : i + 1 \in DOMAIN canCalls /\ i + 1 > 1 /\ i + 1 # 1
        /\ \A j \in DOMAIN canCalls : j > 1 => j - 1 \in 1 .. n - 1 /\ (j - 1) + 1 = j
    BY <1>1
  <1>3. linkUp /\ linkUp' /\ canStatus \notin {"running", "error"} /\ (linkUp' <=> deviceReady')
    BY DEF CallsInv, deviceReady, deviceVars
  <1>4. DeviceTypeOK' /\ dashScanning' \in BOOLEAN /\ lost' \in BOOLEAN
    BY DEF CanScanTypeOK, DeviceTypeOK, deviceVars
  <1>5. frameSubscriptions = 0 /\ ~snapshotTimer
    BY <1>3 DEF OneSubscription
  <1>6. h.cmd \in {"start", "stop", "lateStop"} /\ h.current \in BOOLEAN
    BY <1>1 DEF CanCalls
  <1>7. CASE h.cmd = "start" /\ h.current
    <2>1. n = 1 /\ rest = <<>>
      <3>1. n = 1
        BY <1>1, <1>2, <1>7 DEF CallsInv
      <3> QED BY <1>1, <3>1, EmptySeq
    <2>2. canCalls' = <<>>
      BY <1>7, <2>1 DEF continues, startAnswered
    <2>3. \/ frameSubscriptions' = 1 /\ snapshotTimer' = TRUE /\ canStatus' = "running"
          \/ canStatus' = "error" /\ frameSubscriptions' = 0 /\ snapshotTimer' = FALSE
      <3>1. snapshotTimer = FALSE
        BY <1>5 DEF CanScanTypeOK
      <3>2. CASE success
        <4>1. beginScan
          BY <1>7, <3>2 DEF continues, startAnswered
        <4> QED BY <1>5, <4>1 DEF beginScan
      <3>3. CASE ~success
        BY <1>5, <1>7, <3>1, <3>3 DEF continues, startAnswered
      <3> QED BY <3>2, <3>3
    <2>4. CanScanTypeOK'
      <3>1. canCalls' \in Seq(CanCalls) /\ Len(canCalls') <= MaxCanCalls
        BY <2>2, CanScanAssumption, EmptySeq DEF CanScanAssumption
      <3>2. canStatus' \in CanScanStatuses /\ frameSubscriptions' \in Nat
        BY <2>3 DEF CanScanStatuses
      <3>3. {snapshotTimer', dashScanning', lost'} \subseteq BOOLEAN
        BY <1>4, <2>3
      <3> QED BY <1>4, <3>1, <3>2, <3>3 DEF CanScanTypeOK
    <2>5. OneSubscription'
      BY <2>3 DEF OneSubscription
    <2>6. CallsInv'
      BY <1>3, <2>2 DEF CallsInv
    <2> QED BY <2>4, <2>5, <2>6
  <1>8. CASE h.cmd = "start" /\ ~h.current
    <2>1. PICK j \in DOMAIN canCalls : j > 1 /\ canCalls[j].cmd = "stop"
      BY <1>1, <1>2, <1>8 DEF CallsInv
    <2>2. canStatus = "stopping"
      BY <2>1 DEF CallsInv
    <2>3. /\ UNCHANGED <<canStatus, frameSubscriptions, snapshotTimer>>
          /\ canCalls' = rest \/ canCalls' = Append(rest, late)
      BY <1>8 DEF continues, startAnswered
    <2>4. late \in CanCalls
      BY DEF CanCalls
    <2>5. /\ Append(rest, late) \in Seq(CanCalls) /\ Len(Append(rest, late)) = n
          /\ DOMAIN Append(rest, late) = 1 .. n
          /\ \A i \in 1 .. n - 1 : Append(rest, late)[i] = rest[i]
          /\ Append(rest, late)[n] = late
      <3>1. (n - 1) + 1 = n
        BY <1>1
      <3> QED BY <1>1, <2>4, <3>1, AppendCall
    <2>6. /\ canCalls' \in Seq(CanCalls) /\ Len(canCalls') <= n
          /\ DOMAIN canCalls' \in {1 .. n - 1, 1 .. n}
          /\ \A i \in 1 .. n - 1 : canCalls'[i] = canCalls[i + 1]
          /\ \A i \in DOMAIN canCalls' : i \in 1 .. n - 1 \/ canCalls'[i] = late
      <3>1. CASE canCalls' = rest
        <4>1. n - 1 <= n /\ Len(canCalls') = n - 1 /\ DOMAIN canCalls' = 1 .. n - 1
          BY <1>1, <3>1
        <4> QED BY <1>1, <3>1, <4>1
      <3>2. CASE canCalls' = Append(rest, late)
        <4>1. n <= n /\ \A i \in 1 .. n : i \in 1 .. n - 1 \/ i = n
          <5>1. n \in Nat
            BY <1>1
          <5> HIDE DEF n
          <5> QED BY <5>1
        <4>2. Len(canCalls') = n /\ DOMAIN canCalls' = 1 .. n /\ canCalls' \in Seq(CanCalls)
          BY <2>5, <3>2
        <4>3. \A i \in 1 .. n - 1 : canCalls'[i] = canCalls[i + 1]
          BY <1>1, <2>5, <3>2
        <4>4. \A i \in DOMAIN canCalls' : i \in 1 .. n - 1 \/ canCalls'[i] = late
          BY <2>5, <3>2, <4>1, <4>2
        <4> QED BY <4>1, <4>2, <4>3, <4>4
      <3> QED BY <2>3, <3>1, <3>2
    <2>7. CanScanTypeOK'
      <3>1. Len(canCalls') <= MaxCanCalls
        BY <1>1, <2>6, LenProperties, CanScanAssumption DEF CanScanAssumption
      <3>2. canStatus' \in CanScanStatuses /\ frameSubscriptions' \in Nat
            /\ {snapshotTimer', dashScanning', lost'} \subseteq BOOLEAN
        BY <1>4, <2>3 DEF CanScanTypeOK
      <3> QED BY <1>4, <2>6, <3>1, <3>2 DEF CanScanTypeOK
    <2>8. OneSubscription'
      BY <2>3 DEF OneSubscription
    <2>9. CallsInv'
      <3>1. \A i \in DOMAIN canCalls' : ~canCalls'[i].current
        BY <1>2, <2>2, <2>6 DEF CallsInv
      <3>2. ASSUME NEW i \in DOMAIN canCalls', canCalls'[i].cmd = "start"
            PROVE  \E k \in DOMAIN canCalls' : k > i /\ canCalls'[k].cmd = "stop"
        <4>1. i \in 1 .. n - 1 /\ canCalls[i + 1].cmd = "start" /\ ~canCalls[i + 1].current
          BY <2>6, <3>1, <3>2
        <4>2. PICK k \in DOMAIN canCalls : k > i + 1 /\ canCalls[k].cmd = "stop"
          BY <1>2, <4>1 DEF CallsInv
        <4>3. k - 1 \in 1 .. n - 1 /\ k - 1 \in DOMAIN canCalls' /\ k - 1 > i /\ (k - 1) + 1 = k
          BY <1>1, <2>6, <4>1, <4>2
        <4> QED BY <2>6, <4>2, <4>3
      <3>3. ASSUME NEW i \in DOMAIN canCalls', canCalls'[i].cmd = "stop",
                   NEW k \in DOMAIN canCalls', canCalls'[k].cmd = "stop"
            PROVE  k = i
        <4>1. i \in 1 .. n - 1 /\ k \in 1 .. n - 1
          BY <2>6, <3>3
        <4>2. canCalls[i + 1].cmd = "stop" /\ canCalls[k + 1].cmd = "stop"
          BY <2>6, <3>3, <4>1
        <4>3. i + 1 = k + 1
          BY <1>2, <4>1, <4>2 DEF CallsInv
        <4> QED BY <4>1, <4>3
      <3> QED BY <1>3, <2>2, <2>3, <3>1, <3>2, <3>3 DEF CallsInv
    <2> QED BY <2>7, <2>8, <2>9
  <1>9. CASE h.cmd \in {"stop", "lateStop"}
    <2>1. /\ canCalls' = rest /\ UNCHANGED <<frameSubscriptions, snapshotTimer>>
          /\ canStatus' = IF h.cmd = "stop" THEN "idle" ELSE canStatus
      BY <1>9 DEF continues, stopAnswered
    <2>2. CanScanTypeOK'
      <3>1. canCalls' \in Seq(CanCalls) /\ Len(canCalls') <= MaxCanCalls
        BY <1>1, <2>1, CanScanAssumption DEF CanScanAssumption
      <3>2. canStatus' \in CanScanStatuses
        BY <2>1 DEF CanScanTypeOK, CanScanStatuses
      <3>3. frameSubscriptions' \in Nat /\ {snapshotTimer', dashScanning', lost'} \subseteq BOOLEAN
        BY <1>4, <2>1 DEF CanScanTypeOK
      <3> QED BY <1>4, <3>1, <3>2, <3>3 DEF CanScanTypeOK
    <2>3. canStatus' \notin {"running", "error"}
      BY <1>3, <2>1
    <2>4. OneSubscription'
      BY <1>5, <2>1, <2>3 DEF OneSubscription
    <2>5. CASE h.cmd = "stop"
      <3>1. canStatus = "stopping" /\ \A j \in DOMAIN canCalls : canCalls[j].cmd = "stop" => j = 1
        BY <1>1, <1>2, <2>5 DEF CallsInv
      <3>2. \A i \in 1 .. n - 1 : /\ canCalls[i + 1].cmd # "stop" /\ ~canCalls[i + 1].current
        BY <1>2, <3>1 DEF CallsInv
      <3>3. \A i \in 1 .. n - 1 : canCalls[i + 1].cmd # "start"
        <4> SUFFICES ASSUME NEW i \in 1 .. n - 1, canCalls[i + 1].cmd = "start" PROVE FALSE
          OBVIOUS
        <4>1. PICK k \in DOMAIN canCalls : k > i + 1 /\ canCalls[k].cmd = "stop"
          BY <1>2, <3>2 DEF CallsInv
        <4>2. k = 1
          BY <3>1, <4>1
        <4> QED BY <1>1, <4>1, <4>2
      <3>4. \A i \in DOMAIN canCalls' : canCalls'[i].cmd \notin {"start", "stop"} /\ ~canCalls'[i].current
        BY <1>1, <2>1, <3>2, <3>3
      <3>5. CallsInv'
        BY <1>3, <2>3, <3>4 DEF CallsInv
      <3> QED BY <2>2, <2>4, <3>5
    <2>6. CASE h.cmd = "lateStop"
      <3>1. canStatus' = canStatus /\ canCalls' = rest
        BY <2>1, <2>6
      <3>2. DOMAIN canCalls' = 1 .. n - 1 /\ Len(canCalls') = n - 1
            /\ \A i \in 1 .. n - 1 : canCalls'[i] = canCalls[i + 1]
        BY <1>1, <3>1
      <3>3. ASSUME NEW i \in DOMAIN canCalls', canCalls'[i].current
            PROVE  canCalls'[i].cmd = "start" /\ i = Len(canCalls') /\ canStatus' = "starting"
        <4>1. i + 1 = n /\ canCalls[i + 1].cmd = "start" /\ canStatus = "starting"
          BY <1>2, <3>2, <3>3 DEF CallsInv
        <4> QED BY <1>1, <3>1, <3>2, <4>1
      <3>4. ASSUME NEW i \in DOMAIN canCalls', canCalls'[i].cmd = "start", ~canCalls'[i].current
            PROVE  \E k \in DOMAIN canCalls' : k > i /\ canCalls'[k].cmd = "stop"
        <4>1. /\ i \in 1 .. n - 1 /\ i + 1 \in DOMAIN canCalls
              /\ canCalls[i + 1].cmd = "start" /\ ~canCalls[i + 1].current
          BY <1>2, <3>2, <3>4
        <4>2. PICK k \in DOMAIN canCalls : k > i + 1 /\ canCalls[k].cmd = "stop"
          BY <4>1 DEF CallsInv
        <4>3. k - 1 \in 1 .. n - 1 /\ k - 1 > i /\ (k - 1) + 1 = k
          BY <1>1, <4>1, <4>2
        <4> QED BY <3>2, <4>2, <4>3
      <3>5. ASSUME NEW i \in DOMAIN canCalls', canCalls'[i].cmd = "stop"
            PROVE  /\ canStatus' = "stopping"
                   /\ \A k \in DOMAIN canCalls' : canCalls'[k].cmd = "stop" => k = i
        <4>1. canCalls[i + 1].cmd = "stop" /\ i + 1 \in DOMAIN canCalls
          BY <1>2, <3>2, <3>5
        <4>2. canStatus = "stopping"
              /\ \A k \in DOMAIN canCalls : canCalls[k].cmd = "stop" => k = i + 1
          BY <4>1 DEF CallsInv
        <4>3. ASSUME NEW k \in DOMAIN canCalls', canCalls'[k].cmd = "stop" PROVE k = i
          <5>1. k + 1 = i + 1
            BY <1>2, <3>2, <4>2, <4>3
          <5> QED BY <3>2, <5>1
        <4> QED BY <3>1, <4>2, <4>3
      <3>6. CallsInv'
        BY <1>3, <2>3, <3>3, <3>4, <3>5 DEF CallsInv
      <3> QED BY <2>2, <2>4, <3>6
    <2> QED BY <1>9, <2>5, <2>6
  <1> QED BY <1>6, <1>7, <1>8, <1>9

\* The scanner is on exactly while the page shows it, once nothing is outstanding.
LEMMA ObeyedStep == ASSUME CanScanInv, canCallObeyed PROVE CanScanInv'
  <1> USE DEF CanScanInv
  <1>1. /\ canCalls # <<>> /\ continues(Head(canCalls), TRUE, Tail(canCalls))
        /\ UNCHANGED deviceVars /\ dashScanning' = (Head(canCalls).cmd = "start")
        /\ lost' = FALSE
    BY DEF canCallObeyed
  <1>2. CanScanTypeOK' /\ OneSubscription' /\ CallsInv'
    BY <1>1, AnswerStep
  <1>3. /\ Head(canCalls) = canCalls[1] /\ 1 \in DOMAIN canCalls /\ Tail(canCalls) \in Seq(CanCalls)
        /\ Head(canCalls).cmd \in {"start", "stop", "lateStop"}
        /\ canStatus # "running"
    <2>1. canCalls \in Seq(CanCalls)
      BY DEF CanScanTypeOK
    <2>2. Head(canCalls) \in CanCalls /\ Head(canCalls) = canCalls[1] /\ 1 \in DOMAIN canCalls
          /\ Tail(canCalls) \in Seq(CanCalls)
      BY <1>1, <2>1, TailCalls
    <2>3. canStatus # "running"
      BY <1>1 DEF CallsInv
    <2> QED BY <2>2, <2>3 DEF CanCalls
  <1>4. DashFollowsScan'
    <2>1. CASE Head(canCalls).cmd = "start" /\ Head(canCalls).current
      BY <1>1, <2>1 DEF DashFollowsScan, continues, startAnswered, beginScan
    <2>2. CASE Head(canCalls).cmd = "start" /\ ~Head(canCalls).current
      <3>1. canCalls' = Append(Tail(canCalls), [cmd |-> "lateStop", current |-> FALSE])
        BY <1>1, <2>2 DEF continues, startAnswered
      <3>2. [cmd |-> "lateStop", current |-> FALSE] \in CanCalls
        BY DEF CanCalls
      <3> QED BY <1>3, <3>1, <3>2, AppendCall DEF DashFollowsScan
    <2>3. CASE Head(canCalls).cmd \in {"stop", "lateStop"}
      <3>1. canStatus' # "running" /\ dashScanning' = FALSE
        BY <1>1, <1>3, <2>3 DEF continues, stopAnswered
      <3> QED BY <3>1 DEF DashFollowsScan
    <2> QED BY <1>3, <2>1, <2>2, <2>3
  <1> QED BY <1>2, <1>4

\* After an answer that did not come the page does not know what the scanner does.
LEMMA FailsStep == ASSUME CanScanInv, canCallFails PROVE CanScanInv'
  <1> USE DEF CanScanInv
  <1>1. /\ canCalls # <<>> /\ continues(Head(canCalls), FALSE, Tail(canCalls))
        /\ UNCHANGED deviceVars /\ lost' = TRUE
        /\ dashScanning' \in BOOLEAN
    BY DEF CanScanTypeOK, canCallFails
  <1>2. CanScanTypeOK' /\ OneSubscription' /\ CallsInv'
    BY <1>1, AnswerStep
  <1>3. DashFollowsScan'
    BY <1>1 DEF DashFollowsScan
  <1> QED BY <1>2, <1>3

\* A drop leaves nothing outstanding and no scan.
LEMMA DropStep == ASSUME CanScanInv, canScanLinkDrops PROVE CanScanInv'
  <1> USE DEF CanScanInv, canScanLinkDrops
  <1>1. DeviceTypeOK' /\ (linkUp' <=> deviceReady')
    BY DeviceKeeps DEF CanScanTypeOK, CallsInv, deviceStep
  <1>2. canStatus' \in CanScanStatuses /\ canStatus' # "running"
    BY DEF CanScanTypeOK, CanScanStatuses
  <1>3. CanScanTypeOK'
    <2>1. canCalls' \in Seq(CanCalls) /\ Len(canCalls') <= MaxCanCalls
      BY CanScanAssumption, EmptySeq DEF CanScanAssumption
    <2>2. dashScanning' \in BOOLEAN
      BY DEF CanScanTypeOK
    <2>3. {snapshotTimer', dashScanning', lost'} \subseteq BOOLEAN /\ frameSubscriptions' \in Nat
      BY <2>2
    <2> QED BY <1>1, <1>2, <2>1, <2>3 DEF CanScanTypeOK
  <1>4. OneSubscription' /\ DashFollowsScan' /\ CallsInv'
    BY <1>1, <1>2 DEF OneSubscription, DashFollowsScan, CallsInv
  <1> QED BY <1>3, <1>4

\* The offline mode is entered and left without a link, and so without a scan.
LEMMA DeviceStep == ASSUME CanScanInv, canScanDeviceStep PROVE CanScanInv'
  <1> USE DEF CanScanInv, canScanDeviceStep
  <1>1. DeviceTypeOK' /\ (linkUp' <=> deviceReady')
    BY DeviceKeeps DEF CanScanTypeOK, CallsInv, deviceStep
  <1>2. CanScanTypeOK' /\ OneSubscription' /\ DashFollowsScan'
    BY <1>1 DEF CanScanTypeOK, OneSubscription, DashFollowsScan
  <1>3. ~linkUp
    BY DEF CallsInv, deviceReady, setConnected, enterSimulation, exitSimulation
  <1>4. CallsInv'
    BY <1>1, <1>3 DEF CallsInv
  <1> QED BY <1>2, <1>4

\* Every step keeps the invariant.
THEOREM CanScanStepInv == CanScanInv /\ [CanScanNext]_canScanVars => CanScanInv'
  <1> SUFFICES ASSUME CanScanInv, [CanScanNext]_canScanVars PROVE CanScanInv'
    OBVIOUS
  <1>1. CASE UNCHANGED canScanVars
    BY <1>1 DEF CanScanInv, CanScanTypeOK, OneSubscription, DashFollowsScan, CallsInv,
                DeviceTypeOK, deviceReady, canScanVars, deviceVars
  <1>2. CASE CanScanNext
    BY <1>2, StartStep, StopStep, ObeyedStep, FailsStep, DropStep, DeviceStep DEF CanScanNext
  <1> QED BY <1>1, <1>2

\* The invariant holds of every behaviour of the scan.
THEOREM CanScanInvariance == CanScanSpec => []CanScanInv
  BY InitCanScanInv, CanScanStepInv, PTL DEF CanScanSpec

\* The variables keep their types, for every bound on the commands outstanding.
THEOREM CanScanTypes == CanScanSpec => []CanScanTypeOK
  <1>1. CanScanInv => CanScanTypeOK
    BY DEF CanScanInv
  <1> QED BY <1>1, CanScanInvariance, PTL

\* Exactly while a scan runs there is one listener on the frames, and the timer.
THEOREM CanScanOneSubscription == CanScanSpec => []OneSubscription
  <1>1. CanScanInv => OneSubscription
    BY DEF CanScanInv
  <1> QED BY <1>1, CanScanInvariance, PTL

\* Once every command was answered the scanner of the dash does what the page shows.
THEOREM CanScanDashFollows == CanScanSpec => []DashFollowsScan
  <1>1. CanScanInv => DashFollowsScan
    BY DEF CanScanInv
  <1> QED BY <1>1, CanScanInvariance, PTL

-----------------------------------------------------------------------------
(* The counters behind the table of frames.                                *)

Counters == [count : Nat, recent : Nat, payload : Payloads, dirty : BOOLEAN]
Rows     == [count : Nat, rate : Nat, payload : Payloads]

AccumulatorTypeOK ==
  /\ stats = [id \in Seen |-> stats[id]]
  /\ \A id \in Seen : stats[id] \in Counters
  /\ emitted = [id \in DOMAIN emitted |-> emitted[id]]
  /\ \A id \in DOMAIN emitted : emitted[id] \in Rows

\* A row that is not dirty is the one the table shows, but for its rate.
CleanRowsInv ==
  \A id \in DOMAIN emitted \cap Seen :
    ~stats[id].dirty => /\ emitted[id].count = stats[id].count
                        /\ emitted[id].payload = stats[id].payload

RowsInv == AccumulatorTypeOK /\ CleanRowsInv

\* Nothing is counted, and no row is shown.
LEMMA InitRowsInv == AccumulatorInit => RowsInv
  BY DEF AccumulatorInit, RowsInv, AccumulatorTypeOK, CleanRowsInv, NoFrames, Seen

\* A row is made of what is counted, whether it is reused or not.
LEMMA EmitsRow == ASSUME RowsInv, NEW id \in Seen PROVE emit(id) = row(id) /\ row(id) \in Rows
  <1>1. stats[id] \in Counters
    BY DEF RowsInv, AccumulatorTypeOK
  <1>2. row(id) \in Rows
    BY <1>1 DEF row, Counters, Rows
  <1>3. CASE id \in DOMAIN emitted /\ ~stats[id].dirty /\ emitted[id].rate = stats[id].recent
    <2>1. emitted[id] \in Rows
      BY <1>3 DEF RowsInv, AccumulatorTypeOK
    <2>2. emitted[id].count = stats[id].count /\ emitted[id].payload = stats[id].payload
      BY <1>3 DEF RowsInv, CleanRowsInv
    <2>3. emitted[id] = row(id)
      BY <1>3, <2>1, <2>2 DEF Rows, row
    <2> QED BY <1>2, <1>3, <2>3 DEF emit
  <1>4. CASE ~(id \in DOMAIN emitted /\ ~stats[id].dirty /\ emitted[id].rate = stats[id].recent)
    BY <1>2, <1>4 DEF emit
  <1> QED BY <1>3, <1>4

\* The table a snapshot makes.
LEMMA SnapshotRows ==
  ASSUME RowsInv, takeSnapshot
  PROVE  emitted' = [id \in Seen |-> row(id)]
  <1>1. \A id \in Seen : emit(id) = row(id)
    BY EmitsRow
  <1> QED BY <1>1 DEF takeSnapshot

\* A snapshot leaves clean rows, and shows them.
LEMMA SnapshotStep == ASSUME RowsInv, takeSnapshot PROVE RowsInv'
  <1>1. Seen' = Seen /\ DOMAIN emitted' = Seen
    BY DEF takeSnapshot, Seen
  <1>2. ASSUME NEW id \in Seen
        PROVE  /\ stats'[id] = [stats[id] EXCEPT !.dirty = FALSE] /\ stats'[id] \in Counters
               /\ emitted'[id] = row(id) /\ emitted'[id] \in Rows
               /\ emitted'[id].count = stats'[id].count
               /\ emitted'[id].payload = stats'[id].payload
    <2>1. stats[id] \in Counters
      BY DEF RowsInv, AccumulatorTypeOK
    <2>2. stats'[id] = [stats[id] EXCEPT !.dirty = FALSE]
      BY DEF takeSnapshot
    <2>3. emitted'[id] = row(id) /\ row(id) \in Rows
      BY SnapshotRows, EmitsRow
    <2>4. /\ stats'[id] \in Counters
          /\ stats'[id].count = stats[id].count /\ stats'[id].payload = stats[id].payload
      BY <2>1, <2>2 DEF Counters
    <2>5. emitted'[id].count = stats[id].count /\ emitted'[id].payload = stats[id].payload
      BY <2>3 DEF row
    <2> QED BY <2>2, <2>3, <2>4, <2>5
  <1>3. AccumulatorTypeOK'
    <2>1. stats' = [id \in Seen |-> stats'[id]] /\ emitted' = [id \in Seen |-> emitted'[id]]
      BY DEF takeSnapshot
    <2> QED BY <1>1, <1>2, <2>1 DEF AccumulatorTypeOK
  <1>4. CleanRowsInv'
    BY <1>1, <1>2 DEF CleanRowsInv
  <1> QED BY <1>3, <1>4 DEF RowsInv

\* A frame makes its row dirty.
LEMMA IngestStep ==
  ASSUME RowsInv, NEW id \in FrameIds, NEW payload \in Payloads, ingest(id, payload)
  PROVE  RowsInv'
  <1>1. Seen' = Seen \cup {id} /\ emitted' = emitted
    BY DEF ingest, recordFrame, with, Seen
  <1>2. stats' = [i \in Seen' |-> stats'[i]]
    BY <1>1 DEF ingest, recordFrame, with, Seen
  <1>3. \A i \in Seen : i # id => stats'[i] = stats[i]
    BY DEF ingest, recordFrame, with, Seen
  <1>4. stats'[id] \in Counters /\ stats'[id].dirty
    <2>1. CASE id \in Seen
      <3>1. stats[id] \in Counters
        BY <2>1 DEF RowsInv, AccumulatorTypeOK
      <3>2. stats'[id] = [count |-> stats[id].count + 1, recent |-> stats[id].recent + 1,
                          payload |-> payload, dirty |-> TRUE]
        BY <2>1 DEF ingest, recordFrame, with, Seen
      <3> QED BY <3>1, <3>2 DEF Counters
    <2>2. CASE id \notin Seen
      <3>1. stats'[id] = [count |-> 1, recent |-> 1, payload |-> payload, dirty |-> TRUE]
        BY <2>2 DEF ingest, recordFrame, with, Seen
      <3> QED BY <3>1 DEF Counters
    <2> QED BY <2>1, <2>2
  <1>5. AccumulatorTypeOK'
    BY <1>1, <1>2, <1>3, <1>4 DEF RowsInv, AccumulatorTypeOK
  <1>6. CleanRowsInv'
    BY <1>1, <1>3, <1>4 DEF RowsInv, CleanRowsInv
  <1> QED BY <1>5, <1>6 DEF RowsInv

\* A frame that leaves the window changes the rate of its row, which is compared.
LEMMA WindowStep == ASSUME RowsInv, NEW id \in FrameIds, windowSlides(id) PROVE RowsInv'
  <1>1. id \in Seen /\ stats[id] \in Counters /\ stats[id].recent > 0
    BY DEF windowSlides, RowsInv, AccumulatorTypeOK
  <1>2. Seen' = Seen /\ emitted' = emitted /\ stats' = [i \in Seen' |-> stats'[i]]
    BY DEF windowSlides, Seen, RowsInv, AccumulatorTypeOK
  <1>3. stats'[id] = [stats[id] EXCEPT !.recent = stats[id].recent - 1]
    BY <1>1 DEF windowSlides, Seen
  <1>4. \A i \in Seen : i # id => stats'[i] = stats[i]
    BY DEF windowSlides, Seen
  <1>5. /\ stats'[id] \in Counters /\ stats'[id].dirty = stats[id].dirty
        /\ stats'[id].count = stats[id].count /\ stats'[id].payload = stats[id].payload
    BY <1>1, <1>3 DEF Counters
  <1>6. AccumulatorTypeOK'
    BY <1>2, <1>4, <1>5 DEF RowsInv, AccumulatorTypeOK
  <1>7. CleanRowsInv'
    BY <1>2, <1>4, <1>5 DEF RowsInv, CleanRowsInv
  <1> QED BY <1>6, <1>7 DEF RowsInv

\* Every step keeps the rows that are not dirty as they are shown.
THEOREM AccumulatorStepInv == RowsInv /\ [AccumulatorNext]_accumulatorVars => RowsInv'
  <1> SUFFICES ASSUME RowsInv, [AccumulatorNext]_accumulatorVars PROVE RowsInv'
    OBVIOUS
  <1>1. CASE refresh \/ startLearn \/ stopLearn \/ clearLearn
    BY <1>1, SnapshotStep DEF refresh, startLearn, stopLearn, clearLearn
  <1>2. CASE resetAccumulator
    BY <1>2 DEF resetAccumulator, RowsInv, AccumulatorTypeOK, CleanRowsInv, NoFrames, Seen
  <1>3. CASE \E id \in FrameIds : windowSlides(id) \/ \E payload \in Payloads : ingest(id, payload)
    BY <1>3, IngestStep, WindowStep
  <1>4. CASE UNCHANGED accumulatorVars
    BY <1>4 DEF accumulatorVars, RowsInv, AccumulatorTypeOK, CleanRowsInv, Seen
  <1> QED BY <1>1, <1>2, <1>3, <1>4 DEF AccumulatorNext

\* Whatever rows a snapshot reuses, its table is what was counted (accumulator.ts:135-147).
THEOREM AccumulatorSnapshotIsTrue == AccumulatorSpec => SnapshotIsTrue
  <1>1. RowsInv /\ [AccumulatorNext]_accumulatorVars
          => [takeSnapshot => emitted' = [id \in Seen |-> row(id)]]_accumulatorVars
    BY SnapshotRows
  <1> QED BY InitRowsInv, AccumulatorStepInv, <1>1, PTL DEF AccumulatorSpec, SnapshotIsTrue

-----------------------------------------------------------------------------
(* The scan of the car.                                                    *)

CarCalls  == [cmd : {"start", "poll"}, gen : Nat]
CarPhases == {"idle", "starting", "scanning", "matching", "done", "error"}

CarScanTypeOK ==
  /\ carPhase \in CarPhases
  /\ carGeneration \in Nat /\ pollTimer \in Nat /\ pollsLeft \in Nat
  /\ carCalls \in Seq(CarCalls)
  /\ matching \subseteq Nat

\* The calls of the current generation: one at most, of the phase it is of, and
\* starts are asked in the order of their generations.
CarCallsInv ==
  /\ \A i \in DOMAIN carCalls :
       /\ carCalls[i].gen <= carGeneration
       /\ carCalls[i].gen = carGeneration
            => /\ carPhase = IF carCalls[i].cmd = "start" THEN "starting" ELSE "scanning"
               /\ pollTimer = 0
               /\ \A j \in DOMAIN carCalls : carCalls[j].gen = carGeneration => j = i
  /\ \A i, j \in DOMAIN carCalls :
       carCalls[i].cmd = "start" /\ carCalls[j].cmd = "start" /\ i < j
         => carCalls[i].gen < carCalls[j].gen

\* The timer and the catalogue are waited for in their phases only; while a scan is
\* polled, the scan of the dash is its own.
PhaseInv ==
  /\ pollTimer # 0 => pollTimer = carGeneration /\ carPhase = "scanning"
  /\ \A g \in matching : g <= carGeneration /\ (g = carGeneration => carPhase = "matching")
  /\ carPhase = "scanning" => /\ dashBusScan.of = carGeneration
                              /\ \A i \in DOMAIN carCalls : carCalls[i].cmd # "start"

\* A busy scan waits for something.
WaitsInv ==
  /\ carPhase \in CarBusy => carGeneration > 0
  /\ carPhase = "starting" => \E i \in DOMAIN carCalls : carCalls[i].gen = carGeneration
  /\ carPhase = "scanning" => \/ pollTimer = carGeneration
                              \/ \E i \in DOMAIN carCalls : carCalls[i].gen = carGeneration
  /\ carPhase = "matching" => carGeneration \in matching

CarScanInv == CarScanTypeOK /\ CarCallsInv /\ PhaseInv /\ WaitsInv /\ CarResultIsOwn

DashTypeOK == dashBusScan \in [of : Nat, done : BOOLEAN]

-----------------------------------------------------------------------------
\* The line and its entries.
LEMMA CallTypes ==
  ASSUME CarScanTypeOK
  PROVE  /\ carCalls \in Seq(CarCalls) /\ Len(carCalls) \in Nat
         /\ DOMAIN carCalls = 1 .. Len(carCalls)
         /\ \A i \in DOMAIN carCalls : carCalls[i] \in CarCalls /\ carCalls[i].gen \in Nat
  <1>1. carCalls \in Seq(CarCalls)
    BY DEF CarScanTypeOK
  <1>2. Len(carCalls) \in Nat /\ DOMAIN carCalls = 1 .. Len(carCalls)
        /\ \A i \in 1 .. Len(carCalls) : carCalls[i] \in CarCalls
    BY <1>1, LenProperties
  <1>3. \A call \in CarCalls : call.gen \in Nat
    BY DEF CarCalls
  <1> QED BY <1>1, <1>2, <1>3

\* What is left of the line when its oldest command was answered.
LEMMA TailCarCalls ==
  ASSUME CarScanTypeOK, CarCallsInv, carCalls # <<>>, NEW n, n = Len(carCalls)
  PROVE  /\ n \in Nat \ {0} /\ DOMAIN carCalls = 1 .. n /\ 1 \in DOMAIN carCalls
         /\ Head(carCalls) = carCalls[1] /\ Head(carCalls) \in CarCalls
         /\ Tail(carCalls) \in Seq(CarCalls) /\ DOMAIN Tail(carCalls) = 1 .. n - 1
         /\ \A i \in 1 .. n - 1 : /\ Tail(carCalls)[i] = carCalls[i + 1]
                                  /\ i + 1 \in DOMAIN carCalls /\ i + 1 # 1
         /\ \A i \in DOMAIN carCalls : i # 1 => i - 1 \in 1 .. n - 1 /\ (i - 1) + 1 = i
  BY HeadTailProperties, LenProperties, EmptySeq DEF CarScanTypeOK

\* Nothing that is left is newer than the generation, the starts are in order, and
\* nothing is of the current one if the oldest command was.
LEMMA RestOfCalls ==
  ASSUME CarScanTypeOK, CarCallsInv, carCalls # <<>>, carCalls' = Tail(carCalls)
  PROVE  /\ \A i \in DOMAIN carCalls' : carCalls'[i].gen \in Nat /\ carCalls'[i].gen <= carGeneration
         /\ \A i, j \in DOMAIN carCalls' :
              carCalls'[i].cmd = "start" /\ carCalls'[j].cmd = "start" /\ i < j
                => carCalls'[i].gen < carCalls'[j].gen
         /\ Head(carCalls).gen = carGeneration
              => \A i \in DOMAIN carCalls' : carCalls'[i].gen # carGeneration
  <1> DEFINE n == Len(carCalls)
  <1>1. /\ n \in Nat \ {0} /\ DOMAIN carCalls = 1 .. n /\ 1 \in DOMAIN carCalls
        /\ Head(carCalls) = carCalls[1] /\ Head(carCalls) \in CarCalls
        /\ DOMAIN carCalls' = 1 .. n - 1
        /\ \A i \in 1 .. n - 1 : /\ carCalls'[i] = carCalls[i + 1]
                                 /\ i + 1 \in DOMAIN carCalls /\ i + 1 # 1
    BY TailCarCalls
  <1>2. \A i \in DOMAIN carCalls : carCalls[i].gen \in Nat
    BY CallTypes
  <1>3. \A i \in DOMAIN carCalls' : carCalls'[i].gen \in Nat /\ carCalls'[i].gen <= carGeneration
    BY <1>1, <1>2 DEF CarCallsInv
  <1>4. ASSUME NEW i \in DOMAIN carCalls', NEW j \in DOMAIN carCalls',
               carCalls'[i].cmd = "start", carCalls'[j].cmd = "start", i < j
        PROVE  carCalls'[i].gen < carCalls'[j].gen
    <2>1. carCalls[i + 1].cmd = "start" /\ carCalls[j + 1].cmd = "start" /\ i + 1 < j + 1
          /\ i + 1 \in DOMAIN carCalls /\ j + 1 \in DOMAIN carCalls
      BY <1>1, <1>4
    <2>2. carCalls[i + 1].gen < carCalls[j + 1].gen
      BY <2>1 DEF CarCallsInv
    <2> QED BY <1>1, <2>2
  <1>5. ASSUME Head(carCalls).gen = carGeneration, NEW i \in DOMAIN carCalls',
               carCalls'[i].gen = carGeneration
        PROVE  FALSE
    <2>1. carCalls[1].gen = carGeneration /\ carCalls[i + 1].gen = carGeneration
          /\ i + 1 \in DOMAIN carCalls
      BY <1>1, <1>5
    <2>2. i + 1 = 1
      BY <1>1, <2>1 DEF CarCallsInv
    <2> QED BY <1>1, <2>2
  <1> QED BY <1>3, <1>4, <1>5

\* A line with nothing of the current generation.
LEMMA NothingCurrent ==
  ASSUME NEW gen \in Nat, gen = carGeneration',
         \A i \in DOMAIN carCalls' : carCalls'[i].gen \in Nat /\ carCalls'[i].gen < gen,
         \A i, j \in DOMAIN carCalls' :
              carCalls'[i].cmd = "start" /\ carCalls'[j].cmd = "start" /\ i < j
                => carCalls'[i].gen < carCalls'[j].gen
  PROVE  CarCallsInv'
  BY DEF CarCallsInv

\* A scan that fails, or that the user gives up, has a generation nothing waits for.
LEMMA NextGeneration ==
  ASSUME CarScanInv, carGeneration' = carGeneration + 1, pollTimer' = 0,
         UNCHANGED <<pollsLeft, matching>>,
         carPhase' \in {"error", "idle"},
         carCalls' \in {carCalls, <<>>} \/ (carCalls # <<>> /\ carCalls' = Tail(carCalls))
  PROVE  CarScanInv'
  <1> USE DEF CarScanInv
  <1>1. carGeneration \in Nat /\ carGeneration + 1 \in Nat
    BY DEF CarScanTypeOK
  <1>2. /\ carCalls' \in Seq(CarCalls)
        /\ \A i \in DOMAIN carCalls' : carCalls'[i].gen \in Nat /\ carCalls'[i].gen <= carGeneration
        /\ \A i, j \in DOMAIN carCalls' :
              carCalls'[i].cmd = "start" /\ carCalls'[j].cmd = "start" /\ i < j
                => carCalls'[i].gen < carCalls'[j].gen
    <2>1. CASE carCalls' = carCalls
      BY <2>1, CallTypes DEF CarCallsInv
    <2>2. CASE carCalls' = <<>>
      BY <2>2, EmptySeq
    <2>3. CASE carCalls # <<>> /\ carCalls' = Tail(carCalls)
      BY <2>3, RestOfCalls, TailCarCalls
    <2> QED BY <2>1, <2>2, <2>3
  <1>3. CarScanTypeOK'
    BY <1>1, <1>2 DEF CarScanTypeOK, CarPhases
  <1>4. CarCallsInv'
    <2>1. \A i \in DOMAIN carCalls' : carCalls'[i].gen < carGeneration + 1
      BY <1>1, <1>2
    <2> QED BY <1>1, <1>2, <2>1, NothingCurrent
  <1>5. PhaseInv'
    <2>1. \A g \in matching : g <= carGeneration + 1 /\ g # carGeneration + 1
      <3>1. carGeneration \in Nat /\ matching \subseteq Nat
        BY DEF CarScanTypeOK
      <3>2. \A g \in matching : g \in Nat /\ g <= carGeneration
        BY <3>1 DEF PhaseInv
      <3> QED BY <3>1, <3>2
    <2> QED BY <2>1 DEF PhaseInv
  <1>6. WaitsInv' /\ CarResultIsOwn'
    BY DEF WaitsInv, CarBusy, CarResultIsOwn
  <1> QED BY <1>3, <1>4, <1>5, <1>6

\* A start is of a generation newer than what is outstanding.
LEMMA CarStart == ASSUME CarScanInv, carScanStart PROVE CarScanInv'
  <1> DEFINE n == Len(carCalls)
             call == [cmd |-> "start", gen |-> carGeneration + 1]
  <1> USE DEF CarScanInv, carScanStart
  <1>1. /\ carGeneration \in Nat /\ carGeneration + 1 \in Nat /\ carGeneration' = carGeneration + 1
        /\ call \in CarCalls /\ carCalls' = Append(carCalls, call)
    BY DEF CarScanTypeOK, CarCalls
  <1>2. pollTimer = 0 /\ pollTimer' = 0 /\ carPhase' = "starting"
    BY DEF PhaseInv, CarBusy
  <1>3. /\ n \in Nat /\ DOMAIN carCalls = 1 .. n /\ carCalls \in Seq(CarCalls)
        /\ carCalls' \in Seq(CarCalls) /\ DOMAIN carCalls' = 1 .. n + 1
        /\ \A i \in 1 .. n : carCalls'[i] = carCalls[i] /\ carCalls[i].gen \in Nat
        /\ carCalls'[n + 1] = call
    <2>1. n \in Nat /\ DOMAIN carCalls = 1 .. n /\ carCalls \in Seq(CarCalls)
          /\ \A i \in 1 .. n : carCalls[i].gen \in Nat
      BY CallTypes
    <2>2. carCalls' \in Seq(CarCalls) /\ Len(carCalls') = n + 1 /\ DOMAIN carCalls' = 1 .. Len(carCalls')
      BY <1>1, <2>1, LenProperties
    <2>3. \A i \in 1 .. n : carCalls'[i] = carCalls[i]
      BY <1>1, <2>1
    <2>4. carCalls'[n + 1] = call
      BY <1>1, <2>1
    <2> QED BY <2>1, <2>2, <2>3, <2>4
  <1>4. \A i \in DOMAIN carCalls' : i \in 1 .. n \/ i = n + 1
    <2>1. n \in Nat
      BY <1>3
    <2> HIDE DEF n
    <2> QED BY <1>3, <2>1
  <1>5. \A i \in 1 .. n : carCalls'[i].gen \in Nat /\ carCalls'[i].gen <= carGeneration
    BY <1>3 DEF CarCallsInv
  <1>6. CarScanTypeOK'
    BY <1>1, <1>2, <1>3 DEF CarScanTypeOK, CarPhases
  <1>7. CarCallsInv'
    <2>1. ASSUME NEW i \in DOMAIN carCalls'
          PROVE  /\ carCalls'[i].gen <= carGeneration'
                 /\ carCalls'[i].gen = carGeneration' => carCalls'[i] = call /\ i = n + 1
      <3>1. CASE i \in 1 .. n
        BY <1>1, <1>5, <3>1
      <3>2. CASE i = n + 1
        BY <1>1, <1>3, <3>2
      <3> QED BY <1>4, <3>1, <3>2
    <2>2. ASSUME NEW i \in DOMAIN carCalls', NEW j \in DOMAIN carCalls', i < j,
                 carCalls'[i].cmd = "start", carCalls'[j].cmd = "start"
          PROVE  carCalls'[i].gen < carCalls'[j].gen
      <3>1. i \in 1 .. n
        BY <1>3, <2>2
      <3>2. CASE j \in 1 .. n
        BY <1>3, <2>2, <3>1, <3>2 DEF CarCallsInv
      <3>3. CASE j = n + 1
        BY <1>1, <1>3, <1>5, <3>1, <3>3
      <3> QED BY <1>4, <3>2, <3>3
    <2>3. call.cmd = "start"
      OBVIOUS
    <2> QED BY <1>2, <2>1, <2>2, <2>3 DEF CarCallsInv
  <1>8. PhaseInv'
    <2>1. \A g \in matching : g <= carGeneration + 1 /\ g # carGeneration + 1
      <3>1. carGeneration \in Nat /\ matching \subseteq Nat
        BY DEF CarScanTypeOK
      <3>2. \A g \in matching : g \in Nat /\ g <= carGeneration
        BY <3>1 DEF PhaseInv
      <3> QED BY <3>1, <3>2
    <2> QED BY <1>1, <1>2, <2>1 DEF PhaseInv
  <1>9. WaitsInv'
    <2>1. n + 1 \in DOMAIN carCalls' /\ carCalls'[n + 1].gen = carGeneration'
      BY <1>1, <1>3
    <2>2. carGeneration' > 0
      BY <1>1
    <2> QED BY <1>2, <2>1, <2>2 DEF WaitsInv
  <1>10. CarResultIsOwn'
    BY <1>2 DEF CarResultIsOwn
  <1> QED BY <1>6, <1>7, <1>8, <1>9, <1>10

\* The answer of an earlier generation is thrown away.
LEMMA StaleAnswer ==
  ASSUME CarScanInv, carCalls # <<>>, carCalls' = Tail(carCalls), UNCHANGED carStoreVars,
         Head(carCalls).gen # carGeneration,
         Head(carCalls).cmd = "start" \/ dashBusScan' = dashBusScan
  PROVE  CarScanInv'
  <1> DEFINE n == Len(carCalls)
  <1> USE DEF CarScanInv
  <1>1. /\ n \in Nat \ {0} /\ DOMAIN carCalls = 1 .. n /\ 1 \in DOMAIN carCalls
        /\ Head(carCalls) = carCalls[1]
        /\ carCalls' \in Seq(CarCalls) /\ DOMAIN carCalls' = 1 .. n - 1
        /\ \A i \in 1 .. n - 1 : /\ carCalls'[i] = carCalls[i + 1]
                                 /\ i + 1 \in DOMAIN carCalls /\ i + 1 # 1
        /\ \A i \in DOMAIN carCalls : i # 1 => i - 1 \in 1 .. n - 1 /\ (i - 1) + 1 = i
    BY TailCarCalls
  <1>2. /\ carPhase' = carPhase /\ carGeneration' = carGeneration /\ pollTimer' = pollTimer
        /\ pollsLeft' = pollsLeft /\ matching' = matching /\ carResult' = carResult
    BY DEF carStoreVars
  <1>3. CarScanTypeOK'
    BY <1>1, <1>2 DEF CarScanTypeOK
  <1>4. CarCallsInv'
    <2>1. \A i, j \in DOMAIN carCalls' :
            carCalls'[i].cmd = "start" /\ carCalls'[j].cmd = "start" /\ i < j
              => carCalls'[i].gen < carCalls'[j].gen
      BY RestOfCalls
    <2>2. \A i \in DOMAIN carCalls' : carCalls'[i].gen <= carGeneration
      BY RestOfCalls
    <2>3. ASSUME NEW i \in DOMAIN carCalls', carCalls'[i].gen = carGeneration
          PROVE  /\ carPhase = IF carCalls'[i].cmd = "start" THEN "starting" ELSE "scanning"
                 /\ pollTimer = 0
                 /\ \A j \in DOMAIN carCalls' : carCalls'[j].gen = carGeneration => j = i
      <3>1. i + 1 \in DOMAIN carCalls /\ carCalls'[i] = carCalls[i + 1]
            /\ carCalls[i + 1].gen = carGeneration
        BY <1>1, <2>3
      <3>2. /\ carPhase = IF carCalls[i + 1].cmd = "start" THEN "starting" ELSE "scanning"
            /\ pollTimer = 0
            /\ \A j \in DOMAIN carCalls : carCalls[j].gen = carGeneration => j = i + 1
        BY <3>1 DEF CarCallsInv
      <3>3. ASSUME NEW j \in DOMAIN carCalls', carCalls'[j].gen = carGeneration PROVE j = i
        <4>1. j + 1 = i + 1
          BY <1>1, <3>2, <3>3
        <4> QED BY <1>1, <4>1
      <3> QED BY <3>1, <3>2, <3>3
    <2> QED BY <1>2, <2>1, <2>2, <2>3 DEF CarCallsInv
  <1>5. PhaseInv'
    <2>1. carPhase = "scanning" => dashBusScan'.of = carGeneration
      BY <1>1 DEF PhaseInv
    <2>2. carPhase = "scanning" => \A i \in DOMAIN carCalls' : carCalls'[i].cmd # "start"
      BY <1>1 DEF PhaseInv
    <2> QED BY <1>2, <2>1, <2>2 DEF PhaseInv
  <1>6. WaitsInv'
    <2>1. (\E i \in DOMAIN carCalls : carCalls[i].gen = carGeneration)
             => \E i \in DOMAIN carCalls' : carCalls'[i].gen = carGeneration
      <3> SUFFICES ASSUME NEW i \in DOMAIN carCalls, carCalls[i].gen = carGeneration
                   PROVE  \E k \in DOMAIN carCalls' : carCalls'[k].gen = carGeneration
        OBVIOUS
      <3>1. i # 1
        BY <1>1
      <3>2. i - 1 \in DOMAIN carCalls' /\ carCalls'[i - 1] = carCalls[i]
        BY <1>1, <3>1
      <3> QED BY <3>2
    <2> QED BY <1>2, <2>1 DEF WaitsInv
  <1>7. CarResultIsOwn'
    BY <1>2 DEF CarResultIsOwn
  <1> QED BY <1>3, <1>4, <1>5, <1>6, <1>7

\* The answer of the current generation is the last thing it waited for.
LEMMA CurrentAnswer ==
  ASSUME CarScanInv, carCalls # <<>>, carCalls' = Tail(carCalls),
         Head(carCalls).gen = carGeneration, carGeneration' = carGeneration
  PROVE  /\ CarCallsInv' /\ carCalls' \in Seq(CarCalls)
         /\ carGeneration \in Nat /\ carGeneration > 0 /\ pollTimer = 0
         /\ carPhase = IF Head(carCalls).cmd = "start" THEN "starting" ELSE "scanning"
         /\ \A i \in DOMAIN carCalls' : carCalls'[i].cmd # "start"
  <1> USE DEF CarScanInv
  <1>1. /\ 1 \in DOMAIN carCalls /\ Head(carCalls) = carCalls[1] /\ carCalls' \in Seq(CarCalls)
        /\ DOMAIN carCalls' = 1 .. Len(carCalls) - 1 /\ Len(carCalls) \in Nat
        /\ \A i \in 1 .. Len(carCalls) - 1 : /\ carCalls'[i] = carCalls[i + 1]
                                             /\ i + 1 \in DOMAIN carCalls
    BY TailCarCalls
  <1>2. carGeneration \in Nat
    BY DEF CarScanTypeOK
  <1>3. \A i \in DOMAIN carCalls' : carCalls'[i].gen \in Nat /\ carCalls'[i].gen < carGeneration
    <2>1. \A i \in DOMAIN carCalls' : /\ carCalls'[i].gen \in Nat
                                      /\ carCalls'[i].gen <= carGeneration
                                      /\ carCalls'[i].gen # carGeneration
      BY RestOfCalls
    <2> QED BY <1>2, <2>1
  <1>4. CarCallsInv'
    <2>1. \A i, j \in DOMAIN carCalls' :
            carCalls'[i].cmd = "start" /\ carCalls'[j].cmd = "start" /\ i < j
              => carCalls'[i].gen < carCalls'[j].gen
      BY RestOfCalls
    <2> QED BY <1>2, <1>3, <2>1, NothingCurrent
  <1>5. pollTimer = 0 /\ carPhase = IF Head(carCalls).cmd = "start" THEN "starting" ELSE "scanning"
    BY <1>1 DEF CarCallsInv
  <1>6. carGeneration > 0
    BY <1>5 DEF WaitsInv, CarBusy
  <1>7. \A i \in DOMAIN carCalls' : carCalls'[i].cmd # "start"
    <2>1. CASE Head(carCalls).cmd = "start"
      <3> SUFFICES ASSUME NEW i \in DOMAIN carCalls', carCalls'[i].cmd = "start" PROVE FALSE
        OBVIOUS
      <3>1. carCalls[i + 1].cmd = "start" /\ carCalls[1].cmd = "start" /\ 1 < i + 1
            /\ i + 1 \in DOMAIN carCalls /\ carCalls[i + 1].gen = carCalls'[i].gen
        BY <1>1, <2>1
      <3>2. carGeneration < carCalls'[i].gen
        BY <1>1, <3>1 DEF CarCallsInv
      <3> QED BY <1>2, <1>3, <3>2
    <2>2. CASE Head(carCalls).cmd # "start"
      BY <1>1, <1>5, <2>2 DEF PhaseInv
    <2> QED BY <2>1, <2>2
  <1> QED BY <1>1, <1>2, <1>4, <1>5, <1>6, <1>7

\* The scan of the dash is under way: the poll is scheduled.
LEMMA CarStarted ==
  ASSUME CarScanInv, carCalls # <<>>, carCalls' = Tail(carCalls),
         Head(carCalls).cmd = "start", Head(carCalls).gen = carGeneration,
         dashBusScan' = [of |-> carGeneration, done |-> FALSE],
         startContinues(carGeneration, TRUE)
  PROVE  CarScanInv'
  <1>1. /\ carPhase' = "scanning" /\ pollsLeft' = MaxPolls /\ pollTimer' = carGeneration
        /\ UNCHANGED <<carGeneration, matching, carResult>>
    BY DEF startContinues, schedulePoll
  <1>2. /\ CarCallsInv' /\ carCalls' \in Seq(CarCalls) /\ carGeneration \in Nat /\ carGeneration > 0
        /\ carPhase = "starting"
        /\ \A i \in DOMAIN carCalls' : carCalls'[i].cmd # "start"
    BY <1>1, CurrentAnswer
  <1>3. CarScanTypeOK'
    BY <1>1, <1>2, CarScanAssumption DEF CarScanInv, CarScanTypeOK, CarPhases, CarScanAssumption
  <1>4. PhaseInv'
    <2>1. \A g \in matching : g <= carGeneration /\ g # carGeneration
      BY <1>2 DEF CarScanInv, PhaseInv
    <2>2. dashBusScan'.of = carGeneration
      OBVIOUS
    <2> QED BY <1>1, <1>2, <2>1, <2>2 DEF PhaseInv
  <1>5. WaitsInv' /\ CarResultIsOwn'
    BY <1>1, <1>2 DEF WaitsInv, CarBusy, CarResultIsOwn
  <1> QED BY <1>2, <1>3, <1>4, <1>5 DEF CarScanInv

\* A poll that is answered is followed by another, or by the match.
LEMMA CarPolled ==
  ASSUME CarScanInv, carCalls # <<>>, carCalls' = Tail(carCalls),
         Head(carCalls).cmd = "poll", Head(carCalls).gen = carGeneration,
         dashBusScan' = dashBusScan,
         \/ finish(carGeneration, dashBusScan.of)
         \/ /\ pollsLeft > 0 /\ pollsLeft' = pollsLeft - 1
            /\ schedulePoll(carGeneration)
            /\ UNCHANGED <<carPhase, carGeneration, matching, carResult>>
  PROVE  CarScanInv'
  <1>1. carGeneration' = carGeneration
    BY DEF finish
  <1>2. /\ CarCallsInv' /\ carCalls' \in Seq(CarCalls) /\ carGeneration \in Nat /\ carGeneration > 0
        /\ pollTimer = 0 /\ carPhase = "scanning"
        /\ \A i \in DOMAIN carCalls' : carCalls'[i].cmd # "start"
    BY <1>1, CurrentAnswer
  <1>3. dashBusScan.of = carGeneration /\ \A g \in matching : g <= carGeneration /\ g # carGeneration
    BY <1>2 DEF CarScanInv, PhaseInv
  <1>4. CASE finish(carGeneration, dashBusScan.of)
    <2>1. /\ carPhase' = "matching" /\ carResult' = carGeneration
          /\ matching' = matching \cup {carGeneration}
          /\ UNCHANGED <<pollTimer, pollsLeft>>
      BY <1>3, <1>4 DEF finish
    <2>2. CarScanTypeOK'
      BY <1>1, <1>2, <2>1 DEF CarScanInv, CarScanTypeOK, CarPhases
    <2>3. PhaseInv'
      BY <1>1, <1>2, <1>3, <2>1 DEF PhaseInv
    <2>4. WaitsInv' /\ CarResultIsOwn'
      BY <1>1, <1>2, <2>1 DEF WaitsInv, CarBusy, CarResultIsOwn
    <2> QED BY <1>2, <2>2, <2>3, <2>4 DEF CarScanInv
  <1>5. CASE /\ pollsLeft > 0 /\ pollsLeft' = pollsLeft - 1
             /\ schedulePoll(carGeneration)
             /\ UNCHANGED <<carPhase, carGeneration, matching, carResult>>
    <2>1. pollTimer' = carGeneration
      BY <1>5 DEF schedulePoll
    <2>2. CarScanTypeOK'
      <3>1. pollsLeft' \in Nat
        BY <1>5 DEF CarScanInv, CarScanTypeOK
      <3> QED BY <1>2, <1>5, <2>1, <3>1 DEF CarScanInv, CarScanTypeOK
    <2>3. PhaseInv'
      BY <1>2, <1>3, <1>5, <2>1 DEF PhaseInv
    <2>4. WaitsInv' /\ CarResultIsOwn'
      BY <1>2, <1>5, <2>1 DEF WaitsInv, CarBusy, CarResultIsOwn
    <2> QED BY <1>2, <2>2, <2>3, <2>4 DEF CarScanInv
  <1> QED BY <1>4, <1>5

\* What follows an answer, whether the dash obeyed or not.
LEMMA AnswerKeeps == ASSUME CarScanInv, carCallAnswered \/ carCallFails PROVE CarScanInv'
  <1> DEFINE gen == Head(carCalls).gen
  <1>1. carCalls # <<>> /\ carCalls' = Tail(carCalls)
    BY DEF carCallAnswered, carCallFails
  <1>2. PICK success \in BOOLEAN :
          \/ /\ Head(carCalls).cmd = "start" /\ startContinues(gen, success)
             /\ success => dashBusScan' = [of |-> gen, done |-> FALSE]
          \/ /\ Head(carCalls).cmd = "poll" /\ dashBusScan' = dashBusScan
             /\ pollContinues(gen, success)
    <2>1. CASE carCallAnswered
      BY <2>1 DEF carCallAnswered
    <2>2. CASE carCallFails
      BY <2>2 DEF carCallFails
    <2> QED BY <2>1, <2>2
  <1>3. CASE gen # carGeneration
    <2>1. UNCHANGED carStoreVars
      BY <1>2, <1>3 DEF startContinues, pollContinues
    <2> QED BY <1>1, <1>2, <1>3, <2>1, StaleAnswer
  <1>4. CASE gen = carGeneration /\ carFails /\ UNCHANGED matching
    BY <1>1, <1>4, NextGeneration DEF carFails
  <1>5. CASE gen = carGeneration /\ ~(carFails /\ UNCHANGED matching)
    <2>1. CASE Head(carCalls).cmd = "start"
      <3>1. success /\ startContinues(carGeneration, TRUE)
        BY <1>2, <1>5, <2>1 DEF startContinues
      <3> QED BY <1>1, <1>2, <1>5, <2>1, <3>1, CarStarted
    <2>2. CASE Head(carCalls).cmd = "poll"
      <3>1. /\ dashBusScan' = dashBusScan
            /\ \/ finish(carGeneration, dashBusScan.of)
               \/ /\ pollsLeft > 0 /\ pollsLeft' = pollsLeft - 1
                  /\ schedulePoll(carGeneration)
                  /\ UNCHANGED <<carPhase, carGeneration, matching, carResult>>
        BY <1>2, <1>5, <2>2 DEF pollContinues
      <3> QED BY <1>1, <1>5, <2>2, <3>1, CarPolled
    <2> QED BY <1>2, <2>1, <2>2
  <1> QED BY <1>3, <1>4, <1>5

\* The timer asks once for the scan that set it.
LEMMA PollKeeps == ASSUME CarScanInv, pollOnce PROVE CarScanInv'
  <1> DEFINE n == Len(carCalls)
             call == [cmd |-> "poll", gen |-> carGeneration]
  <1> USE DEF CarScanInv, pollOnce
  <1>1. pollTimer = carGeneration /\ carPhase = "scanning" /\ carGeneration \in Nat
    BY DEF PhaseInv, CarScanTypeOK
  <1>2. call \in CarCalls /\ carCalls' = Append(carCalls, call)
    BY <1>1 DEF CarCalls
  <1>3. /\ n \in Nat /\ DOMAIN carCalls = 1 .. n
        /\ carCalls' \in Seq(CarCalls) /\ DOMAIN carCalls' = 1 .. n + 1
        /\ \A i \in 1 .. n : carCalls'[i] = carCalls[i]
        /\ carCalls'[n + 1] = call
    <2>1. n \in Nat /\ DOMAIN carCalls = 1 .. n /\ carCalls \in Seq(CarCalls)
      BY CallTypes
    <2>2. carCalls' \in Seq(CarCalls) /\ Len(carCalls') = n + 1 /\ DOMAIN carCalls' = 1 .. Len(carCalls')
      BY <1>2, <2>1, LenProperties
    <2>3. \A i \in 1 .. n : carCalls'[i] = carCalls[i]
      BY <1>2, <2>1
    <2>4. carCalls'[n + 1] = call
      BY <1>2, <2>1
    <2> QED BY <2>1, <2>2, <2>3, <2>4
  <1>4. \A i \in DOMAIN carCalls' : i \in 1 .. n \/ i = n + 1
    <2>1. n \in Nat
      BY <1>3
    <2> HIDE DEF n
    <2> QED BY <1>3, <2>1
  <1>5. \A i \in 1 .. n : carCalls'[i].cmd # "start" /\ carCalls'[i].gen <= carGeneration
                        /\ carCalls'[i].gen # carGeneration
    BY <1>1, <1>3 DEF PhaseInv, CarCallsInv
  <1>6. call.cmd = "poll" /\ call.gen = carGeneration /\ carGeneration <= carGeneration
    BY <1>1
  <1>7. /\ carGeneration' = carGeneration /\ carPhase' = "scanning" /\ pollTimer' = 0
        /\ UNCHANGED <<pollsLeft, matching, carResult, dashBusScan>>
    BY <1>1
  <1>8. CarScanTypeOK'
    BY <1>3, <1>7 DEF CarScanTypeOK
  <1>9. CarCallsInv'
    BY <1>3, <1>4, <1>5, <1>6, <1>7 DEF CarCallsInv
  <1>10. PhaseInv'
    BY <1>1, <1>3, <1>4, <1>5, <1>6, <1>7 DEF PhaseInv
  <1>11. WaitsInv'
    <2>1. n + 1 \in DOMAIN carCalls' /\ carCalls'[n + 1].gen = carGeneration
      BY <1>3, <1>6
    <2> QED BY <1>1, <1>7, <2>1 DEF WaitsInv, CarBusy
  <1>12. CarResultIsOwn'
    BY <1>7 DEF CarResultIsOwn
  <1> QED BY <1>8, <1>9, <1>10, <1>11, <1>12

\* The catalogue ends the scan that waits for it, and no other.
LEMMA CatalogueKeeps ==
  ASSUME CarScanInv, NEW gen \in matching, catalogueAnswers(gen)
  PROVE  CarScanInv'
  <1> USE DEF CarScanInv
  <1>1. /\ matching' = matching \ {gen} /\ carCalls' = carCalls /\ dashBusScan' = dashBusScan
        /\ gen \in Nat /\ carGeneration \in Nat
    BY DEF catalogueAnswers, CarScanTypeOK
  <1>2. CASE /\ UNCHANGED <<carGeneration, pollTimer, pollsLeft, carResult>>
             /\ \/ gen # carGeneration /\ carPhase' = carPhase
                \/ gen = carGeneration /\ carPhase' = "done" /\ carPhase = "matching"
    <2>1. CarScanTypeOK'
      BY <1>1, <1>2 DEF CarScanTypeOK, CarPhases
    <2>2. CarCallsInv'
      BY <1>1, <1>2 DEF CarCallsInv
    <2>3. PhaseInv'
      BY <1>1, <1>2 DEF PhaseInv
    <2>4. WaitsInv' /\ CarResultIsOwn'
      BY <1>1, <1>2 DEF WaitsInv, CarBusy, CarResultIsOwn
    <2> QED BY <2>1, <2>2, <2>3, <2>4
  <1>3. CASE gen = carGeneration /\ carFails
    <2>1. /\ carGeneration' = carGeneration + 1 /\ pollTimer' = 0 /\ carPhase' = "error"
          /\ pollsLeft' = pollsLeft /\ carCalls' = carCalls
      BY <1>1, <1>3 DEF carFails
    <2>2. CarScanTypeOK'
      BY <1>1, <2>1 DEF CarScanTypeOK, CarPhases
    <2>3. CarCallsInv'
      <3>1. \A i \in DOMAIN carCalls' : carCalls'[i].gen \in Nat /\ carCalls'[i].gen < carGeneration + 1
        BY <1>1, <2>1, CallTypes DEF CarCallsInv
      <3>2. \A i, j \in DOMAIN carCalls' :
              carCalls'[i].cmd = "start" /\ carCalls'[j].cmd = "start" /\ i < j
                => carCalls'[i].gen < carCalls'[j].gen
        BY <2>1 DEF CarCallsInv
      <3>3. carGeneration + 1 \in Nat
        BY <1>1
      <3> QED BY <2>1, <3>1, <3>2, <3>3, NothingCurrent
    <2>4. PhaseInv'
      <3>1. \A g \in matching : g <= carGeneration + 1 /\ g # carGeneration + 1
        BY <1>1 DEF PhaseInv, CarScanTypeOK
      <3> QED BY <1>1, <2>1, <3>1 DEF PhaseInv
    <2>5. WaitsInv' /\ CarResultIsOwn'
      BY <2>1 DEF WaitsInv, CarBusy, CarResultIsOwn
    <2> QED BY <2>2, <2>3, <2>4, <2>5
  <1>4. gen = carGeneration => carPhase = "matching"
    BY DEF PhaseInv
  <1>5. \/ gen # carGeneration /\ UNCHANGED <<carPhase, carGeneration, pollTimer, pollsLeft, carResult>>
        \/ /\ gen = carGeneration /\ carPhase' = "done"
           /\ UNCHANGED <<carGeneration, pollTimer, pollsLeft, carResult>>
        \/ gen = carGeneration /\ carFails
    BY DEF catalogueAnswers
  <1>6. CASE gen # carGeneration
    <2>1. UNCHANGED <<carGeneration, pollTimer, pollsLeft, carResult>> /\ carPhase' = carPhase
      BY <1>5, <1>6
    <2> QED BY <1>2, <1>6, <2>1
  <1>7. CASE gen = carGeneration
    <2>1. CASE carFails
      BY <1>3, <1>7, <2>1
    <2>2. CASE carPhase' = "done" /\ UNCHANGED <<carGeneration, pollTimer, pollsLeft, carResult>>
      BY <1>2, <1>4, <1>7, <2>2
    <2> QED BY <1>5, <1>7, <2>1, <2>2
  <1> QED BY <1>6, <1>7

\* The steps of the dash and of the link.
LEMMA AroundKeeps ==
  ASSUME CarScanInv, DashTypeOK, dashScanEnds \/ carScanLinkDrops \/ carScanDeviceStep
  PROVE  CarScanInv'
  <1> USE DEF CarScanInv
  <1>1. CASE UNCHANGED <<carStoreVars, carCalls>> /\ dashBusScan'.of = dashBusScan.of
    BY <1>1 DEF CarScanTypeOK, CarCallsInv, PhaseInv, WaitsInv, CarBusy, CarResultIsOwn, carStoreVars
  <1>2. CASE carScanLinkDrops /\ carPhase \in CarBusy
    <2>1. /\ carGeneration' = carGeneration + 1 /\ pollTimer' = 0 /\ carPhase' = "error"
          /\ UNCHANGED <<pollsLeft, matching>> /\ carCalls' = <<>>
      BY <1>2 DEF carScanLinkDrops, carFails
    <2>2. carCalls' \in {carCalls, <<>>} /\ carPhase' \in {"error", "idle"}
      BY <2>1
    <2> QED BY <2>1, <2>2, NextGeneration
  <1>3. CASE carScanLinkDrops /\ carPhase \notin CarBusy
    <2>1. UNCHANGED carStoreVars /\ carCalls' = <<>>
      BY <1>3 DEF carScanLinkDrops
    <2>2. CarScanTypeOK'
      BY <2>1, EmptySeq DEF CarScanTypeOK, carStoreVars
    <2>3. CarCallsInv' /\ PhaseInv' /\ WaitsInv' /\ CarResultIsOwn'
      BY <1>3, <2>1 DEF CarCallsInv, PhaseInv, WaitsInv, CarBusy, CarResultIsOwn, carStoreVars
    <2> QED BY <2>2, <2>3
  <1>4. CASE dashScanEnds
    <2>1. dashBusScan'.of = dashBusScan.of
      BY <1>4 DEF dashScanEnds, DashTypeOK
    <2> QED BY <1>1, <1>4, <2>1 DEF dashScanEnds
  <1>5. CASE carScanDeviceStep
    BY <1>1, <1>5 DEF carScanDeviceStep
  <1> QED BY <1>2, <1>3, <1>4, <1>5

\* The scan of the dash is one that a start has asked for.
LEMMA DashTypeKeeps ==
  ASSUME CarScanInv, DashTypeOK, [CarScanNext]_carScanVars
  PROVE  DashTypeOK'
  <1>1. CASE carCallAnswered \/ carCallFails
    <2>1. Head(carCalls).gen \in Nat
      BY <1>1, TailCarCalls DEF CarScanInv, CarCalls, carCallAnswered, carCallFails
    <2>2. [of |-> Head(carCalls).gen, done |-> FALSE] \in [of : Nat, done : BOOLEAN]
      BY <2>1
    <2> QED BY <1>1, <2>2 DEF DashTypeOK, carCallAnswered, carCallFails
  <1>2. CASE dashScanEnds
    BY <1>2 DEF DashTypeOK, dashScanEnds
  <1>3. CASE carScanLinkDrops
    <2>1. [of |-> 0, done |-> FALSE] \in [of : Nat, done : BOOLEAN]
      OBVIOUS
    <2>2. dashBusScan' = dashBusScan \/ dashBusScan' = [of |-> 0, done |-> FALSE]
      BY <1>3 DEF carScanLinkDrops
    <2> QED BY <2>1, <2>2 DEF DashTypeOK
  <1>4. CASE UNCHANGED dashBusScan
    BY <1>4 DEF DashTypeOK
  <1> QED BY <1>1, <1>2, <1>3, <1>4 DEF CarScanNext, carScanVars, carScanStart, carScanReset, pollOnce,
                                       catalogueAnswers, carScanDeviceStep

\* Every step keeps the invariant.
THEOREM CarScanStepInv ==
  CarScanInv /\ DashTypeOK /\ [CarScanNext]_carScanVars => CarScanInv' /\ DashTypeOK'
  <1> SUFFICES ASSUME CarScanInv, DashTypeOK, [CarScanNext]_carScanVars PROVE CarScanInv'
    BY DashTypeKeeps
  <1>1. CASE UNCHANGED carScanVars
    BY <1>1 DEF CarScanInv, CarScanTypeOK, CarCallsInv, PhaseInv, WaitsInv, CarBusy, CarResultIsOwn,
                carScanVars
  <1>2. CASE carScanReset
    <2>1. /\ carGeneration' = carGeneration + 1 /\ pollTimer' = 0 /\ carPhase' = "idle"
          /\ UNCHANGED <<pollsLeft, matching>> /\ carCalls' = carCalls
      BY <1>2 DEF carScanReset
    <2>2. carCalls' \in {carCalls, <<>>} /\ carPhase' \in {"error", "idle"}
      BY <2>1
    <2> QED BY <2>1, <2>2, NextGeneration
  <1>3. CASE CarScanNext /\ ~carScanReset
    BY <1>3, CarStart, PollKeeps, AnswerKeeps, CatalogueKeeps, AroundKeeps DEF CarScanNext
  <1> QED BY <1>1, <1>2, <1>3

\* A poll, a timer and a catalogue belong to the scan of their generation, and one at most
\* is of the current one.
THEOREM CarScanInvariance == CarScanSpec => []CarScanInv
  <1>1. CarScanInit => CarScanInv /\ DashTypeOK
    <2> SUFFICES ASSUME CarScanInit PROVE CarScanInv /\ DashTypeOK
      OBVIOUS
    <2>1. CarScanTypeOK
      BY EmptySeq DEF CarScanInit, CarScanTypeOK, CarPhases
    <2>2. CarCallsInv /\ PhaseInv /\ WaitsInv /\ CarResultIsOwn
      BY DEF CarScanInit, CarCallsInv, PhaseInv, WaitsInv, CarBusy, CarResultIsOwn
    <2>3. DashTypeOK
      BY DEF CarScanInit, DashTypeOK
    <2> QED BY <2>1, <2>2, <2>3 DEF CarScanInv
  <1> QED BY <1>1, CarScanStepInv, PTL DEF CarScanSpec

\* The car suggested is the one of this scan, for every number of scans and polls.
THEOREM CarScanResult == CarScanSpec => []CarResultIsOwn
  <1>1. CarScanInv => CarResultIsOwn
    BY DEF CarScanInv
  <1> QED BY <1>1, CarScanInvariance, PTL

\* A busy scan waits for exactly one thing, and one that is over for nothing.
THEOREM CarScanOneContinuation == CarScanSpec => []OneContinuation
  <1>1. CarScanInv => OneContinuation
    <2> SUFFICES ASSUME CarScanInv PROVE OneContinuation
      OBVIOUS
    <2> USE DEF CarScanInv
    <2> DEFINE current == {i \in DOMAIN carCalls : carCalls[i].gen = carGeneration}
    <2>1. CASE \E i \in DOMAIN carCalls : carCalls[i].gen = carGeneration
      <3>1. PICK i \in DOMAIN carCalls : carCalls[i].gen = carGeneration
        BY <2>1
      <3>2. carPhase \in {"starting", "scanning"} /\ pollTimer = 0 /\ current = {i}
        BY <3>1 DEF CarCallsInv
      <3>3. carGeneration # 0 /\ carGeneration \notin matching /\ carPhase \in CarBusy
        BY <3>2 DEF WaitsInv, PhaseInv, CarBusy, CarScanTypeOK
      <3>4. continuations(carGeneration) = {<<"call", i>>}
        BY <3>2, <3>3 DEF continuations
      <3> QED BY <3>3, <3>4 DEF OneContinuation
    <2>2. CASE ~\E i \in DOMAIN carCalls : carCalls[i].gen = carGeneration
      <3>1. current = {}
        BY <2>2
      <3>2. CASE carPhase = "scanning"
        <4>1. pollTimer = carGeneration /\ carGeneration \notin matching
          BY <2>2, <3>2 DEF WaitsInv, PhaseInv
        <4>2. continuations(carGeneration) = {<<"timer", carGeneration>>}
          BY <3>1, <4>1 DEF continuations
        <4> QED BY <3>2, <4>2 DEF OneContinuation, CarBusy
      <3>3. CASE carPhase = "matching"
        <4>1. carGeneration \in matching /\ carGeneration > 0 /\ pollTimer = 0
          BY <3>3 DEF WaitsInv, PhaseInv, CarBusy
        <4>2. pollTimer # carGeneration
          BY <4>1 DEF CarScanTypeOK
        <4>3. continuations(carGeneration) = {<<"catalogue", carGeneration>>}
          BY <3>1, <4>1, <4>2 DEF continuations
        <4> QED BY <3>3, <4>3 DEF OneContinuation, CarBusy
      <3>4. CASE carPhase \notin CarBusy
        <4>1. pollTimer = 0 /\ carGeneration \notin matching
          BY <3>4 DEF PhaseInv, CarBusy
        <4>2. ASSUME carGeneration > 0 PROVE continuations(carGeneration) = {}
          <5>1. pollTimer # carGeneration
            BY <4>1, <4>2 DEF CarScanTypeOK
          <5> QED BY <3>1, <4>1, <5>1 DEF continuations
        <4> QED BY <3>4, <4>2 DEF OneContinuation
      <3>5. carPhase # "starting"
        BY <2>2 DEF WaitsInv
      <3> QED BY <3>2, <3>3, <3>4, <3>5 DEF CarBusy
    <2> QED BY <2>1, <2>2
  <1> QED BY <1>1, CarScanInvariance, PTL

-----------------------------------------------------------------------------
(* Trouble codes.                                                          *)

\* A command is on its way exactly while the panel says so.
CallShown == dtcStatus = "idle" <=> dtcCall = "none"

TroubleCodesInv == TroubleCodesTypeOK /\ CallShown /\ ShownCodesAreTheCars

-----------------------------------------------------------------------------
\* A new panel shows nothing, and has asked nothing.
THEOREM InitTroubleCodesInv == TroubleCodesInit => TroubleCodesInv
  <1> SUFFICES ASSUME TroubleCodesInit PROVE TroubleCodesInv
    OBVIOUS
  <1> USE DEF TroubleCodesInit, DeviceInit
  <1>1. TroubleCodesTypeOK
    BY DEF TroubleCodesTypeOK, DeviceTypeOK
  <1>2. CallShown /\ ShownCodesAreTheCars
    BY DEF CallShown, ShownCodesAreTheCars
  <1> QED BY <1>1, <1>2 DEF TroubleCodesInv

\* The types, for each kind of step: the link's, the panel's, an answer's.
LEMMA DeviceTypes == ASSUME DeviceTypeOK, deviceStep PROVE DeviceTypeOK'
  BY DEF DeviceTypeOK, deviceStep, setConnected, setDisconnected, enterSimulation, exitSimulation

\* The buttons of the panel keep the types.
LEMMA PressTypes ==
  ASSUME TroubleCodesTypeOK, readCodes \/ askToClear \/ dismiss \/ clearCodes
  PROVE  TroubleCodesTypeOK'
  <1>1. DeviceTypeOK' /\ carCodes' \subseteq Codes
    BY DEF TroubleCodesTypeOK, DeviceTypeOK, deviceVars, readCodes, askToClear, dismiss, clearCodes
  <1>2. /\ codes' \subseteq Codes \cup SimulatedCodes
        /\ dtcStatus' \in {"idle", "reading", "clearing"}
        /\ dtcCall' \in {"none", "read", "clear", "reread"}
    BY DEF TroubleCodesTypeOK, dtcStoreVars, readCodes, askToClear, dismiss, clearCodes, begins,
           readOutcomeFails, failsDtc
  <1>3. {hasRead', dtcError', confirmOpen', anotherSource'} \subseteq BOOLEAN
    BY DEF TroubleCodesTypeOK, dtcStoreVars, readCodes, askToClear, dismiss, clearCodes, begins,
           readOutcomeFails, failsDtc
  <1> QED BY <1>1, <1>2, <1>3 DEF TroubleCodesTypeOK

\* The answers to a command keep the types.
LEMMA AnswerTypes ==
  ASSUME TroubleCodesTypeOK, clearAnswered \/ readAnswered \/ dtcCallFails
  PROVE  TroubleCodesTypeOK'
  <1>1. DeviceTypeOK'
    BY DEF TroubleCodesTypeOK, DeviceTypeOK, deviceVars, clearAnswered, readAnswered, dtcCallFails
  <1>2. carCodes' \subseteq Codes
    BY DEF TroubleCodesTypeOK, clearAnswered, readAnswered, dtcCallFails
  <1>3. /\ codes' \subseteq Codes \cup SimulatedCodes
        /\ dtcStatus' \in {"idle", "reading", "clearing"}
        /\ dtcCall' \in {"none", "read", "clear", "reread"}
    BY DEF TroubleCodesTypeOK, clearAnswered, readAnswered, dtcCallFails, finds, callFails,
           readOutcomeFails, rereadOutcomeFails, failsDtc
  <1>4. {hasRead', dtcError', confirmOpen', anotherSource'} \subseteq BOOLEAN
    BY DEF TroubleCodesTypeOK, clearAnswered, readAnswered, dtcCallFails, finds, callFails,
           readOutcomeFails, rereadOutcomeFails, failsDtc
  <1> QED BY <1>1, <1>2, <1>3, <1>4 DEF TroubleCodesTypeOK

\* What happens around the panel keeps the types.
LEMMA AroundTypes ==
  ASSUME TroubleCodesTypeOK, dtcLinkDrops \/ carChanges \/ dtcDeviceStep
  PROVE  TroubleCodesTypeOK'
  <1>1. DeviceTypeOK'
    <2>1. CASE carChanges
      BY <2>1 DEF TroubleCodesTypeOK, DeviceTypeOK, deviceVars, carChanges
    <2>2. CASE dtcLinkDrops \/ dtcDeviceStep
      BY <2>2, DeviceTypes DEF TroubleCodesTypeOK, deviceStep, dtcLinkDrops, dtcDeviceStep
    <2> QED BY <2>1, <2>2
  <1>2. carCodes' \subseteq Codes
    BY DEF TroubleCodesTypeOK, dtcLinkDrops, carChanges, dtcDeviceStep
  <1>3. /\ codes' \subseteq Codes \cup SimulatedCodes
        /\ dtcStatus' \in {"idle", "reading", "clearing"}
        /\ dtcCall' \in {"none", "read", "clear", "reread"}
    BY DEF TroubleCodesTypeOK, dtcStoreVars, dtcLinkDrops, carChanges, dtcDeviceStep, callFails,
           readOutcomeFails, rereadOutcomeFails, failsDtc
  <1>4. {hasRead', dtcError', confirmOpen', anotherSource'} \subseteq BOOLEAN
    BY DEF TroubleCodesTypeOK, dtcStoreVars, dtcLinkDrops, carChanges, dtcDeviceStep, callFails,
           readOutcomeFails, rereadOutcomeFails, failsDtc
  <1> QED BY <1>1, <1>2, <1>3, <1>4 DEF TroubleCodesTypeOK

\* What the panel shows: whoever ends an operation shows what the car has, or an
\* error, and what changes otherwise is not shown as the car's.
LEMMA ShownStep ==
  ASSUME TroubleCodesTypeOK, CallShown, ShownCodesAreTheCars, TroubleCodesNext
  PROVE  CallShown' /\ ShownCodesAreTheCars'
  <1> USE DEF CallShown, ShownCodesAreTheCars
  <1>1. CASE readCodes
    BY <1>1 DEF TroubleCodesTypeOK, readCodes, canRead, begins
  <1>2. CASE askToClear \/ dismiss
    BY <1>2 DEF askToClear, dismiss, dtcStoreVars
  <1>3. CASE clearCodes
    BY <1>3 DEF TroubleCodesTypeOK, clearCodes, begins, readOutcomeFails, failsDtc
  <1>4. CASE clearAnswered
    BY <1>4 DEF clearAnswered
  <1>5. CASE readAnswered
    BY <1>5 DEF readAnswered, finds
  <1>6. CASE dtcCallFails
    BY <1>6 DEF dtcCallFails, callFails, readOutcomeFails, rereadOutcomeFails, failsDtc
  <1>7. CASE dtcLinkDrops
    BY <1>7 DEF dtcLinkDrops, callFails, readOutcomeFails, rereadOutcomeFails, failsDtc, dtcStoreVars
  <1>8. CASE carChanges
    BY <1>8 DEF carChanges, dtcStoreVars
  <1>9. CASE dtcDeviceStep
    BY <1>9 DEF dtcDeviceStep, dtcStoreVars
  <1> QED BY <1>1, <1>2, <1>3, <1>4, <1>5, <1>6, <1>7, <1>8, <1>9 DEF TroubleCodesNext

\* Every step keeps the invariant.
THEOREM TroubleCodesStepInv ==
  TroubleCodesInv /\ [TroubleCodesNext]_troubleCodesVars => TroubleCodesInv'
  <1> SUFFICES ASSUME TroubleCodesInv, [TroubleCodesNext]_troubleCodesVars PROVE TroubleCodesInv'
    OBVIOUS
  <1> USE DEF TroubleCodesInv
  <1>1. CASE UNCHANGED troubleCodesVars
    BY <1>1 DEF TroubleCodesTypeOK, DeviceTypeOK, CallShown, ShownCodesAreTheCars,
                troubleCodesVars, deviceVars, dtcStoreVars
  <1>2. CASE TroubleCodesNext
    BY <1>2, PressTypes, AnswerTypes, AroundTypes, ShownStep DEF TroubleCodesNext
  <1> QED BY <1>1, <1>2

\* The invariant holds throughout (trouble-codes.store.ts).
THEOREM TroubleCodesInvariance == TroubleCodesSpec => []TroubleCodesInv
  BY InitTroubleCodesInv, TroubleCodesStepInv, PTL DEF TroubleCodesSpec

\* The variables keep their types, for every set of codes.
THEOREM TroubleCodesTypes == TroubleCodesSpec => []TroubleCodesTypeOK
  <1>1. TroubleCodesInv => TroubleCodesTypeOK
    BY DEF TroubleCodesInv
  <1> QED BY <1>1, TroubleCodesInvariance, PTL

\* A list shown without an error is what the car has.
THEOREM TroubleCodesShown == TroubleCodesSpec => []ShownCodesAreTheCars
  <1>1. TroubleCodesInv => ShownCodesAreTheCars
    BY DEF TroubleCodesInv
  <1> QED BY <1>1, TroubleCodesInvariance, PTL

-----------------------------------------------------------------------------
(* Autosave.                                                               *)

AutosaveTypeOK ==
  /\ {kept, autosaved, lastWritten} \subseteq Drafts \cup {NoDraft}
  /\ {debounce, refused} \subseteq BOOLEAN

\* What was written last is in the storage.
LastIsStored == lastWritten # NoDraft => autosaved = lastWritten

AutosaveInv == AutosaveTypeOK /\ LastIsStored /\ SavedUnlessPending

-----------------------------------------------------------------------------
\* What a write leaves: the draft is in the storage, or it was refused.
LEMMA WriteStores ==
  ASSUME AutosaveInv, written, kept' = kept, debounce' = FALSE
  PROVE  AutosaveInv'
  <1> USE DEF AutosaveInv, written
  <1>1. AutosaveTypeOK'
    <2>1. {kept', autosaved', lastWritten'} \subseteq Drafts \cup {NoDraft}
      BY DEF AutosaveTypeOK
    <2>2. {debounce', refused'} \subseteq BOOLEAN
      BY DEF AutosaveTypeOK
    <2> QED BY <2>1, <2>2 DEF AutosaveTypeOK
  <1>2. LastIsStored' /\ SavedUnlessPending'
    BY DEF AutosaveTypeOK, LastIsStored, SavedUnlessPending
  <1> QED BY <1>1, <1>2

\* An edit arms the timer, or takes back the draft that was written last.
LEMMA EditKeeps ==
  ASSUME AutosaveInv, NEW draft \in Drafts, editDraft(draft)
  PROVE  AutosaveInv'
  <1> USE DEF AutosaveInv, editDraft
  <1>1. AutosaveTypeOK'
    <2>1. {kept', autosaved', lastWritten'} \subseteq Drafts \cup {NoDraft}
      BY DEF AutosaveTypeOK
    <2>2. debounce' \in BOOLEAN /\ refused' \in BOOLEAN
      BY DEF AutosaveTypeOK
    <2> QED BY <2>1, <2>2 DEF AutosaveTypeOK
  <1>2. LastIsStored' /\ SavedUnlessPending'
    BY DEF AutosaveTypeOK, LastIsStored, SavedUnlessPending
  <1> QED BY <1>1, <1>2

\* A tab that starts has the draft the storage holds.
LEMMA StartKeeps ==
  ASSUME NEW held \in Drafts \cup {NoDraft}, starts(held)
  PROVE  AutosaveInv'
  BY DEF AutosaveInv, AutosaveTypeOK, LastIsStored, SavedUnlessPending, starts

\* Every step keeps the invariant.
THEOREM AutosaveStepInv == AutosaveInv /\ [AutosaveNext]_autosaveVars => AutosaveInv'
  <1> SUFFICES ASSUME AutosaveInv, [AutosaveNext]_autosaveVars PROVE AutosaveInv'
    OBVIOUS
  <1>1. CASE UNCHANGED autosaveVars
    BY <1>1 DEF AutosaveInv, AutosaveTypeOK, LastIsStored, SavedUnlessPending, autosaveVars
  <1>2. CASE \E draft \in Drafts : editDraft(draft)
    BY <1>2, EditKeeps
  <1>3. CASE debounceEnds
    BY <1>3, WriteStores DEF debounceEnds
  <1>4. CASE hide
    BY <1>4, WriteStores DEF hide
  <1>5. CASE unload
    <2>1. kept \in Drafts \cup {NoDraft} /\ autosaved \in Drafts \cup {NoDraft}
      BY DEF AutosaveInv, AutosaveTypeOK
    <2> QED BY <1>5, <2>1, StartKeeps DEF unload
  <1> QED BY <1>1, <1>2, <1>3, <1>4, <1>5 DEF AutosaveNext

\* The invariant holds throughout (autosave.ts).
THEOREM AutosaveInvariance == AutosaveSpec => []AutosaveInv
  <1>1. AutosaveInit => AutosaveInv
    BY DEF AutosaveInit, AutosaveInv, AutosaveTypeOK, LastIsStored, SavedUnlessPending
  <1> QED BY <1>1, AutosaveStepInv, PTL DEF AutosaveSpec

\* With no write to come and none refused, the storage holds the draft.
THEOREM AutosaveSaved == AutosaveSpec => []SavedUnlessPending
  <1>1. AutosaveInv => SavedUnlessPending
    BY DEF AutosaveInv
  <1> QED BY <1>1, AutosaveInvariance, PTL

-----------------------------------------------------------------------------
(* Session logs.                                                           *)

Served   == {"none", "done", "missing"}
Requests == [op : {"list"}, name : {NoLog}, answer : Served, listed : SUBSET LogNames]
       \cup [op : {"download", "delete"}, name : LogNames, answer : Served, listed : {{}}]

\* The types of the store, of its requests and of the card.
SessionLogsTypeOK ==
  /\ {overWifi, screenOpen, crossedLists} \subseteq BOOLEAN
  /\ availability \in {"checking", "noWifi", "listed"} \cup Unlisted
  /\ {logs, dashLogs, goneUnseen} \subseteq SUBSET LogNames
  /\ {busy, asked} \subseteq LogNames \cup {NoLog}
  /\ DOMAIN requests \subseteq 1 .. MaxRequests
  /\ \A id \in DOMAIN requests : requests[id] \in Requests
  /\ requests = [id \in DOMAIN requests |-> requests[id]]

\* What the dash has removed and not told yet.
Removed(reqs, name) ==
  \E id \in DOMAIN reqs : /\ reqs[id].op = "delete" /\ reqs[id].answer = "done"
                          /\ reqs[id].name = name

\* A list names what is on the card, and else only what was removed since.
Tells(listed) ==
  /\ dashLogs \subseteq listed
  /\ \A name \in listed \ dashLogs : name \in goneUnseen \/ Removed(requests, name)

\* A session that was removed, or has gone unseen, is off the card.
GoneIsGone ==
  /\ goneUnseen \cap dashLogs = {}
  /\ \A name \in LogNames : Removed(requests, name) => name \notin dashLogs

\* Unless two crossed, one list is on its way at a time; it tells the truth
\* once the dash has served it, and so do the rows it becomes.
OneList     == \A a, b \in listing(requests) : a = b
ListTells   == \A id \in listing(requests) : requests[id].answer # "none" => Tells(requests[id].listed)
RowsTell    == (listing(requests) = {} /\ availability = "listed") => Tells(logs)
AsksOnWifi  == DOMAIN requests # {} \/ availability = "listed" => overWifi

ListInv == ~crossedLists => OneList /\ ListTells /\ RowsTell

SessionLogsInv == SessionLogsTypeOK /\ GoneIsGone /\ AsksOnWifi /\ ListInv

-----------------------------------------------------------------------------
\* While a request may be made, or once one has ended, there is an id for the next.
LEMMA FreeIdIsFree ==
  ASSUME NEW reqs, DOMAIN reqs \subseteq 1 .. MaxRequests,
         \/ Cardinality(DOMAIN reqs) < MaxRequests
         \/ \E id \in 1 .. MaxRequests : id \notin DOMAIN reqs
  PROVE  freeId(reqs) \in 1 .. MaxRequests /\ freeId(reqs) \notin DOMAIN reqs
  <1>1. \E id \in 1 .. MaxRequests : id \notin DOMAIN reqs
    <2>1. CASE Cardinality(DOMAIN reqs) < MaxRequests
      <3>1. IsFiniteSet(1 .. MaxRequests) /\ Cardinality(1 .. MaxRequests) = MaxRequests
        BY FS_Interval, SessionLogsAssumption
      <3>2. DOMAIN reqs # 1 .. MaxRequests
        BY <2>1, <3>1, SessionLogsAssumption
      <3> QED BY <3>2
    <2> QED BY <2>1
  <1> QED BY <1>1 DEF freeId

\* A request is added to those that are outstanding, which it leaves alone.
LEMMA RequestAdds ==
  ASSUME NEW reqs, DOMAIN reqs \subseteq 1 .. MaxRequests, NEW op, NEW name,
         freeId(reqs) \in 1 .. MaxRequests, freeId(reqs) \notin DOMAIN reqs,
         NEW more, more = request(reqs, op, name)
  PROVE  /\ more = [id \in DOMAIN more |-> more[id]]
         /\ DOMAIN more = DOMAIN reqs \cup {freeId(reqs)}
         /\ \A id \in DOMAIN reqs : more[id] = reqs[id]
         /\ more[freeId(reqs)] = [op |-> op, name |-> name, answer |-> "none", listed |-> {}]
         /\ \A gone : Removed(more, gone) <=> Removed(reqs, gone)
  <1>1. /\ more = [id \in DOMAIN more |-> more[id]]
        /\ DOMAIN more = DOMAIN reqs \cup {freeId(reqs)}
        /\ \A id \in DOMAIN reqs : more[id] = reqs[id]
        /\ more[freeId(reqs)] = [op |-> op, name |-> name, answer |-> "none", listed |-> {}]
    BY DEF request
  <1>2. ASSUME NEW gone PROVE Removed(more, gone) <=> Removed(reqs, gone)
    <2>1. more[freeId(reqs)].answer = "none"
      BY <1>1
    <2> QED BY <1>1, <2>1 DEF Removed
  <1> QED BY <1>1, <1>2

\* What is outstanding once a request is answered.
LEMMA AnsweredLeaves ==
  ASSUME SessionLogsTypeOK, NEW id \in DOMAIN requests, NEW fewer, fewer = answered(id)
  PROVE  /\ fewer = [other \in DOMAIN fewer |-> fewer[other]]
         /\ DOMAIN fewer = DOMAIN requests \ {id}
         /\ \A other \in DOMAIN fewer : fewer[other] = requests[other]
         /\ id \in 1 .. MaxRequests /\ id \notin DOMAIN fewer
         /\ \A name : Removed(fewer, name) => Removed(requests, name)
         /\ \A name : ~Removed(fewer, name) /\ Removed(requests, name) =>
              /\ requests[id].op = "delete" /\ requests[id].answer = "done"
              /\ requests[id].name = name
  BY DEF answered, SessionLogsTypeOK, Removed

\* load() begins one list, and knows whether another was on its way.
LEMMA LoadKeeps ==
  ASSUME SessionLogsTypeOK, GoneIsGone, AsksOnWifi, NEW reqs,
         reqs = [id \in DOMAIN reqs |-> reqs[id]],
         DOMAIN reqs \subseteq DOMAIN requests,
         \A id \in DOMAIN reqs : reqs[id] = requests[id],
         \/ Cardinality(DOMAIN reqs) < MaxRequests
         \/ \E id \in 1 .. MaxRequests : id \notin DOMAIN reqs,
         loadLogs(reqs), UNCHANGED <<overWifi, dashLogs>>,
         screenOpen' \in BOOLEAN, {busy', asked'} \subseteq LogNames \cup {NoLog}
  PROVE  SessionLogsInv'
  <1> USE DEF SessionLogsTypeOK
  <1>a. DOMAIN reqs \subseteq 1 .. MaxRequests
    OBVIOUS
  <1>f. freeId(reqs) \in 1 .. MaxRequests /\ freeId(reqs) \notin DOMAIN reqs
    BY <1>a, FreeIdIsFree
  <1>r. ASSUME NEW name PROVE Removed(reqs, name) => Removed(requests, name)
    BY DEF Removed
  <1>1. CASE overWifi
    <2> DEFINE begun == [op |-> "list", name |-> NoLog, answer |-> "none", listed |-> {}]
    <2>1. /\ requests' = [id \in DOMAIN requests' |-> requests'[id]]
          /\ DOMAIN requests' = DOMAIN reqs \cup {freeId(reqs)}
          /\ \A id \in DOMAIN reqs : requests'[id] = reqs[id]
          /\ requests'[freeId(reqs)] = begun
          /\ \A name : Removed(requests', name) <=> Removed(reqs, name)
      BY <1>1, <1>a, <1>f, RequestAdds DEF loadLogs
    <2>2. SessionLogsTypeOK'
      <3>1. begun \in Requests
        BY DEF Requests, Served
      <3>2. \A id \in DOMAIN requests' : requests'[id] \in Requests
        BY <2>1, <3>1
      <3>3. DOMAIN requests' \subseteq 1 .. MaxRequests
        BY <1>a, <1>f, <2>1
      <3>4. crossedLists' \in BOOLEAN
        BY <1>1 DEF loadLogs
      <3> QED BY <1>1, <2>1, <3>2, <3>3, <3>4 DEF loadLogs
    <2>3. GoneIsGone'
      BY <1>1, <1>r, <2>1 DEF loadLogs, GoneIsGone
    <2>4. AsksOnWifi'
      BY <1>1 DEF AsksOnWifi
    <2>5. ListInv'
      <3>1. SUFFICES ASSUME ~crossedLists' PROVE OneList' /\ ListTells' /\ RowsTell'
        BY DEF ListInv
      <3>2. listing(reqs) = {}
        BY <1>1, <3>1 DEF loadLogs
      <3>3. listing(requests') = {freeId(reqs)}
        BY <2>1, <3>2 DEF listing
      <3> QED BY <2>1, <3>3 DEF OneList, ListTells, RowsTell
    <2> QED BY <2>2, <2>3, <2>4, <2>5 DEF SessionLogsInv
  <1>2. CASE ~overWifi
    <2>1. /\ requests' = reqs /\ DOMAIN requests = {} /\ availability' = "noWifi" /\ logs' = {}
          /\ UNCHANGED <<crossedLists, goneUnseen>>
      BY <1>2 DEF loadLogs, AsksOnWifi
    <2>2. SessionLogsTypeOK'
      BY <2>1
    <2>3. GoneIsGone'
      BY <1>r, <2>1 DEF GoneIsGone
    <2>4. AsksOnWifi' /\ ListInv'
      BY <2>1 DEF AsksOnWifi, ListInv, OneList, ListTells, RowsTell, listing
    <2> QED BY <2>2, <2>3, <2>4 DEF SessionLogsInv
  <1> QED BY <1>1, <1>2

\* The screen was never opened: nothing is asked, and nothing shown.
LEMMA InitSessionLogs == SessionLogsInit => SessionLogsInv
  <1> SUFFICES ASSUME SessionLogsInit PROVE SessionLogsInv
    OBVIOUS
  <1> USE DEF SessionLogsInit
  <1>1. DOMAIN requests = {}
    OBVIOUS
  <1>2. SessionLogsTypeOK
    BY <1>1 DEF SessionLogsTypeOK
  <1>3. GoneIsGone /\ AsksOnWifi /\ ListInv
    BY <1>1 DEF GoneIsGone, Removed, AsksOnWifi, ListInv, OneList, ListTells, RowsTell, listing
  <1> QED BY <1>2, <1>3 DEF SessionLogsInv

\* The screen, the dialog: the requests, the rows and the card stay as they are.
LEMMA ScreenKeeps ==
  ASSUME SessionLogsInv,
         UNCHANGED <<overWifi, availability, logs, requests, dashLogs, crossedLists, goneUnseen>>,
         screenOpen' \in BOOLEAN, {busy', asked'} \subseteq LogNames \cup {NoLog}
  PROVE  SessionLogsInv'
  BY DEF SessionLogsInv, SessionLogsTypeOK, GoneIsGone, AsksOnWifi, ListInv, OneList, ListTells,
         RowsTell, Tells

\* A download or a deletion is asked for.
LEMMA AskKeeps ==
  ASSUME SessionLogsInv, NEW op \in {"download", "delete"}, NEW name \in LogNames,
         availability = "listed", whileBusy(op, name), asked' \in {asked, NoLog}
  PROVE  SessionLogsInv'
  <1> USE DEF SessionLogsInv
  <1>1. freeId(requests) \in 1 .. MaxRequests /\ freeId(requests) \notin DOMAIN requests
    BY FreeIdIsFree DEF whileBusy, mayRequest, SessionLogsTypeOK
  <1> DEFINE begun == [op |-> op, name |-> name, answer |-> "none", listed |-> {}]
  <1>2. /\ requests' = [id \in DOMAIN requests' |-> requests'[id]]
        /\ DOMAIN requests' = DOMAIN requests \cup {freeId(requests)}
        /\ \A id \in DOMAIN requests : requests'[id] = requests[id]
        /\ requests'[freeId(requests)] = begun
        /\ \A gone : Removed(requests', gone) <=> Removed(requests, gone)
    <2>1. requests' = request(requests, op, name) /\ DOMAIN requests \subseteq 1 .. MaxRequests
      BY DEF whileBusy, SessionLogsTypeOK
    <2> HIDE DEF SessionLogsInv, begun
    <2>2. \A gone : Removed(requests', gone) <=> Removed(requests, gone)
      BY <1>1, <2>1, RequestAdds
    <2>3. /\ requests' = [id \in DOMAIN requests' |-> requests'[id]]
          /\ DOMAIN requests' = DOMAIN requests \cup {freeId(requests)}
          /\ \A id \in DOMAIN requests : requests'[id] = requests[id]
          /\ requests'[freeId(requests)] = begun
      BY <1>1, <2>1 DEF request, begun
    <2> QED BY <2>2, <2>3
  <1>3. listing(requests') = listing(requests)
    BY <1>1, <1>2 DEF listing
  <1>4. SessionLogsTypeOK'
    <2>1. begun \in Requests
      BY DEF Requests, Served
    <2>2. \A id \in DOMAIN requests' : requests'[id] \in Requests
      BY <1>2, <2>1 DEF SessionLogsTypeOK
    <2>3. DOMAIN requests' \subseteq 1 .. MaxRequests
      BY <1>1, <1>2 DEF SessionLogsTypeOK
    <2>4. {busy', asked'} \subseteq LogNames \cup {NoLog}
      BY DEF SessionLogsTypeOK, whileBusy
    <2> QED BY <1>2, <2>2, <2>3, <2>4 DEF SessionLogsTypeOK, whileBusy
  <1>5. GoneIsGone' /\ AsksOnWifi'
    BY <1>2 DEF GoneIsGone, AsksOnWifi, whileBusy
  <1>6. ListInv'
    <2>1. ASSUME NEW listed, Tells(listed) PROVE Tells(listed)'
      BY <1>2, <2>1 DEF Tells, whileBusy
    <2>2. \A id \in listing(requests) : requests'[id] = requests[id]
      BY <1>2 DEF listing
    <2>3. Tells(logs) => Tells(logs)'
      BY <1>2 DEF Tells, whileBusy
    <2>4. ListTells => ListTells'
      BY <1>2, <1>3, <2>2 DEF ListTells, Tells, whileBusy
    <2> QED BY <1>3, <2>3, <2>4 DEF ListInv, OneList, RowsTell, whileBusy
  <1> QED BY <1>4, <1>5, <1>6

-----------------------------------------------------------------------------
\* The dash reads the card for a list, or removes a session: what it tells of
\* the card is true at that moment, and what it removed is not told yet.
LEMMA ServeKeeps ==
  ASSUME SessionLogsInv, NEW id \in DOMAIN requests, serve(id)
  PROVE  SessionLogsInv'
  <1> USE DEF SessionLogsInv
  <1> DEFINE req    == requests[id]
             gone   == req.op # "list" /\ req.name \notin dashLogs
             served == [req EXCEPT !.answer = IF gone THEN "missing" ELSE "done",
                                   !.listed = IF req.op = "list" THEN dashLogs ELSE {}]
  <1>0. req \in Requests
    BY DEF SessionLogsTypeOK
  <1>1. /\ requests' = [other \in DOMAIN requests |-> IF other = id THEN served ELSE requests[other]]
        /\ served.op = req.op /\ served.name = req.name
        /\ served.answer = (IF gone THEN "missing" ELSE "done")
        /\ served.listed = (IF req.op = "list" THEN dashLogs ELSE {})
    BY <1>0 DEF serve, Requests, SessionLogsTypeOK
  <1>2. /\ dashLogs' = IF req.op = "delete" THEN dashLogs \ {req.name} ELSE dashLogs
        /\ req.answer = "none"
        /\ UNCHANGED <<overWifi, availability, logs, busy, asked, screenOpen, crossedLists, goneUnseen>>
    BY DEF serve
  <1> HIDE DEF req, served
  <1>3. /\ DOMAIN requests' = DOMAIN requests
        /\ requests' = [other \in DOMAIN requests' |-> requests'[other]]
        /\ requests'[id] = served
        /\ \A other \in DOMAIN requests \ {id} : requests'[other] = requests[other]
    BY <1>1
  <1>4. listing(requests') = listing(requests)
    BY <1>1, <1>3 DEF listing, req
  <1>5. SessionLogsTypeOK'
    <2>1. served \in Requests
      BY <1>0 DEF Requests, Served, SessionLogsTypeOK, req, served
    <2>2. \A other \in DOMAIN requests' : requests'[other] \in Requests
      BY <1>3, <2>1 DEF SessionLogsTypeOK
    <2>3. dashLogs' \subseteq LogNames
      BY <1>2 DEF SessionLogsTypeOK
    <2> QED BY <1>2, <1>3, <2>2, <2>3 DEF SessionLogsTypeOK
  <1>6. ASSUME NEW name PROVE Removed(requests, name) => Removed(requests', name)
    BY <1>2, <1>3 DEF Removed, req
  <1>7. ASSUME NEW name, Removed(requests', name), ~Removed(requests, name)
        PROVE  name = req.name /\ req.op = "delete"
    BY <1>1, <1>3, <1>7 DEF Removed
  <1>8. ASSUME NEW name, name \in dashLogs, name \notin dashLogs'
        PROVE  Removed(requests', name)
    <2>1. req.op = "delete" /\ req.name = name
      BY <1>2, <1>8
    <2>2. served.answer = "done" /\ served.op = "delete" /\ served.name = name
      BY <1>1, <1>8, <2>1
    <2> QED BY <1>3, <2>2 DEF Removed
  <1>9. GoneIsGone'
    BY <1>2, <1>7 DEF GoneIsGone
  <1>10. AsksOnWifi'
    BY <1>2, <1>3 DEF AsksOnWifi
  <1>11. ASSUME NEW listed, Tells(listed) PROVE Tells(listed)'
    BY <1>2, <1>6, <1>8, <1>11 DEF Tells
  <1>12. ListInv'
    <2>1. SUFFICES ASSUME ~crossedLists' PROVE OneList' /\ ListTells' /\ RowsTell'
      BY DEF ListInv
    <2>2. OneList'
      BY <1>2, <1>4, <2>1 DEF ListInv, OneList
    <2>3. ListTells'
      <3> SUFFICES ASSUME NEW other \in listing(requests'), requests'[other].answer # "none"
                   PROVE  Tells(requests[other].listed)'
        BY DEF ListTells
      <3>1. CASE other = id
        <4>1. req.op = "list"
          BY <1>4, <3>1 DEF listing, req
        <4>2. requests'[other].listed = dashLogs /\ dashLogs' = dashLogs
          BY <1>1, <1>2, <1>3, <3>1, <4>1
        <4> QED BY <1>2, <4>2 DEF Tells
      <3>2. CASE other # id
        <4>1. other \in listing(requests) /\ requests'[other] = requests[other]
          BY <1>3, <1>4, <3>2 DEF listing
        <4>2. Tells(requests[other].listed)
          BY <1>2, <2>1, <4>1 DEF ListInv, ListTells
        <4> QED BY <1>11, <4>1, <4>2 DEF Tells
      <3> QED BY <3>1, <3>2
    <2>4. RowsTell'
      <3>1. (listing(requests) = {} /\ availability = "listed") => Tells(logs)
        BY <1>2, <2>1 DEF ListInv, RowsTell
      <3>2. Tells(logs) => Tells(logs)'
        BY <1>2, <1>6, <1>8 DEF Tells
      <3> QED BY <1>2, <1>4, <3>1, <3>2 DEF RowsTell
    <2> QED BY <2>2, <2>3, <2>4
  <1> QED BY <1>5, <1>9, <1>10, <1>12

\* A session leaves the card unseen.
LEMMA CardKeeps ==
  ASSUME SessionLogsInv, NEW name \in LogNames, cardChanges(name)
  PROVE  SessionLogsInv'
  <1> USE DEF SessionLogsInv, cardChanges
  <1>1. SessionLogsTypeOK'
    BY DEF SessionLogsTypeOK
  <1>2. GoneIsGone' /\ AsksOnWifi'
    BY DEF GoneIsGone, AsksOnWifi
  <1>3. ASSUME NEW listed, Tells(listed) PROVE Tells(listed)'
    BY <1>3 DEF Tells
  <1>4. ListTells => ListTells'
    BY DEF ListTells, Tells
  <1>5. RowsTell => RowsTell'
    BY DEF RowsTell, Tells
  <1> QED BY <1>1, <1>2, <1>4, <1>5 DEF ListInv, OneList

\* A list arrives, or fails and leaves no rows.
LEMMA ListEndsKeeps ==
  ASSUME SessionLogsInv, NEW id \in DOMAIN requests, listArrives(id) \/ listFails(id)
  PROVE  SessionLogsInv'
  <1> USE DEF SessionLogsInv
  <1>1. /\ requests[id].op = "list" /\ requests' = answered(id)
        /\ UNCHANGED <<overWifi, busy, screenOpen, dashLogs, crossedLists, goneUnseen>>
        /\ asked' \in {asked, NoLog}
    BY DEF listArrives, listFails
  <1>2. /\ requests' = [other \in DOMAIN requests' |-> requests'[other]]
        /\ DOMAIN requests' = DOMAIN requests \ {id}
        /\ \A other \in DOMAIN requests' : requests'[other] = requests[other]
        /\ \A name : Removed(requests', name) <=> Removed(requests, name)
    <2>1. /\ requests' = [other \in DOMAIN requests' |-> requests'[other]]
          /\ DOMAIN requests' = DOMAIN requests \ {id}
          /\ \A other \in DOMAIN requests' : requests'[other] = requests[other]
      BY <1>1 DEF answered
    <2> QED BY <1>1, <2>1 DEF Removed
  <1>3. /\ availability' \in {"listed"} \cup Unlisted
        /\ availability' = "listed" => /\ listArrives(id)
                                       /\ logs' = requests[id].listed /\ requests[id].answer # "none"
        /\ logs' \subseteq LogNames
    <2>1. requests[id].listed \subseteq LogNames
      BY DEF SessionLogsTypeOK, Requests
    <2> QED BY <2>1 DEF listArrives, listFails, fromIndex, Unlisted, Refusals
  <1>4. SessionLogsTypeOK'
    <2>1. \A other \in DOMAIN requests' : requests'[other] \in Requests
      BY <1>2 DEF SessionLogsTypeOK
    <2>2. asked' \in LogNames \cup {NoLog}
      BY <1>1 DEF SessionLogsTypeOK
    <2> QED BY <1>1, <1>2, <1>3, <2>1, <2>2 DEF SessionLogsTypeOK
  <1>5. GoneIsGone' /\ AsksOnWifi'
    BY <1>1, <1>2 DEF GoneIsGone, AsksOnWifi
  <1>6. ListInv'
    <2>1. SUFFICES ASSUME ~crossedLists' PROVE OneList' /\ ListTells' /\ RowsTell'
      BY DEF ListInv
    <2>2. OneList /\ ListTells
      BY <1>1, <2>1 DEF ListInv
    <2>3. listing(requests') = {}
      BY <1>1, <1>2, <2>2 DEF OneList, listing
    <2>4. RowsTell'
      <3>1. requests[id].answer # "none" => Tells(requests[id].listed)
        BY <1>1, <2>2 DEF ListTells, listing
      <3> QED BY <1>1, <1>2, <1>3, <3>1 DEF RowsTell, Tells
    <2> QED BY <2>3, <2>4 DEF OneList, ListTells
  <1> QED BY <1>4, <1>5, <1>6

\* A download or a deletion ends: what it removed is read again, told or unseen.
LEMMA FileEndsKeeps ==
  ASSUME SessionLogsInv, NEW id \in DOMAIN requests, requests[id].op # "list",
         NEW answer, answer \in {"done", "missing"} => answer = requests[id].answer,
         fileRequestEnds(id, answer)
  PROVE  SessionLogsInv'
  <1> USE DEF SessionLogsInv
  <1> DEFINE fewer == answered(id)
  <1>1. /\ fewer = [other \in DOMAIN fewer |-> fewer[other]]
        /\ DOMAIN fewer = DOMAIN requests \ {id}
        /\ \A other \in DOMAIN fewer : fewer[other] = requests[other]
        /\ id \in 1 .. MaxRequests /\ id \notin DOMAIN fewer
        /\ \A name : Removed(fewer, name) => Removed(requests, name)
        /\ \A name : ~Removed(fewer, name) /\ Removed(requests, name) =>
             /\ requests[id].op = "delete" /\ requests[id].answer = "done"
             /\ requests[id].name = name
    BY AnsweredLeaves
  <1> HIDE DEF fewer
  <1>2. CASE reloads(requests[id].op, answer)
    <2>1. loadLogs(fewer) /\ asked' = NoLog /\ busy' = NoLog /\ UNCHANGED <<overWifi, screenOpen, dashLogs>>
      BY <1>2 DEF fileRequestEnds, fewer
    <2> QED BY <1>1, <2>1, LoadKeeps DEF SessionLogsTypeOK
  <1>3. CASE ~reloads(requests[id].op, answer)
    <2>1. /\ requests' = fewer /\ busy' = NoLog
          /\ UNCHANGED <<overWifi, availability, logs, asked, crossedLists, screenOpen, dashLogs>>
          /\ goneUnseen' = IF requests[id].op = "delete" /\ requests[id].answer = "done"
                           THEN goneUnseen \cup {requests[id].name} ELSE goneUnseen
      BY <1>3 DEF fileRequestEnds, reloads, fewer
    <2>2. SessionLogsTypeOK'
      <3>1. \A other \in DOMAIN requests' : requests'[other] \in Requests
        BY <1>1, <2>1 DEF SessionLogsTypeOK
      <3>2. requests[id].op = "delete" /\ requests[id].answer = "done" => requests[id].name \in LogNames
        BY DEF SessionLogsTypeOK, Requests
      <3> QED BY <1>1, <2>1, <3>1, <3>2 DEF SessionLogsTypeOK
    <2>3. GoneIsGone'
      <3>1. requests[id].op = "delete" /\ requests[id].answer = "done" => requests[id].name \notin dashLogs
        BY DEF GoneIsGone, Removed, SessionLogsTypeOK, Requests
      <3> QED BY <1>1, <2>1, <3>1 DEF GoneIsGone
    <2>4. AsksOnWifi'
      BY <1>1, <2>1 DEF AsksOnWifi
    <2>5. listing(requests') = listing(requests) /\ \A other \in listing(requests) : requests'[other] = requests[other]
      BY <1>1, <2>1 DEF listing
    <2>6. ASSUME NEW listed, Tells(listed) PROVE Tells(listed)'
      BY <1>1, <2>1, <2>6 DEF Tells
    <2>7. ListInv'
      BY <1>1, <2>1, <2>5 DEF ListInv, OneList, ListTells, RowsTell, Tells
    <2> QED BY <2>2, <2>3, <2>4, <2>7
  <1> QED BY <1>2, <1>3

\* Every step of the store and of the dash keeps the invariant.
THEOREM SessionLogsStepInv == SessionLogsInv /\ [SessionLogsNext]_sessionLogsVars => SessionLogsInv'
  <1> SUFFICES ASSUME SessionLogsInv, [SessionLogsNext]_sessionLogsVars PROVE SessionLogsInv'
    OBVIOUS
  <1>t. /\ {busy, asked} \subseteq LogNames \cup {NoLog} /\ screenOpen \in BOOLEAN
        /\ SessionLogsTypeOK /\ GoneIsGone /\ AsksOnWifi
    BY DEF SessionLogsInv, SessionLogsTypeOK
  <1>1. CASE UNCHANGED sessionLogsVars
    BY <1>1, <1>t, ScreenKeeps DEF sessionLogsVars
  <1>2. CASE openLogsScreen \/ retryLogs
    BY <1>2, <1>t, LoadKeeps DEF openLogsScreen, retryLogs, mayRequest, SessionLogsTypeOK
  <1>3. CASE leaveLogsScreen \/ cancelDelete \/ \E name \in LogNames : askToDelete(name)
    BY <1>3, <1>t, ScreenKeeps DEF leaveLogsScreen, cancelDelete, askToDelete
  <1>4. CASE remove
    <2>1. asked \in LogNames /\ availability = "listed"
      BY <1>4, <1>t DEF remove, rowsShown
    <2> QED BY <1>4, <2>1, AskKeeps DEF remove
  <1>5. CASE \E name \in LogNames : download(name)
    BY <1>5, AskKeeps DEF download, rowEnabled, rowsShown
  <1>6. CASE \E name \in LogNames : cardChanges(name)
    BY <1>6, CardKeeps
  <1>7. CASE \E id \in DOMAIN requests : serve(id)
    BY <1>7, ServeKeeps
  <1>8. CASE \E id \in DOMAIN requests : listArrives(id) \/ listFails(id)
    BY <1>8, ListEndsKeeps
  <1>9. CASE \E id \in DOMAIN requests : fileAnswerArrives(id)
    BY <1>9, FileEndsKeeps DEF fileAnswerArrives
  <1>10. CASE \E id \in DOMAIN requests : fileRequestFails(id)
    BY <1>10, FileEndsKeeps DEF fileRequestFails, Refusals
  <1> QED BY <1>1, <1>2, <1>3, <1>4, <1>5, <1>6, <1>7, <1>8, <1>9, <1>10 DEF SessionLogsNext

\* The invariant holds throughout (session-logs.store.ts:77-147).
THEOREM SessionLogsInvariance == SessionLogsSpec => []SessionLogsInv
  BY InitSessionLogs, SessionLogsStepInv, PTL DEF SessionLogsSpec

\* Once every request has ended, the rows are what is on the card, in whichever
\* order lists, downloads and deletions were served and answered.
THEOREM SessionLogsListed == SessionLogsSpec => []ListingIsCurrent
  <1>1. SessionLogsInv => ListingIsCurrent
    <2> SUFFICES ASSUME SessionLogsInv, DOMAIN requests = {}, availability = "listed", ~crossedLists
                 PROVE  logs \ goneUnseen = dashLogs
      BY DEF ListingIsCurrent
    <2>1. Tells(logs) /\ goneUnseen \cap dashLogs = {}
      BY DEF SessionLogsInv, ListInv, RowsTell, listing, GoneIsGone
    <2>2. \A name : ~Removed(requests, name)
      BY DEF Removed
    <2> QED BY <2>1, <2>2 DEF Tells
  <1> QED BY <1>1, SessionLogsInvariance, PTL
=============================================================================
