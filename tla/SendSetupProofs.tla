-------------------------- MODULE SendSetupProofs --------------------------
(***************************************************************************)
(* Proofs about SendSetup, for every set of parts and of values, and with  *)
(* or without other tuners and sends that overlap the answers of a         *)
(* connection.                                                             *)
(***************************************************************************)
EXTENDS SendSetup, SequenceTheorems, TLAPS

\* The steps a running send has still to write.
Left == {steps[i] : i \in 1 .. Len(steps)}

\* What is left is a part the send was asked to write: the dashboard comes before
\* everything else, and a part that restarts the dash after it.  A send goes on
\* without a link only to read the dashboard back.
StepsInv ==
  /\ verifying => sends /\ Head(steps) = "dashboard"
  /\ sends =>
       /\ Left \subseteq asked
       /\ \A i \in 1 .. Len(steps) :
            /\ steps[i] = "dashboard" => i = 1
            /\ steps[i] \in Restart => i = Len(steps)
       /\ \A i, j \in 1 .. Len(steps) : steps[i] = steps[j] => i = j
       /\ "dashboard" \in Left => asked \ Restart \subseteq Left
       /\ \A f \in asked : snapshot[f] # Null
       /\ connected \/ verifying

\* Away from the answers of a connection, the baseline and what the send takes for it
\* differ by what was written, and the tuner was told of no newer setup.
CalmSend ==
  sends => /\ reading = {} /\ ~dashNewer
           /\ \A f \in Fields : confirmed[f] = device[f] \/ f \in asked \ (Restart \cup Left)

SendInv ==
  /\ TypeOK /\ StepsInv /\ ConfirmedIsOnDash
  /\ ~Overlaps => CalmSend

-----------------------------------------------------------------------------
(* The steps of a send.                                                    *)

\* s holds, of the parts fs, those that differ, once each.
StepsOf(s, fs, snap, dev) ==
  /\ s \in Seq(Fields)
  /\ \A i \in 1 .. Len(s) : s[i] \in fs /\ differs(snap, dev, s[i])
  /\ \A i, j \in 1 .. Len(s) : s[i] = s[j] => i = j
  /\ \A f \in fs \cap Fields : differs(snap, dev, f) => \E i \in 1 .. Len(s) : s[i] = f

\* One part.
LEMMA OneStep ==
  ASSUME NEW f, NEW snap, NEW dev
  PROVE  StepsOf(stepOf(f, snap, dev), {f}, snap, dev) /\ Len(stepOf(f, snap, dev)) \in 0 .. 1
  <1>1. CASE f \in Fields /\ differs(snap, dev, f)
    <2>1. stepOf(f, snap, dev) = <<f>>
      BY <1>1 DEF stepOf
    <2>2. <<f>> \in Seq(Fields) /\ Len(<<f>>) = 1 /\ <<f>>[1] = f
      BY <1>1
    <2> QED BY <1>1, <2>1, <2>2 DEF StepsOf
  <1>2. CASE ~(f \in Fields /\ differs(snap, dev, f))
    <2>1. stepOf(f, snap, dev) = <<>>
      BY <1>2 DEF stepOf
    <2>2. <<>> \in Seq(Fields) /\ Len(<<>>) = 0
      OBVIOUS
    <2> QED BY <1>2, <2>1, <2>2 DEF StepsOf
  <1> QED BY <1>1, <1>2

\* The steps of some parts, then those of others.
LEMMA MoreSteps ==
  ASSUME NEW s, NEW t, NEW fs, NEW gs, NEW snap, NEW dev,
         StepsOf(s, fs, snap, dev), StepsOf(t, gs, snap, dev), fs \cap gs = {}
  PROVE  StepsOf(s \o t, fs \cup gs, snap, dev)
  <1>1. /\ s \in Seq(Fields) /\ t \in Seq(Fields)
        /\ Len(s) \in Nat /\ Len(t) \in Nat
    BY DEF StepsOf
  <1>2. /\ s \o t \in Seq(Fields) /\ Len(s \o t) = Len(s) + Len(t)
        /\ \A i \in 1 .. Len(s) : (s \o t)[i] = s[i]
        /\ \A i \in 1 .. Len(t) : (s \o t)[Len(s) + i] = t[i]
    BY <1>1
  <1>3. /\ \A i \in 1 .. Len(s) : i \in 1 .. Len(s) + Len(t)
        /\ \A i \in 1 .. Len(t) : Len(s) + i \in 1 .. Len(s) + Len(t)
        /\ \A i \in 1 .. Len(s) + Len(t) :
             i \in 1 .. Len(s) \/ \E j \in 1 .. Len(t) : i = Len(s) + j
    <2>1. ASSUME NEW i \in 1 .. Len(s) + Len(t), i \notin 1 .. Len(s)
          PROVE  \E j \in 1 .. Len(t) : i = Len(s) + j
      <3>1. i - Len(s) \in 1 .. Len(t) /\ i = Len(s) + (i - Len(s))
        BY <1>1, <2>1
      <3> QED BY <3>1
    <2> QED BY <1>1, <2>1
  <1>4. \A i \in 1 .. Len(s \o t) : (s \o t)[i] \in fs \cup gs /\ differs(snap, dev, (s \o t)[i])
    <2>1. /\ \A i \in 1 .. Len(s) : s[i] \in fs \cup gs /\ differs(snap, dev, s[i])
          /\ \A i \in 1 .. Len(t) : t[i] \in fs \cup gs /\ differs(snap, dev, t[i])
      BY DEF StepsOf
    <2> SUFFICES ASSUME NEW i \in 1 .. Len(s) + Len(t)
                 PROVE  (s \o t)[i] \in fs \cup gs /\ differs(snap, dev, (s \o t)[i])
      BY <1>2
    <2>2. CASE i \in 1 .. Len(s)
      <3>1. (s \o t)[i] = s[i]
        BY <1>2, <2>2
      <3> QED BY <2>1, <2>2, <3>1
    <2>3. CASE i \notin 1 .. Len(s)
      <3>1. PICK j \in 1 .. Len(t) : i = Len(s) + j
        BY <1>3, <2>3
      <3>2. (s \o t)[i] = t[j]
        BY <1>2, <3>1
      <3> QED BY <2>1, <3>2
    <2> QED BY <2>2, <2>3
  <1>5. ASSUME NEW f \in (fs \cup gs) \cap Fields, differs(snap, dev, f)
        PROVE  \E i \in 1 .. Len(s \o t) : (s \o t)[i] = f
    <2>1. CASE f \in fs
      <3>1. PICK i \in 1 .. Len(s) : s[i] = f
        BY <1>5, <2>1 DEF StepsOf
      <3> QED BY <1>2, <1>3, <3>1
    <2>2. CASE f \in gs
      <3>1. PICK i \in 1 .. Len(t) : t[i] = f
        BY <1>5, <2>2 DEF StepsOf
      <3> QED BY <1>2, <1>3, <3>1
    <2> QED BY <2>1, <2>2
  <1>6. ASSUME NEW i \in 1 .. Len(s \o t), NEW j \in 1 .. Len(s \o t), (s \o t)[i] = (s \o t)[j]
        PROVE  i = j
    <2>1. CASE i \in 1 .. Len(s) /\ j \in 1 .. Len(s)
      BY <1>2, <1>6, <2>1 DEF StepsOf
    <2>2. CASE i \notin 1 .. Len(s) /\ j \notin 1 .. Len(s)
      <3>1. PICK k \in 1 .. Len(t), l \in 1 .. Len(t) : i = Len(s) + k /\ j = Len(s) + l
        BY <1>2, <1>3, <2>2
      <3>2. t[k] = t[l]
        BY <1>2, <1>6, <3>1
      <3> QED BY <3>1, <3>2 DEF StepsOf
    <2>3. \A k \in 1 .. Len(s), l \in 1 .. Len(t) : s[k] # t[l]
      BY DEF StepsOf
    <2>4. CASE i \in 1 .. Len(s) /\ j \notin 1 .. Len(s)
      <3>1. PICK l \in 1 .. Len(t) : j = Len(s) + l
        BY <1>2, <1>3, <2>4
      <3> QED BY <1>2, <1>6, <2>3, <2>4, <3>1
    <2>5. CASE i \notin 1 .. Len(s) /\ j \in 1 .. Len(s)
      <3>1. PICK k \in 1 .. Len(t) : i = Len(s) + k
        BY <1>2, <1>3, <2>5
      <3> QED BY <1>2, <1>6, <2>3, <2>5, <3>1
    <2> QED BY <2>1, <2>2, <2>4, <2>5
  <1> QED BY <1>2, <1>4, <1>5, <1>6 DEF StepsOf

\* A step that is the first stays the first.
LEMMA StaysFirst ==
  ASSUME NEW s \in Seq(Fields), NEW t \in Seq(Fields), NEW f,
         \A i \in 1 .. Len(s) : s[i] = f => i = 1, \A i \in 1 .. Len(t) : t[i] # f
  PROVE  \A i \in 1 .. Len(s \o t) : (s \o t)[i] = f => i = 1
  <1> SUFFICES ASSUME NEW i \in 1 .. Len(s \o t), (s \o t)[i] = f
               PROVE  i = 1
    OBVIOUS
  <1>1. Len(s) \in Nat /\ Len(t) \in Nat /\ Len(s \o t) = Len(s) + Len(t)
    OBVIOUS
  <1>2. CASE i \in 1 .. Len(s)
    BY <1>2
  <1>3. CASE i \notin 1 .. Len(s)
    <2>1. i - Len(s) \in 1 .. Len(t) /\ (s \o t)[i] = t[i - Len(s)]
      BY <1>1, <1>3
    <2> QED BY <2>1
  <1> QED BY <1>2, <1>3

\* What sendSteps() returns: parts that differ, once each, every one that applies in place
\* among them, the dashboard first, and one that restarts the dash last if at all.
LEMMA SendStepsAre ==
  ASSUME NEW snap, NEW dev, NEW todo, todo = sendSteps(snap, dev)
  PROVE  /\ todo \in Seq(Fields)
         /\ \A i \in 1 .. Len(todo) : /\ differs(snap, dev, todo[i])
                                      /\ todo[i] = "dashboard" => i = 1
                                      /\ todo[i] \in Restart => i = Len(todo)
         /\ \A i, j \in 1 .. Len(todo) : todo[i] = todo[j] => i = j
         /\ \A f \in Fields \ Restart :
              differs(snap, dev, f) => \E i \in 1 .. Len(todo) : todo[i] = f
  <1> DEFINE one   == stepOf("dashboard", snap, dev)
             two   == one \o stepOf("brightness", snap, dev)
             three == two \o stepOf("dayMode", snap, dev)
             live  == liveSteps(snap, dev)
             last  == restartSteps(snap, dev)
  <1>1. /\ StepsOf(one, {"dashboard"}, snap, dev) /\ Len(one) \in 0 .. 1
        /\ StepsOf(stepOf("brightness", snap, dev), {"brightness"}, snap, dev)
        /\ StepsOf(stepOf("dayMode", snap, dev), {"dayMode"}, snap, dev)
        /\ StepsOf(stepOf("sound", snap, dev), {"sound"}, snap, dev)
        /\ StepsOf(stepOf("deviceConfig", snap, dev), {"deviceConfig"}, snap, dev)
        /\ StepsOf(stepOf("car", snap, dev), {"car"}, snap, dev)
        /\ StepsOf(stepOf("rotation", snap, dev), {"rotation"}, snap, dev)
    BY OneStep
  <1>2. /\ StepsOf(two, {"dashboard"} \cup {"brightness"}, snap, dev)
        /\ StepsOf(three, ({"dashboard"} \cup {"brightness"}) \cup {"dayMode"}, snap, dev)
        /\ StepsOf(live, (({"dashboard"} \cup {"brightness"}) \cup {"dayMode"}) \cup {"sound"}, snap, dev)
    <2>1. StepsOf(two, {"dashboard"} \cup {"brightness"}, snap, dev)
      BY <1>1, MoreSteps
    <2> HIDE DEF two
    <2>2. StepsOf(three, ({"dashboard"} \cup {"brightness"}) \cup {"dayMode"}, snap, dev)
      BY <1>1, <2>1, MoreSteps
    <2> HIDE DEF three
    <2>3. live = three \o stepOf("sound", snap, dev)
      BY DEF liveSteps, three, two
    <2> HIDE DEF live
    <2>4. StepsOf(live, (({"dashboard"} \cup {"brightness"}) \cup {"dayMode"}) \cup {"sound"}, snap, dev)
      BY <1>1, <2>2, <2>3, MoreSteps
    <2> QED BY <2>1, <2>2, <2>4
  <1>3. StepsOf(last, Restart, snap, dev)
    <2>1. StepsOf(last, ({"deviceConfig"} \cup {"car"}) \cup {"rotation"}, snap, dev)
      BY <1>1, MoreSteps DEF restartSteps
    <2>2. Restart = ({"deviceConfig"} \cup {"car"}) \cup {"rotation"}
      BY DEF Restart
    <2> HIDE DEF last
    <2> QED BY <2>1, <2>2
  <1>4. live = three \o stepOf("sound", snap, dev)
    BY DEF liveSteps
  <1>5. StepsOf(live, {"dashboard", "brightness", "dayMode", "sound"}, snap, dev)
    <2>1. (({"dashboard"} \cup {"brightness"}) \cup {"dayMode"}) \cup {"sound"}
            = {"dashboard", "brightness", "dayMode", "sound"}
      OBVIOUS
    <2> HIDE DEF live
    <2> QED BY <1>2, <2>1
  <1>6. \A i \in 1 .. Len(live) : live[i] = "dashboard" => i = 1
    <2>1. /\ one \in Seq(Fields) /\ two \in Seq(Fields) /\ three \in Seq(Fields)
          /\ \A f \in {"brightness", "dayMode", "sound"} :
               /\ stepOf(f, snap, dev) \in Seq(Fields)
               /\ \A i \in 1 .. Len(stepOf(f, snap, dev)) : stepOf(f, snap, dev)[i] # "dashboard"
      BY <1>1, <1>2 DEF StepsOf
    <2> HIDE DEF one
    <2>2. \A i \in 1 .. Len(one) : one[i] = "dashboard" => i = 1
      BY <1>1
    <2>3. \A i \in 1 .. Len(two) : two[i] = "dashboard" => i = 1
      BY <2>1, <2>2, StaysFirst
    <2> HIDE DEF two
    <2>4. \A i \in 1 .. Len(three) : three[i] = "dashboard" => i = 1
      BY <2>1, <2>3, StaysFirst
    <2> HIDE DEF three, live
    <2> QED BY <1>4, <2>1, <2>4, StaysFirst
  <1>7. /\ live \in Seq(Fields) /\ last \in Seq(Fields)
        /\ \A i \in 1 .. Len(live) : live[i] \notin Restart /\ differs(snap, dev, live[i])
        /\ \A i, j \in 1 .. Len(live) : live[i] = live[j] => i = j
        /\ \A f \in Fields \ Restart :
             differs(snap, dev, f) => \E i \in 1 .. Len(live) : live[i] = f
    BY <1>3, <1>5, FieldsAssumption DEF StepsOf, Restart, FieldsAssumption, Parts
  <1> HIDE DEF one, two, three, live
  <1>8. CASE last = <<>>
    <2>1. todo = live
      BY <1>8 DEF sendSteps, live
    <2> QED BY <1>6, <1>7, <2>1
  <1>9. CASE last # <<>>
    <2>1. todo = Append(live, Head(last))
      BY <1>9 DEF sendSteps, live
    <2>2. Len(last) \in Nat \ {0} /\ Head(last) = last[1]
      BY <1>7, <1>9
    <2>3. Head(last) \in Restart /\ Head(last) \in Fields /\ differs(snap, dev, Head(last))
      BY <1>3, <1>7, <2>2 DEF StepsOf
    <2> HIDE DEF last
    <2>4. /\ Len(live) \in Nat /\ todo \in Seq(Fields) /\ Len(todo) = Len(live) + 1
          /\ todo[Len(live) + 1] = Head(last) /\ \A i \in 1 .. Len(live) : todo[i] = live[i]
      BY <1>7, <2>1, <2>3
    <2>5. /\ \A i \in 1 .. Len(todo) : i \in 1 .. Len(live) \/ i = Len(todo)
          /\ \A i \in 1 .. Len(live) : i \in 1 .. Len(todo)
      BY <2>4
    <2>6. "dashboard" \notin Restart
      BY DEF Restart
    <2>7. \A i, j \in 1 .. Len(todo) : todo[i] = todo[j] => i = j
      <3>1. \A i \in 1 .. Len(live) : todo[i] # Head(last)
        BY <1>7, <2>3, <2>4
      <3> QED BY <1>7, <2>4, <2>5, <3>1
    <2>8. \A i \in 1 .. Len(todo) : /\ differs(snap, dev, todo[i])
                                    /\ todo[i] = "dashboard" => i = 1
                                    /\ todo[i] \in Restart => i = Len(todo)
      BY <1>6, <1>7, <2>3, <2>4, <2>5, <2>6
    <2>9. \A f \in Fields \ Restart :
            differs(snap, dev, f) => \E i \in 1 .. Len(todo) : todo[i] = f
      BY <1>7, <2>4, <2>5
    <2>10. todo \in Seq(Fields)
      BY <2>4
    <2> QED BY <2>7, <2>8, <2>9, <2>10, Zenon
  <1> QED BY <1>8, <1>9

-----------------------------------------------------------------------------
(* A send that runs.                                                       *)

\* What is confirmed of a send, with the parts still left named as such.
LEMMA ConfirmedParts ==
  ASSUME TypeOK
  PROVE  ConfirmedIsOnDash <=>
           (sends => \A f \in asked \ (Restart \cup Left) :
                       confirmed[f] = dash[f] /\ dash[f] = snapshot[f])
  BY DEF ConfirmedIsOnDash, Left

\* The step a running send writes.
LEMMA HeadStep ==
  ASSUME TypeOK, StepsInv, sends
  PROVE  /\ Len(steps) \in Nat \ {0} /\ 1 \in 1 .. Len(steps)
         /\ steps # <<>> /\ Head(steps) = steps[1]
         /\ Head(steps) \in Left /\ Head(steps) \in asked /\ Head(steps) \in Fields
         /\ snapshot[Head(steps)] \in Values
  <1>1. /\ steps \in Seq(Fields) /\ steps # <<>>
    BY DEF TypeOK, sends
  <1>2. Len(steps) \in Nat \ {0} /\ 1 \in 1 .. Len(steps) /\ Head(steps) = steps[1]
    BY <1>1
  <1>3. Head(steps) \in Left /\ Head(steps) \in Fields
    BY <1>1, <1>2 DEF Left
  <1>4. snapshot \in Setup /\ Head(steps) \in asked /\ snapshot[Head(steps)] # Null
    BY <1>3 DEF TypeOK, StepsInv
  <1> QED BY <1>1, <1>2, <1>3, <1>4 DEF Setup

\* The brightness that travels with the sound and the rotation.
LEMMA KeptBrightness ==
  ASSUME TypeOK
  PROVE  /\ brightnessToKeep \in Values
         /\ \A f \in Fields : f = "brightness" /\ snapshot[f] # Null => brightnessToKeep = snapshot[f]
  <1>1. /\ at(snapshot, "brightness") \in Values \cup {Null}
        /\ at(confirmed, "brightness") \in Values \cup {Null}
    BY DEF TypeOK, Setup, at
  <1>2. DefaultBrightness \in Values /\ Null \notin Values
    BY ValuesAssumption DEF ValuesAssumption
  <1> QED BY <1>1, <1>2 DEF brightnessToKeep, orElse, at

\* A write the dash obeys: the part is as it was sent, and what the send wrote
\* before stays as it was sent.
LEMMA Writes ==
  ASSUME TypeOK, StepsInv, ConfirmedIsOnDash, sends
  PROVE  /\ written(Head(steps)) \in HeldSetup
         /\ written(Head(steps))[Head(steps)] = snapshot[Head(steps)]
         /\ \A g \in Fields : g \notin {Head(steps), "brightness"} => written(Head(steps))[g] = dash[g]
         /\ \A g \in asked \ (Restart \cup Left) : written(Head(steps))[g] = dash[g]
  <1> DEFINE f == Head(steps)
  <1>1. f \in Fields /\ f \in Left /\ f \in asked /\ snapshot[f] \in Values
    BY HeadStep
  <1>2. /\ dash \in HeldSetup /\ asked \subseteq Fields
        /\ \A g \in asked : snapshot[g] # Null
        /\ \A g \in asked \ (Restart \cup Left) : dash[g] = snapshot[g]
    BY ConfirmedParts DEF TypeOK, StepsInv
  <1> HIDE DEF f
  <1>3. \A h \in Fields, v \in Values : \A d \in HeldSetup :
          /\ put(d, h, v) \in HeldSetup /\ put(d, h, v)[h] = v
          /\ \A g \in Fields : g # h => put(d, h, v)[g] = d[g]
    BY DEF put, HeldSetup
  <1>4. \A v, d : "brightness" \notin Fields => put(d, "brightness", v) = [g \in Fields |-> d[g]]
    BY DEF put
  <1>5. put(dash, f, snapshot[f]) \in HeldSetup
    BY <1>1, <1>2, <1>3
  <1>6. CASE f \notin {"sound", "rotation"}
    <2>1. written(f) = put(dash, f, snapshot[f])
      BY <1>6 DEF written
    <2>2. \A g \in asked \ (Restart \cup Left) : g # f /\ g \in Fields
      BY <1>1, <1>2
    <2> QED BY <1>1, <1>2, <1>3, <2>1, <2>2 DEF f
  <1>7. CASE f \in {"sound", "rotation"}
    <2> DEFINE alone == put(dash, f, snapshot[f])
    <2>1. written(f) = put(alone, "brightness", brightnessToKeep) /\ f # "brightness"
      BY <1>7 DEF written
    <2>2. /\ alone \in HeldSetup /\ alone[f] = snapshot[f]
          /\ \A g \in Fields : g # f => alone[g] = dash[g]
      BY <1>1, <1>2, <1>3
    <2> HIDE DEF alone
    <2>3. CASE "brightness" \in Fields
      <3>1. /\ written(f) \in HeldSetup /\ written(f)[f] = snapshot[f]
            /\ written(f)["brightness"] = brightnessToKeep
            /\ \A g \in Fields : g # "brightness" => written(f)[g] = alone[g]
        BY <1>1, <1>3, <2>1, <2>2, <2>3, KeptBrightness
      <3>2. \A g \in asked \ (Restart \cup Left) : g # f /\ g \in Fields /\ snapshot[g] # Null
        BY <1>1, <1>2
      <3>3. \A g \in asked \ (Restart \cup Left) : written(f)[g] = dash[g]
        BY <1>2, <2>2, <2>3, <3>1, <3>2, KeptBrightness
      <3> QED BY <2>2, <3>1, <3>3 DEF f
    <2>4. CASE "brightness" \notin Fields
      <3>1. written(f) = alone
        BY <1>4, <2>1, <2>2, <2>4 DEF HeldSetup
      <3>2. \A g \in asked \ (Restart \cup Left) : g # f /\ g \in Fields
        BY <1>1, <1>2
      <3> QED BY <2>2, <3>1, <3>2 DEF f
    <2> QED BY <2>3, <2>4
  <1> QED BY <1>6, <1>7

\* With no send running there is nothing else to say.
LEMMA AtRest ==
  ASSUME TypeOK', ~sends', ~verifying'
  PROVE  SendInv'
  BY DEF SendInv, StepsInv, ConfirmedIsOnDash, CalmSend, sends

\* A send is left alone: the dash changes under it only while it reads the
\* dashboard back, and the baseline and the answers not at all when it is calm.
LEMMA SendLeftAlone ==
  ASSUME SendInv, TypeOK', UNCHANGED <<sendState, snapshot, confirmed, steps, verifying, asked>>,
         sends => connected' \/ verifying,
         sends => dash' = dash \/ verifying,
         ~Overlaps /\ sends => device' = device /\ reading' = {} /\ ~dashNewer'
  PROVE  SendInv'
  <1>1. sends' = sends /\ Left' = Left
    BY DEF sends, Left
  <1>2. StepsInv'
    BY <1>1 DEF SendInv, StepsInv
  <1>3. ConfirmedIsOnDash'
    <2> SUFFICES ASSUME sends, NEW f \in asked \ Restart, \A k \in 1 .. Len(steps) : steps[k] # f
                 PROVE  confirmed[f] = dash'[f] /\ dash'[f] = snapshot[f]
      BY <1>1 DEF ConfirmedIsOnDash
    <2>1. f \notin Left
      BY DEF Left
    <2>2. ~verifying
      BY <2>1, HeadStep DEF SendInv, StepsInv
    <2> QED BY <2>2 DEF SendInv, ConfirmedIsOnDash
  <1>4. ~Overlaps => CalmSend'
    BY <1>1 DEF SendInv, CalmSend
  <1> QED BY <1>2, <1>3, <1>4 DEF SendInv

\* A send ends and its result is the baseline.
LEMMA Reports ==
  ASSUME TypeOK, NEW outcome \in {"idle", "refused", "failed"}, NEW result \in Setup,
         report(outcome, result), draft' \in Setup, dash' \in HeldSetup, reading' \subseteq Answers,
         {dashNewer', connected', touched'} \subseteq BOOLEAN
  PROVE  SendInv'
  <1>1. Unknown \in Setup
    BY DEF Unknown, Setup
  <1>2. <<>> \in Seq(Fields)
    OBVIOUS
  <1>3. TypeOK'
    BY <1>1, <1>2 DEF TypeOK, report, noLocals
  <1>4. ~sends' /\ ~verifying'
    BY DEF report, noLocals, sends
  <1> QED BY <1>3, <1>4, AtRest

\* The step that was written is confirmed, and the dash holds it.
LEMMA Confirms ==
  ASSUME SendInv, sends, connected, NEW f, f = Head(steps), confirm(f), dash' \in HeldSetup,
         dash'[f] = snapshot[f],
         \A g \in asked \ (Restart \cup Left) : dash'[g] = dash[g],
         touched' \in BOOLEAN, UNCHANGED <<draft, dashNewer, reading, connected>>
  PROVE  SendInv'
  <1> DEFINE now == put(confirmed, f, snapshot[f])
  <1>1. TypeOK /\ StepsInv /\ ConfirmedIsOnDash
    BY DEF SendInv
  <1>2. /\ Len(steps) \in Nat \ {0} /\ f = steps[1] /\ f \in Left /\ f \in asked /\ f \in Fields
        /\ steps \in Seq(Fields) /\ snapshot[f] \in Values
    BY <1>1, HeadStep DEF TypeOK
  <1>3. now \in Setup /\ now[f] = snapshot[f] /\ \A g \in Fields : g # f => now[g] = confirmed[g]
    BY <1>1, <1>2 DEF TypeOK, Setup, put
  <1>4. CASE Len(steps) = 1
    <2>1. report("idle", now)
      BY <1>4 DEF confirm
    <2> HIDE DEF now
    <2> QED BY <1>1, <1>3, <2>1, Reports DEF TypeOK
  <1>5. CASE Len(steps) # 1
    <2>1. /\ confirmed' = now /\ steps' = Tail(steps) /\ verifying' = FALSE
          /\ UNCHANGED <<sendState, device, snapshot, asked, edited>>
      BY <1>5 DEF confirm
    <2> HIDE DEF now
    <2>2. /\ steps' \in Seq(Fields) /\ Len(steps') = Len(steps) - 1 /\ steps' # <<>>
          /\ \A k \in 1 .. Len(steps') : /\ steps'[k] = steps[k + 1] /\ k + 1 \in 1 .. Len(steps)
                                         /\ k + 1 # 1 /\ (k + 1 = Len(steps) => k = Len(steps'))
      <3>1. /\ steps' \in Seq(Fields) /\ Len(steps') = Len(steps) - 1
            /\ \A k \in 1 .. Len(steps') : steps'[k] = steps[k + 1]
        BY <1>2, <1>5, <2>1
      <3>2. Len(steps') \in Nat \ {0} /\ steps' # <<>>
        BY <1>2, <1>5, <3>1
      <3> QED BY <1>2, <3>1, <3>2
    <2>3. TypeOK'
      BY <1>1, <1>3, <2>1, <2>2 DEF TypeOK, sends
    <2>4. sends' = sends /\ Left' \subseteq Left
      BY <2>1, <2>2 DEF sends, Left
    <2>5. ASSUME NEW g \in Left, g # f PROVE g \in Left'
      <3>1. PICK k \in 1 .. Len(steps) : steps[k] = g
        BY <2>5 DEF Left
      <3>2. k - 1 \in 1 .. Len(steps') /\ (k - 1) + 1 = k
        BY <1>2, <2>2, <2>5, <3>1
      <3> QED BY <2>2, <3>1, <3>2 DEF Left
    <2>6. "dashboard" \notin Left'
      BY <1>1, <2>2 DEF Left, StepsInv
    <2>7. f \notin Restart
      <3>1. 1 \in 1 .. Len(steps) /\ 1 # Len(steps)
        BY <1>2, <1>5
      <3> QED BY <1>1, <1>2, <3>1 DEF StepsInv
    <2>8. StepsInv'
      <3>1. Left' \subseteq asked' /\ snapshot' = snapshot /\ asked' = asked /\ connected' /\ ~verifying'
        BY <1>1, <2>1, <2>4 DEF StepsInv
      <3>2. \A k \in 1 .. Len(steps') : /\ steps'[k] # "dashboard"
                                        /\ steps'[k] \in Restart => k = Len(steps')
        BY <1>1, <2>2 DEF StepsInv
      <3>3. \A k, l \in 1 .. Len(steps') : steps'[k] = steps'[l] => k = l
        <4>1. ASSUME NEW k \in 1 .. Len(steps'), NEW l \in 1 .. Len(steps'), steps'[k] = steps'[l]
              PROVE  k = l
          <5>1. k + 1 = l + 1
            BY <1>1, <2>2, <4>1 DEF StepsInv
          <5> QED BY <1>2, <2>2, <5>1
        <4> QED BY <4>1
      <3> QED BY <1>1, <2>6, <3>1, <3>2, <3>3 DEF StepsInv
    <2>9. \A g \in asked' \ (Restart \cup Left') :
            confirmed'[g] = dash'[g] /\ dash'[g] = snapshot'[g]
      <3> SUFFICES ASSUME NEW g \in asked \ (Restart \cup Left')
                   PROVE  now[g] = dash'[g] /\ dash'[g] = snapshot[g]
        BY <2>1
      <3>1. CASE g = f
        BY <1>3, <3>1
      <3>2. CASE g # f
        <4>1. g \in asked \ (Restart \cup Left) /\ g \in Fields
          BY <1>1, <2>5, <3>2 DEF TypeOK
        <4> QED BY <1>1, <1>3, <3>2, <4>1, ConfirmedParts
      <3> QED BY <3>1, <3>2
    <2>10. ConfirmedIsOnDash'
      BY <2>9 DEF ConfirmedIsOnDash, Left
    <2>11. ASSUME ~Overlaps PROVE CalmSend'
      <3>1. /\ reading' = {} /\ ~dashNewer' /\ device' = device
            /\ \A g \in Fields : confirmed[g] = device[g] \/ g \in asked \ (Restart \cup Left)
        BY <2>1, <2>11 DEF SendInv, CalmSend
      <3>2. ASSUME NEW g \in Fields, now[g] # device[g] PROVE g \in asked \ (Restart \cup Left')
        <4>1. CASE g = f
          <5>1. \A k \in 1 .. Len(steps') : steps'[k] # f
            BY <1>1, <1>2, <2>2 DEF StepsInv
          <5> QED BY <1>2, <2>7, <4>1, <5>1 DEF Left
        <4>2. CASE g # f
          BY <1>3, <2>4, <3>1, <3>2, <4>2
        <4> QED BY <4>1, <4>2
      <3> QED BY <2>1, <3>1, <3>2 DEF CalmSend
    <2> QED BY <2>3, <2>8, <2>10, <2>11 DEF SendInv
  <1> QED BY <1>4, <1>5

-----------------------------------------------------------------------------
(* Every step keeps the invariant.                                         *)

\* A setup with one part replaced.
LEMMA Puts ==
  ASSUME NEW T, NEW d \in [Fields -> T], NEW f, NEW v \in T
  PROVE  put(d, f, v) \in [Fields -> T]
  BY DEF put

\* The user's steps on the draft, and another tuner's on the dash.
LEMMA EditInv ==
  ASSUME SendInv,
         \/ \E f \in Fields, v \in Values : edit(f, v)
         \/ undoAllChanges
  PROVE  SendInv'
  <1> USE DEF SendInv
  <1>1. /\ UNCHANGED <<device, sendState, dashNewer, localVars, reading, connected, dash, asked, touched>>
        /\ edited' \subseteq Fields
    BY DEF edit, undoAllChanges, TypeOK
  <1>2. draft' \in Setup
    <2>1. CASE \E f \in Fields, v \in Values : edit(f, v)
      <3>1. PICK f \in Fields, v \in Values : edit(f, v)
        BY <2>1
      <3>2. draft \in [Fields -> Values \cup {Null}] /\ v \in Values \cup {Null}
        BY DEF TypeOK, Setup
      <3>3. put(draft, f, v) \in [Fields -> Values \cup {Null}]
        BY <3>2, Puts
      <3> QED BY <3>1, <3>3 DEF edit, Setup
    <2>2. CASE undoAllChanges
      BY <2>2 DEF undoAllChanges, revertAll, orElse, TypeOK, Setup
    <2> QED BY <2>1, <2>2
  <1>3. TypeOK'
    BY <1>1, <1>2 DEF TypeOK, localVars
  <1> HIDE DEF SendInv
  <1>4. (sends => connected \/ verifying) /\ (~Overlaps /\ sends => reading = {} /\ ~dashNewer)
    BY DEF SendInv, StepsInv, CalmSend
  <1> QED BY <1>1, <1>3, <1>4, SendLeftAlone DEF localVars

\* Another tuner changes a dash that is free: of a send that still runs nothing but the
\* dashboard was written, and it is not confirmed.
LEMMA OtherInv ==
  ASSUME SendInv, NEW f \in Fields, NEW v \in Values \cup {Newer}, otherTuner(f, v)
  PROVE  SendInv'
  <1>1. /\ UNCHANGED <<draft, device, sendState, dashNewer, snapshot, confirmed, steps, verifying,
                      reading, connected, asked, edited, touched>>
        /\ ~connected /\ dash' = put(dash, f, v)
    BY DEF otherTuner, storeVars, localVars, history
  <1>2. dash' \in HeldSetup
    BY <1>1 DEF otherTuner, SendInv, TypeOK, HeldSetup, put
  <1>3. TypeOK'
    BY <1>1, <1>2 DEF SendInv, TypeOK
  <1>4. (sends => verifying) /\ (~Overlaps /\ sends => reading = {} /\ ~dashNewer)
    BY <1>1 DEF SendInv, StepsInv, CalmSend
  <1> QED BY <1>1, <1>3, <1>4, SendLeftAlone

\* A send begins, or is refused: its steps are those that differ.
LEMMA Begins ==
  ASSUME SendInv, ~sends, NEW snap \in Setup, sendToDash(snap), settledDown, draft' \in Setup,
         UNCHANGED <<dashNewer, reading, connected, dash>>
  PROVE  SendInv'
  <1> DEFINE todo == sendSteps(snap, device)
  <1>1. TypeOK /\ ~verifying
    BY DEF SendInv, StepsInv
  <1>2. CASE refuse
    <2>1. TypeOK'
      BY <1>1, <1>2 DEF refuse, TypeOK, localVars, sends
    <2> QED BY <1>1, <1>2, <2>1, AtRest DEF refuse, localVars, sends
  <1>3. CASE begin(snap) /\ ~(todo # <<>> /\ connected)
    <2>1. /\ sendState' \in {"idle", "refused", "failed"} /\ touched' = FALSE
          /\ UNCHANGED <<snapshot, confirmed, steps, asked, device, verifying, edited>>
      BY <1>3 DEF begin
    <2>2. TypeOK' /\ ~sends' /\ ~verifying'
      BY <1>1, <2>1 DEF TypeOK, sends
    <2> QED BY <2>2, AtRest
  <1>4. CASE begin(snap) /\ ~dashNewer /\ todo # <<>> /\ connected
    <2>1. /\ sendState' = "sending" /\ snapshot' = snap /\ confirmed' = device /\ steps' = todo
          /\ asked' = {f \in Fields : differs(snap, device, f)}
          /\ touched' = FALSE /\ UNCHANGED <<device, verifying, edited>>
      BY <1>4 DEF begin
    <2>2. /\ steps' \in Seq(Fields) /\ steps' # <<>>
          /\ \A i \in 1 .. Len(steps') : /\ differs(snap, device, steps'[i]) /\ steps'[i] \in Fields
                                         /\ steps'[i] = "dashboard" => i = 1
                                         /\ steps'[i] \in Restart => i = Len(steps')
          /\ \A i, j \in 1 .. Len(steps') : steps'[i] = steps'[j] => i = j
          /\ \A f \in Fields \ Restart :
               differs(snap, device, f) => \E i \in 1 .. Len(steps') : steps'[i] = f
      <3> HIDE DEF todo
      <3>1. PICK t : t = todo
        OBVIOUS
      <3>2. t = sendSteps(snap, device)
        BY <3>1 DEF todo
      <3> QED BY <1>4, <2>1, <3>1, <3>2, SendStepsAre
    <2> HIDE DEF todo
    <2>3. TypeOK'
      <3>1. asked' \subseteq Fields /\ edited' \subseteq Fields /\ {touched', verifying'} \subseteq BOOLEAN
        BY <1>1, <2>1 DEF TypeOK
      <3>2. steps' \in Seq(Fields) /\ steps' # <<>> /\ sendState' = "sending"
        BY <2>1, <2>2
      <3> QED BY <1>1, <2>1, <3>1, <3>2 DEF TypeOK
    <2>4. asked' \ Restart \subseteq Left' /\ Left' \subseteq asked'
      BY <2>1, <2>2 DEF Left
    <2>5. \A f \in asked' : snapshot'[f] # Null
      BY <2>1 DEF differs
    <2>6. StepsInv'
      BY <1>1, <1>4, <2>1, <2>2, <2>4, <2>5 DEF StepsInv, sends
    <2>7. ConfirmedIsOnDash'
      BY <2>4 DEF ConfirmedIsOnDash, Left
    <2>8. ~Overlaps => CalmSend'
      BY <1>4, <2>1 DEF CalmSend, settledDown
    <2> QED BY <2>3, <2>6, <2>7, <2>8 DEF SendInv
  <1> QED BY <1>2, <1>3, <1>4 DEF sendToDash

\* The button sends the draft.
LEMMA TapInv == ASSUME SendInv, tapSend PROVE SendInv'
  BY Begins DEF tapSend, SendInv, TypeOK, sends

\* A restore sends the file over the draft, and during a send only edits.
LEMMA RestoreInv ==
  ASSUME SendInv, NEW file \in [Fields \cap {"dashboard", "car"} -> Values], restoreBackup(file)
  PROVE  SendInv'
  <1> DEFINE restored == [f \in Fields |-> IF f \in DOMAIN file THEN file[f] ELSE draft[f]]
  <1>1. restored \in Setup
    BY DEF SendInv, TypeOK, Setup
  <1>2. /\ draft' = restored /\ settledDown /\ UNCHANGED <<dashNewer, reading, connected, dash>>
    BY DEF restoreBackup
  <1>3. CASE sends
    <2>1. /\ edited' = edited \cup {f \in Fields : restored[f] # draft[f]}
          /\ UNCHANGED <<device, sendState, localVars, asked, touched>>
      BY <1>3 DEF restoreBackup, sends
    <2> HIDE DEF restored
    <2>2. edited' \subseteq Fields
      BY <2>1 DEF SendInv, TypeOK
    <2>3. TypeOK'
      BY <1>1, <1>2, <2>1, <2>2 DEF SendInv, TypeOK, localVars
    <2>4. (sends => connected \/ verifying) /\ (~Overlaps /\ sends => reading = {} /\ ~dashNewer)
      BY DEF SendInv, StepsInv, CalmSend
    <2> QED BY <1>2, <2>1, <2>3, <2>4, SendLeftAlone DEF localVars
  <1>4. CASE ~sends
    <2>1. sendToDash(restored)
      BY <1>4 DEF restoreBackup, sends
    <2> HIDE DEF restored
    <2> QED BY <1>1, <1>2, <1>4, <2>1, Begins
  <1> QED BY <1>3, <1>4

\* No send runs while an outcome is shown.
LEMMA DismissInv == ASSUME SendInv, dismissSendOutcome PROVE SendInv'
  <1>1. TypeOK' /\ ~sends' /\ ~verifying'
    BY DEF dismissSendOutcome, SendInv, TypeOK, StepsInv, sends, localVars
  <1> QED BY <1>1, AtRest

\* The step of a send that runs: answered, failed, or read back.
LEMMA WrittenInv == ASSUME SendInv, writeAcknowledged PROVE SendInv'
  <1> DEFINE f == Head(steps)
  <1>1. /\ sends /\ connected /\ ~verifying
        /\ UNCHANGED <<draft, dashNewer, reading, connected>> /\ touched' \in BOOLEAN
    BY DEF writeAcknowledged, sends, touches
  <1>2. TypeOK /\ StepsInv /\ ConfirmedIsOnDash
    BY DEF SendInv
  <1>3. CASE f = "dashboard"
    <2>1. /\ dash' \in {written(f), dash} /\ verifying' = TRUE
          /\ UNCHANGED <<sendState, device, snapshot, confirmed, steps, asked, edited>>
      BY <1>3 DEF writeAcknowledged, obeyed, ignored
    <2>2. dash' \in HeldSetup
      BY <1>1, <1>2, <2>1, Writes DEF TypeOK
    <2>3. TypeOK'
      BY <1>1, <1>2, <2>1, <2>2 DEF TypeOK
    <2>4. Left' = Left /\ sends' = sends
      BY <2>1 DEF Left, sends
    <2>5. StepsInv'
      BY <1>1, <1>2, <1>3, <2>1, <2>4 DEF StepsInv
    <2>6. ConfirmedIsOnDash'
      <3>1. asked \ Restart \subseteq Left
        BY <1>1, <1>2, <1>3, HeadStep DEF StepsInv
      <3> QED BY <2>1, <3>1 DEF ConfirmedIsOnDash, Left
    <2>7. ~Overlaps => CalmSend'
      BY <1>1, <2>1, <2>4 DEF SendInv, CalmSend
    <2> QED BY <2>3, <2>5, <2>6, <2>7 DEF SendInv
  <1>4. CASE f # "dashboard"
    <2>1. dash' = written(f) /\ confirm(f)
      BY <1>4 DEF writeAcknowledged, obeyed
    <2>2. /\ dash' \in HeldSetup /\ dash'[f] = snapshot[f]
          /\ \A g \in asked \ (Restart \cup Left) : dash'[g] = dash[g]
      BY <1>1, <1>2, <2>1, Writes
    <2> QED BY <1>1, <2>1, <2>2, Confirms
  <1> QED BY <1>3, <1>4

\* A step that fails ends the send with what was confirmed before it.
LEMMA FailsInv == ASSUME SendInv, writeFails PROVE SendInv'
  <1>1. /\ sends /\ UNCHANGED <<draft, dashNewer, reading, connected>> /\ touched' \in BOOLEAN
        /\ \E outcome \in {"refused", "failed"} : report(outcome, confirmed)
        /\ dash' \in {dash, written(Head(steps))}
    BY DEF writeFails, sends, touches, obeyed, ignored
  <1>2. TypeOK /\ StepsInv /\ ConfirmedIsOnDash
    BY DEF SendInv
  <1>3. dash' \in HeldSetup
    BY <1>1, <1>2, Writes DEF TypeOK
  <1> QED BY <1>1, <1>2, <1>3, Reports DEF TypeOK

\* The polls end with the dashboard confirmed or with the send.
LEMMA VerifiedInv == ASSUME SendInv, verified \/ notVerified PROVE SendInv'
  <1>1. /\ UNCHANGED <<draft, dashNewer, reading, connected, dash>> /\ touched' \in BOOLEAN
        /\ verifying
    BY DEF verified, notVerified, touches, ignored
  <1>2. TypeOK /\ sends /\ Head(steps) = "dashboard"
    BY <1>1 DEF SendInv, StepsInv
  <1>3. CASE \E outcome \in {"refused", "failed"} : report(outcome, confirmed)
    BY <1>1, <1>2, <1>3, Reports DEF TypeOK
  <1>4. CASE /\ connected /\ dash["dashboard"] = snapshot["dashboard"] /\ confirm("dashboard")
    BY <1>1, <1>2, <1>4, Confirms DEF TypeOK
  <1> QED BY <1>3, <1>4 DEF verified, notVerified

\* The answers of a connection move the draft and the baseline, within their types.
LEMMA ReadInv ==
  ASSUME SendInv, readDashboard \/ readDeviceConfig \/ handshake
  PROVE  SendInv'
  <1>1. TypeOK /\ connected /\ reading # {}
    BY DEF SendInv, readDashboard, readDeviceConfig, handshake, readRest
  <1>2. UNCHANGED <<sendState, snapshot, confirmed, steps, verifying, asked, edited, touched, connected, dash>>
    BY DEF readDashboard, readDeviceConfig, handshake, readRest, localVars, history
  <1>3. /\ draft' \in Setup /\ device' \in Setup /\ dashNewer' \in BOOLEAN /\ reading' \subseteq Answers
    <2>1. CASE readDashboard
      <3> DEFINE f == "dashboard"
      <3>1. reading' \subseteq Answers
        BY <1>1, <2>1 DEF readDashboard, TypeOK, Answers
      <3>2. CASE UNCHANGED <<draft, device>> /\ dashNewer' \in BOOLEAN
        BY <1>1, <3>1, <3>2 DEF TypeOK
      <3>3. CASE f \in Fields /\ device' = put(device, f, Null) /\ draft' = draft /\ dashNewer' = FALSE
        <4>1. put(device, f, Null) \in [Fields -> Values \cup {Null}]
          BY <1>1, Puts DEF TypeOK, Setup
        <4> QED BY <1>1, <3>1, <3>3, <4>1 DEF TypeOK, Setup
      <3>4. CASE f \in Fields /\ dash[f] # Newer /\ adoptDeviceDashboard /\ dashNewer' = FALSE
        <4>1. dash[f] \in Values \cup {Null} /\ draft \in Setup /\ device \in Setup
          BY <1>1, <3>4 DEF TypeOK, HeldSetup
        <4>2. put(device, f, dash[f]) \in Setup
          BY <4>1, Puts DEF Setup
        <4>3. PICK v \in Values \cup {Null} : draft' = draft \/ draft' = put(draft, f, v)
          <5>1. orElse(draft[f], SimConfig) \in Values \cup {Null}
            BY <3>4, <4>1, ValuesAssumption DEF Setup, orElse, ValuesAssumption
          <5> QED BY <3>4, <4>1, <5>1 DEF adoptDeviceDashboard
        <4>4. put(draft, f, v) \in Setup
          BY <4>1, Puts DEF Setup
        <4> QED BY <3>1, <3>4, <4>1, <4>2, <4>3, <4>4 DEF adoptDeviceDashboard
      <3> QED BY <1>1, <2>1, <3>2, <3>3, <3>4 DEF readDashboard, readFails, TypeOK
    <2>2. CASE readDeviceConfig \/ handshake
      <3>1. PICK fs : /\ fs \subseteq {"deviceConfig", "dayMode", "sound"}
                      /\ adopt(fs) \/ UNCHANGED <<draft, device>>
        BY <2>2 DEF readDeviceConfig, handshake, readRest
      <3>2. /\ dashNewer' = dashNewer /\ reading' \subseteq reading
        BY <2>2 DEF readDeviceConfig, handshake, readRest
      <3>3. \A g \in fs \cap Fields : dash[g] \in Values
        BY <1>1, <3>1 DEF TypeOK, HeldSetup
      <3>4. CASE adopt(fs)
        BY <1>1, <3>2, <3>3, <3>4 DEF adopt, TypeOK, Setup
      <3>5. CASE UNCHANGED <<draft, device>>
        BY <1>1, <3>2, <3>5 DEF TypeOK
      <3> QED BY <3>1, <3>4, <3>5
    <2> QED BY <2>1, <2>2
  <1>4. TypeOK'
    BY <1>1, <1>2, <1>3 DEF TypeOK
  <1>5. ~(~Overlaps /\ sends)
    BY <1>1 DEF SendInv, CalmSend
  <1> QED BY <1>1, <1>2, <1>4, <1>5, SendLeftAlone

\* The answers of a new connection are awaited.
LEMMA OpensInv == ASSUME SendInv, linkOpens PROVE SendInv'
  <1>1. /\ UNCHANGED <<draft, device, sendState, dashNewer, snapshot, confirmed, steps, verifying,
                      dash, asked, edited, touched>>
        /\ connected' = TRUE /\ reading' \subseteq Answers /\ (Overlaps \/ ~sends)
    BY DEF linkOpens, storeVars, localVars, history, Answers, sends
  <1>2. TypeOK'
    BY <1>1 DEF SendInv, TypeOK
  <1> QED BY <1>1, <1>2, SendLeftAlone

\* A drop ends the send, unless it reads the dashboard back.
LEMMA DropsInv == ASSUME SendInv, linkDrops PROVE SendInv'
  <1>1. /\ TypeOK /\ StepsInv /\ ConfirmedIsOnDash
        /\ connected' = FALSE /\ reading' = {} /\ draft' = draft /\ touched' \in BOOLEAN
        /\ dashNewer' = IF forgets THEN FALSE ELSE dashNewer
    BY DEF SendInv, linkDrops, touches
  <1>2. ASSUME NEW s \in Setup PROVE put(s, "dashboard", Null) \in Setup
    BY Puts DEF Setup
  <1>3. CASE sends /\ ~verifying
    <2>1. /\ dash' \in {dash, written(Head(steps))}
          /\ \E result \in {confirmed, put(confirmed, "dashboard", Null)} : report("failed", result)
      BY <1>3 DEF linkDrops, obeyed, ignored, sends
    <2>2. dash' \in HeldSetup
      BY <1>1, <1>3, <2>1, Writes DEF TypeOK
    <2>3. PICK result \in Setup : report("failed", result)
      BY <1>1, <1>2, <2>1 DEF TypeOK
    <2> QED BY <1>1, <2>2, <2>3, Reports DEF TypeOK
  <1>4. CASE ~(sends /\ ~verifying)
    <2>1. /\ device' = IF forgets THEN put(device, "dashboard", Null) ELSE device
          /\ UNCHANGED <<dash, sendState, snapshot, confirmed, steps, verifying, asked, edited>>
      BY <1>4 DEF linkDrops, ignored, localVars, sends
    <2>2. device' \in Setup /\ dashNewer' \in BOOLEAN
      BY <1>1, <1>2, <2>1 DEF TypeOK
    <2>3. TypeOK'
      BY <1>1, <2>1, <2>2 DEF TypeOK
    <2>4. ~Overlaps /\ sends => device' = device /\ ~dashNewer'
      BY <1>1, <2>1 DEF SendInv, CalmSend, forgets
    <2> QED BY <1>1, <1>4, <2>1, <2>3, <2>4, SendLeftAlone
  <1> QED BY <1>3, <1>4

\* A reload ends the send, whose last write may have reached the dash.
LEMMA ReloadInv == ASSUME SendInv, reload PROVE SendInv'
  <1>1. /\ sendState' = "idle" /\ dashNewer' = FALSE /\ noLocals /\ touched' = FALSE
        /\ reading' = {} /\ connected' = FALSE /\ UNCHANGED <<draft, device>>
    BY DEF reload
  <1>2. TypeOK /\ StepsInv /\ ConfirmedIsOnDash
    BY DEF SendInv
  <1>3. dash' \in HeldSetup
    <2>1. CASE dash' = dash
      BY <1>2, <2>1 DEF TypeOK
    <2>2. CASE sends /\ dash' = written(Head(steps))
      BY <1>2, <2>2, Writes
    <2> QED BY <2>1, <2>2 DEF reload, ignored, obeyed, sends
  <1>4. Unknown \in Setup /\ <<>> \in Seq(Fields)
    BY DEF Unknown, Setup
  <1>5. TypeOK' /\ ~sends' /\ ~verifying'
    BY <1>1, <1>2, <1>3, <1>4 DEF TypeOK, noLocals, sends
  <1> QED BY <1>5, AtRest

\* The invariant holds at the start.
LEMMA InitSendInv == Init => SendInv
  <1> SUFFICES ASSUME Init PROVE SendInv
    OBVIOUS
  <1>1. /\ Unknown \in Setup /\ <<>> \in Seq(Fields) /\ SimConfig \in Values
        /\ [f \in Fields |-> SimConfig] \in Setup
    BY ValuesAssumption DEF Unknown, Setup, ValuesAssumption
  <1>2. device \in Setup /\ draft \in Setup /\ dash \in HeldSetup
    <2>1. device \in Setup
      BY <1>1 DEF Init
    <2>2. draft \in Setup
      BY <1>1, <2>1 DEF Init, Setup
    <2> QED BY <2>1, <2>2 DEF Init
  <1>3. TypeOK
    BY <1>1, <1>2 DEF Init, TypeOK
  <1>4. ~sends /\ ~verifying
    BY DEF Init, sends
  <1> QED BY <1>3, <1>4 DEF SendInv, StepsInv, ConfirmedIsOnDash, CalmSend, sends

\* Every step keeps the invariant: edits, sends and restores, writes answered, lost or
\* refused, reads, drops and reloads, and other tuners (sync.store.ts, send-setup.ts).
THEOREM SendSetupStepInv == SendInv /\ [Next]_vars => SendInv'
  <1> SUFFICES ASSUME SendInv, [Next]_vars PROVE SendInv'
    OBVIOUS
  <1>1. CASE UNCHANGED vars
    <2>1. TypeOK' /\ (sends => connected \/ verifying)
          /\ (~Overlaps /\ sends => reading = {} /\ ~dashNewer)
      BY <1>1 DEF vars, storeVars, localVars, history, SendInv, TypeOK, StepsInv, CalmSend
    <2> QED BY <1>1, <2>1, SendLeftAlone DEF vars, storeVars, localVars, history
  <1> QED BY <1>1, EditInv, OtherInv, TapInv, RestoreInv, DismissInv, WrittenInv, FailsInv,
             VerifiedInv, ReadInv, OpensInv, DropsInv, ReloadInv DEF Next, sendMoves

\* The invariant holds in every state.
THEOREM SendSetupInvariance == Spec => []SendInv
  <1> QED BY InitSendInv, SendSetupStepInv, PTL DEF Spec

\* Every state is well typed; the baseline and the draft never hold what only a newer
\* tuner can read.
THEOREM SendSetupTypes == Spec => []TypeOK
  <1>1. SendInv => TypeOK
    BY DEF SendInv
  <1> QED BY <1>1, SendSetupInvariance, PTL

\* What a running send has confirmed is on the dash while the rest is written, whatever
\* parts it sends, and whatever is read or edited meanwhile (send-setup.ts:163-169).
THEOREM SendSetupConfirmedIsOnDash == Spec => []ConfirmedIsOnDash
  <1>1. SendInv => ConfirmedIsOnDash
    BY DEF SendInv
  <1> QED BY <1>1, SendSetupInvariance, PTL

-----------------------------------------------------------------------------
(* What a step may not do.                                                 *)

\* The three ways a send ends: its last step is confirmed, a step fails, or the
\* page is reloaded.
LEMMA SendEndings ==
  ASSUME SendInv, [Next]_vars, sends, ~sends'
  PROVE  /\ draft' = draft
         /\ \/ /\ Len(steps) = 1 /\ device' = put(confirmed, Head(steps), snapshot[Head(steps)])
               /\ dash'[Head(steps)] = snapshot[Head(steps)]
               /\ \A g \in asked \ (Restart \cup Left) : dash'[g] = dash[g]
            \/ /\ sendState' # "idle" /\ dash' \in {dash, written(Head(steps))}
               /\ \/ device' = confirmed
                  \/ reading # {} /\ device' = put(confirmed, "dashboard", Null)
            \/ ~connected' /\ device' = device
  <1>1. \/ writeAcknowledged \/ writeFails \/ verified \/ notVerified \/ linkDrops \/ reload
    BY DEF Next, vars, storeVars, localVars, edit, otherTuner, undoAllChanges, tapSend,
           dismissSendOutcome, restoreBackup, sendMoves, readDashboard, readDeviceConfig, handshake,
           readRest, linkOpens, sends
  <1>2. TypeOK /\ StepsInv /\ ConfirmedIsOnDash
    BY DEF SendInv
  <1>3. ASSUME NEW f, f = Head(steps), confirm(f)
        PROVE  Len(steps) = 1 /\ device' = put(confirmed, f, snapshot[f])
    BY <1>3 DEF confirm, report, sends
  <1>4. CASE writeAcknowledged
    <2>1. Head(steps) # "dashboard" /\ dash' = written(Head(steps)) /\ confirm(Head(steps))
          /\ draft' = draft
      BY <1>4 DEF writeAcknowledged, obeyed, sends
    <2> QED BY <1>2, <1>3, <2>1, Writes
  <1>5. CASE writeFails
    BY <1>5 DEF writeFails, report, obeyed, ignored
  <1>6. CASE verified
    <2>1. /\ verifying /\ dash' = dash /\ draft' = draft /\ Head(steps) = "dashboard"
      BY <1>2, <1>6 DEF verified, ignored, StepsInv
    <2>2. CASE dash["dashboard"] = snapshot["dashboard"] /\ confirm("dashboard")
      BY <1>3, <2>1, <2>2
    <2>3. CASE report("refused", confirmed)
      BY <2>1, <2>3 DEF report
    <2> QED BY <1>6, <2>2, <2>3 DEF verified
  <1>7. CASE notVerified
    BY <1>7 DEF notVerified, report, ignored
  <1>8. CASE linkDrops
    BY <1>8 DEF linkDrops, report, obeyed, ignored, forgets, sends
  <1>9. CASE reload
    BY <1>9 DEF reload
  <1> QED BY <1>1, <1>4, <1>5, <1>6, <1>7, <1>8, <1>9

\* A send restarts the dash once, and last, however many of the parts that restart it
\* were changed (send-setup.ts:139-144).
THEOREM SendSetupOneRestart == Spec => OneRestart
  <1>1. ASSUME SendInv, [Next]_vars, sends, connected, NEW f \in Fields \cap Restart, dash'[f] # dash[f]
        PROVE  sendState' # "sending"
    <2>1. CASE writeAcknowledged
      <3>1. TypeOK /\ StepsInv /\ ConfirmedIsOnDash
        BY <1>1 DEF SendInv
      <3>2. f # "brightness" /\ f # "dashboard"
        BY <1>1 DEF Restart
      <3>3. dash' \in {dash, written(Head(steps))}
        BY <2>1 DEF writeAcknowledged, obeyed, ignored
      <3>4. f = Head(steps)
        BY <1>1, <3>1, <3>2, <3>3, Writes
      <3>5. Len(steps) = 1
        BY <1>1, <3>1, <3>4, HeadStep DEF StepsInv
      <3>6. confirm(f)
        BY <2>1, <3>2, <3>4 DEF writeAcknowledged
      <3> QED BY <3>5, <3>6 DEF confirm, report
    <2>2. CASE ~writeAcknowledged
      BY <1>1, <2>2 DEF Next, vars, storeVars, localVars, edit, otherTuner, undoAllChanges, tapSend,
           dismissSendOutcome, restoreBackup, sendMoves, readDashboard, readDeviceConfig, handshake,
           readRest, linkOpens, sends, writeFails, verified, notVerified, linkDrops, reload, report, ignored
    <2> QED BY <2>1, <2>2
  <1>2. SendInv /\ [Next]_vars =>
          [\A f \in Fields \cap Restart :
             (sends /\ connected /\ dash'[f] # dash[f]) => sendState' # "sending"]_vars
    BY <1>1
  <1> QED BY <1>2, SendSetupInvariance, PTL DEF Spec, OneRestart

\* A send that succeeds leaves on the dash what it was given, the brightness the sound
\* carries included, and off the list (send-setup.ts:70-73,163-169).
THEOREM SendSetupSentClears == Spec => SentClears
  <1>1. ASSUME SendInv, [Next]_vars, sends, sendState' = "idle", connected',
               NEW f \in (asked \ Restart) \cup {Head(steps)}
        PROVE  dash'[f] = snapshot[f] /\ device'[f] = snapshot[f]
    <2>1. TypeOK /\ StepsInv /\ ConfirmedIsOnDash /\ ~sends'
      BY <1>1 DEF SendInv, sends
    <2>2. /\ Len(steps) = 1 /\ device' = put(confirmed, Head(steps), snapshot[Head(steps)])
          /\ dash'[Head(steps)] = snapshot[Head(steps)]
          /\ \A g \in asked \ (Restart \cup Left) : dash'[g] = dash[g]
      BY <1>1, <2>1, SendEndings
    <2>3. Left = {Head(steps)} /\ Head(steps) \in Fields
      BY <1>1, <2>1, <2>2, HeadStep DEF Left
    <2>4. CASE f = Head(steps)
      BY <2>2, <2>3, <2>4 DEF put
    <2>5. CASE f # Head(steps)
      <3>1. f \in asked \ (Restart \cup Left) /\ f \in Fields
        BY <1>1, <2>1, <2>3, <2>5 DEF TypeOK
      <3>2. device'[f] = confirmed[f]
        BY <2>2, <2>5, <3>1 DEF put
      <3> QED BY <1>1, <2>1, <2>2, <3>1, <3>2, ConfirmedParts
    <2> QED BY <2>4, <2>5
  <1>2. SendInv /\ [Next]_vars =>
          [(sends /\ sendState' = "idle" /\ connected') =>
             \A f \in (asked \ Restart) \cup {Head(steps)} :
               /\ dash'[f] = snapshot[f]
               /\ draft'[f] = snapshot[f] => draft'[f] = device'[f]]_vars
    BY <1>1
  <1> QED BY <1>2, SendSetupInvariance, PTL DEF Spec, SentClears

\* The answers of a connection replace no listed change, but for the demo layout,
\* with sends that overlap them too (draft.ts:49-85).
THEOREM SendSetupAnswersKeepChanges == Spec => AnswersKeepChanges
  <1>1. ASSUME SendInv, [Next]_vars, reading' # reading, NEW f \in Fields, unsent(f)
        PROVE  \/ draft'[f] = draft[f]
               \/ f = "dashboard" /\ draft[f] = SimConfig /\ device[f] = Null
    <2>1. /\ draft[f] # Null /\ draft[f] # device[f]
          /\ draft \in Setup /\ TypeOK
      BY <1>1 DEF unsent, differs, SendInv, TypeOK
    <2>2. CASE readDashboard
      <3>1. CASE "dashboard" \in Fields /\ adoptDeviceDashboard
        <4>1. CASE f = "dashboard"
          BY <2>1, <3>1, <4>1 DEF adoptDeviceDashboard, orElse, put
        <4>2. CASE f # "dashboard"
          <5>1. \A v : put(draft, "dashboard", v)[f] = draft[f]
            BY <1>1, <4>2 DEF put
          <5> QED BY <3>1, <5>1 DEF adoptDeviceDashboard
        <4> QED BY <4>1, <4>2
      <3>2. CASE draft' = draft
        BY <3>2
      <3> QED BY <2>2, <3>1, <3>2 DEF readDashboard
    <2>3. CASE readDeviceConfig \/ handshake
      <3>1. PICK fs : adopt(fs) \/ draft' = draft
        BY <2>3 DEF readDeviceConfig, handshake, readRest
      <3> QED BY <1>1, <2>1, <3>1 DEF adopt, untouched
    <2>4. CASE ~(readDashboard \/ readDeviceConfig \/ handshake)
      <3>1. draft' = draft
        BY <1>1, <2>4 DEF Next, vars, storeVars, localVars, edit, otherTuner, undoAllChanges, tapSend,
           dismissSendOutcome, restoreBackup, sendMoves, linkOpens, linkDrops, reload,
           writeAcknowledged, writeFails, verified, notVerified
      <3> QED BY <3>1
    <2> QED BY <2>2, <2>3, <2>4
  <1>2. SendInv /\ [Next]_vars =>
          [reading' # reading =>
             \A f \in Fields :
               unsent(f) => \/ draft'[f] = draft[f]
                            \/ f = "dashboard" /\ draft[f] = SimConfig /\ device[f] = Null]_vars
    BY <1>1
  <1> QED BY <1>2, SendSetupInvariance, PTL DEF Spec, AnswersKeepChanges

\* Where no send overlaps the answers of a connection, a change made while one runs is
\* still listed when it ends, however it ends, unless the dash holds it
\* (send-actions.ts:69-82).
THEOREM SendSetupEditStaysUnsent == ASSUME ~Overlaps PROVE Spec => EditStaysUnsent
  <1>1. ASSUME SendInv, [Next]_vars, sends, sendState' # "sending", NEW f \in edited, unsent(f),
               draft[f] # dash'[f]
        PROVE  draft'[f] # device'[f]
    <2>1. TypeOK /\ StepsInv /\ ConfirmedIsOnDash /\ CalmSend /\ ~sends' /\ f \in Fields
      BY <1>1 DEF SendInv, sends, TypeOK
    <2>2. /\ reading = {} /\ draft[f] # device[f] /\ draft' = draft
          /\ confirmed[f] = device[f] \/ f \in asked \ (Restart \cup Left)
      BY <1>1, <2>1, SendEndings DEF CalmSend, unsent, differs
    <2>3. ASSUME f \in asked \ (Restart \cup Left)
          PROVE  confirmed[f] = dash[f] /\ written(Head(steps))[f] = dash[f]
      BY <1>1, <2>1, <2>3, ConfirmedParts, Writes
    <2>4. CASE /\ device' = put(confirmed, Head(steps), snapshot[Head(steps)])
               /\ dash'[Head(steps)] = snapshot[Head(steps)]
               /\ \A g \in asked \ (Restart \cup Left) : dash'[g] = dash[g]
      BY <1>1, <2>1, <2>2, <2>3, <2>4 DEF put
    <2>5. CASE device' = confirmed /\ dash' \in {dash, written(Head(steps))}
      BY <1>1, <2>2, <2>3, <2>5
    <2>6. CASE device' = device
      BY <2>2, <2>6
    <2> QED BY <1>1, <2>1, <2>2, <2>4, <2>5, <2>6, SendEndings
  <1>2. SendInv /\ [Next]_vars =>
          [(sends /\ sendState' # "sending") =>
             \A f \in edited : (unsent(f) /\ draft[f] # dash'[f]) => draft'[f] # device'[f]]_vars
    BY <1>1
  <1> QED BY <1>2, SendSetupInvariance, PTL DEF Spec, EditStaysUnsent

\* The setup of a newer tuner, once the dashboard was asked for on this connection: the
\* tuner knows of it, or takes the dashboard of the dash for unknown.
NewerInv ==
  (connected /\ "dashboard" \notin reading /\ newerDash) =>
     /\ dashNewer \/ device["dashboard"] = Null
     /\ sends => confirmed["dashboard"] = Null

\* What a step of the send makes of the dashboard of the dash.
LEMMA DashboardWritten ==
  ASSUME TypeOK, NEW f \in Fields,
         "dashboard" \in Fields, written(f)["dashboard"] = Newer
  PROVE  f # "dashboard" /\ dash["dashboard"] = Newer
  <1>1. snapshot["dashboard"] # Newer
    BY ValuesAssumption DEF TypeOK, Setup
  <1> QED BY <1>1 DEF written, put

\* A step of a send that stays connected keeps it: what it confirms of the dashboard is
\* what the dash holds, and its result is the baseline.
LEMMA NewerSendMoves ==
  ASSUME SendInv, NewerInv, sends, sendMoves, connected', "dashboard" \notin reading', newerDash'
  PROVE  /\ dashNewer' \/ device'["dashboard"] = Null
         /\ sends' => confirmed'["dashboard"] = Null
  <1>1. /\ TypeOK /\ StepsInv /\ Head(steps) \in Fields
        /\ UNCHANGED <<reading, connected, dashNewer>>
    BY HeadStep DEF SendInv, Left, sendMoves, writeAcknowledged, writeFails, verified, notVerified
  <1>2. "dashboard" \in Fields /\ dash'["dashboard"] = Newer
    BY ValuesAssumption DEF newerDash, at
  <1>3. dash' \in {dash, written(Head(steps))}
    BY DEF sendMoves, writeAcknowledged, writeFails, verified, notVerified, obeyed, ignored
  <1>4. newerDash
    BY <1>1, <1>2, <1>3, DashboardWritten DEF newerDash, at
  <1>5. confirmed["dashboard"] = Null /\ (dashNewer \/ device["dashboard"] = Null)
    BY <1>1, <1>4 DEF NewerInv
  <1>6. ASSUME NEW f \in Fields, f # "dashboard", confirm(f)
        PROVE  /\ device'["dashboard"] \in {device["dashboard"], Null}
               /\ confirmed'["dashboard"] = Null \/ ~sends'
    <2>1. put(confirmed, f, snapshot[f])["dashboard"] = Null
      BY <1>2, <1>5, <1>6 DEF put
    <2> QED BY <1>6, <2>1 DEF confirm, report, sends
  <1>7. ASSUME NEW outcome \in {"refused", "failed"}, report(outcome, confirmed)
        PROVE  device'["dashboard"] = Null /\ ~sends'
    BY <1>5, <1>7 DEF report, sends
  <1>8. CASE writeAcknowledged
    <2>1. CASE Head(steps) = "dashboard"
      BY <1>1, <1>5, <1>8, <2>1 DEF writeAcknowledged
    <2>2. CASE Head(steps) # "dashboard"
      BY <1>1, <1>5, <1>6, <1>8, <2>2 DEF writeAcknowledged
    <2> QED BY <2>1, <2>2
  <1>9. CASE writeFails
    BY <1>7, <1>9 DEF writeFails
  <1>10. CASE verified
    <2>1. dash["dashboard"] # snapshot["dashboard"]
      BY <1>1, <1>2, <1>4, ValuesAssumption DEF newerDash, at, TypeOK, Setup
    <2> QED BY <1>7, <1>10, <2>1 DEF verified
  <1>11. CASE notVerified
    BY <1>7, <1>11 DEF notVerified
  <1> QED BY <1>8, <1>9, <1>10, <1>11 DEF sendMoves

\* An answer of the connection keeps it: the dashboard is read as newer, read as one this
\* tuner knows, or not read and then unknown (useDashSync.ts:13-43).
LEMMA NewerReads ==
  ASSUME SendInv, CalmSend, NewerInv, readDashboard \/ readDeviceConfig \/ handshake,
         "dashboard" \notin reading', newerDash'
  PROVE  /\ dashNewer' \/ device'["dashboard"] = Null
         /\ ~sends'
  <1>1. TypeOK /\ connected /\ reading # {} /\ UNCHANGED <<dash, sendState>>
    BY DEF SendInv, readDashboard, readDeviceConfig, handshake, readRest, localVars
  <1>2. /\ ~sends /\ ~sends'
    BY <1>1 DEF CalmSend, sends
  <1>3. "dashboard" \in Fields /\ dash["dashboard"] = Newer /\ newerDash
    BY <1>1, ValuesAssumption DEF newerDash, at
  <1>4. CASE readDashboard
    <2>1. dashNewer' = TRUE \/ device' = put(device, "dashboard", Null)
      BY <1>3, <1>4 DEF readDashboard, readFails
    <2> QED BY <1>2, <1>3, <2>1 DEF put
  <1>5. CASE readDeviceConfig \/ handshake
    <2>1. PICK fs : /\ fs \subseteq {"deviceConfig", "dayMode", "sound"}
                    /\ adopt(fs) \/ UNCHANGED <<draft, device>>
      BY <1>5 DEF readDeviceConfig, handshake, readRest
    <2>2. device'["dashboard"] = device["dashboard"]
      BY <1>3, <2>1 DEF adopt
    <2>3. "dashboard" \notin reading /\ dashNewer' = dashNewer
      BY <1>5 DEF readDeviceConfig, handshake, readRest
    <2> QED BY <1>1, <1>2, <1>3, <2>2, <2>3 DEF NewerInv
  <1> QED BY <1>4, <1>5

\* A send that begins takes over what the baseline says of the dashboard.
LEMMA NewerBegins ==
  ASSUME NewerInv, ~sends, connected, "dashboard" \notin reading, newerDash,
         NEW snap, sendToDash(snap), UNCHANGED dashNewer
  PROVE  /\ dashNewer' \/ device'["dashboard"] = Null
         /\ sends' => confirmed'["dashboard"] = Null
  <1>1. dashNewer \/ device["dashboard"] = Null
    BY DEF NewerInv
  <1>2. CASE refuse
    BY <1>1, <1>2 DEF refuse, sends
  <1>3. CASE begin(snap) /\ ~dashNewer
    BY <1>1, <1>3 DEF begin, sends
  <1> QED BY <1>2, <1>3 DEF sendToDash

\* Every step keeps it, where no send overlaps the answers of a connection.
LEMMA NewerStep ==
  ASSUME SendInv, CalmSend, NewerInv, [Next]_vars
  PROVE  NewerInv'
  <1>1. CASE \/ UNCHANGED vars
             \/ \E f \in Fields, v \in Values : edit(f, v)
             \/ undoAllChanges \/ dismissSendOutcome
    <2>1. /\ UNCHANGED <<device, dashNewer, confirmed, reading, connected, dash>>
          /\ sends' => sends
      BY <1>1 DEF vars, storeVars, localVars, edit, undoAllChanges, dismissSendOutcome, sends
    <2> QED BY <2>1 DEF NewerInv, newerDash
  <1>2. CASE \E f \in Fields, v \in Values \cup {Newer} : otherTuner(f, v)
    BY <1>2 DEF otherTuner, NewerInv
  <1>3. CASE tapSend
    <2>1. /\ ~sends /\ sendToDash(draft) /\ UNCHANGED <<dashNewer, reading, connected, dash>>
      BY <1>3 DEF tapSend, sends
    <2> QED BY <2>1, NewerBegins DEF NewerInv, newerDash
  <1>4. CASE \E file \in [Fields \cap {"dashboard", "car"} -> Values] : restoreBackup(file)
    <2>1. PICK file \in [Fields \cap {"dashboard", "car"} -> Values] : restoreBackup(file)
      BY <1>4
    <2>2. UNCHANGED <<dashNewer, reading, connected, dash>>
      BY <2>1 DEF restoreBackup
    <2>3. CASE sends
      BY <2>1, <2>2, <2>3 DEF restoreBackup, sends, localVars, NewerInv, newerDash
    <2>4. CASE ~sends
      <3>1. PICK snap : sendToDash(snap)
        BY <2>1, <2>4 DEF restoreBackup, sends
      <3> QED BY <2>2, <2>4, <3>1, NewerBegins DEF NewerInv, newerDash
    <2> QED BY <2>3, <2>4
  <1>5. CASE sendMoves
    <2>1. sends
      BY <1>5 DEF sendMoves, writeAcknowledged, writeFails, verified, notVerified, sends, SendInv, StepsInv
    <2> QED BY <1>5, <2>1, NewerSendMoves DEF NewerInv
  <1>6. CASE readDashboard \/ readDeviceConfig \/ handshake
    BY <1>6, NewerReads DEF NewerInv
  <1>7. CASE linkOpens
    <2>1. "dashboard" \in reading'
      BY <1>7 DEF linkOpens
    <2> QED BY <2>1 DEF NewerInv
  <1>8. CASE linkDrops \/ reload
    BY <1>8 DEF linkDrops, reload, NewerInv
  <1> QED BY <1>1, <1>2, <1>3, <1>4, <1>5, <1>6, <1>7, <1>8 DEF Next

\* There, a dash with a newer setup is written nothing while the tuner knows of it, and its
\* dashboard is written over only by a send that takes the dashboard for unknown, which is
\* what a read that failed leaves (useDashSync.ts:30-37, send-actions.ts:72-77).
THEOREM SendSetupNewerDashKept == ASSUME ~Overlaps PROVE Spec => NewerDashKept
  <1>1. Init => NewerInv
    BY DEF Init, NewerInv
  <1>2. SendInv /\ NewerInv /\ [Next]_vars => NewerInv'
    BY NewerStep DEF SendInv
  <1>3. Spec => []NewerInv
    BY <1>1, <1>2, SendSetupInvariance, PTL DEF Spec
  <1>4. ASSUME SendInv, NewerInv, [Next]_vars, connected, dash' # dash
        PROVE  ~dashNewer /\ (newerDash => confirmed["dashboard"] = Null)
    <2>1. sends
      BY <1>4 DEF Next, vars, storeVars, localVars, edit, otherTuner, undoAllChanges, tapSend,
           dismissSendOutcome, restoreBackup, sendMoves, readDashboard, readDeviceConfig, handshake,
           readRest, linkOpens, linkDrops, reload, writeAcknowledged, writeFails, verified, notVerified,
           ignored, sends
    <2>2. CalmSend
      BY <1>4 DEF SendInv
    <2> QED BY <1>4, <2>1, <2>2 DEF CalmSend, NewerInv
  <1>5. SendInv /\ NewerInv /\ [Next]_vars =>
          [connected => /\ dashNewer => dash' = dash
                        /\ newerDash /\ ~newerDash' => confirmed["dashboard"] = Null]_vars
    BY <1>4 DEF newerDash
  <1> QED BY <1>3, <1>5, SendSetupInvariance, PTL DEF Spec, NewerDashKept
=============================================================================
