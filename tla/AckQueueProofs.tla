--------------------------- MODULE AckQueueProofs ---------------------------
(***************************************************************************)
(* Proofs about AckQueue: its inductive invariant, the safety properties   *)
(* that follow from it, and that over Wi-Fi it implements CommandChannel.  *)
(***************************************************************************)
EXTENDS AckQueue, FiniteSetTheorems, TLAPS

Outcomes == Settled \cup {"none", "waiting"}

(***************************************************************************)
(* Sequences seen as bags of indices.                                      *)
(***************************************************************************)
\* What Append adds to a line (pendingSends.push).
LEMMA AppendElements ==
  ASSUME NEW S, NEW s \in Seq(S), NEW e \in S
  PROVE  /\ Append(s, e) \in Seq(S)
         /\ Len(Append(s, e)) = Len(s) + 1
         /\ \A i \in 1..Len(s) : Append(s, e)[i] = s[i]
         /\ Append(s, e)[Len(s) + 1] = e
         /\ Append(s, e) # <<>>
  OBVIOUS

\* What Tail and Head give of a line that is not empty (pendingSends.shift()).
LEMMA TailElements ==
  ASSUME NEW S, NEW s \in Seq(S), s # <<>>
  PROVE  /\ Len(s) \in Nat \ {0}
         /\ Tail(s) \in Seq(S)
         /\ Len(Tail(s)) = Len(s) - 1
         /\ \A i \in 1..Len(Tail(s)) : Tail(s)[i] = s[i + 1]
         /\ Head(s) = s[1]
         /\ Head(s) \in S
  OBVIOUS

\* A line is empty exactly when its length is 0.
LEMMA EmptyLine ==
  ASSUME NEW S, NEW s \in Seq(S)
  PROVE  s = <<>> <=> Len(s) = 0
  OBVIOUS

(***************************************************************************)
(* What the state that a handler leaves to drainQueued must satisfy.       *)
(***************************************************************************)
InWrites(writes, c) == \E i \in 1..Len(writes) : writes[i] = c

DrainPre(out, timers, writes) ==
  /\ out \in [Commands -> Outcomes]
  /\ timers \in SUBSET Commands
  /\ writes \in Seq(Commands)
  /\ \A c \in timers : InWrites(writes, c)
  /\ ~streamBroken => timers = {}
  /\ link = "closed" => writes = <<>>
  /\ LinkKind = "wifi" => ~streamBroken
  /\ \A c \in Commands :
       /\ out[c] = "none" => seqOf[c] = 0
       /\ InLine(c) => out[c] = "waiting" /\ seqOf[c] = 0
       /\ c \in timers => out[c] = "waiting" /\ seqOf[c] # 0
       /\ out[c] = "waiting" => c \in timers \/ InLine(c)
       /\ out[c] \in Refusals => seqOf[c] = 0
       /\ out[c] \in Replies => seqOf[c] # 0
       /\ InWrites(writes, c) => seqOf[c] # 0

\* takeSeq never gives 0, which stands for a command that was not sent.
LEMMA TakeSeqRange == TypeOK => takeSeq \in 1..SeqMax
  BY BoundsAssumption DEF TypeOK, takeSeq

\* Dispatching the head of the line takes that command, and no other, out of it.
LEMMA DispatchLine ==
  ASSUME TypeOK, NEW c \in Commands, NEW out, NEW timers, NEW writes,
         DrainPre(out, timers, writes), link # "closed",
         dispatch(c, out, timers, writes),
         pendingSends' = Tail(pendingSends) /\ pendingSends # <<>> /\ c = Head(pendingSends),
         LineInv
  PROVE  /\ \A d \in Commands : InLine(d)' <=> (InLine(d) /\ d # c)
         /\ LineInv'
         /\ pendingSends' \in Seq(Commands)
  <1>1. /\ Len(pendingSends) \in Nat \ {0}
        /\ pendingSends' \in Seq(Commands)
        /\ Len(pendingSends') = Len(pendingSends) - 1
        /\ \A i \in 1..Len(pendingSends') : pendingSends'[i] = pendingSends[i + 1]
        /\ c = pendingSends[1]
    BY TailElements DEF TypeOK
  <1>2. ASSUME NEW d \in Commands
        PROVE  InLine(d)' <=> (InLine(d) /\ d # c)
    <2>1. ASSUME InLine(d)' PROVE InLine(d) /\ d # c
      <3>1. PICK i \in 1..Len(pendingSends') : pendingSends'[i] = d
        BY <2>1 DEF InLine
      <3>2. i + 1 \in 1..Len(pendingSends) /\ 1 \in 1..Len(pendingSends) /\ pendingSends[i + 1] = d
        BY <1>1, <3>1
      <3> QED BY <1>1, <3>2 DEF InLine, LineInv
    <2>2. ASSUME InLine(d), d # c PROVE InLine(d)'
      <3>1. PICK i \in 1..Len(pendingSends) : pendingSends[i] = d
        BY <2>2 DEF InLine
      <3>2. i - 1 \in 1..Len(pendingSends') /\ pendingSends'[i - 1] = d
        BY <1>1, <3>1, <2>2
      <3> QED BY <3>2 DEF InLine
    <2> QED BY <2>1, <2>2
  <1>3. LineInv'
    BY <1>1 DEF LineInv
  <1> QED BY <1>1, <1>2, <1>3

\* The state dispatch leaves, for a command that was not sent before; line
\* membership is what the caller of the lemma has established for it.
LEMMA DispatchPost ==
  ASSUME TypeOK, NEW c \in Commands, NEW out, NEW timers, NEW writes,
         DrainPre(out, timers, writes), link # "closed",
         dispatch(c, out, timers, writes), seqOf[c] = 0,
         \A d \in Commands : InLine(d)' <=> (InLine(d) /\ d # c),
         UNCHANGED <<link, streamBroken>>
  PROVE  /\ pendingAck' = c
         /\ c \in ackTimers'
         /\ lastSeq' \in 0..SeqMax
         /\ outcome' \in [Commands -> Outcomes]
         /\ seqOf' \in [Commands -> 0..SeqMax]
         /\ ackTimers' \in SUBSET Commands
         /\ outbound' \in Seq(Commands)
         /\ StreamInv'
         /\ OutcomeInv'
         /\ \A d \in Commands : InOutbound(d)' => seqOf'[d] # 0
         /\ \A d \in Commands : seqOf[d] # 0 => seqOf'[d] # 0
  <1>1. takeSeq \in 1..SeqMax
    BY TakeSeqRange
  <1>2. /\ outbound' = Append(writes, c)
        /\ outbound' \in Seq(Commands)
        /\ Len(outbound') = Len(writes) + 1
        /\ \A i \in 1..Len(writes) : outbound'[i] = writes[i]
        /\ outbound'[Len(writes) + 1] = c
        /\ Len(writes) \in Nat
    BY AppendElements DEF dispatch, DrainPre
  <1>3. \A d \in Commands : InOutbound(d)' <=> (InWrites(writes, d) \/ d = c)
    BY <1>2 DEF InOutbound, InWrites
  <1>4. /\ lastSeq' = takeSeq
        /\ seqOf' = [seqOf EXCEPT ![c] = takeSeq]
        /\ outcome' = [out EXCEPT ![c] = "waiting"]
        /\ pendingAck' = c
        /\ ackTimers' = timers \cup {c}
    BY DEF dispatch
  <1>5. StreamInv'
    BY <1>2, <1>3, <1>4 DEF StreamInv, DrainPre
  <1>6. /\ seqOf' \in [Commands -> 0..SeqMax]
        /\ \A d \in Commands : seqOf'[d] = IF d = c THEN takeSeq ELSE seqOf[d]
        /\ outcome' \in [Commands -> Outcomes]
        /\ \A d \in Commands : outcome'[d] = IF d = c THEN "waiting" ELSE out[d]
    BY <1>1, <1>4 DEF TypeOK, DrainPre, Outcomes
  <1>7. ASSUME NEW d \in Commands
        PROVE  /\ outcome'[d] = "none" => seqOf'[d] = 0
               /\ InLine(d)' => outcome'[d] = "waiting" /\ seqOf'[d] = 0
               /\ d \in ackTimers' => outcome'[d] = "waiting" /\ seqOf'[d] # 0
               /\ outcome'[d] = "waiting" => d \in ackTimers' \/ InLine(d)'
               /\ outcome'[d] \in Refusals => seqOf'[d] = 0
               /\ outcome'[d] \in Replies => seqOf'[d] # 0
               /\ InOutbound(d)' => seqOf'[d] # 0
               /\ seqOf[d] # 0 => seqOf'[d] # 0
    BY <1>1, <1>3, <1>4, <1>6 DEF DrainPre, Refusals, Replies
  <1>8. OutcomeInv'
    BY <1>7 DEF OutcomeInv
  <1> QED BY <1>1, <1>2, <1>4, <1>5, <1>6, <1>7, <1>8 DEF DrainPre

\* Failing the line settles the calls that wait in it and no other.
LEMMA QueueFailedPost ==
  ASSUME NEW out \in [Commands -> Outcomes], NEW reason \in Outcomes
  PROVE  /\ QueueFailed(out, reason) \in [Commands -> Outcomes]
         /\ \A d \in Commands :
              QueueFailed(out, reason)[d] = IF InLine(d) THEN reason ELSE out[d]
  BY DEF QueueFailed

\* drainQueued re-establishes every conjunct but the two about the wire.
LEMMA DrainPost ==
  ASSUME TypeOK, LineInv, WakeInv, NEW out, NEW timers, NEW writes,
         DrainPre(out, timers, writes), drainQueued(out, timers, writes),
         UNCHANGED <<link, streamBroken>>,
         staleAckDiscards' = 0, staleAckFlushTimer' = FALSE
  PROVE  /\ pendingAck' \in Commands \cup {NoCmd}
         /\ pendingSends' \in Seq(Commands)
         /\ lastSeq' \in 0..SeqMax
         /\ outcome' \in [Commands -> Outcomes]
         /\ seqOf' \in [Commands -> 0..SeqMax]
         /\ ackTimers' \in SUBSET Commands
         /\ outbound' \in Seq(Commands)
         /\ PendingInv' /\ StreamInv' /\ OutcomeInv' /\ LineInv' /\ WakeInv'
         /\ \A d \in Commands : InOutbound(d)' => seqOf'[d] # 0
         /\ \A d \in Commands : seqOf[d] # 0 => seqOf'[d] # 0
  <1>1. CASE pendingSends # <<>> /\ canSend
    <2>. DEFINE c == Head(pendingSends)
    <2>1. /\ dispatch(c, out, timers, writes)
          /\ pendingSends' = Tail(pendingSends)
      BY <1>1 DEF drainQueued
    <2>2. link # "closed"
      BY <1>1 DEF canSend
    <2>3. /\ c \in Commands /\ c = pendingSends[1]
          /\ 1 \in 1..Len(pendingSends)
      BY <1>1, TailElements DEF TypeOK
    <2>4. seqOf[c] = 0
      BY <2>3 DEF DrainPre, InLine
    <2>5. /\ \A d \in Commands : InLine(d)' <=> (InLine(d) /\ d # c)
          /\ LineInv'
          /\ pendingSends' \in Seq(Commands)
      BY <1>1, <2>1, <2>2, <2>3, DispatchLine
    <2>6. /\ pendingAck' = c
          /\ c \in ackTimers'
          /\ lastSeq' \in 0..SeqMax
          /\ outcome' \in [Commands -> Outcomes]
          /\ seqOf' \in [Commands -> 0..SeqMax]
          /\ ackTimers' \in SUBSET Commands
          /\ outbound' \in Seq(Commands)
          /\ StreamInv'
          /\ OutcomeInv'
          /\ \A d \in Commands : InOutbound(d)' => seqOf'[d] # 0
          /\ \A d \in Commands : seqOf[d] # 0 => seqOf'[d] # 0
      BY <2>1, <2>2, <2>3, <2>4, <2>5, DispatchPost
    <2>7. PendingInv' /\ WakeInv'
      BY <1>1, <2>3, <2>6, CommandsAssumption DEF PendingInv, WakeInv, canSend
    <2> QED BY <2>3, <2>5, <2>6, <2>7
  <1>2. CASE ~(pendingSends # <<>> /\ canSend)
    <2>1. /\ outcome' = QueueFailed(out, "not_connected")
          /\ pendingSends' = <<>>
          /\ pendingAck' = NoCmd
          /\ ackTimers' = timers
          /\ outbound' = writes
          /\ lastSeq' = lastSeq /\ seqOf' = seqOf
      BY <1>2 DEF drainQueued
    <2>2. /\ outcome' \in [Commands -> Outcomes]
          /\ \A d \in Commands :
               outcome'[d] = IF InLine(d) THEN "not_connected" ELSE out[d]
      BY <2>1, QueueFailedPost DEF DrainPre, Outcomes, Settled, Refusals
    <2>3. /\ \A d \in Commands : ~InLine(d)'
          /\ pendingSends' \in Seq(Commands)
      BY <2>1 DEF InLine
    <2>4. \A d \in Commands : InOutbound(d)' <=> InWrites(writes, d)
      BY <2>1 DEF InOutbound, InWrites
    <2>5. OutcomeInv'
      BY <2>1, <2>2, <2>3 DEF OutcomeInv, DrainPre, Refusals, Replies
    <2>6. StreamInv'
      BY <2>1, <2>4 DEF StreamInv, DrainPre
    <2>7. PendingInv' /\ WakeInv' /\ LineInv'
      BY <2>1 DEF PendingInv, WakeInv, LineInv
    <2> QED BY <2>1, <2>2, <2>3, <2>4, <2>5, <2>6, <2>7 DEF TypeOK, DrainPre
  <1> QED BY <1>1, <1>2

-----------------------------------------------------------------------------
(***************************************************************************)
(* Each action preserves the invariant.                                    *)
(***************************************************************************)
\* A channel that was just created satisfies the invariant.
THEOREM InitIInv == Init => IInv
  <1>. SUFFICES ASSUME Init PROVE IInv
    OBVIOUS
  <1>1. TypeOK
    <2>1. /\ 0 \in 0..SeqMax
          /\ <<>> \in Seq(Commands)
      BY BoundsAssumption
    <2> QED BY <2>1 DEF Init, TypeOK, LinkStates
  <1>2. \A c \in Commands : ~InLine(c) /\ ~InOutbound(c)
    BY DEF Init, InLine, InOutbound
  <1>3. PendingInv /\ StreamInv /\ LineInv /\ WakeInv
    BY DEF Init, PendingInv, StreamInv, LineInv, WakeInv
  <1>4. OutcomeInv /\ SentInv
    BY <1>2 DEF Init, OutcomeInv, SentInv, Refusals, Replies
  <1> QED BY <1>1, <1>3, <1>4 DEF IInv

\* With no timer but those of rejecting writes, drainQueued may run at once.
LEMMA IdleDrainPre ==
  ASSUME IInv, pendingAck = NoCmd
  PROVE  DrainPre(outcome, ackTimers, outbound)
  <1>1. \A c \in Commands : InWrites(outbound, c) <=> InOutbound(c)
    BY DEF InWrites, InOutbound
  <1>2. \A c \in ackTimers : c \in Commands /\ InOutbound(c)
    BY CommandsAssumption DEF IInv, TypeOK, StreamInv
  <1>3. ~streamBroken => ackTimers = {}
    BY <1>2, CommandsAssumption DEF IInv, StreamInv
  <1>4. link = "closed" => outbound = <<>>
    BY DEF IInv, StreamInv
  <1>5. LinkKind = "wifi" => ~streamBroken
    BY DEF IInv, StreamInv
  <1> QED
    BY <1>1, <1>2, <1>3, <1>4, <1>5
    DEF DrainPre, IInv, TypeOK, OutcomeInv, SentInv, Outcomes

\* A handler that ends in drainQueued from such a state preserves IInv.
LEMMA DrainStep ==
  ASSUME IInv, NEW out, NEW timers, NEW writes,
         DrainPre(out, timers, writes), drainQueued(out, timers, writes),
         UNCHANGED <<link, streamBroken>>,
         staleAckDiscards' = 0, staleAckFlushTimer' = FALSE,
         wire' \in SUBSET Commands, \A d \in wire' : d \in wire \/ InOutbound(d),
         answeredBy' \in [Commands -> Commands \cup {NoCmd}], forgotten' \in BOOLEAN
  PROVE  IInv'
  <1>1. TypeOK /\ LineInv /\ WakeInv
    BY DEF IInv
  <1>2. /\ pendingAck' \in Commands \cup {NoCmd}
        /\ pendingSends' \in Seq(Commands)
        /\ lastSeq' \in 0..SeqMax
        /\ outcome' \in [Commands -> Outcomes]
        /\ seqOf' \in [Commands -> 0..SeqMax]
        /\ ackTimers' \in SUBSET Commands
        /\ outbound' \in Seq(Commands)
        /\ PendingInv' /\ StreamInv' /\ OutcomeInv' /\ LineInv' /\ WakeInv'
        /\ \A d \in Commands : InOutbound(d)' => seqOf'[d] # 0
        /\ \A d \in Commands : seqOf[d] # 0 => seqOf'[d] # 0
    BY <1>1, DrainPost
  <1>3. TypeOK'
    BY <1>1, <1>2 DEF TypeOK, Outcomes
  <1>4. SentInv'
    BY <1>2 DEF SentInv, IInv
  <1> QED BY <1>2, <1>3, <1>4 DEF IInv

\* The end of the stale window preserves the invariant.
LEMMA StaleFlushStep == ASSUME IInv, staleFlush PROVE IInv'
  <1>1. pendingAck = NoCmd
    BY DEF IInv, PendingInv, staleFlush
  <1>2. /\ DrainPre(outcome, ackTimers, outbound)
        /\ drainQueued(outcome, ackTimers, outbound)
    BY <1>1, IdleDrainPre DEF staleFlush
  <1> QED BY <1>2, DrainStep DEF staleFlush, IInv, TypeOK

\* Discarding a stale reply preserves the invariant.
LEMMA ConsumeStep ==
  ASSUME IInv, NEW c \in Commands, routeAck(c), consumeStaleAck
  PROVE  IInv'
  <1>1. pendingAck = NoCmd
    BY DEF IInv, PendingInv, TypeOK, consumeStaleAck
  <1>2. CASE staleAckDiscards > 1
    <2>1. /\ staleAckDiscards' = staleAckDiscards - 1
          /\ staleAckDiscards' \in Nat /\ staleAckDiscards' > 0
          /\ wire' \in SUBSET wire
          /\ UNCHANGED <<pendingAck, pendingSends, lastSeq, seqOf, outcome, ackTimers,
                         outbound, staleAckFlushTimer, link, streamBroken,
                         answeredBy, forgotten>>
      BY <1>2 DEF consumeStaleAck, routeAck, IInv, TypeOK
    <2>2. TypeOK'
      BY <2>1 DEF IInv, TypeOK
    <2>3. PendingInv' /\ WakeInv'
      BY <1>1, <1>2, <2>1 DEF IInv, TypeOK, PendingInv, WakeInv
    <2>4. StreamInv' /\ OutcomeInv' /\ SentInv' /\ LineInv'
      BY <2>1 DEF IInv, StreamInv, OutcomeInv, SentInv, LineInv, InLine, InOutbound
    <2> QED BY <2>2, <2>3, <2>4 DEF IInv
  <1>3. CASE ~(staleAckDiscards > 1)
    <2>1. staleAckDiscards' = 0 /\ staleAckFlushTimer' = FALSE
      BY <1>3 DEF consumeStaleAck, IInv, TypeOK
    <2>2. /\ DrainPre(outcome, ackTimers, outbound)
          /\ drainQueued(outcome, ackTimers, outbound)
      BY <1>1, <1>3, IdleDrainPre DEF consumeStaleAck
    <2> QED BY <2>1, <2>2, DrainStep DEF consumeStaleAck, routeAck, IInv, TypeOK
  <1> QED BY <1>2, <1>3

\* Settling the pending command preserves the invariant.
LEMMA SettleStep ==
  ASSUME IInv, NEW c \in Commands, routeAck(c), NEW result \in Replies,
         settlePending(c, result)
  PROVE  IInv'
  <1>. DEFINE p == pendingAck
              out == Resolved(p, result)
              timers == ackTimers \ {p}
  <1>1. /\ p \in Commands /\ p \in ackTimers /\ outcome[p] = "waiting" /\ seqOf[p] # 0
        /\ staleAckDiscards' = 0 /\ staleAckFlushTimer' = FALSE
    BY DEF settlePending, IInv, TypeOK, PendingInv, OutcomeInv
  <1>2. \A d \in Commands : InWrites(outbound, d) <=> InOutbound(d)
    BY DEF InWrites, InOutbound
  <1>3. /\ out \in [Commands -> Outcomes]
        /\ \A d \in Commands : out[d] = IF d = p THEN result ELSE outcome[d]
    BY <1>1 DEF Resolved, IInv, TypeOK, Outcomes, Settled
  <1>4. \A d \in timers : InWrites(outbound, d) /\ d \in Commands
    BY <1>2 DEF IInv, StreamInv, TypeOK
  <1>5. ~InLine(p)
    BY <1>1 DEF IInv, OutcomeInv
  <1>6. \A d \in Commands :
          /\ out[d] = "none" => seqOf[d] = 0
          /\ InLine(d) => out[d] = "waiting" /\ seqOf[d] = 0
          /\ d \in timers => out[d] = "waiting" /\ seqOf[d] # 0
          /\ out[d] = "waiting" => d \in timers \/ InLine(d)
          /\ out[d] \in Refusals => seqOf[d] = 0
          /\ out[d] \in Replies => seqOf[d] # 0
          /\ InWrites(outbound, d) => seqOf[d] # 0
    BY <1>1, <1>2, <1>3, <1>5 DEF IInv, OutcomeInv, SentInv, Replies, Refusals
  <1>7. DrainPre(out, timers, outbound)
    BY <1>3, <1>4, <1>6 DEF DrainPre, IInv, StreamInv, TypeOK
  <1>8. /\ drainQueued(out, timers, outbound)
        /\ answeredBy' \in [Commands -> Commands \cup {NoCmd}]
    BY DEF settlePending, IInv, TypeOK
  <1>. HIDE DEF out, timers
  <1> QED BY <1>1, <1>7, <1>8, DrainStep DEF routeAck, IInv, TypeOK

\* A rejected write preserves the invariant, whichever command is pending by then.
LEMMA RejectStep == ASSUME IInv, writeRejects PROVE IInv'
  <1>. DEFINE c == Head(outbound)
              out == Resolved(c, "send_failed")
              timers == ackTimers \ {c}
              writes == Tail(outbound)
  <1>1. /\ Len(outbound) \in Nat \ {0}
        /\ writes \in Seq(Commands)
        /\ Len(writes) = Len(outbound) - 1
        /\ \A i \in 1..Len(writes) : writes[i] = outbound[i + 1]
        /\ c = outbound[1]
        /\ c \in Commands
    BY TailElements DEF writeRejects, IInv, TypeOK
  <1>2. \A d \in Commands : InWrites(writes, d) => InOutbound(d)
    <2>1. \A i \in 1..Len(writes) : i + 1 \in 1..Len(outbound)
      BY <1>1
    <2> QED BY <1>1, <2>1 DEF InWrites, InOutbound
  <1>3. ASSUME NEW d \in Commands, InOutbound(d), d # c PROVE InWrites(writes, d)
    <2>1. PICK i \in 1..Len(outbound) : outbound[i] = d
      BY <1>3 DEF InOutbound
    <2>2. i - 1 \in 1..Len(writes) /\ writes[i - 1] = d
      BY <1>1, <1>3, <2>1
    <2> QED BY <2>2 DEF InWrites
  <1>4. /\ out \in [Commands -> Outcomes]
        /\ \A d \in Commands :
             out[d] = IF d = c /\ outcome[d] = "waiting" THEN "send_failed" ELSE outcome[d]
    BY <1>1 DEF Resolved, IInv, TypeOK, Outcomes, Settled, Failures
  <1>5. InOutbound(c) /\ seqOf[c] # 0
    <2>1. InOutbound(c)
      BY <1>1 DEF InOutbound
    <2> QED BY <1>1, <2>1 DEF IInv, SentInv
  <1>6. \A d \in timers : d \in Commands /\ InWrites(writes, d)
    <2>1. pendingAck # NoCmd => InOutbound(pendingAck)
      BY <1>1 DEF IInv, StreamInv, InOutbound, writeRejects
    <2> QED BY <1>3, <2>1, CommandsAssumption DEF IInv, StreamInv, TypeOK
  <1>7. \A d \in Commands :
          /\ out[d] = "none" => seqOf[d] = 0
          /\ InLine(d) => out[d] = "waiting" /\ seqOf[d] = 0
          /\ d \in timers => out[d] = "waiting" /\ seqOf[d] # 0
          /\ out[d] = "waiting" => d \in timers \/ InLine(d)
          /\ out[d] \in Refusals => seqOf[d] = 0
          /\ out[d] \in Replies => seqOf[d] # 0
          /\ InWrites(writes, d) => seqOf[d] # 0
    BY <1>2, <1>4, <1>5 DEF IInv, OutcomeInv, SentInv, Replies, Refusals
  <1>8. DrainPre(out, timers, writes)
    BY <1>1, <1>4, <1>6, <1>7 DEF DrainPre, IInv, StreamInv, TypeOK, writeRejects
  <1>9. /\ wire' \in SUBSET Commands /\ forgotten' \in BOOLEAN
        /\ \A d \in wire' : d \in wire \/ InOutbound(d)
        /\ \A d \in wire' : seqOf[d] # 0
    BY <1>1, <1>5 DEF writeRejects, IInv, TypeOK, SentInv
  <1>10. CASE staleAckDiscards = 0
    <2>1. drainQueued(out, timers, writes) /\ staleAckFlushTimer = FALSE
      BY <1>10 DEF writeRejects, IInv, PendingInv, TypeOK
    <2>. HIDE DEF out, timers, writes
    <2> QED BY <1>8, <1>10, <1>9, <2>1, DrainStep DEF writeRejects, IInv, TypeOK
  <1>11. CASE staleAckDiscards # 0
    <2>1. /\ outcome' = out /\ ackTimers' = timers /\ pendingAck' = NoCmd
          /\ outbound' = writes
          /\ UNCHANGED <<pendingSends, lastSeq, seqOf, staleAckDiscards,
                         staleAckFlushTimer, link, streamBroken, answeredBy>>
      BY <1>11 DEF writeRejects
    <2>2. /\ \A d \in Commands : InOutbound(d)' <=> InWrites(writes, d)
          /\ \A d \in Commands : InLine(d)' <=> InLine(d)
      BY <2>1 DEF InOutbound, InWrites, InLine
    <2>. HIDE DEF out, timers, writes
    <2>3. TypeOK'
      BY <1>8, <1>9, <2>1 DEF DrainPre, IInv, TypeOK, Outcomes
    <2>4. OutcomeInv'
      BY <1>7, <2>1, <2>2 DEF OutcomeInv
    <2>5. SentInv'
      BY <1>7, <1>9, <2>1, <2>2 DEF SentInv, IInv
    <2>6. StreamInv'
      BY <1>8, <2>1, <2>2 DEF DrainPre, StreamInv
    <2>7. PendingInv' /\ LineInv' /\ WakeInv'
      BY <1>11, <2>1 DEF IInv, TypeOK, PendingInv, LineInv, WakeInv
    <2> QED BY <2>3, <2>4, <2>5, <2>6, <2>7 DEF IInv
  <1> QED BY <1>10, <1>11

\* A call of send() preserves the invariant.
LEMMA SendStep == ASSUME IInv, NEW c \in Commands, send(c) PROVE IInv'
  <1>. USE DEF send
  <1>0. /\ outcome[c] = "none" /\ seqOf[c] = 0 /\ ~InLine(c)
        /\ c \notin ackTimers /\ c \notin wire /\ ~InOutbound(c)
    BY DEF IInv, OutcomeInv, SentInv
  <1>1. CASE \E r \in Refusals : /\ outcome' = [outcome EXCEPT ![c] = r]
                                 /\ UNCHANGED <<pendingAck, pendingSends, lastSeq, seqOf,
                                                ackTimers, outbound>>
    <2>. PICK r \in Refusals : outcome' = [outcome EXCEPT ![c] = r]
      BY <1>1
    <2>1. \A d \in Commands : outcome'[d] = IF d = c THEN r ELSE outcome[d]
      BY DEF IInv, TypeOK
    <2>2. /\ \A d \in Commands : InLine(d)' <=> InLine(d)
          /\ \A d \in Commands : InOutbound(d)' <=> InOutbound(d)
      BY <1>1 DEF InLine, InOutbound
    <2>3. TypeOK'
      BY <1>1 DEF IInv, TypeOK, Settled
    <2>4. OutcomeInv' /\ SentInv'
      BY <1>0, <1>1, <2>1, <2>2 DEF IInv, OutcomeInv, SentInv, Refusals, Replies
    <2>5. PendingInv' /\ StreamInv' /\ LineInv' /\ WakeInv'
      BY <1>1, <2>2 DEF IInv, TypeOK, PendingInv, StreamInv, LineInv, WakeInv
    <2> QED BY <2>3, <2>4, <2>5 DEF IInv
  <1>2. CASE /\ pendingAck # NoCmd \/ staleAckDiscards > 0
             /\ outcome' = [outcome EXCEPT ![c] = "waiting"]
             /\ pendingSends' = Append(pendingSends, c)
             /\ UNCHANGED <<pendingAck, lastSeq, seqOf, ackTimers, outbound>>
    <2>1. \A d \in Commands : outcome'[d] = IF d = c THEN "waiting" ELSE outcome[d]
      BY <1>2 DEF IInv, TypeOK
    <2>2. /\ pendingSends' \in Seq(Commands)
          /\ Len(pendingSends') = Len(pendingSends) + 1
          /\ \A i \in 1..Len(pendingSends) : pendingSends'[i] = pendingSends[i]
          /\ pendingSends'[Len(pendingSends) + 1] = c
          /\ Len(pendingSends) \in Nat
      BY <1>2, AppendElements DEF IInv, TypeOK
    <2>3. /\ \A d \in Commands : InLine(d)' <=> (InLine(d) \/ d = c)
          /\ \A d \in Commands : InOutbound(d)' <=> InOutbound(d)
      BY <1>2, <2>2 DEF InLine, InOutbound
    <2>4. TypeOK'
      BY <1>2, <2>2 DEF IInv, TypeOK
    <2>5. OutcomeInv' /\ SentInv'
      BY <1>0, <1>2, <2>1, <2>3 DEF IInv, OutcomeInv, SentInv, Refusals, Replies
    <2>6. LineInv'
      BY <1>0, <2>2 DEF IInv, LineInv, InLine
    <2>7. PendingInv' /\ StreamInv' /\ WakeInv'
      BY <1>2, <2>3 DEF IInv, TypeOK, PendingInv, StreamInv, WakeInv
    <2> QED BY <2>4, <2>5, <2>6, <2>7 DEF IInv
  <1>3. CASE /\ canSend /\ pendingAck = NoCmd /\ staleAckDiscards = 0
             /\ dispatch(c, outcome, ackTimers, outbound)
             /\ UNCHANGED pendingSends
    <2>1. DrainPre(outcome, ackTimers, outbound)
      BY <1>3, IdleDrainPre
    <2>2. \A d \in Commands : InLine(d)' <=> (InLine(d) /\ d # c)
      BY <1>0, <1>3 DEF InLine
    <2>3. TypeOK /\ link # "closed" /\ UNCHANGED <<link, streamBroken>>
      BY <1>3 DEF IInv, canSend
    <2>4. /\ pendingAck' = c
          /\ c \in ackTimers'
          /\ lastSeq' \in 0..SeqMax
          /\ outcome' \in [Commands -> Outcomes]
          /\ seqOf' \in [Commands -> 0..SeqMax]
          /\ ackTimers' \in SUBSET Commands
          /\ outbound' \in Seq(Commands)
          /\ StreamInv'
          /\ OutcomeInv'
          /\ \A d \in Commands : InOutbound(d)' => seqOf'[d] # 0
          /\ \A d \in Commands : seqOf[d] # 0 => seqOf'[d] # 0
      BY <1>0, <1>3, <2>1, <2>2, <2>3, DispatchPost
    <2>5. TypeOK'
      BY <1>3, <2>3, <2>4 DEF TypeOK, Outcomes
    <2>6. SentInv'
      BY <2>4 DEF IInv, SentInv
    <2>7. PendingInv' /\ LineInv' /\ WakeInv'
      BY <1>3, <2>4, CommandsAssumption DEF IInv, PendingInv, LineInv, WakeInv, canSend
    <2> QED BY <2>4, <2>5, <2>6, <2>7 DEF IInv
  <1> QED BY <1>1, <1>2, <1>3 DEF Refusals

\* An acknowledgement timeout preserves the invariant.
LEMMA TimeoutStep == ASSUME IInv, NEW c \in Commands, ackTimeout(c) PROVE IInv'
  <1>. USE DEF ackTimeout
  <1>1. /\ c \in ackTimers /\ outcome[c] = "waiting" /\ ~InLine(c) /\ seqOf[c] # 0
    BY DEF IInv, OutcomeInv
  <1>2. \A d \in Commands : outcome'[d] = IF d = c THEN "ack_timeout" ELSE outcome[d]
    BY <1>1 DEF IInv, TypeOK, Resolved
  <1>3. /\ \A d \in Commands : InLine(d)' <=> InLine(d)
        /\ \A d \in Commands : InOutbound(d)' <=> InOutbound(d)
    BY DEF InLine, InOutbound
  <1>4. TypeOK'
    BY <1>1 DEF IInv, TypeOK, Resolved, Settled, Failures
  <1>5. OutcomeInv' /\ SentInv'
    BY <1>1, <1>2, <1>3 DEF IInv, OutcomeInv, SentInv, Refusals, Replies
  <1>6. \A d \in ackTimers' : InOutbound(d)
    <2>. SUFFICES ASSUME NEW d \in ackTimers', d = pendingAck PROVE InOutbound(d)
      BY DEF IInv, StreamInv
    <2>1. c # pendingAck /\ pendingAck # NoCmd
      BY CommandsAssumption DEF IInv, TypeOK
    <2>2. outbound # <<>> /\ Len(outbound) \in Nat
      BY <1>1, <2>1 DEF IInv, TypeOK, StreamInv, InOutbound
    <2>3. Len(outbound) \in 1..Len(outbound)
      BY <2>2, EmptyLine DEF IInv, TypeOK
    <2> QED BY <2>1, <2>2, <2>3 DEF IInv, StreamInv, InOutbound
  <1>7. ~streamBroken => ackTimers' = {}
    BY <1>1 DEF IInv, StreamInv
  <1>8. StreamInv'
    BY <1>3, <1>4, <1>6, <1>7 DEF IInv, StreamInv, TypeOK
  <1>9. link # "closed"
    BY <1>1, CommandsAssumption DEF IInv, TypeOK, StreamInv, WakeInv, InOutbound
  <1>10. PendingInv' /\ LineInv' /\ WakeInv'
    BY <1>9 DEF IInv, TypeOK, PendingInv, LineInv, WakeInv
  <1> QED BY <1>4, <1>5, <1>8, <1>10 DEF IInv

\* A step of the link that leaves the queue alone preserves the invariant.
LEMMA QueueUntouched ==
  ASSUME IInv, UNCHANGED <<queueVars, streamBroken>>, TypeOK',
         outbound' = outbound \/ outbound' = <<>>,
         \/ link' = link
         \/ link' = "dropping"
         \/ link' = "closing" /\ (LinkKind = "wifi" \/ PortSwaps),
         \A c \in wire' : c \in wire \/ InOutbound(c),
         ~streamBroken \/ outbound' = outbound
  PROVE  IInv'
  <1>1. /\ \A d \in Commands : InLine(d)' <=> InLine(d)
        /\ \A d \in Commands : InOutbound(d)' => InOutbound(d)
    BY DEF InLine, InOutbound, queueVars
  <1>2. StreamInv'
    BY DEF IInv, TypeOK, StreamInv, InOutbound, queueVars
  <1>3. OutcomeInv' /\ SentInv'
    BY <1>1 DEF IInv, OutcomeInv, SentInv, queueVars
  <1>4. PendingInv' /\ LineInv' /\ WakeInv'
    BY DEF IInv, PendingInv, LineInv, WakeInv, queueVars
  <1> QED BY <1>2, <1>3, <1>4 DEF IInv

\* A reply that is ignored preserves the invariant.
LEMMA IgnoreStep ==
  ASSUME IInv, NEW c \in Commands, routeAck(c), ignoreFrame(c) PROVE IInv'
  <1>1. TypeOK'
    BY DEF IInv, TypeOK, routeAck, ignoreFrame, queueVars
  <1> QED BY <1>1, QueueUntouched DEF routeAck, ignoreFrame, IInv, StreamInv

\* A write that completes preserves the invariant.
LEMMA ResolvesStep == ASSUME IInv, writeResolves PROVE IInv'
  <1>. USE DEF writeResolves, queueVars
  <1>1. /\ Len(outbound) \in Nat \ {0}
        /\ outbound' \in Seq(Commands)
        /\ Len(outbound') = Len(outbound) - 1
        /\ \A i \in 1..Len(outbound') : outbound'[i] = outbound[i + 1]
        /\ Head(outbound) = outbound[1]
        /\ Head(outbound) \in Commands
    BY TailElements DEF IInv, TypeOK
  <1>2. \A d \in Commands : InOutbound(d)' => InOutbound(d)
    <2>1. \A i \in 1..Len(outbound') : i + 1 \in 1..Len(outbound)
      BY <1>1
    <2> QED BY <1>1, <2>1 DEF InOutbound
  <1>3. InOutbound(Head(outbound))
    BY <1>1 DEF InOutbound
  <1>4. TypeOK'
    BY <1>1 DEF IInv, TypeOK
  <1>5. \A d \in Commands : InLine(d)' <=> InLine(d)
    BY DEF InLine
  <1>6. OutcomeInv' /\ SentInv'
    BY <1>1, <1>2, <1>3, <1>5 DEF IInv, OutcomeInv, SentInv
  <1>7. (outbound' # <<>> /\ pendingAck' # NoCmd) => outbound'[Len(outbound')] = pendingAck'
    <2>1. outbound' # <<>> => Len(outbound') \in 1..Len(outbound')
      BY <1>1, EmptyLine
    <2> QED BY <1>1, <2>1 DEF IInv, StreamInv
  <1>8. StreamInv'
    BY <1>7 DEF IInv, StreamInv
  <1>9. PendingInv' /\ LineInv' /\ WakeInv'
    BY DEF IInv, PendingInv, LineInv, WakeInv
  <1> QED BY <1>4, <1>6, <1>8, <1>9 DEF IInv

\* The failure of the USB write stream preserves the invariant.
LEMMA BreakStep == ASSUME IInv, breakStream PROVE IInv'
  <1>. USE DEF breakStream, queueVars
  <1>1. /\ \A d \in Commands : InLine(d)' <=> InLine(d)
        /\ \A d \in Commands : InOutbound(d)' <=> InOutbound(d)
    BY DEF InLine, InOutbound
  <1>2. TypeOK' /\ StreamInv'
    BY <1>1, LinkAssumption DEF IInv, TypeOK, StreamInv
  <1>3. OutcomeInv' /\ SentInv'
    BY <1>1 DEF IInv, OutcomeInv, SentInv
  <1>4. PendingInv' /\ LineInv' /\ WakeInv'
    BY DEF IInv, PendingInv, LineInv, WakeInv
  <1> QED BY <1>2, <1>3, <1>4 DEF IInv

\* Adopting a socket or port preserves the invariant.
LEMMA OpensStep == ASSUME IInv, linkOpens PROVE IInv'
  <1>. USE DEF linkOpens
  <1>1. /\ \A d \in Commands : InLine(d)' <=> InLine(d)
        /\ \A d \in Commands : InOutbound(d)' <=> InOutbound(d)
    BY DEF InLine, InOutbound
  <1>2. outbound = <<>> /\ ackTimers \subseteq {pendingAck}
    BY DEF IInv, StreamInv, InOutbound
  <1>3. TypeOK' /\ StreamInv'
    BY <1>1, <1>2 DEF IInv, TypeOK, StreamInv, LinkStates
  <1>4. OutcomeInv' /\ SentInv'
    BY <1>1 DEF IInv, OutcomeInv, SentInv
  <1>5. PendingInv' /\ LineInv'
    BY DEF IInv, PendingInv, LineInv
  <1>6. WakeInv'
    BY DEF IInv, WakeInv
  <1> QED BY <1>3, <1>4, <1>5, <1>6 DEF IInv

\* A link that is let go of before its close event preserves the invariant.
LEMMA ClosesStep == ASSUME IInv, linkCloses PROVE IInv'
  <1>1. TypeOK'
    <2>1. outbound' = outbound \/ outbound' = <<>>
      BY DEF linkCloses
    <2>2. <<>> \in Seq(Commands)
      OBVIOUS
    <2>3. outbound' \in Seq(Commands)
      BY <2>1, <2>2 DEF IInv, TypeOK
    <2> QED BY <2>3 DEF IInv, TypeOK, linkCloses, queueVars, LinkStates, repliesLeft
  <1>2. ~streamBroken \/ outbound' = outbound
    BY LinkAssumption DEF IInv, StreamInv, linkCloses
  <1> QED BY <1>1, <1>2, LinkAssumption, QueueUntouched DEF linkCloses, repliesLeft

\* failAll leaves nothing waiting but the writes a broken stream will reject.
LEMMA FailAllPost ==
  ASSUME IInv, failAll, outbound' = outbound \/ (outbound' = <<>> /\ ~streamBroken),
         UNCHANGED streamBroken,
         link' \in {"dropping", "closed"}, link' = "closed" => outbound' = <<>>,
         wire' \in SUBSET wire
  PROVE  IInv'
  <1>. USE DEF failAll
  <1>. DEFINE failed == IF pendingAck = NoCmd THEN outcome
                        ELSE Resolved(pendingAck, "link_failed")
  <1>1. /\ failed \in [Commands -> Outcomes]
        /\ \A d \in Commands :
             failed[d] = IF d = pendingAck /\ outcome[d] = "waiting"
                         THEN "link_failed" ELSE outcome[d]
    BY CommandsAssumption DEF Resolved, IInv, TypeOK, Outcomes, Settled, Failures
  <1>. HIDE DEF failed
  <1>2. /\ outcome' \in [Commands -> Outcomes]
        /\ \A d \in Commands : outcome'[d] = IF InLine(d) THEN "link_failed" ELSE failed[d]
    BY <1>1, QueueFailedPost DEF failed, Outcomes, Settled, Failures
  <1>3. /\ \A d \in Commands : ~InLine(d)'
        /\ pendingSends' \in Seq(Commands)
    BY DEF InLine
  <1>4. \A d \in ackTimers' : d # pendingAck /\ InOutbound(d)
    BY DEF IInv, StreamInv
  <1>5. ~streamBroken => ackTimers' = {}
    BY DEF IInv, StreamInv
  <1>6. TypeOK'
    BY <1>2, <1>3 DEF IInv, TypeOK, Outcomes, LinkStates
  <1>7. \A d \in Commands : InOutbound(d)' => InOutbound(d)
    BY DEF InOutbound
  <1>8. OutcomeInv'
    BY <1>1, <1>2, <1>3 DEF IInv, OutcomeInv, Refusals, Replies
  <1>9. SentInv'
    BY <1>7 DEF IInv, SentInv
  <1>10. StreamInv'
    BY <1>4, <1>5 DEF IInv, StreamInv, InOutbound
  <1>11. PendingInv' /\ LineInv' /\ WakeInv'
    BY DEF PendingInv, LineInv, WakeInv
  <1> QED BY <1>6, <1>8, <1>9, <1>10, <1>11 DEF IInv

\* The end of the USB read loop preserves the invariant.
LEMMA ReadEndsStep == ASSUME IInv, readEnds PROVE IInv'
  <1>1. CASE failAll
    BY <1>1, FailAllPost DEF readEnds, repliesLeft
  <1>2. CASE UNCHANGED <<queueVars, answeredBy, forgotten>>
    <2>1. TypeOK'
      BY <1>2 DEF IInv, TypeOK, readEnds, queueVars, LinkStates, repliesLeft
    <2> QED BY <1>2, <2>1, QueueUntouched DEF readEnds, repliesLeft
  <1> QED BY <1>1, <1>2 DEF readEnds

\* The close of the link, which fails every call, preserves the invariant.
LEMMA ClosedStep == ASSUME IInv, linkClosed PROVE IInv'
  <1>1. outbound' = outbound \/ (outbound' = <<>> /\ ~streamBroken)
    BY LinkAssumption DEF IInv, StreamInv, linkClosed
  <1> QED BY <1>1, FailAllPost DEF linkClosed, repliesLeft

\* IInv is inductive: every handler of the class and of its owner preserves it.
THEOREM NextIInv == IInv /\ [Next]_vars => IInv'
  <1>. SUFFICES ASSUME IInv, [Next]_vars PROVE IInv'
    OBVIOUS
  <1>1. ASSUME NEW c \in Commands, send(c) PROVE IInv'
    BY <1>1, SendStep
  <1>2. ASSUME NEW c \in Commands, routeAck(c) PROVE IInv'
    BY <1>2, ConsumeStep, IgnoreStep, SettleStep DEF routeAck
  <1>3. ASSUME NEW c \in Commands, ackTimeout(c) PROVE IInv'
    BY <1>3, TimeoutStep
  <1>4. CASE staleFlush
    BY <1>4, StaleFlushStep
  <1>5. CASE writeResolves
    BY <1>5, ResolvesStep
  <1>6. CASE writeRejects
    BY <1>6, RejectStep
  <1>7. CASE breakStream
    BY <1>7, BreakStep
  <1>8. CASE linkOpens
    BY <1>8, OpensStep
  <1>9. CASE linkCloses
    BY <1>9, ClosesStep
  <1>10. CASE readEnds
    BY <1>10, ReadEndsStep
  <1>11. CASE linkClosed
    BY <1>11, ClosedStep
  <1>12. CASE UNCHANGED vars
    <2>1. TypeOK'
      BY <1>12 DEF IInv, TypeOK, vars, queueVars
    <2> QED BY <1>12, <2>1, QueueUntouched DEF vars
  <1> QED
    BY <1>1, <1>2, <1>3, <1>4, <1>5, <1>6, <1>7, <1>8, <1>9, <1>10, <1>11, <1>12
    DEF Next

-----------------------------------------------------------------------------
(***************************************************************************)
(* The properties of AckQueue that hold for every value of its constants.  *)
(***************************************************************************)

\* Every variable keeps its type through every interleaving of handlers.
THEOREM AckQueueTypeOK == Spec => []TypeOK
  <1>1. IInv => TypeOK
    BY DEF IInv
  <1> QED BY InitIInv, NextIInv, <1>1, PTL DEF Spec

\* IInv holds in every reachable state.
THEOREM AckQueueIInv == Spec => []IInv
  BY InitIInv, NextIInv, PTL DEF Spec

\* At most one command is in flight while the write stream works.
THEOREM AckQueueOneInFlight == Spec => []OneInFlight
  <1>1. IInv => OneInFlight
    BY DEF IInv, PendingInv, StreamInv, OneInFlight
  <1> QED BY AckQueueIInv, <1>1, PTL

\* No call is left waiting with nothing that will wake it.
THEOREM AckQueueNoStrandedSend == Spec => []NoStrandedSend
  <1>1. IInv => NoStrandedSend
    BY DEF IInv, TypeOK, PendingInv, OutcomeInv, WakeInv, InLine, NoStrandedSend
  <1> QED BY AckQueueIInv, <1>1, PTL

\* A refused call was never sent; an answered one was.
THEOREM AckQueueRetryIsSafe == Spec => []RetryIsSafe
  <1>1. IInv => RetryIsSafe
    BY DEF IInv, OutcomeInv, RetryIsSafe
  <1> QED BY AckQueueIInv, <1>1, PTL

-----------------------------------------------------------------------------
(***************************************************************************)
(* Commands leave in the order they were sent.                             *)
(***************************************************************************)
\* dispatch sends the command it is given and no other.
LEMMA DispatchOnly ==
  ASSUME TypeOK, NEW d \in Commands, NEW out, NEW timers, NEW writes,
         dispatch(d, out, timers, writes)
  PROVE  \A c \in Commands : seqOf[c] = 0 /\ seqOf'[c] # 0 => c = d
  BY DEF TypeOK, dispatch

\* drainQueued dispatches nothing but the head of the line.
LEMMA DrainDispatchesHead ==
  ASSUME TypeOK, NEW out, NEW timers, NEW writes, drainQueued(out, timers, writes)
  PROVE  \A c \in Commands : seqOf[c] = 0 /\ seqOf'[c] # 0 => Head(pendingSends) = c
  <1>1. CASE pendingSends # <<>> /\ canSend
    <2>1. Head(pendingSends) \in Commands
      BY <1>1, TailElements DEF TypeOK
    <2>2. dispatch(Head(pendingSends), out, timers, writes)
      BY <1>1 DEF drainQueued
    <2> QED BY <2>1, <2>2, DispatchOnly
  <1>2. CASE ~(pendingSends # <<>> /\ canSend)
    BY <1>2 DEF drainQueued
  <1> QED BY <1>1, <1>2

\* Unless an open port is swapped, no command overtakes one that waits in line.
THEOREM AckQueueNoOvertaking ==
  ASSUME ~PortSwaps PROVE Spec => NoOvertaking
  <1>1. ASSUME IInv, Next, NEW c \in Commands, seqOf[c] = 0, seqOf'[c] # 0
        PROVE  pendingSends = <<>> \/ Head(pendingSends) = c
    <2>. USE <1>1 DEF IInv
    <2>1. CASE \E d \in Commands : send(d)
      <3>1. PICK d \in Commands : send(d)
        BY <2>1
      <3>2. pendingAck = NoCmd /\ ~(staleAckDiscards > 0)
        BY <3>1 DEF send, TypeOK
      <3> QED BY <3>2 DEF WakeInv
    <2>2. CASE \E d \in Commands : routeAck(d)
      BY <2>2, DrainDispatchesHead
      DEF routeAck, consumeStaleAck, ignoreFrame, settlePending, queueVars
    <2>3. CASE \E d \in Commands : ackTimeout(d)
      BY <2>3 DEF ackTimeout
    <2>4. CASE staleFlush
      BY <2>4, DrainDispatchesHead DEF staleFlush
    <2>5. CASE writeRejects
      BY <2>5, DrainDispatchesHead DEF writeRejects
    <2>6. CASE writeResolves \/ breakStream \/ linkOpens \/ linkCloses
               \/ readEnds \/ linkClosed
      BY <2>6 DEF writeResolves, breakStream, linkOpens, linkCloses, readEnds,
                  linkClosed, failAll, queueVars
    <2> QED BY <2>1, <2>2, <2>3, <2>4, <2>5, <2>6 DEF Next
  <1>2. ASSUME IInv, [Next]_vars
        PROVE  [\A c \in Commands :
                  (seqOf[c] = 0 /\ seqOf'[c] # 0) =>
                     (pendingSends = <<>> \/ Head(pendingSends) = c)]_vars
    BY <1>1, <1>2
  <1> QED BY AckQueueIInv, <1>2, PTL DEF Spec, NoOvertaking

-----------------------------------------------------------------------------
(***************************************************************************)
(* Over Wi-Fi the class implements the abstract channel.                   *)
(***************************************************************************)
\* drainQueued is how the abstract server continues once it is free.
LEMMA DrainContinues ==
  ASSUME TypeOK, NEW out \in [Commands -> Outcomes], NEW timers, NEW writes,
         \A c \in Commands : InLine(c) => out[c] = "waiting",
         drainQueued(out, timers, writes)
  PROVE  Channel!Continue(out)
  <1>1. CASE pendingSends # <<>> /\ canSend
    <2>. DEFINE c == Head(pendingSends)
    <2>1. /\ dispatch(c, out, timers, writes)
          /\ pendingSends' = Tail(pendingSends)
      BY <1>1 DEF drainQueued
    <2>2. c \in Commands /\ out[c] = "waiting"
      <3>1. c = pendingSends[1] /\ 1 \in 1..Len(pendingSends) /\ c \in Commands
        BY <1>1, TailElements DEF TypeOK
      <3> QED BY <3>1 DEF InLine
    <2>3. outcome' = out
      BY <2>1, <2>2 DEF dispatch
    <2> QED BY <1>1, <2>1, <2>3 DEF Channel!Continue, dispatch
  <1>2. CASE ~(pendingSends # <<>> /\ canSend)
    BY <1>2 DEF drainQueued, QueueFailed, InLine, Channel!Continue, Channel!GivenUp
  <1> QED BY <1>1, <1>2

\* Settling the pending command is what the abstract server does when it finishes.
LEMMA SettlesPending ==
  ASSUME TypeOK, NEW p \in Commands, NEW r \in Channel!Served,
         outcome[p] = "waiting"
  PROVE  /\ Resolved(p, r) = [outcome EXCEPT ![p] = r]
         /\ Resolved(p, r) \in [Commands -> Outcomes]
         /\ \A c \in Commands : Resolved(p, r)[c] = IF c = p THEN r ELSE outcome[c]
  BY DEF TypeOK, Resolved, Outcomes, Settled, Replies, Failures, Refusals,
         Channel!Served

\* drainQueued with no command pending is the abstract server resuming.
LEMMA IdleDrainResumes ==
  ASSUME IInv, pendingAck = NoCmd, NEW timers, NEW writes,
         drainQueued(outcome, timers, writes)
  PROVE  Channel!Resume
  <1>1. /\ outcome \in [Commands -> Outcomes]
        /\ \A c \in Commands : InLine(c) => outcome[c] = "waiting"
    BY DEF IInv, TypeOK, Outcomes, OutcomeInv
  <1> QED BY <1>1, DrainContinues DEF IInv, Channel!Resume

\* Over Wi-Fi every handler is a step of the abstract channel or leaves it alone.
LEMMA StepImplements ==
  ASSUME LinkKind = "wifi", ~PortSwaps, IInv, [Next]_vars
  PROVE  [Channel!Next]_(Channel!vars)
  <1>. USE DEF Channel!vars
  <1>0. /\ TypeOK /\ ~streamBroken
        /\ ackTimers \subseteq {pendingAck}
        /\ pendingAck # NoCmd =>
             pendingAck \in Commands /\ outcome[pendingAck] = "waiting" /\ ~InLine(pendingAck)
        /\ \A c \in Commands : InLine(c) => outcome[c] = "waiting"
    BY DEF IInv, StreamInv, PendingInv, OutcomeInv, TypeOK
  <1>1. ASSUME NEW c \in Commands, send(c) PROVE Channel!Submit(c)
    <2>1. pendingAck = NoCmd /\ staleAckDiscards = 0 => pendingSends = <<>>
      BY DEF IInv, WakeInv
    <2>2. ~(Len(pendingSends) >= Capacity) => Len(pendingSends) < Capacity
      BY <1>0, BoundsAssumption DEF TypeOK
    <2> QED BY <1>1, <2>1, <2>2
            DEF send, dispatch, Channel!Submit, Channel!Refused
  <1>2. ASSUME NEW c \in Commands, routeAck(c)
        PROVE  Channel!Finish \/ Channel!Resume \/ UNCHANGED Channel!vars
    <2>1. CASE consumeStaleAck
      <3>1. CASE staleAckDiscards > 1
        BY <2>1, <3>1 DEF consumeStaleAck
      <3>2. CASE ~(staleAckDiscards > 1)
        BY <2>1, <3>2, IdleDrainResumes DEF consumeStaleAck
      <3> QED BY <3>1, <3>2
    <2>2. CASE ignoreFrame(c)
      BY <2>2 DEF ignoreFrame, queueVars
    <2>3. CASE \E r \in Replies : settlePending(c, r)
      <3>1. PICK r \in Replies : settlePending(c, r)
        BY <2>3
      <3>2. pendingAck # NoCmd /\ r \in Channel!Served
        BY <3>1 DEF settlePending, Replies, Channel!Served
      <3>3. /\ Resolved(pendingAck, r) = [outcome EXCEPT ![pendingAck] = r]
            /\ Resolved(pendingAck, r) \in [Commands -> Outcomes]
            /\ \A d \in Commands : InLine(d) => Resolved(pendingAck, r)[d] = "waiting"
        BY <1>0, <3>2, SettlesPending
      <3>4. Channel!Continue(Resolved(pendingAck, r))
        BY <1>0, <3>1, <3>3, DrainContinues DEF settlePending
      <3> QED BY <3>2, <3>3, <3>4 DEF Channel!Finish
    <2> QED BY <1>2, <2>1, <2>2, <2>3 DEF routeAck
  <1>3. ASSUME NEW c \in Commands, ackTimeout(c) PROVE Channel!Finish
    <2>1. c = pendingAck /\ pendingAck # NoCmd
      BY <1>0, <1>3, CommandsAssumption DEF ackTimeout
    <2>2. "ack_timeout" \in Channel!Served
      BY DEF Channel!Served
    <2>3. outcome' = [outcome EXCEPT ![pendingAck] = "ack_timeout"]
      BY <1>0, <1>3, <2>1, <2>2, SettlesPending DEF ackTimeout
    <2> QED BY <1>3, <2>1, <2>2, <2>3 DEF ackTimeout, Channel!Finish, Channel!Continue
  <1>4. CASE staleFlush
    <2>1. pendingAck = NoCmd
      BY <1>4 DEF IInv, PendingInv, staleFlush
    <2> QED BY <1>4, <2>1, IdleDrainResumes DEF staleFlush, Channel!Next
  <1>5. CASE writeResolves \/ linkOpens \/ linkCloses \/ UNCHANGED vars
    BY <1>5 DEF writeResolves, linkOpens, linkCloses, vars, queueVars
  <1>6. CASE writeRejects \/ breakStream \/ readEnds
    BY <1>0, <1>6 DEF writeRejects, breakStream, readEnds
  <1>7. CASE linkClosed
    <2>1. CASE pendingAck = NoCmd
      <3>1. outcome' = QueueFailed(outcome, "link_failed")
        BY <1>7, <2>1 DEF linkClosed, failAll
      <3> QED BY <1>7, <2>1, <3>1
              DEF linkClosed, failAll, QueueFailed, InLine, Channel!Next,
                  Channel!Resume, Channel!Continue, Channel!GivenUp
    <2>2. CASE pendingAck # NoCmd
      <3>1. "link_failed" \in Channel!Served
        BY DEF Channel!Served
      <3>2. outcome' = QueueFailed([outcome EXCEPT ![pendingAck] = "link_failed"],
                                   "link_failed")
        BY <1>0, <1>7, <2>2, <3>1, SettlesPending DEF linkClosed, failAll
      <3>3. Channel!Continue([outcome EXCEPT ![pendingAck] = "link_failed"])
        BY <1>7, <3>2 DEF linkClosed, failAll, QueueFailed, InLine,
                          Channel!Continue, Channel!GivenUp
      <3> QED BY <2>2, <3>1, <3>3 DEF Channel!Next, Channel!Finish
    <2> QED BY <2>1, <2>2
  <1> QED BY <1>1, <1>2, <1>3, <1>4, <1>5, <1>6, <1>7 DEF Next, Channel!Next

\* The WebSocket client's command channel implements CommandChannel.
THEOREM AckQueueImplementsChannel ==
  ASSUME LinkKind = "wifi", ~PortSwaps PROVE Spec => ImplementsChannel
  <1>1. Init => Channel!Init
    BY DEF Init, Channel!Init
  <1>2. IInv /\ [Next]_vars => [Channel!Next]_(Channel!vars)
    BY StepImplements
  <1> QED BY AckQueueIInv, <1>1, <1>2, PTL DEF Spec, ImplementsChannel, Channel!Spec

-----------------------------------------------------------------------------
(***************************************************************************)
(* With a firmware that echoes the seq, and fewer commands than a full lap *)
(* of the counter, a reply settles the command it answers and no other.    *)
(***************************************************************************)
\* A step that sends nothing and answers nothing keeps the seqs different.
LEMMA SeqUnchanged ==
  ASSUME SeqInv, UNCHANGED <<lastSeq, seqOf, answeredBy>> PROVE SeqInv'
  BY DEF SeqInv, Dispatched

\* Dispatching a command for the first time keeps the seqs different.
LEMMA SeqTaken ==
  ASSUME TypeOK, SeqInv, IsFiniteSet(Commands), Cardinality(Commands) <= SeqMax,
         NEW c \in Commands, seqOf[c] = 0, NEW out, NEW timers, NEW writes,
         dispatch(c, out, timers, writes)
  PROVE  /\ lastSeq' = Cardinality(Dispatched')
         /\ \A d \in Commands : seqOf'[d] <= lastSeq'
         /\ \A d, e \in Dispatched' : seqOf'[d] = seqOf'[e] => d = e
  <1>1. /\ Dispatched \subseteq Commands /\ c \notin Dispatched
        /\ IsFiniteSet(Dispatched)
        /\ Cardinality(Dispatched) \in Nat
        /\ Cardinality(Commands) \in Nat
    BY FS_Subset, FS_CardinalityType DEF Dispatched
  <1>2. /\ Cardinality(Dispatched \cup {c}) = Cardinality(Dispatched) + 1
        /\ Cardinality(Dispatched \cup {c}) <= Cardinality(Commands)
    BY <1>1, FS_AddElement, FS_Subset
  <1>3. takeSeq = lastSeq + 1 /\ lastSeq \in Nat
    BY <1>1, <1>2, BoundsAssumption DEF takeSeq, SeqInv
  <1>4. \A d \in Commands : seqOf'[d] = IF d = c THEN lastSeq + 1 ELSE seqOf[d]
    BY <1>3 DEF dispatch, TypeOK
  <1>5. Dispatched' = Dispatched \cup {c}
    BY <1>3, <1>4 DEF Dispatched
  <1>6. lastSeq' = lastSeq + 1
    BY <1>3 DEF dispatch
  <1>7. \A d \in Commands : seqOf[d] \in Nat
    BY DEF TypeOK
  <1>8. \A d, e \in Dispatched' : seqOf'[d] = seqOf'[e] => d = e
    BY <1>1, <1>3, <1>4, <1>5, <1>7 DEF SeqInv
  <1> QED BY <1>2, <1>3, <1>4, <1>5, <1>6, <1>7, <1>8 DEF SeqInv

\* So does drainQueued, whether it dispatches or fails the line.
LEMMA DrainTakesSeq ==
  ASSUME IInv, SeqInv, IsFiniteSet(Commands), Cardinality(Commands) <= SeqMax,
         NEW out, NEW timers, NEW writes, drainQueued(out, timers, writes)
  PROVE  /\ lastSeq' = Cardinality(Dispatched')
         /\ \A d \in Commands : seqOf'[d] <= lastSeq'
         /\ \A d, e \in Dispatched' : seqOf'[d] = seqOf'[e] => d = e
  <1>1. CASE pendingSends # <<>> /\ canSend
    <2>1. /\ Head(pendingSends) = pendingSends[1] /\ 1 \in 1..Len(pendingSends)
          /\ Head(pendingSends) \in Commands
      BY <1>1, TailElements DEF IInv, TypeOK
    <2>2. seqOf[Head(pendingSends)] = 0
      BY <2>1 DEF IInv, OutcomeInv, InLine
    <2>3. dispatch(Head(pendingSends), out, timers, writes)
      BY <1>1 DEF drainQueued
    <2> QED BY <2>1, <2>2, <2>3, SeqTaken DEF IInv
  <1>2. CASE ~(pendingSends # <<>> /\ canSend)
    <2>1. lastSeq' = lastSeq /\ seqOf' = seqOf
      BY <1>2 DEF drainQueued
    <2> QED BY <2>1 DEF SeqInv, Dispatched
  <1> QED BY <1>1, <1>2

\* Each reply resolves the command it answers.
THEOREM AckQueueOwnReply ==
  ASSUME EchoesSeq, IsFiniteSet(Commands), Cardinality(Commands) <= SeqMax
  PROVE  Spec => []OwnReply
  <1>1. Init => SeqInv
    <2>. SUFFICES ASSUME Init PROVE SeqInv
      OBVIOUS
    <2>1. Dispatched = {}
      BY DEF Init, Dispatched
    <2>2. Cardinality(Dispatched) = 0
      BY <2>1, FS_EmptySet
    <2> QED BY <2>1, <2>2 DEF Init, SeqInv
  <1>2. ASSUME IInv, SeqInv, [Next]_vars PROVE SeqInv'
    <2>. USE <1>2
    <2>. DEFINE Drained == /\ lastSeq' = Cardinality(Dispatched')
                           /\ \A d \in Commands : seqOf'[d] <= lastSeq'
                           /\ \A d, e \in Dispatched' : seqOf'[d] = seqOf'[e] => d = e
    <2>1. ASSUME NEW c \in Commands, send(c) PROVE SeqInv'
      <3>1. CASE UNCHANGED <<lastSeq, seqOf>>
        BY <2>1, <3>1, SeqUnchanged DEF send
      <3>2. CASE dispatch(c, outcome, ackTimers, outbound)
        <4>1. seqOf[c] = 0
          BY <2>1 DEF send, IInv, OutcomeInv
        <4>2. Drained
          BY <3>2, <4>1, SeqTaken DEF IInv
        <4> QED BY <2>1, <4>2 DEF send, SeqInv
      <3> QED BY <2>1, <3>1, <3>2 DEF send
    <2>2. ASSUME NEW c \in Commands, routeAck(c) PROVE SeqInv'
      <3>1. CASE consumeStaleAck
        <4>1. CASE UNCHANGED <<lastSeq, seqOf>>
          BY <3>1, <4>1, SeqUnchanged DEF consumeStaleAck
        <4>2. CASE drainQueued(outcome, ackTimers, outbound)
          BY <3>1, <4>2, DrainTakesSeq DEF consumeStaleAck, SeqInv
        <4> QED BY <3>1, <4>1, <4>2 DEF consumeStaleAck
      <3>2. CASE ignoreFrame(c)
        BY <3>2, SeqUnchanged DEF ignoreFrame, queueVars
      <3>3. CASE \E r \in Replies : settlePending(c, r)
        <4>1. PICK r \in Replies : settlePending(c, r)
          BY <3>3
        <4>2. Drained
          BY <4>1, DrainTakesSeq DEF settlePending
        <4>3. c = pendingAck
          <5>1. pendingAck \in Commands /\ seqOf[c] = seqOf[pendingAck]
            BY <4>1 DEF settlePending, answersAnotherCommand, IInv, TypeOK
          <5>2. c \in Dispatched /\ pendingAck \in Dispatched
            BY <2>2, <5>1 DEF routeAck, IInv, SentInv, Dispatched
          <5> QED BY <5>1, <5>2 DEF SeqInv
        <4>4. \A d \in Commands : answeredBy'[d] \in {NoCmd, d}
          BY <4>1, <4>3 DEF settlePending, SeqInv, IInv, TypeOK
        <4> QED BY <4>2, <4>4 DEF SeqInv
      <3> QED BY <2>2, <3>1, <3>2, <3>3 DEF routeAck
    <2>3. CASE staleFlush
      <3>1. CASE UNCHANGED <<lastSeq, seqOf>>
        BY <2>3, <3>1, SeqUnchanged DEF staleFlush
      <3>2. CASE drainQueued(outcome, ackTimers, outbound)
        BY <2>3, <3>2, DrainTakesSeq DEF staleFlush, SeqInv
      <3> QED BY <2>3, <3>1, <3>2 DEF staleFlush
    <2>4. CASE writeRejects
      <3>1. CASE UNCHANGED <<lastSeq, seqOf>>
        BY <2>4, <3>1, SeqUnchanged DEF writeRejects
      <3>2. CASE \E out, timers, writes : drainQueued(out, timers, writes)
        <4>1. Drained
          BY <3>2, DrainTakesSeq
        <4> QED BY <2>4, <4>1 DEF writeRejects, SeqInv
      <3> QED BY <2>4, <3>1, <3>2 DEF writeRejects
    <2>5. ASSUME NEW c \in Commands, ackTimeout(c) PROVE SeqInv'
      BY <2>5, SeqUnchanged DEF ackTimeout
    <2>6. CASE \/ writeResolves \/ breakStream \/ linkOpens \/ linkCloses
               \/ readEnds \/ linkClosed \/ UNCHANGED vars
      <3>1. UNCHANGED <<lastSeq, seqOf, answeredBy>>
        BY <2>6 DEF writeResolves, breakStream, linkOpens, linkCloses, readEnds,
                    linkClosed, failAll, vars, queueVars
      <3> QED BY <3>1, SeqUnchanged
    <2> QED BY <2>1, <2>2, <2>3, <2>4, <2>5, <2>6 DEF Next
  <1>3. SeqInv => OwnReply
    BY DEF SeqInv, OwnReply
  <1> QED BY AckQueueIInv, <1>1, <1>2, <1>3, PTL DEF Spec
=============================================================================
