--------------------------- MODULE ScanAccumulator ---------------------------
(***************************************************************************)
(* The frame counters behind the table of the CAN scan (src/src/stores/    *)
(* can-scan/accumulator.ts).  A snapshot reuses the row it emitted before  *)
(* for a frame id that did not change since; times are reduced to how many *)
(* frames of an id fall in the rate window.                                *)
(***************************************************************************)
EXTENDS Naturals, FiniteSetsExt

CONSTANTS
  FrameIds, Payloads,
  MaxFrames                \* bound: frames between two resets

VARIABLES
  stats,       \* the frames counted: id -> count, recent, payload, dirty
  emitted,     \* the rows of the last snapshot, which the table shows
  learnScores, \* id -> changes in the learn window; empty when there is none
  learnActive

accumulatorVars == <<stats, emitted, learnScores, learnActive>>

NoFrames == [id \in {} |-> 0]
Seen     == DOMAIN stats
total    == MapThenSumSet(LAMBDA id : stats[id].count, Seen)

AccumulatorInit ==
  /\ stats = NoFrames
  /\ emitted = NoFrames
  /\ learnScores = NoFrames
  /\ learnActive = FALSE

-----------------------------------------------------------------------------
\* A row as the table shows it, from what is counted.
row(id) == [count |-> stats[id].count, rate |-> stats[id].recent, payload |-> stats[id].payload]

with(f, id, value) == [i \in DOMAIN f \cup {id} |-> IF i = id THEN value ELSE f[i]]

\* Faulted recordFrame: a frame like the last one leaves the row clean.
recordChangedFrame(id, payload) ==
  IF id \in Seen
  THEN with(stats, id, [count |-> stats[id].count + 1, recent |-> stats[id].recent + 1,
                        payload |-> payload,
                        dirty |-> stats[id].dirty \/ payload # stats[id].payload])
  ELSE with(stats, id, [count |-> 1, recent |-> 1, payload |-> payload, dirty |-> TRUE])

recordFrame(id, payload) ==
  IF id \in Seen
  THEN with(stats, id, [count |-> stats[id].count + 1, recent |-> stats[id].recent + 1,
                        payload |-> payload, dirty |-> TRUE])
  ELSE with(stats, id, [count |-> 1, recent |-> 1, payload |-> payload, dirty |-> TRUE])

\* A frame scores in the learn window when its payload changed.
scoreChange(id, payload) ==
  IF learnActive /\ id \in Seen /\ stats[id].payload # payload
  THEN with(learnScores, id, IF id \in DOMAIN learnScores THEN learnScores[id] + 1 ELSE 1)
  ELSE learnScores

ingest(id, payload) ==
  /\ total < MaxFrames
  /\ learnScores' = scoreChange(id, payload)
  /\ stats' = recordFrame(id, payload)
  /\ UNCHANGED <<emitted, learnActive>>

\* One frame of the id leaves the rate window.
windowSlides(id) ==
  /\ id \in Seen /\ stats[id].recent > 0
  /\ stats' = [stats EXCEPT ![id].recent = @ - 1]
  /\ UNCHANGED <<emitted, learnScores, learnActive>>

emit(id) ==
  IF id \in DOMAIN emitted /\ ~stats[id].dirty /\ emitted[id].rate = stats[id].recent
  THEN emitted[id]
  ELSE row(id)

\* snapshot(), which the timer of the store calls, and stop() a last time.
takeSnapshot ==
  /\ emitted' = [id \in Seen |-> emit(id)]
  /\ stats' = [id \in Seen |-> [stats[id] EXCEPT !.dirty = FALSE]]

refresh == takeSnapshot /\ UNCHANGED <<learnScores, learnActive>>

startLearn == takeSnapshot /\ learnScores' = NoFrames /\ learnActive' = TRUE

stopLearn == takeSnapshot /\ learnActive' = FALSE /\ UNCHANGED learnScores

clearLearn == takeSnapshot /\ learnActive' = FALSE /\ learnScores' = NoFrames

\* start() and reset() of the store.
resetAccumulator ==
  /\ stats' = NoFrames
  /\ emitted' = NoFrames
  /\ learnScores' = NoFrames
  /\ learnActive' = FALSE

AccumulatorNext ==
  \/ \E id \in FrameIds : windowSlides(id) \/ \E payload \in Payloads : ingest(id, payload)
  \/ refresh \/ startLearn \/ stopLearn \/ clearLearn \/ resetAccumulator

AccumulatorSpec == AccumulatorInit /\ [][AccumulatorNext]_accumulatorVars

-----------------------------------------------------------------------------
\* Whatever rows a snapshot reuses, the table it makes is what was counted: no
\* count, rate or payload of an earlier snapshot or an earlier scan is left in it
\* (accumulator.ts:135-147, 193-200).
SnapshotIsTrue ==
  [][takeSnapshot => emitted' = [id \in Seen |-> row(id)]]_accumulatorVars
=============================================================================
