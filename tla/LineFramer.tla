----------------------------- MODULE LineFramer -----------------------------
(***************************************************************************)
(* The lines of the USB stream (src/src/transport/line-framer.ts): chunks  *)
(* of characters, cut anywhere, become lines; a line longer than the       *)
(* buffer is thrown away up to its end.  A character is the number of the  *)
(* line it is of.  Of a link that comes back, the dash sends what it had   *)
(* not begun.  The decoding of UTF-8 and the carriage return at the end of *)
(* a line are left out: chunks are cut between characters.                 *)
(***************************************************************************)
EXTENDS Naturals, Sequences, FiniteSets

CONSTANTS
  MaxChars,            \* RX_BUFFER_MAX_CHARS
  Lines,               \* bound: how many lines the dash sends
  MaxLength            \* bound: how long a line is

ASSUME LineFramerAssumption == MaxChars \in Nat /\ Lines \in Nat /\ MaxLength \in Nat

VARIABLES
  eols,                \* where each line the dash sends has its new line
  received,            \* how far the stream is: what is past came, or was cut
  buffer, resyncing,
  delivered,           \* history: the lines the framer gave
  cut                  \* history: the lines the link did not carry to their end

lineFramerVars == <<eols, received, buffer, resyncing, delivered, cut>>

NewLine == 0

\* Lines follow each other, and may be empty.
Streams ==
  {e \in [1 .. Lines -> 1 .. Lines * (MaxLength + 1)] :
     \A n \in 1 .. Lines :
       /\ e[n] <= (IF n = 1 THEN 0 ELSE e[n - 1]) + MaxLength + 1
       /\ \A m \in 1 .. n - 1 : e[m] < e[n]}

endOf(n) == IF n = 0 THEN 0 ELSE eols[n]

wholeLine(n) == [i \in 1 .. endOf(n) - endOf(n - 1) - 1 |-> n]

stream ==
  [i \in 1 .. endOf(Lines) |->
     IF \E n \in 1 .. Lines : i = eols[n] THEN NewLine
     ELSE CHOOSE n \in 1 .. Lines : endOf(n - 1) < i /\ i < eols[n]]

LineFramerInit ==
  /\ eols \in Streams
  /\ received = 0
  /\ buffer = <<>> /\ resyncing = FALSE
  /\ delivered = <<>> /\ cut = {}

-----------------------------------------------------------------------------
\* takeCompleteLines(): the buffer is cut at each new line.
newLines(chars) == {i \in DOMAIN chars : chars[i] = NewLine}

newLineBefore(chars, at) ==
  CHOOSE e \in newLines(chars) \cup {0} :
    e < at /\ \A f \in newLines(chars) : f < at => f <= e

lineUpTo(chars, at) == SubSeq(chars, newLineBefore(chars, at) + 1, at - 1)

incomplete(chars) == lineUpTo(chars, Len(chars) + 1)

\* The first new line ends what is left of an overlong line.
dropResyncRemnant(chars) ==
  {e \in newLines(chars) : resyncing => \E f \in newLines(chars) : f < e}

notEmpty(chars, at) == {e \in at : lineUpTo(chars, e) # <<>>}

nth(at, k) == CHOOSE e \in at : Cardinality({f \in at : f < e}) = k - 1

linesEndedAt(chars, at) == [k \in 1 .. Cardinality(at) |-> lineUpTo(chars, nth(at, k))]

\* Faulted drain: what follows an overlong line's first part is taken for a line.
drainUnsynced(chars) ==
  /\ delivered' = delivered \o linesEndedAt(chars, notEmpty(chars, newLines(chars)))
  /\ buffer' = IF Len(incomplete(chars)) > MaxChars THEN <<>> ELSE incomplete(chars)
  /\ UNCHANGED resyncing

drain(chars) ==
  LET overlong == Len(incomplete(chars)) > MaxChars
  IN /\ delivered' = delivered \o linesEndedAt(chars, notEmpty(chars, dropResyncRemnant(chars)))
     /\ buffer' = IF overlong THEN <<>> ELSE incomplete(chars)
     /\ resyncing' = (overlong \/ (resyncing /\ newLines(chars) = {}))

push(size) ==
  /\ received + size <= endOf(Lines)
  /\ received' = received + size
  /\ drain(buffer \o SubSeq(stream, received + 1, received + size))
  /\ UNCHANGED <<eols, cut>>

\* finish() finds no new line, and reset() forgets the rest when the next port is
\* adopted.  The line the link was in the middle of is not sent again.
relink ==
  /\ received # 0 /\ stream[received] # NewLine
  /\ LET n == stream[received]
     IN received' = eols[n] /\ cut' = cut \cup {n}
  /\ buffer' = <<>> /\ resyncing' = FALSE
  /\ UNCHANGED <<eols, delivered>>

\* The stream at its end, the behaviour begins anew.
streamAgain ==
  /\ received = endOf(Lines)
  /\ received' = 0 /\ buffer' = <<>> /\ resyncing' = FALSE
  /\ delivered' = <<>> /\ cut' = {}
  /\ eols' \in Streams

LineFramerNext ==
  \/ \E size \in 1 .. endOf(Lines) : push(size)
  \/ relink
  \/ streamAgain

LineFramerSpec == LineFramerInit /\ [][LineFramerNext]_lineFramerVars

-----------------------------------------------------------------------------
\* What the framer gives are lines the dash sent, each whole, once and in order,
\* however the chunks are cut, links drop and lines run over the buffer; and none
\* that fits the buffer is lost that the link carried to its end.
LinesAreWhole ==
  /\ \A i \in DOMAIN delivered :
       /\ delivered[i] = wholeLine(delivered[i][1])
       /\ \A j \in 1 .. i - 1 : delivered[j][1] < delivered[i][1]
  /\ \A n \in 1 .. Lines :
       Len(wholeLine(n)) \in 1 .. MaxChars /\ eols[n] <= received /\ n \notin cut
         => \E i \in DOMAIN delivered : delivered[i][1] = n
=============================================================================
