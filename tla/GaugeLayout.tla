----------------------------- MODULE GaugeLayout -----------------------------
(***************************************************************************)
(* Where the gauges of a page are (src/src/stores/dashboard/widget-moves   *)
(* .ts, widget-actions.ts, clipboard.slice.ts, utils/layout.ts): dragged   *)
(* and resized with the pointer or the keyboard, added, removed, copied    *)
(* and pasted.  A drag is one step, from the press to the release: nothing *)
(* else is pressed meanwhile.  What is selected is not kept: any gauges    *)
(* may be selected when an action looks.  Gauges are only ever added at    *)
(* the end of the page's list, so their ids are numbers in its order.      *)
(***************************************************************************)
EXTENDS Integers, Sequences, FiniteSets

CONSTANTS
  Columns, Rows,       \* the tracks of the grid
  LastGauge,           \* bound: the gauges are numbered up to it
  Arrangements,        \* the pages the dash may hold
  MaxCopies,           \* bound: gauges copied at one time
  MaxGestures,         \* bound: drags and presses
  NewSpans,            \* the spans of the palette: [colSpan, rowSpan]
  FallbackSpans,       \* FALLBACK_SIZES
  StandardSizes,       \* the spans of STANDARD_TOKEN_IDS
  MaxGauges            \* FIRMWARE_CAPS.MAX_WIDGETS_PER_PAGE

VARIABLES
  page,                \* of each of its gauges: col, row, colSpan, rowSpan
  clipboard,           \* the same, of the gauges that were copied
  dropped,             \* history: the gauge that was just dropped, or NoGauge
  tidy,                \* history: no two gauges overlapped when it was picked up
  gestures             \* bound: how many drags and presses there were

gaugeLayoutVars == <<page, clipboard, dropped, tidy, gestures>>

NoGauge == 0

Spans == [colSpan : 1 .. Columns, rowSpan : 1 .. Rows]

Placement == [col : Nat, row : Nat, colSpan : Nat \ {0}, rowSpan : Nat \ {0}]

inGrid(p) == p.col + p.colSpan <= Columns /\ p.row + p.rowSpan <= Rows

isPage(places) ==
  /\ DOMAIN places \subseteq 1 .. LastGauge
  /\ places \in [DOMAIN places -> Placement]
  /\ \A id \in DOMAIN places : inGrid(places[id])

ASSUME GaugeLayoutAssumption ==
  /\ Columns \in Nat /\ Rows \in Nat /\ LastGauge \in Nat
  /\ \A arrangement \in Arrangements : isPage(arrangement)
  /\ NewSpans \subseteq Spans /\ FallbackSpans \in Seq(Spans) /\ StandardSizes \subseteq Spans

GaugeLayoutInit ==
  /\ page \in Arrangements
  /\ clipboard = <<>>
  /\ dropped = NoGauge /\ tidy = FALSE
  /\ gestures = 0

changes(next) == page' = next /\ dropped' = NoGauge /\ tidy' = FALSE

-----------------------------------------------------------------------------
(* Placements.                                                             *)

placementsOverlap(a, b) ==
  /\ a.col < b.col + b.colSpan /\ b.col < a.col + a.colSpan
  /\ a.row < b.row + b.rowSpan /\ b.row < a.row + a.rowSpan

between(low, value, high) == IF value > high THEN high ELSE IF value < low THEN low ELSE value

clampGridPlacement(p) ==
  [p EXCEPT !.col = between(0, @, Columns - p.colSpan), !.row = between(0, @, Rows - p.rowSpan)]

placed(spot, size) == [col |-> spot.col, row |-> spot.row,
                       colSpan |-> size.colSpan, rowSpan |-> size.rowSpan]

isFree(spot, size, others) == \A o \in others : ~placementsOverlap(placed(spot, size), o)

NoSpot == [col |-> -1, row |-> -1]

freeSpots(size, others) ==
  {spot \in [col : 0 .. Columns - size.colSpan, row : 0 .. Rows - size.rowSpan] :
     isFree(spot, size, others)}

\* The first free spot, row by row.
autoPlace(size, others) ==
  LET free == freeSpots(size, others)
  IN IF free = {} THEN NoSpot
     ELSE CHOOSE spot \in free : \A other \in free :
            spot.row * Columns + spot.col <= other.row * Columns + other.col

\* The places that are taken on a page, but for some gauges'.
taken(places, but) == {places[id] : id \in DOMAIN places \ but}

-----------------------------------------------------------------------------
(* resolveCollisions(): what the moved gauge overlaps is pushed out of it  *)
(* the short way, and so on for at most eight passes.                      *)

pushAway(anchor, victim) ==
  LET right == anchor.col + anchor.colSpan - victim.col
      left  == victim.col + victim.colSpan - anchor.col
      down  == anchor.row + anchor.rowSpan - victim.row
      up    == victim.row + victim.rowSpan - anchor.row
      horizontally == (IF right < left THEN right ELSE left) <= (IF down < up THEN down ELSE up)
  IN clampGridPlacement(
       IF horizontally
       THEN [victim EXCEPT !.col = IF right <= left THEN anchor.col + anchor.colSpan
                                                    ELSE anchor.col - victim.colSpan]
       ELSE [victim EXCEPT !.row = IF down <= up THEN anchor.row + anchor.rowSpan
                                                 ELSE anchor.row - victim.rowSpan])

area(p) == p.colSpan * p.rowSpan

\* pickVictim(): the moved gauge stays; else the larger one, the later one of equals.
stays(places, moved, a, b) ==
  \/ a = moved
  \/ b # moved /\ area(places[a]) > area(places[b])
  \/ b # moved /\ area(places[a]) = area(places[b]) /\ a > b

anchors(places, moved, victim) ==
  {a \in DOMAIN places \ {victim} :
     placementsOverlap(places[a], places[victim]) /\ stays(places, moved, a, victim)}

\* The pairs are found before the pass, with the places they then had, the moved
\* gauge's first: a gauge pushed twice ends where its last anchor pushes it from there.
resolvePass(places, moved) ==
  [victim \in DOMAIN places |->
     LET all  == anchors(places, moved, victim)
         last == IF all = {moved} THEN moved
                 ELSE CHOOSE a \in all \ {moved} : \A b \in all \ {moved} : b <= a
     IN IF all = {} THEN places[victim] ELSE pushAway(places[last], places[victim])]

\* A pass that finds no pair is the last; so is, in effect, one that moves nothing.
twoPasses(places, moved) ==
  LET next == resolvePass(places, moved)
  IN IF next = places THEN places ELSE resolvePass(next, moved)

fourPasses(places, moved) == twoPasses(twoPasses(places, moved), moved)

\* MAX_PASSES of them.
resolveCollisions(places, moved) == fourPasses(fourPasses(places, moved), moved)

\* Faulted resolveCollisionsIn: the gauge stays where there is no room for it.
resolveWithoutFallback(id, moved) == resolveCollisions([page EXCEPT ![id] = moved], id)

\* A gauge that still overlaps another goes to a free place, if there is one.
resolveCollisionsIn(id, moved) ==
  LET pushed   == resolveCollisions([page EXCEPT ![id] = moved], id)
      rest     == taken(pushed, {id})
      fallback == IF isFree(moved, moved, rest) THEN NoSpot ELSE autoPlace(moved, rest)
  IN IF fallback = NoSpot THEN pushed ELSE [pushed EXCEPT ![id] = placed(fallback, moved)]

-----------------------------------------------------------------------------
(* The pointer.                                                            *)

\* updateLayouts(): the gauges that are stepped take their places, in one change.
stepGauges(places) ==
  /\ changes([id \in DOMAIN page |-> IF id \in DOMAIN places THEN places[id] ELSE page[id]])
  /\ UNCHANGED clipboard

apart(places) == \A a, b \in DOMAIN places : a # b => ~placementsOverlap(places[a], places[b])

stepped(p, cols, rows) == clampGridPlacement([p EXCEPT !.col = @ + cols, !.row = @ + rows])

\* A drag of one gauge: it is dropped at its last place, and what it lands on makes room.
dragGauge(id) ==
  \E moved \in {stepped(page[id], cols, rows) : cols \in -Columns .. Columns,
                                                rows \in -Rows .. Rows} :
    /\ page' = resolveCollisionsIn(id, moved)
    /\ dropped' = id /\ tidy' = apart(page)
    /\ UNCHANGED clipboard

\* clampGroupDelta(): the group stays together, and inside.
keepsInside(raw, d, starts, edges, tracks) ==
  IF \E s \in starts, e \in edges : -s > tracks - e THEN d = raw
  ELSE /\ \A s \in starts : d >= -s
       /\ \A e \in edges : d <= tracks - e
       /\ d < raw => \E e \in edges : d = tracks - e
       /\ d > raw => \E s \in starts : d = -s

dragGroup(selected) ==
  LET group == {page[id] : id \in selected}
      heldCols == {d \in -Columns .. Columns : \E raw \in -Columns .. Columns :
                     keepsInside(raw, d, {p.col : p \in group},
                                 {p.col + p.colSpan : p \in group}, Columns)}
      heldRows == {d \in -Rows .. Rows : \E raw \in -Rows .. Rows :
                     keepsInside(raw, d, {p.row : p \in group},
                                 {p.row + p.rowSpan : p \in group}, Rows)}
  IN /\ \E a, b \in selected : a # b
     /\ \E cols \in heldCols, rows \in heldRows :
          stepGauges([id \in selected |-> stepped(page[id], cols, rows)])

\* A drag of the handle at the right edge.
dragHandle(id, cols) ==
  stepGauges([moved \in {id} |->
    [page[id] EXCEPT !.colSpan = between(1, @ + cols, Columns - page[id].col)]])

-----------------------------------------------------------------------------
(* The keyboard and the buttons.                                           *)

Steps == {<<1, 0>>, <<-1, 0>>, <<0, 1>>, <<0, -1>>}

nudge(selected, step) ==
  stepGauges([id \in selected |-> stepped(page[id], step[1], step[2])])

\* Faulted resizeBy: the column is not looked at.
resizeByUnheld(selected, step) ==
  stepGauges([id \in selected |->
    [page[id] EXCEPT !.colSpan = between(1, @ + step[1], Columns),
                     !.rowSpan = between(1, @ + step[2], Rows)]])

resizeBy(selected, step) ==
  stepGauges([id \in selected |->
    [page[id] EXCEPT !.colSpan = between(1, @ + step[1], Columns - page[id].col),
                     !.rowSpan = between(1, @ + step[2], Rows - page[id].row)]])

\* A press of Size under More options (updateWidgetIn()): the gauge is brought back
\* onto the screen; what it then covers stays where it is.
setSize(id, size) ==
  stepGauges([sized \in {id} |-> clampGridPlacement(placed(page[id], size))])

freshIds == {id \in 1 .. LastGauge : \A other \in DOMAIN page : other < id}

\* freePlaceFor(): the first of the sizes there is a place for.
freePlaces(sizes) == {i \in DOMAIN sizes : freeSpots(sizes[i], taken(page, {})) # {}}

addGaugeTo(size) ==
  /\ Cardinality(DOMAIN page) < MaxGauges /\ freshIds # {}
  /\ freePlaces(FallbackSpans) # {}
  /\ LET sizes == <<size>> \o FallbackSpans
         first == sizes[CHOOSE i \in freePlaces(sizes) : \A j \in freePlaces(sizes) : i <= j]
         new   == CHOOSE id \in freshIds : TRUE
     IN changes([id \in DOMAIN page \cup {new} |->
                   IF id = new THEN placed(autoPlace(first, taken(page, {})), first)
                   ELSE page[id]])
  /\ UNCHANGED clipboard

removeFrom(selected) == changes([id \in DOMAIN page \ selected |-> page[id]])

copy(selected) ==
  /\ Cardinality(selected) <= MaxCopies
  /\ clipboard' = [id \in selected |-> page[id]]

spotsForPaste(p) == <<[col |-> p.col + 1, row |-> p.row + 1],
                      [col |-> p.col, row |-> p.row + p.rowSpan],
                      [col |-> p.col + p.colSpan, row |-> p.row]>>

firstFreeClampedSpot(p, others) ==
  LET spots == [i \in 1 .. 3 |-> clampGridPlacement(placed(spotsForPaste(p)[i], p))]
      free  == {i \in 1 .. 3 : isFree(spots[i], p, others)}
      spot  == IF free = {} THEN autoPlace(p, others)
               ELSE spots[CHOOSE i \in free : \A j \in free : i <= j]
  IN [col |-> spot.col, row |-> spot.row]

Spots == [col : 0 .. Columns - 1, row : 0 .. Rows - 1]

\* placeCopies(): each copy takes its place in turn, those before it in theirs.
\* The cap of gauges is not looked at.
placeCopies(spots) ==
  \A id \in DOMAIN clipboard :
    LET before == {i \in DOMAIN clipboard : i < id /\ spots[i] # NoSpot}
    IN spots[id] = firstFreeClampedSpot(clipboard[id],
         taken(page, {}) \cup {placed(spots[i], clipboard[i]) : i \in before})

paste ==
  /\ DOMAIN clipboard # {}
  /\ \E spots \in [DOMAIN clipboard -> Spots \cup {NoSpot}],
       names \in [DOMAIN clipboard -> freshIds] :
       /\ placeCopies(spots)
       /\ \A i, j \in DOMAIN clipboard : i < j => names[i] < names[j]
       /\ LET copied == {i \in DOMAIN clipboard : spots[i] # NoSpot}
              of(id) == CHOOSE i \in copied : names[i] = id
          IN changes([id \in DOMAIN page \cup {names[i] : i \in copied} |->
                        IF id \in DOMAIN page THEN page[id]
                        ELSE placed(spots[of(id)], clipboard[of(id)])])
  /\ UNCHANGED clipboard

comesBefore(a, b) ==
  \/ page[a].row < page[b].row
  \/ page[a].row = page[b].row /\ page[a].col < page[b].col
  \/ page[a].row = page[b].row /\ page[a].col = page[b].col /\ a < b

\* swappedWithNeighbour(): two neighbours in reading order trade places.
swap(a, b) ==
  /\ comesBefore(a, b)
  /\ ~\E c \in DOMAIN page : comesBefore(a, c) /\ comesBefore(c, b)
  /\ changes([page EXCEPT ![a] = page[b], ![b] = page[a]])
  /\ UNCHANGED clipboard

gesture ==
  \/ \E id \in DOMAIN page :
       \/ dragGauge(id)
       \/ \E cols \in -Columns .. Columns : dragHandle(id, cols)
       \/ \E size \in StandardSizes : setSize(id, size)
  \/ \E selected \in SUBSET (DOMAIN page) \ {{}} :
       \/ dragGroup(selected)
       \/ \E step \in Steps : nudge(selected, step) \/ resizeBy(selected, step)
       \/ copy(selected) /\ changes(page)
       \/ copy(selected) /\ removeFrom(selected)
       \/ removeFrom(selected) /\ UNCHANGED clipboard
  \/ \E a, b \in DOMAIN page : swap(a, b)
  \/ paste \/ \E size \in NewSpans : addGaugeTo(size)

\* The bound reached, the behaviour begins anew with another dash.
openAnother ==
  /\ gestures = MaxGestures /\ gestures' = 0
  /\ page' \in Arrangements /\ clipboard' = <<>>
  /\ dropped' = NoGauge /\ tidy' = FALSE

GaugeLayoutNext ==
  \/ gesture /\ gestures < MaxGestures /\ gestures' = gestures + 1
  \/ openAnother

GaugeLayoutSpec == GaugeLayoutInit /\ [][GaugeLayoutNext]_gaugeLayoutVars

-----------------------------------------------------------------------------
\* No drag, push, resize, nudge, swap, paste or addition, in whatever order, leaves
\* a gauge outside the screen (layout-editor.md:46).
GaugesInGrid ==
  \A id \in DOMAIN page :
    /\ page[id].col >= 0 /\ page[id].col + page[id].colSpan <= Columns
    /\ page[id].row >= 0 /\ page[id].row + page[id].rowSpan <= Rows

\* A gauge that was dropped covers no other, and none covers it, as long as there
\* is a free place for it: the one it was dropped at, with what it landed on pushed
\* aside as often as it takes, or another (widget-moves.ts:50-60).
DroppedIsFree ==
  dropped # NoGauge =>
    LET p    == page[dropped]
        rest == taken(page, {dropped})
    IN isFree(p, p, rest) \/ freeSpots(p, rest) = {}

\* What docs/layout-editor.md:44 says of a drag: "Widgets it lands on are pushed
\* aside; if there is no room, it goes back to a free place".
DropLeavesNoOverlap == (dropped # NoGauge /\ tidy) => apart(page)
=============================================================================
