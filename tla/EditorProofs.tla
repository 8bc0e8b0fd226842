---------------------------- MODULE EditorProofs ----------------------------
(***************************************************************************)
(* Proofs about the editor: no gauge leaves the screen and one that is     *)
(* dropped makes itself room (GaugeLayout); the list of changes is         *)
(* complete, and the undo of one of them is exact (ChangeList).  They hold *)
(* for every grid, every set of pages, gauges and looks, and every dash.   *)
(***************************************************************************)
EXTENDS GaugeLayout, ChangeList, OrderLemmas

-----------------------------------------------------------------------------
(* Placements.                                                             *)

\* What clampGridPlacement() gives is on the screen, whatever it was given.
LEMMA ClampedInGrid ==
  ASSUME NEW p \in [col : Int, row : Int, colSpan : Nat \ {0}, rowSpan : Nat \ {0}],
         p.colSpan <= Columns, p.rowSpan <= Rows
  PROVE  clampGridPlacement(p) \in Placement /\ inGrid(clampGridPlacement(p))
<1>1. /\ Columns \in Nat /\ Rows \in Nat
      /\ between(0, p.col, Columns - p.colSpan) \in 0 .. Columns - p.colSpan
      /\ between(0, p.row, Rows - p.rowSpan) \in 0 .. Rows - p.rowSpan
  BY GaugeLayoutAssumption DEF between
<1> DEFINE col == between(0, p.col, Columns - p.colSpan)
           row == between(0, p.row, Rows - p.rowSpan)
           clamped == [p EXCEPT !.col = col, !.row = row]
<1>2. /\ col \in Nat /\ col + p.colSpan <= Columns
      /\ row \in Nat /\ row + p.rowSpan <= Rows
  BY <1>1
<1>3. clampGridPlacement(p) = clamped
  BY DEF clampGridPlacement
<1> HIDE DEF col, row
<1>4. /\ clamped \in Placement
      /\ clamped.col = col /\ clamped.row = row
      /\ clamped.colSpan = p.colSpan /\ clamped.rowSpan = p.rowSpan
  BY <1>2 DEF Placement
<1> HIDE DEF clamped
<1> QED BY <1>2, <1>3, <1>4 DEF inGrid

\* A gauge that is pushed away stays on the screen.
LEMMA PushedInGrid ==
  ASSUME NEW anchor \in Placement, NEW victim \in Placement, inGrid(victim)
  PROVE  pushAway(anchor, victim) \in Placement /\ inGrid(pushAway(anchor, victim))
<1>1. Columns \in Nat /\ Rows \in Nat
  BY GaugeLayoutAssumption
<1>2. victim.colSpan <= Columns /\ victim.rowSpan <= Rows
  BY <1>1 DEF Placement, inGrid
<1>3. \A n \in Int :
        /\ [victim EXCEPT !.col = n] \in [col : Int, row : Int, colSpan : Nat \ {0}, rowSpan : Nat \ {0}]
        /\ [victim EXCEPT !.row = n] \in [col : Int, row : Int, colSpan : Nat \ {0}, rowSpan : Nat \ {0}]
        /\ [victim EXCEPT !.col = n].colSpan = victim.colSpan
        /\ [victim EXCEPT !.col = n].rowSpan = victim.rowSpan
        /\ [victim EXCEPT !.row = n].colSpan = victim.colSpan
        /\ [victim EXCEPT !.row = n].rowSpan = victim.rowSpan
  BY DEF Placement
<1>4. /\ anchor.col + anchor.colSpan \in Int /\ anchor.col - victim.colSpan \in Int
      /\ anchor.row + anchor.rowSpan \in Int /\ anchor.row - victim.rowSpan \in Int
  BY DEF Placement
<1> DEFINE Stays(q) == clampGridPlacement(q) \in Placement /\ inGrid(clampGridPlacement(q))
<1>5. \A n \in Int : Stays([victim EXCEPT !.col = n]) /\ Stays([victim EXCEPT !.row = n])
  BY <1>2, <1>3, ClampedInGrid
<1> HIDE DEF Stays
<1>6. /\ Stays([victim EXCEPT !.col = anchor.col + anchor.colSpan])
      /\ Stays([victim EXCEPT !.col = anchor.col - victim.colSpan])
      /\ Stays([victim EXCEPT !.row = anchor.row + anchor.rowSpan])
      /\ Stays([victim EXCEPT !.row = anchor.row - victim.rowSpan])
  BY <1>4, <1>5
<1> QED BY <1>6 DEF Stays, pushAway

-----------------------------------------------------------------------------
(* resolveCollisions().                                                    *)

\* What a pass, or several, may make of the places of a page.
keepsPage(now, places, moved) ==
  isPage(now) /\ DOMAIN now = DOMAIN places /\ now[moved] = places[moved]

\* A pass leaves every gauge on the screen, and the moved one where it is.
LEMMA PassKeepsPage ==
  ASSUME NEW places, isPage(places), NEW moved \in DOMAIN places
  PROVE  keepsPage(resolvePass(places, moved), places, moved)
<1> DEFINE now == resolvePass(places, moved)
           last(victim) ==
             LET all == anchors(places, moved, victim)
             IN IF all = {moved} THEN moved
                ELSE CHOOSE a \in all \ {moved} : \A b \in all \ {moved} : b <= a
<1>1. /\ LastGauge \in Nat /\ DOMAIN places \subseteq 1 .. LastGauge
      /\ \A id \in DOMAIN places : places[id] \in Placement /\ inGrid(places[id])
  BY GaugeLayoutAssumption DEF isPage
<1>2. /\ DOMAIN now = DOMAIN places /\ now = [victim \in DOMAIN places |-> now[victim]]
      /\ \A victim \in DOMAIN places :
           now[victim] = IF anchors(places, moved, victim) = {} THEN places[victim]
                         ELSE pushAway(places[last(victim)], places[victim])
  BY DEF resolvePass
<1>3. ASSUME NEW victim \in DOMAIN places, anchors(places, moved, victim) # {}
      PROVE  last(victim) \in DOMAIN places
  <2> DEFINE all == anchors(places, moved, victim)
  <2>1. all \subseteq DOMAIN places
    BY DEF anchors
  <2>2. CASE all = {moved}
    BY <2>2
  <2>3. CASE all # {moved}
    <3>1. all \ {moved} # {} /\ all \ {moved} \in SUBSET (1 .. LastGauge)
      BY <1>1, <1>3, <2>1, <2>3
    <3>2. \E a \in all \ {moved} : \A b \in all \ {moved} : b <= a
      BY <1>1, <3>1, Greatest
    <3>3. last(victim) \in all \ {moved}
      BY <2>3, <3>2
    <3> QED BY <2>1, <3>3
  <2> QED BY <2>2, <2>3
<1>4. ASSUME NEW victim \in DOMAIN places
      PROVE  now[victim] \in Placement /\ inGrid(now[victim])
  <2>1. CASE anchors(places, moved, victim) = {}
    BY <1>1, <1>2, <2>1
  <2>2. CASE anchors(places, moved, victim) # {}
    <3>1. last(victim) \in DOMAIN places
      BY <1>3, <2>2
    <3> HIDE DEF last
    <3>2. places[last(victim)] \in Placement
      BY <1>1, <3>1
    <3>3. now[victim] = pushAway(places[last(victim)], places[victim])
      BY <1>2, <2>2
    <3> QED BY <1>1, <3>2, <3>3, PushedInGrid
  <2> QED BY <2>1, <2>2
<1>5. anchors(places, moved, moved) = {}
  BY DEF anchors, stays
<1>6. now[moved] = places[moved]
  BY <1>2, <1>5
<1> HIDE DEF now
<1>7. isPage(now)
  BY <1>1, <1>2, <1>4 DEF isPage
<1> QED BY <1>2, <1>6, <1>7 DEF keepsPage, now

\* So do eight of them.
LEMMA ResolvedKeepsPage ==
  ASSUME NEW places, isPage(places), NEW moved \in DOMAIN places
  PROVE  keepsPage(resolveCollisions(places, moved), places, moved)
<1>1. ASSUME NEW now, keepsPage(now, places, moved)
      PROVE  keepsPage(resolvePass(now, moved), places, moved)
  BY <1>1, PassKeepsPage DEF keepsPage
<1>2. ASSUME NEW now, keepsPage(now, places, moved)
      PROVE  keepsPage(twoPasses(now, moved), places, moved)
  <2>1. keepsPage(resolvePass(now, moved), places, moved)
    BY <1>1, <1>2
  <2>2. keepsPage(resolvePass(resolvePass(now, moved), moved), places, moved)
    BY <1>1, <2>1
  <2> QED BY <1>2, <2>2 DEF twoPasses
<1>3. ASSUME NEW now, keepsPage(now, places, moved)
      PROVE  keepsPage(fourPasses(now, moved), places, moved)
  BY <1>2, <1>3 DEF fourPasses
<1>4. keepsPage(places, places, moved)
  BY DEF keepsPage
<1> QED BY <1>3, <1>4 DEF resolveCollisions

-----------------------------------------------------------------------------
(* autoPlace() and the drop.                                               *)

\* A place that is free is on the screen.
LEMMA FreeSpotInGrid ==
  ASSUME NEW size, size.colSpan \in Nat \ {0}, size.rowSpan \in Nat \ {0},
         NEW others, NEW spot \in freeSpots(size, others)
  PROVE  /\ spot.col \in Nat /\ spot.row \in Nat
         /\ placed(spot, size) \in Placement /\ inGrid(placed(spot, size))
<1>1. Columns \in Nat /\ Rows \in Nat
  BY GaugeLayoutAssumption
<1>2. spot \in [col : 0 .. Columns - size.colSpan, row : 0 .. Rows - size.rowSpan]
  BY DEF freeSpots
<1>3. /\ spot.col \in Nat /\ spot.col + size.colSpan <= Columns
      /\ spot.row \in Nat /\ spot.row + size.rowSpan <= Rows
  BY <1>1, <1>2
<1> QED BY <1>3 DEF placed, Placement, inGrid

\* autoPlace() gives a free place as long as there is one.
LEMMA AutoPlaced ==
  ASSUME NEW size, size.colSpan \in Nat \ {0}, size.rowSpan \in Nat \ {0},
         NEW others
  PROVE  /\ freeSpots(size, others) # {} => autoPlace(size, others) \in freeSpots(size, others)
         /\ autoPlace(size, others) = NoSpot <=> freeSpots(size, others) = {}
<1> DEFINE free == freeSpots(size, others)
           rank(spot) == spot.row * Columns + spot.col
<1>1. \A spot \in free : spot.col \in Nat /\ spot.row \in Nat
  BY FreeSpotInGrid
<1>2. \A n \in Nat, m \in Nat : n * Columns + m \in Nat
  BY GaugeLayoutAssumption
<1>3. ASSUME free # {}
      PROVE  autoPlace(size, others) \in free
  <2> DEFINE ranks == {rank(spot) : spot \in free}
  <2>1. ranks \in SUBSET Nat /\ ranks # {}
    BY <1>1, <1>2, <1>3
  <2>2. PICK least \in ranks : \A n \in ranks : least <= n
    BY <2>1, Least
  <2>3. PICK first \in free : rank(first) = least
    OBVIOUS
  <2>4. \E spot \in free : \A other \in free : rank(spot) <= rank(other)
    BY <2>2, <2>3
  <2> QED BY <1>3, <2>4 DEF autoPlace
<1>4. NoSpot \notin free
  BY <1>1 DEF NoSpot
<1> QED BY <1>3, <1>4 DEF autoPlace

\* A gauge that is dropped on the screen stays on it with all that it pushes, and
\* covers none of them, as long as there is a free place for it.
LEMMA CollisionsResolved ==
  ASSUME isPage(page), NEW id \in DOMAIN page, NEW moved \in Placement, inGrid(moved)
  PROVE  LET now  == resolveCollisionsIn(id, moved)
             rest == taken(now, {id})
         IN /\ isPage(now) /\ DOMAIN now = DOMAIN page
            /\ isFree(now[id], now[id], rest) \/ freeSpots(now[id], rest) = {}
<1> DEFINE start    == [page EXCEPT ![id] = moved]
           pushed   == resolveCollisions(start, id)
           rest     == taken(pushed, {id})
           fallback == IF isFree(moved, moved, rest) THEN NoSpot ELSE autoPlace(moved, rest)
           now      == resolveCollisionsIn(id, moved)
<1>1. isPage(start) /\ DOMAIN start = DOMAIN page /\ start[id] = moved
  BY DEF isPage
<1> HIDE DEF start
<1>2. isPage(pushed) /\ DOMAIN pushed = DOMAIN page /\ pushed[id] = moved
  BY <1>1, ResolvedKeepsPage DEF keepsPage
<1> HIDE DEF pushed
<1>3. now = IF fallback = NoSpot THEN pushed ELSE [pushed EXCEPT ![id] = placed(fallback, moved)]
  BY DEF resolveCollisionsIn, pushed, start
<1>4. moved.colSpan \in Nat \ {0} /\ moved.rowSpan \in Nat \ {0}
  BY DEF Placement
<1> HIDE DEF now
<1>5. CASE fallback = NoSpot
  <2>1. now = pushed
    BY <1>3, <1>5
  <2>2. isFree(moved, moved, rest) \/ freeSpots(moved, rest) = {}
    BY <1>4, <1>5, AutoPlaced
  <2> QED BY <1>2, <2>1, <2>2 DEF now
<1>6. CASE fallback # NoSpot
  <2>1. fallback = autoPlace(moved, rest)
    BY <1>6
  <2> HIDE DEF fallback
  <2>2. fallback \in freeSpots(moved, rest)
    BY <1>4, <1>6, <2>1, AutoPlaced
  <2> DEFINE free == placed(fallback, moved)
  <2>3. free \in Placement /\ inGrid(free) /\ isFree(fallback, moved, rest)
    BY <1>4, <2>2, FreeSpotInGrid DEF freeSpots
  <2>4. placed(free, free) = free
    BY DEF placed
  <2>5. isFree(free, free, rest)
    BY <2>3, <2>4 DEF isFree
  <2> HIDE DEF free
  <2>6. now = [pushed EXCEPT ![id] = free]
    BY <1>3, <1>6 DEF free
  <2>7. isPage(now) /\ DOMAIN now = DOMAIN page /\ now[id] = free
    BY <1>2, <2>3, <2>6 DEF isPage
  <2>8. taken(now, {id}) = rest
    BY <1>2, <2>6 DEF taken
  <2> QED BY <2>5, <2>7, <2>8 DEF now
<1> QED BY <1>5, <1>6

-----------------------------------------------------------------------------
(* The gestures.                                                           *)

\* Where the gauges are and what was copied; and what a drop left.
GaugeLayoutInv ==
  /\ isPage(page) /\ isPage(clipboard)
  /\ dropped \in DOMAIN page \cup {NoGauge}
  /\ DroppedIsFree

\* Gauges that are stepped to places on the screen leave a page.
LEMMA SteppedPage ==
  ASSUME isPage(page), NEW places, stepGauges(places),
         \A id \in DOMAIN page \cap DOMAIN places : places[id] \in Placement /\ inGrid(places[id])
  PROVE  isPage(page') /\ dropped' = NoGauge /\ UNCHANGED clipboard
BY DEF stepGauges, changes, isPage

\* A step, however long, ends on the screen.
LEMMA SteppedInGrid ==
  ASSUME NEW p \in Placement, inGrid(p), NEW cols \in Int, NEW rows \in Int
  PROVE  stepped(p, cols, rows) \in Placement /\ inGrid(stepped(p, cols, rows))
<1> DEFINE col == p.col + cols
           row == p.row + rows
           q   == [p EXCEPT !.col = col, !.row = row]
<1>0. /\ col \in Int /\ row \in Int
      /\ p.colSpan <= Columns /\ p.rowSpan <= Rows
  <2>1. p.col \in Nat /\ p.row \in Nat /\ p.colSpan \in Nat /\ p.rowSpan \in Nat
    BY DEF Placement
  <2>2. p.col + p.colSpan <= Columns /\ p.row + p.rowSpan <= Rows
    BY DEF inGrid
  <2>3. Columns \in Nat /\ Rows \in Nat
    BY GaugeLayoutAssumption
  <2>4. p.colSpan <= Columns
    BY <2>1, <2>2, <2>3
  <2>5. p.rowSpan <= Rows
    BY <2>1, <2>2, <2>3
  <2>6. col \in Int
    BY <2>1
  <2>7. row \in Int
    BY <2>1
  <2> QED BY <2>4, <2>5, <2>6, <2>7
<1> HIDE DEF col, row
<1>1. /\ q \in [col : Int, row : Int, colSpan : Nat \ {0}, rowSpan : Nat \ {0}]
      /\ q.colSpan = p.colSpan /\ q.rowSpan = p.rowSpan
  BY <1>0 DEF Placement
<1>2. q.colSpan <= Columns /\ q.rowSpan <= Rows
  BY <1>0, <1>1
<1>3. stepped(p, cols, rows) = clampGridPlacement(q)
  BY DEF stepped, col, row
<1> HIDE DEF q
<1> QED BY <1>1, <1>2, <1>3, ClampedInGrid

\* So does a change of the spans that is held at the edge.
LEMMA ResizedInGrid ==
  ASSUME NEW p \in Placement, inGrid(p), NEW cols \in Int, NEW rows \in Int
  PROVE  /\ LET q == [p EXCEPT !.colSpan = between(1, @ + cols, Columns - p.col),
                             !.rowSpan = between(1, @ + rows, Rows - p.row)]
            IN q \in Placement /\ inGrid(q)
         /\ LET q == [p EXCEPT !.colSpan = between(1, @ + cols, Columns - p.col)]
            IN q \in Placement /\ inGrid(q)
<1> DEFINE wide == between(1, p.colSpan + cols, Columns - p.col)
           tall == between(1, p.rowSpan + rows, Rows - p.row)
<1>1. /\ wide \in Nat \ {0} /\ p.col + wide <= Columns
      /\ tall \in Nat \ {0} /\ p.row + tall <= Rows
  <2>1. /\ p.col \in Nat /\ p.colSpan \in Nat \ {0} /\ Columns - p.col \in Nat \ {0}
        /\ p.row \in Nat /\ p.rowSpan \in Nat \ {0} /\ Rows - p.row \in Nat \ {0}
    BY GaugeLayoutAssumption DEF Placement, inGrid
  <2>2. /\ wide \in 1 .. Columns - p.col
        /\ tall \in 1 .. Rows - p.row
    BY <2>1 DEF between
  <2> HIDE DEF wide, tall
  <2>3. wide \in Nat \ {0} /\ p.col + wide <= Columns
    BY <2>1, <2>2, GaugeLayoutAssumption
  <2>4. tall \in Nat \ {0} /\ p.row + tall <= Rows
    BY <2>1, <2>2, GaugeLayoutAssumption
  <2> QED BY <2>3, <2>4
<1> HIDE DEF wide, tall
<1>2. LET q == [p EXCEPT !.colSpan = wide, !.rowSpan = tall]
      IN /\ q \in Placement
         /\ q.col = p.col /\ q.row = p.row /\ q.colSpan = wide /\ q.rowSpan = tall
  BY <1>1 DEF Placement
<1>3. LET q == [p EXCEPT !.colSpan = wide]
      IN /\ q \in Placement
         /\ q.col = p.col /\ q.row = p.row /\ q.colSpan = wide /\ q.rowSpan = p.rowSpan
  BY <1>1 DEF Placement
<1> QED BY <1>1, <1>2, <1>3 DEF wide, tall, inGrid

\* Of sizes that fit the screen, one that has a free place is the first that has.
LEMMA FirstPlace ==
  ASSUME NEW sizes \in Seq(Spans), freePlaces(sizes) # {}
  PROVE  LET first == CHOOSE i \in freePlaces(sizes) : \A j \in freePlaces(sizes) : i <= j
             p     == placed(autoPlace(sizes[first], taken(page, {})), sizes[first])
         IN p \in Placement /\ inGrid(p)
<1> DEFINE first == CHOOSE i \in freePlaces(sizes) : \A j \in freePlaces(sizes) : i <= j
<1>1. freePlaces(sizes) \in SUBSET Nat
  BY DEF freePlaces
<1>2. first \in freePlaces(sizes)
  BY <1>1, Least
<1> HIDE DEF first
<1>3. sizes[first] \in Spans /\ freeSpots(sizes[first], taken(page, {})) # {}
  BY <1>2 DEF freePlaces
<1>4. sizes[first].colSpan \in Nat \ {0} /\ sizes[first].rowSpan \in Nat \ {0}
  BY <1>3 DEF Spans
<1> QED BY <1>3, <1>4, AutoPlaced, FreeSpotInGrid DEF first

\* A copy that gets a place gets one on the screen.
LEMMA CopyInGrid ==
  ASSUME NEW p \in Placement, inGrid(p), NEW others,
         firstFreeClampedSpot(p, others) # NoSpot
  PROVE  LET q == placed(firstFreeClampedSpot(p, others), p) IN q \in Placement /\ inGrid(q)
<1> DEFINE spots == [i \in 1 .. 3 |-> clampGridPlacement(placed(spotsForPaste(p)[i], p))]
           free  == {i \in 1 .. 3 : isFree(spots[i], p, others)}
           first == CHOOSE i \in free : \A j \in free : i <= j
           spot  == IF free = {} THEN autoPlace(p, others) ELSE spots[first]
           found == [col |-> spot.col, row |-> spot.row]
<1>1. /\ p.colSpan \in Nat \ {0} /\ p.rowSpan \in Nat \ {0}
      /\ p.colSpan <= Columns /\ p.rowSpan <= Rows
  BY GaugeLayoutAssumption DEF Placement, inGrid
<1>2. ASSUME NEW i \in 1 .. 3
      PROVE  spots[i] \in Placement /\ inGrid(spots[i])
             /\ spots[i].colSpan = p.colSpan /\ spots[i].rowSpan = p.rowSpan
  <2> DEFINE q == placed(spotsForPaste(p)[i], p)
  <2>1. /\ q \in [col : Int, row : Int, colSpan : Nat \ {0}, rowSpan : Nat \ {0}]
        /\ q.colSpan = p.colSpan /\ q.rowSpan = p.rowSpan
    BY DEF placed, spotsForPaste, Placement
  <2>2. spots[i] = clampGridPlacement(q)
    OBVIOUS
  <2>3. /\ clampGridPlacement(q).colSpan = q.colSpan
        /\ clampGridPlacement(q).rowSpan = q.rowSpan
    BY <2>1 DEF clampGridPlacement
  <2> HIDE DEF q
  <2> QED BY <1>1, <2>1, <2>2, <2>3, ClampedInGrid
<1>3. firstFreeClampedSpot(p, others) = found
  BY DEF firstFreeClampedSpot
<1>4. CASE free = {}
  <2>1. found = [col |-> autoPlace(p, others).col, row |-> autoPlace(p, others).row]
    BY <1>4
  <2>2. autoPlace(p, others) # NoSpot
    BY <1>3, <2>1 DEF NoSpot
  <2>3. autoPlace(p, others) \in freeSpots(p, others)
    BY <1>1, <2>2, AutoPlaced
  <2>4. placed(found, p) = placed(autoPlace(p, others), p)
    BY <2>1 DEF placed
  <2> QED BY <1>1, <1>3, <2>3, <2>4, FreeSpotInGrid
<1>5. CASE free # {}
  <2>1. free \in SUBSET Nat
    OBVIOUS
  <2>2. first \in free
    BY <1>5, <2>1, Least
  <2> HIDE DEF first
  <2>3. spot = spots[first] /\ first \in 1 .. 3
    BY <1>5, <2>2
  <2> HIDE DEF spots, free
  <2>4. /\ spots[first] \in Placement /\ inGrid(spots[first])
        /\ spots[first].colSpan = p.colSpan /\ spots[first].rowSpan = p.rowSpan
    BY <1>2, <2>3
  <2>5. placed(found, p) = spots[first]
    BY <2>3, <2>4 DEF placed, Placement
  <2> QED BY <1>3, <2>4, <2>5
<1> QED BY <1>4, <1>5

\* What a gesture other than a drag of one gauge leaves.
layoutKept == isPage(page') /\ isPage(clipboard') /\ dropped' = NoGauge

\* A drag of one gauge.
LEMMA DragKeepsLayout ==
  ASSUME GaugeLayoutInv, NEW id \in DOMAIN page, dragGauge(id)
  PROVE  GaugeLayoutInv'
<1>1. PICK cols \in -Columns .. Columns, rows \in -Rows .. Rows :
        page' = resolveCollisionsIn(id, stepped(page[id], cols, rows))
  BY DEF dragGauge
<1> DEFINE moved == stepped(page[id], cols, rows)
<1>2. cols \in Int /\ rows \in Int /\ page[id] \in Placement /\ inGrid(page[id])
  BY GaugeLayoutAssumption DEF GaugeLayoutInv, isPage
<1>3. moved \in Placement /\ inGrid(moved)
  BY <1>2, SteppedInGrid
<1> HIDE DEF moved
<1>4. page' = resolveCollisionsIn(id, moved)
  BY <1>1 DEF moved
<1>5. /\ isPage(page') /\ DOMAIN page' = DOMAIN page
      /\ LET rest == taken(page', {id})
         IN isFree(page'[id], page'[id], rest) \/ freeSpots(page'[id], rest) = {}
  BY <1>3, <1>4, CollisionsResolved DEF GaugeLayoutInv
<1>6. dropped' = id /\ UNCHANGED clipboard
  BY DEF dragGauge
<1> QED BY <1>5, <1>6 DEF GaugeLayoutInv, DroppedIsFree

\* The steps of one or several gauges.
LEMMA StepsKeepLayout ==
  ASSUME GaugeLayoutInv
  PROVE  /\ \A id \in DOMAIN page, cols \in Int : dragHandle(id, cols) => layoutKept
         /\ \A id \in DOMAIN page, size \in StandardSizes : setSize(id, size) => layoutKept
         /\ \A selected \in SUBSET DOMAIN page :
              \/ dragGroup(selected)
              \/ \E step \in Steps : nudge(selected, step) \/ resizeBy(selected, step)
              => layoutKept
<1>1. \A id \in DOMAIN page : page[id] \in Placement /\ inGrid(page[id])
  BY DEF GaugeLayoutInv, isPage
<1>2. ASSUME NEW id \in DOMAIN page, NEW cols \in Int, dragHandle(id, cols)
      PROVE  layoutKept
  <2> DEFINE q == [page[id] EXCEPT !.colSpan = between(1, @ + cols, Columns - page[id].col)]
  <2>1. q \in Placement /\ inGrid(q)
    BY <1>1, ResizedInGrid
  <2> HIDE DEF q
  <2>2. stepGauges([moved \in {id} |-> q])
    BY <1>2 DEF dragHandle, q
  <2> QED BY <2>1, <2>2, SteppedPage DEF layoutKept, GaugeLayoutInv
<1>3. ASSUME NEW selected \in SUBSET DOMAIN page, NEW cols \in Int, NEW rows \in Int,
             stepGauges([id \in selected |-> stepped(page[id], cols, rows)])
      PROVE  layoutKept
  <2>1. \A id \in selected : /\ stepped(page[id], cols, rows) \in Placement
                             /\ inGrid(stepped(page[id], cols, rows))
    BY <1>1, SteppedInGrid
  <2> QED BY <1>3, <2>1, SteppedPage DEF layoutKept, GaugeLayoutInv
<1>4. ASSUME NEW selected \in SUBSET DOMAIN page, dragGroup(selected)
      PROVE  layoutKept
  <2>1. PICK cols \in -Columns .. Columns, rows \in -Rows .. Rows :
          stepGauges([id \in selected |-> stepped(page[id], cols, rows)])
    BY <1>4 DEF dragGroup
  <2>2. cols \in Int /\ rows \in Int
    BY GaugeLayoutAssumption
  <2> QED BY <1>3, <2>1, <2>2
<1>5. \A step \in Steps : step[1] \in Int /\ step[2] \in Int
  BY DEF Steps
<1>6. ASSUME NEW selected \in SUBSET DOMAIN page, NEW step \in Steps, nudge(selected, step)
      PROVE  layoutKept
  BY <1>3, <1>5, <1>6 DEF nudge
<1>7. ASSUME NEW selected \in SUBSET DOMAIN page, NEW step \in Steps, resizeBy(selected, step)
      PROVE  layoutKept
  <2> DEFINE q(id) == [page[id] EXCEPT !.colSpan = between(1, @ + step[1], Columns - page[id].col),
                                       !.rowSpan = between(1, @ + step[2], Rows - page[id].row)]
  <2>1. \A id \in selected : q(id) \in Placement /\ inGrid(q(id))
    BY <1>1, <1>5, ResizedInGrid
  <2> HIDE DEF q
  <2>2. stepGauges([id \in selected |-> q(id)])
    BY <1>7 DEF resizeBy, q
  <2> QED BY <2>1, <2>2, SteppedPage DEF layoutKept, GaugeLayoutInv
<1>8. ASSUME NEW id \in DOMAIN page, NEW size \in StandardSizes, setSize(id, size)
      PROVE  layoutKept
  <2> DEFINE q == placed(page[id], size)
  <2>1. /\ q \in [col : Int, row : Int, colSpan : Nat \ {0}, rowSpan : Nat \ {0}]
        /\ q.colSpan <= Columns /\ q.rowSpan <= Rows
    BY <1>1, GaugeLayoutAssumption DEF placed, Placement, Spans
  <2> HIDE DEF q
  <2>2. clampGridPlacement(q) \in Placement /\ inGrid(clampGridPlacement(q))
    BY <2>1, ClampedInGrid
  <2>3. stepGauges([sized \in {id} |-> clampGridPlacement(q)])
    BY <1>8 DEF setSize, q
  <2> QED BY <2>2, <2>3, SteppedPage DEF layoutKept, GaugeLayoutInv
<1> QED BY <1>2, <1>4, <1>6, <1>7, <1>8

\* A gauge that is added.
LEMMA AddKeepsLayout ==
  ASSUME GaugeLayoutInv, NEW size \in NewSpans, addGaugeTo(size)
  PROVE  layoutKept
<1> DEFINE sizes == <<size>> \o FallbackSpans
           first == sizes[CHOOSE i \in freePlaces(sizes) : \A j \in freePlaces(sizes) : i <= j]
           new   == CHOOSE id \in freshIds : TRUE
           p     == placed(autoPlace(first, taken(page, {})), first)
<1>1. sizes \in Seq(Spans) /\ FallbackSpans \in Seq(Spans) /\ Len(sizes) = 1 + Len(FallbackSpans)
      /\ \A i \in 1 .. Len(FallbackSpans) : sizes[i + 1] = FallbackSpans[i]
  BY GaugeLayoutAssumption
<1>2. freePlaces(sizes) # {}
  <2>1. PICK i \in DOMAIN FallbackSpans : freeSpots(FallbackSpans[i], taken(page, {})) # {}
    BY DEF addGaugeTo, freePlaces
  <2>2. i \in 1 .. Len(FallbackSpans) /\ i + 1 \in DOMAIN sizes
    BY <1>1, <2>1
  <2>3. freeSpots(sizes[i + 1], taken(page, {})) # {}
    BY <1>1, <2>1, <2>2
  <2> QED BY <2>2, <2>3 DEF freePlaces
<1> HIDE DEF sizes
<1>3. p \in Placement /\ inGrid(p)
  BY <1>1, <1>2, FirstPlace
<1>4. new \in 1 .. LastGauge
  BY DEF addGaugeTo, freshIds
<1>5. changes([id \in DOMAIN page \cup {new} |-> IF id = new THEN p ELSE page[id]])
      /\ UNCHANGED clipboard
  BY DEF addGaugeTo, sizes
<1> HIDE DEF new, p
<1>6. isPage(page')
  BY <1>3, <1>4, <1>5 DEF GaugeLayoutInv, isPage, changes
<1> QED BY <1>5, <1>6 DEF layoutKept, GaugeLayoutInv, changes

\* The copies that are put on the page.
LEMMA PasteKeepsLayout ==
  ASSUME GaugeLayoutInv, paste
  PROVE  layoutKept
<1>1. PICK spots \in [DOMAIN clipboard -> Spots \cup {NoSpot}],
           names \in [DOMAIN clipboard -> freshIds] :
        /\ placeCopies(spots)
        /\ LET copied == {i \in DOMAIN clipboard : spots[i] # NoSpot}
               of(id) == CHOOSE i \in copied : names[i] = id
           IN changes([id \in DOMAIN page \cup {names[i] : i \in copied} |->
                         IF id \in DOMAIN page THEN page[id]
                         ELSE placed(spots[of(id)], clipboard[of(id)])])
  BY DEF paste
<1> DEFINE copied == {i \in DOMAIN clipboard : spots[i] # NoSpot}
           of(id) == CHOOSE i \in copied : names[i] = id
           all    == DOMAIN page \cup {names[i] : i \in copied}
<1>2. ASSUME NEW i \in copied
      PROVE  placed(spots[i], clipboard[i]) \in Placement /\ inGrid(placed(spots[i], clipboard[i]))
  <2>1. clipboard[i] \in Placement /\ inGrid(clipboard[i])
    BY DEF GaugeLayoutInv, isPage
  <2>2. PICK others : spots[i] = firstFreeClampedSpot(clipboard[i], others)
    BY <1>1 DEF placeCopies
  <2> QED BY <2>1, <2>2, CopyInGrid
<1>3. ASSUME NEW id \in all, id \notin DOMAIN page
      PROVE  of(id) \in copied
  BY <1>3
<1>4. all \subseteq 1 .. LastGauge
  BY DEF freshIds, GaugeLayoutInv, isPage
<1>5. page' = [id \in all |-> IF id \in DOMAIN page THEN page[id]
                             ELSE placed(spots[of(id)], clipboard[of(id)])]
      /\ dropped' = NoGauge
  BY <1>1 DEF changes
<1> HIDE DEF of, all, copied
<1>6. \A id \in all : page'[id] \in Placement /\ inGrid(page'[id])
  BY <1>2, <1>3, <1>5 DEF GaugeLayoutInv, isPage
<1>7. isPage(page')
  BY <1>4, <1>5, <1>6 DEF isPage
<1> QED BY <1>5, <1>7 DEF layoutKept, GaugeLayoutInv, paste

\* Copying, cutting, removing and trading places.
LEMMA OthersKeepLayout ==
  ASSUME GaugeLayoutInv
  PROVE  /\ \A selected \in SUBSET DOMAIN page :
              \/ copy(selected) /\ changes(page)
              \/ copy(selected) /\ removeFrom(selected)
              \/ removeFrom(selected) /\ UNCHANGED clipboard
              => layoutKept
         /\ \A a, b \in DOMAIN page : swap(a, b) => layoutKept
<1>1. ASSUME NEW selected \in SUBSET DOMAIN page, copy(selected)
      PROVE  isPage(clipboard')
  BY <1>1 DEF copy, GaugeLayoutInv, isPage
<1>2. ASSUME NEW selected \in SUBSET DOMAIN page, removeFrom(selected)
      PROVE  isPage(page') /\ dropped' = NoGauge
  BY <1>2 DEF removeFrom, changes, GaugeLayoutInv, isPage
<1>3. ASSUME changes(page)
      PROVE  isPage(page') /\ dropped' = NoGauge
  BY <1>3 DEF changes, GaugeLayoutInv
<1>4. ASSUME NEW a \in DOMAIN page, NEW b \in DOMAIN page, swap(a, b)
      PROVE  layoutKept
  <2>1. /\ page' = [page EXCEPT ![a] = page[b], ![b] = page[a]]
        /\ dropped' = NoGauge /\ UNCHANGED clipboard
    BY <1>4 DEF swap, changes
  <2>2. isPage(page')
    BY <2>1 DEF GaugeLayoutInv, isPage
  <2> QED BY <2>1, <2>2 DEF layoutKept, GaugeLayoutInv
<1> QED BY <1>1, <1>2, <1>3, <1>4 DEF layoutKept, GaugeLayoutInv

\* The pages of the editor stay pages of the screen, and a drop makes room.
THEOREM GaugeLayoutInvariant == GaugeLayoutSpec => []GaugeLayoutInv
<1>1. GaugeLayoutInit => GaugeLayoutInv
  <2> SUFFICES ASSUME GaugeLayoutInit PROVE GaugeLayoutInv
    OBVIOUS
  <2>1. isPage(page) /\ dropped = NoGauge
    BY GaugeLayoutAssumption DEF GaugeLayoutInit
  <2>2. isPage(clipboard)
    BY DEF GaugeLayoutInit, isPage
  <2> QED BY <2>1, <2>2 DEF GaugeLayoutInv, DroppedIsFree
<1>2. GaugeLayoutInv /\ [GaugeLayoutNext]_gaugeLayoutVars => GaugeLayoutInv'
  <2> SUFFICES ASSUME GaugeLayoutInv, [GaugeLayoutNext]_gaugeLayoutVars
               PROVE  GaugeLayoutInv'
    OBVIOUS
  <2>1. layoutKept => GaugeLayoutInv'
    BY DEF layoutKept, GaugeLayoutInv, DroppedIsFree
  <2>2. ASSUME NEW id \in DOMAIN page, dragGauge(id)
        PROVE  GaugeLayoutInv'
    BY <2>2, DragKeepsLayout
  <2>3. ASSUME NEW id \in DOMAIN page, NEW cols \in -Columns .. Columns, dragHandle(id, cols)
        PROVE  GaugeLayoutInv'
    <3>1. cols \in Int
      BY GaugeLayoutAssumption
    <3> QED BY <2>1, <2>3, <3>1, StepsKeepLayout
  <2>4. ASSUME NEW selected \in SUBSET (DOMAIN page) \ {{}},
               \/ dragGroup(selected)
               \/ \E step \in Steps : nudge(selected, step) \/ resizeBy(selected, step)
        PROVE  GaugeLayoutInv'
    BY <2>1, <2>4, StepsKeepLayout
  <2>5. ASSUME NEW selected \in SUBSET (DOMAIN page) \ {{}},
               \/ copy(selected) /\ changes(page)
               \/ copy(selected) /\ removeFrom(selected)
               \/ removeFrom(selected) /\ UNCHANGED clipboard
        PROVE  GaugeLayoutInv'
    BY <2>1, <2>5, OthersKeepLayout
  <2>6. ASSUME NEW a \in DOMAIN page, NEW b \in DOMAIN page, swap(a, b)
        PROVE  GaugeLayoutInv'
    BY <2>1, <2>6, OthersKeepLayout
  <2>7. CASE paste
    BY <2>1, <2>7, PasteKeepsLayout
  <2>8. ASSUME NEW size \in NewSpans, addGaugeTo(size)
        PROVE  GaugeLayoutInv'
    BY <2>1, <2>8, AddKeepsLayout
  <2>9. CASE openAnother
    <3>1. isPage(page') /\ clipboard' = <<>> /\ dropped' = NoGauge
      BY <2>9, GaugeLayoutAssumption DEF openAnother
    <3>2. isPage(clipboard')
      BY <3>1 DEF isPage
    <3> QED BY <2>1, <3>1, <3>2 DEF layoutKept
  <2>10. CASE UNCHANGED gaugeLayoutVars
    BY <2>10 DEF gaugeLayoutVars, GaugeLayoutInv, DroppedIsFree
  <2>11. ASSUME NEW id \in DOMAIN page, NEW size \in StandardSizes, setSize(id, size)
         PROVE  GaugeLayoutInv'
    BY <2>1, <2>11, StepsKeepLayout
  <2>12. CASE gesture
    BY <2>2, <2>3, <2>4, <2>5, <2>6, <2>7, <2>8, <2>11, <2>12 DEF gesture
  <2> QED BY <2>9, <2>10, <2>12 DEF GaugeLayoutNext
<1> QED BY <1>1, <1>2, PTL DEF GaugeLayoutSpec

\* No gesture, in whatever order, leaves a gauge outside the screen.
THEOREM GaugesStayInGrid == GaugeLayoutSpec => []GaugesInGrid
<1>1. GaugeLayoutInv => GaugesInGrid
  BY DEF GaugeLayoutInv, isPage, inGrid, Placement, GaugesInGrid
<1> QED BY <1>1, GaugeLayoutInvariant, PTL

\* A gauge that was dropped covers no other as long as there is a free place for it.
THEOREM DropsMakeRoom == GaugeLayoutSpec => []DroppedIsFree
<1>1. GaugeLayoutInv => DroppedIsFree
  BY DEF GaugeLayoutInv
<1> QED BY <1>1, GaugeLayoutInvariant, PTL

-----------------------------------------------------------------------------
(* The order of pages.                                                     *)

\* The ids of a list, each once.
isOrder(order, S) ==
  /\ order \in Seq(S)
  /\ \A i, j \in DOMAIN order : order[i] = order[j] => i = j

\* An id of the list is at the index that is found.
LEMMA FoundAt ==
  ASSUME NEW S, NEW order, isOrder(order, S), NEW id \in ids(order)
  PROVE  indexAt(order, id) \in DOMAIN order /\ order[indexAt(order, id)] = id
BY DEF ids, indexAt

\* A list that an entry is left out of has the other ones.
LEMMA LeftOut ==
  ASSUME NEW S, NEW order, isOrder(order, S), NEW at \in DOMAIN order
  PROVE  isOrder(leftOut(order, at), S) /\ ids(leftOut(order, at)) = ids(order) \ {order[at]}
<1> DEFINE left == leftOut(order, at)
           was(i) == IF i < at THEN i ELSE i + 1
<1>1. /\ Len(order) \in Nat /\ DOMAIN order = 1 .. Len(order)
      /\ at \in 1 .. Len(order) /\ Len(order) - 1 \in Nat
      /\ \A i \in DOMAIN order : order[i] \in S
  BY DEF isOrder
<1>2. /\ left = [i \in 1 .. Len(order) - 1 |-> order[was(i)]]
      /\ DOMAIN left = 1 .. Len(order) - 1
  BY DEF leftOut
<1>3. \A i \in 1 .. Len(order) - 1 : was(i) \in DOMAIN order /\ was(i) # at
  BY <1>1
<1>4. \A i, j \in 1 .. Len(order) - 1 : was(i) = was(j) => i = j
  BY <1>1
<1>5. \A j \in DOMAIN order \ {at} : \E i \in 1 .. Len(order) - 1 : was(i) = j
  <2> SUFFICES ASSUME NEW j \in DOMAIN order \ {at}
               PROVE  \E i \in 1 .. Len(order) - 1 : was(i) = j
    OBVIOUS
  <2>1. CASE j < at
    BY <1>1, <2>1
  <2>2. CASE j > at
    <3>1. j - 1 \in 1 .. Len(order) - 1 /\ was(j - 1) = j
      BY <1>1, <2>2
    <3> QED BY <3>1
  <2> QED BY <1>1, <2>1, <2>2
<1> HIDE DEF was, left
<1>6. left \in Seq(S)
  BY <1>1, <1>2, <1>3
<1>7. \A i, j \in DOMAIN left : left[i] = left[j] => i = j
  BY <1>2, <1>3, <1>4 DEF isOrder
<1>8. ids(left) = ids(order) \ {order[at]}
  <2>1. ids(left) \subseteq ids(order) \ {order[at]}
    BY <1>1, <1>2, <1>3 DEF ids, isOrder
  <2>2. ASSUME NEW j \in DOMAIN order, j # at
        PROVE  order[j] \in ids(left)
    BY <1>2, <1>5, <2>2 DEF ids
  <2>3. ids(order) \ {order[at]} \subseteq ids(left)
    BY <2>2 DEF ids
  <2> QED BY <2>1, <2>3
<1> QED BY <1>6, <1>7, <1>8 DEF isOrder, left

\* A list that an entry is put in has that one and those it had.
LEMMA PutAt ==
  ASSUME NEW S, NEW order, isOrder(order, S), NEW at \in 1 .. Len(order) + 1,
         NEW id \in S, id \notin ids(order)
  PROVE  isOrder(putAt(order, at, id), S) /\ ids(putAt(order, at, id)) = ids(order) \cup {id}
<1> DEFINE now == putAt(order, at, id)
           was(i) == IF i < at THEN i ELSE i - 1
<1>1. /\ Len(order) \in Nat /\ DOMAIN order = 1 .. Len(order)
      /\ \A i \in DOMAIN order : order[i] \in S
  BY DEF isOrder
<1>2. /\ now = [i \in 1 .. Len(order) + 1 |-> IF i = at THEN id ELSE order[was(i)]]
      /\ DOMAIN now = 1 .. Len(order) + 1
  BY DEF putAt
<1>3. \A i \in 1 .. Len(order) + 1 : i # at => was(i) \in DOMAIN order
  BY <1>1
<1>4. \A i, j \in 1 .. Len(order) + 1 : i # at /\ j # at /\ was(i) = was(j) => i = j
  BY <1>1
<1>5. ASSUME NEW j \in DOMAIN order
      PROVE  \E i \in 1 .. Len(order) + 1 : i # at /\ was(i) = j
  <2>1. CASE j < at
    BY <1>1, <2>1
  <2>2. CASE j >= at
    <3>1. j + 1 \in 1 .. Len(order) + 1 /\ j + 1 # at /\ was(j + 1) = j
      BY <1>1, <2>2
    <3> QED BY <3>1
  <2> QED BY <1>1, <2>1, <2>2
<1> HIDE DEF was, now
<1>6. \A i \in DOMAIN now : now[i] \in S
  BY <1>1, <1>2, <1>3
<1>7. now \in Seq(S)
  BY <1>1, <1>2, <1>6
<1>8. \A i, j \in DOMAIN now : now[i] = now[j] => i = j
  BY <1>2, <1>3, <1>4 DEF isOrder, ids
<1>9. ids(now) = ids(order) \cup {id}
  <2>1. ids(now) \subseteq ids(order) \cup {id}
    BY <1>2, <1>3 DEF ids
  <2>2. ids(order) \subseteq ids(now)
    BY <1>2, <1>5 DEF ids
  <2>3. id \in ids(now)
    BY <1>2 DEF ids
  <2> QED BY <2>1, <2>2, <2>3
<1> QED BY <1>7, <1>8, <1>9 DEF isOrder, now

\* Which page comes before which is a strict order of all of them.
LEMMA PrecedesOrders ==
  ASSUME NEW S, NEW order, isOrder(order, S)
  PROVE  /\ \A p, q : precedes(order, p, q) => p \in ids(order) /\ q \in ids(order)
         /\ \A p : ~precedes(order, p, p)
         /\ \A p, q, r : precedes(order, p, q) /\ precedes(order, q, r) => precedes(order, p, r)
         /\ \A p, q \in ids(order) : p = q \/ precedes(order, p, q) \/ precedes(order, q, p)
<1>1. \A i \in DOMAIN order : i \in Int
  BY DEF isOrder
<1>2. \A p, q : precedes(order, p, q) => p \in ids(order) /\ q \in ids(order)
  BY DEF precedes, ids
<1>3. \A p : ~precedes(order, p, p)
  BY <1>1 DEF precedes, isOrder
<1>4. ASSUME NEW p, NEW q, NEW r, precedes(order, p, q), precedes(order, q, r)
      PROVE  precedes(order, p, r)
  <2>1. PICK i \in DOMAIN order, j \in DOMAIN order : i < j /\ order[i] = p /\ order[j] = q
    BY <1>4 DEF precedes
  <2>2. PICK k \in DOMAIN order, l \in DOMAIN order : k < l /\ order[k] = q /\ order[l] = r
    BY <1>4 DEF precedes
  <2>3. j = k
    BY <2>1, <2>2 DEF isOrder
  <2>4. i < l
    BY <1>1, <2>1, <2>2, <2>3
  <2> QED BY <2>1, <2>2, <2>4 DEF precedes
<1>5. ASSUME NEW p \in ids(order), NEW q \in ids(order), p # q
      PROVE  precedes(order, p, q) \/ precedes(order, q, p)
  <2>1. PICK i \in DOMAIN order, j \in DOMAIN order : order[i] = p /\ order[j] = q
    BY DEF ids
  <2>2. i < j \/ j < i
    BY <1>1, <1>5, <2>1
  <2> QED BY <2>1, <2>2 DEF precedes
<1> QED BY <1>2, <1>3, <1>4, <1>5

\* Two lists of the same pages in the same order agree as far as the first reaches.
LEMMA SamePrefix ==
  ASSUME NEW S, NEW a, isOrder(a, S), NEW T, NEW b, isOrder(b, T), ids(a) = ids(b),
         \A p, q \in ids(a) : precedes(a, p, q) => precedes(b, p, q)
  PROVE  \A i \in DOMAIN a : i \in DOMAIN b /\ a[i] = b[i]
<1> DEFINE apartAt == {i \in DOMAIN a : ~(i \in DOMAIN b /\ a[i] = b[i])}
<1>1. /\ DOMAIN a = 1 .. Len(a) /\ Len(a) \in Nat
      /\ DOMAIN b = 1 .. Len(b) /\ Len(b) \in Nat
  BY DEF isOrder
<1> SUFFICES ASSUME apartAt # {} PROVE FALSE
  OBVIOUS
<1>2. apartAt \in SUBSET Nat
  BY <1>1
<1>3. PICK i \in apartAt : \A j \in apartAt : i <= j
  BY <1>2, Least
<1>4. \A j \in 1 .. i - 1 : j \in DOMAIN a /\ j \in DOMAIN b /\ a[j] = b[j]
  <2> TAKE j \in 1 .. i - 1
  <2>1. j \in DOMAIN a /\ ~(i <= j)
    BY <1>1
  <2> QED BY <1>3, <2>1
<1>5. PICK k \in DOMAIN b : b[k] = a[i]
  BY DEF ids
<1>6. k > i
  <2>1. ~(k < i)
    <3> SUFFICES ASSUME k < i PROVE FALSE
      OBVIOUS
    <3>1. k \in 1 .. i - 1
      BY <1>1
    <3>2. a[k] = a[i] /\ k \in DOMAIN a
      BY <1>4, <1>5, <3>1
    <3> QED BY <1>1, <3>2 DEF isOrder
  <2>2. k # i
    BY <1>5
  <2> QED BY <1>1, <2>1, <2>2
<1>7. i \in DOMAIN b
  BY <1>1, <1>6
<1>8. PICK m \in DOMAIN a : a[m] = b[i]
  BY <1>7 DEF ids
<1>9. m > i
  <2>1. ~(m < i)
    <3> SUFFICES ASSUME m < i PROVE FALSE
      OBVIOUS
    <3>1. m \in 1 .. i - 1
      BY <1>1
    <3>2. b[m] = b[i] /\ m \in DOMAIN b
      BY <1>4, <1>8, <3>1
    <3> QED BY <1>1, <1>7, <3>2 DEF isOrder
  <2>2. m # i
    BY <1>7, <1>8
  <2> QED BY <1>1, <2>1, <2>2
<1>10. precedes(a, a[i], b[i]) /\ a[i] \in ids(a) /\ b[i] \in ids(a)
  BY <1>8, <1>9 DEF precedes, ids
<1>11. PICK x \in DOMAIN b, y \in DOMAIN b : x < y /\ b[x] = a[i] /\ b[y] = b[i]
  BY <1>10 DEF precedes
<1>12. x = k /\ y = i
  BY <1>5, <1>7, <1>11 DEF isOrder
<1> QED BY <1>1, <1>6, <1>11, <1>12

\* They are one list.
LEMMA SameOrder ==
  ASSUME NEW S, NEW a, isOrder(a, S), NEW b, isOrder(b, S), ids(a) = ids(b),
         orderOf(a, ids(a)) = orderOf(b, ids(a))
  PROVE  a = b
<1>1. \A p, q \in ids(a) : precedes(a, p, q) <=> precedes(b, p, q)
  <2> TAKE p, q \in ids(a)
  <2>1. <<p, q>> \in orderOf(a, ids(a)) <=> <<p, q>> \in orderOf(b, ids(a))
    OBVIOUS
  <2> QED BY <2>1 DEF orderOf
<1>2. \A i \in DOMAIN a : i \in DOMAIN b /\ a[i] = b[i]
  BY <1>1, SamePrefix
<1>3. \A i \in DOMAIN b : i \in DOMAIN a /\ b[i] = a[i]
  BY <1>1, SamePrefix
<1>4. /\ DOMAIN a = 1 .. Len(a) /\ Len(a) \in Nat /\ a \in Seq(S)
      /\ DOMAIN b = 1 .. Len(b) /\ Len(b) \in Nat /\ b \in Seq(S)
  BY DEF isOrder
<1>5. Len(a) = Len(b)
  <2>1. ~(Len(a) > Len(b))
    <3>1. Len(a) > Len(b) => Len(a) \in DOMAIN a /\ Len(a) \notin DOMAIN b
      BY <1>4
    <3> QED BY <1>2, <3>1
  <2>2. ~(Len(b) > Len(a))
    <3>1. Len(b) > Len(a) => Len(b) \in DOMAIN b /\ Len(b) \notin DOMAIN a
      BY <1>4
    <3> QED BY <1>3, <3>1
  <2>3. Len(a) \in Nat /\ Len(b) \in Nat
    BY <1>4
  <2> QED BY <2>1, <2>2, <2>3
<1>6. a = [i \in DOMAIN a |-> a[i]] /\ b = [i \in DOMAIN b |-> b[i]] /\ DOMAIN a = DOMAIN b
  BY <1>4, <1>5
<1> QED BY <1>2, <1>6

\* revertOrder() keeps the pages, and puts them in the order it sorts by.
LEMMA OrderReverted ==
  ASSUME NEW S, NEW order, isOrder(order, S), NEW T, NEW onDash, isOrder(onDash, T)
  PROVE  LET now == revertOrder(order, onDash)
         IN /\ isOrder(now, S) /\ ids(now) = ids(order)
            /\ \A p, q \in ids(order) :
                 precedes(now, p, q) <=> sortsBefore(order, onDash, p, q)
<1> DEFINE all    == ids(order)
           before == {pair \in all \X all : sortsBefore(order, onDash, pair[1], pair[2])}
           rank(p) == rankIn(all, before, p)
           now    == revertOrder(order, onDash)
<1>1. /\ DOMAIN order = 1 .. Len(order) /\ Len(order) \in Nat
      /\ order \in Seq(S) /\ \A i \in DOMAIN order : order[i] \in S
  BY DEF isOrder
<1>2. IsFiniteSet(all) /\ Cardinality(all) = Len(order)
  <2>1. order \in [1 .. Len(order) -> all]
    BY <1>1 DEF ids
  <2> DEFINE D == 1 .. Len(order)
  <2>2. order \in Surjection(D, all) /\ order \in Injection(D, all)
    BY <1>1, <2>1, Fun_IsSurj, Fun_IsInj DEF ids, isOrder
  <2>3. IsFiniteSet(D) /\ Cardinality(D) = Len(order)
    BY <1>1, FS_Interval
  <2> HIDE DEF D, all
  <2> QED BY <2>2, <2>3, FS_Surjection
<1>3. /\ \A p \in all : ~sortsBefore(order, onDash, p, p)
      /\ \A p, q, r \in all : sortsBefore(order, onDash, p, q) /\ sortsBefore(order, onDash, q, r)
                              => sortsBefore(order, onDash, p, r)
      /\ \A p, q \in all : p = q \/ sortsBefore(order, onDash, p, q)
                              \/ sortsBefore(order, onDash, q, p)
  BY PrecedesOrders DEF sortsBefore
<1>4. \A p, q \in all : <<p, q>> \in before <=> sortsBefore(order, onDash, p, q)
  OBVIOUS
<1>5. \A p \in all : rank(p) = Cardinality({q \in all : sortsBefore(order, onDash, q, p)})
  <2> TAKE p \in all
  <2>1. {q \in all : <<q, p>> \in before} = {q \in all : sortsBefore(order, onDash, q, p)}
    BY <1>4
  <2> QED BY <2>1 DEF rankIn
<1> HIDE DEF before, all
<1>6. /\ \A p, q \in all : <<p, q>> \in before <=> rank(p) < rank(q)
      /\ \A p \in all : rank(p) \in 0 .. Len(order) - 1
      /\ \A n \in 0 .. Len(order) - 1 : \E p \in all : rank(p) = n
  BY <1>2, <1>3, <1>4, Ranked
<1>7. /\ DOMAIN now = 1 .. Len(order) /\ now = [i \in DOMAIN now |-> now[i]]
      /\ \A i \in 1 .. Len(order) : now[i] = CHOOSE p \in all : rank(p) = i - 1
  <2>1. /\ DOMAIN now = DOMAIN order
        /\ \A i \in DOMAIN order :
             now[i] = CHOOSE p \in all :
                        Cardinality({q \in all : sortsBefore(order, onDash, q, p)}) = i - 1
    BY DEF revertOrder, all
  <2>2. now = [i \in DOMAIN now |-> now[i]]
    BY DEF revertOrder
  <2> HIDE DEF rank, now
  <2> QED BY <1>1, <1>5, <2>1, <2>2
<1> HIDE DEF rank, now
<1>8. \A i \in 1 .. Len(order) : now[i] \in all /\ rank(now[i]) = i - 1
  <2> TAKE i \in 1 .. Len(order)
  <2>1. i - 1 \in 0 .. Len(order) - 1
    BY <1>1
  <2> QED BY <1>6, <1>7, <2>1
<1>9. \A p \in all : rank(p) + 1 \in 1 .. Len(order) /\ now[rank(p) + 1] = p
  <2> TAKE p \in all
  <2>1. rank(p) \in 0 .. Len(order) - 1
    BY <1>6
  <2>2. rank(p) + 1 \in 1 .. Len(order)
    BY <1>1, <2>1
  <2>3. now[rank(p) + 1] \in all /\ rank(now[rank(p) + 1]) = rank(p)
    BY <1>8, <2>1, <2>2
  <2>4. <<p, now[rank(p) + 1]>> \notin before /\ <<now[rank(p) + 1], p>> \notin before
    BY <1>6, <2>1, <2>3
  <2> QED BY <1>3, <1>4, <2>2, <2>3, <2>4
<1>10. DOMAIN now = 1 .. Len(order) /\ now \in Seq(S)
  <2>1. all \subseteq S
    BY <1>1 DEF all, ids
  <2>2. \A i \in 1 .. Len(order) : now[i] \in S
    BY <1>8, <2>1
  <2>3. now = [i \in 1 .. Len(order) |-> now[i]]
    BY <1>7
  <2> QED BY <1>1, <1>7, <2>2, <2>3
<1>11. \A i, j \in DOMAIN now : now[i] = now[j] => i = j
  <2> TAKE i, j \in DOMAIN now
  <2>1. now[i] = now[j] => i - 1 = j - 1 /\ i \in Int /\ j \in Int
    BY <1>8, <1>10
  <2> QED BY <2>1
<1>12. ids(now) = all
  BY <1>8, <1>9, <1>10 DEF ids
<1>13. ASSUME NEW p \in all, NEW q \in all
       PROVE  precedes(now, p, q) <=> sortsBefore(order, onDash, p, q)
  <2>1. precedes(now, p, q) => rank(p) < rank(q)
    <3> SUFFICES ASSUME NEW i \in DOMAIN now, NEW j \in DOMAIN now, i < j, now[i] = p, now[j] = q
                 PROVE  rank(p) < rank(q)
      BY DEF precedes
    <3> QED BY <1>1, <1>8, <1>10
  <2>2. rank(p) < rank(q) => precedes(now, p, q)
    <3>1. rank(p) < rank(q) => rank(p) + 1 < rank(q) + 1
      BY <1>6
    <3> QED BY <1>9, <1>10, <3>1 DEF precedes
  <2> QED BY <1>4, <1>6, <2>1, <2>2
<1> QED BY <1>10, <1>11, <1>12, <1>13 DEF isOrder, now, all

-----------------------------------------------------------------------------
(* Dashboards.                                                             *)

\* The functions on some of the ids.
OnSomeOf(E, R) == UNION {[D -> R] : D \in SUBSET E}

\* The pages a dashboard may have.
PagesOfOne == OnSomeOf(PageIds, Page)

\* A function on some of the ids is one of those sets of functions.
LEMMA OnSome ==
  ASSUME NEW E, NEW R, NEW f
  PROVE  f \in OnSomeOf(E, R)
           <=> /\ DOMAIN f \subseteq E /\ f = [x \in DOMAIN f |-> f[x]]
               /\ \A x \in DOMAIN f : f[x] \in R
<1>1. ASSUME f \in OnSomeOf(E, R)
      PROVE  /\ DOMAIN f \subseteq E /\ f = [x \in DOMAIN f |-> f[x]]
             /\ \A x \in DOMAIN f : f[x] \in R
  <2>1. PICK D \in SUBSET E : f \in [D -> R]
    BY <1>1 DEF OnSomeOf
  <2> QED BY <2>1
<1>2. ASSUME /\ DOMAIN f \subseteq E /\ f = [x \in DOMAIN f |-> f[x]]
             /\ \A x \in DOMAIN f : f[x] \in R
      PROVE  f \in OnSomeOf(E, R)
  <2>1. f \in [DOMAIN f -> R]
    BY <1>2
  <2> QED BY <1>2, <2>1 DEF OnSomeOf
<1> QED BY <1>1, <1>2

\* An item that is put in stays one of them.
LEMMA Included ==
  ASSUME NEW E, NEW R, NEW f \in OnSomeOf(E, R), NEW id \in E, NEW item \in R
  PROVE  /\ including(f, id, item) \in OnSomeOf(E, R)
         /\ DOMAIN including(f, id, item) = DOMAIN f \cup {id}
         /\ including(f, id, item)[id] = item
         /\ \A x \in DOMAIN f \ {id} : including(f, id, item)[x] = f[x]
<1> DEFINE now == including(f, id, item)
<1>1. /\ DOMAIN now = DOMAIN f \cup {id} /\ now = [x \in DOMAIN now |-> now[x]]
      /\ now[id] = item /\ \A x \in DOMAIN f \ {id} : now[x] = f[x]
  BY DEF including
<1>2. DOMAIN f \subseteq E /\ \A x \in DOMAIN f : f[x] \in R
  BY OnSome
<1> HIDE DEF now
<1>3. DOMAIN now \subseteq E /\ \A x \in DOMAIN now : now[x] \in R
  BY <1>1, <1>2
<1>4. now \in OnSomeOf(E, R)
  BY <1>1, <1>3, OnSome
<1> QED BY <1>1, <1>4 DEF now

\* So does one that is left out.
LEMMA Excluded ==
  ASSUME NEW E, NEW R, NEW f \in OnSomeOf(E, R), NEW id
  PROVE  /\ excluding(f, id) \in OnSomeOf(E, R)
         /\ DOMAIN excluding(f, id) = DOMAIN f \ {id}
         /\ \A x \in DOMAIN f \ {id} : excluding(f, id)[x] = f[x]
<1> DEFINE now == excluding(f, id)
<1>1. /\ DOMAIN now = DOMAIN f \ {id} /\ now = [x \in DOMAIN now |-> now[x]]
      /\ \A x \in DOMAIN f \ {id} : now[x] = f[x]
  BY DEF excluding
<1>2. DOMAIN f \subseteq E /\ \A x \in DOMAIN f : f[x] \in R
  BY OnSome
<1> HIDE DEF now
<1>3. DOMAIN now \subseteq E /\ \A x \in DOMAIN now : now[x] \in R
  BY <1>1, <1>2
<1>4. now \in OnSomeOf(E, R)
  BY <1>1, <1>3, OnSome
<1> QED BY <1>1, <1>4 DEF now

\* What a dashboard is made of.
LEMMA DashboardParts ==
  ASSUME NEW d, isDashboard(d)
  PROVE  /\ d = [order |-> d.order, pages |-> d.pages, first |-> d.first]
         /\ isOrder(d.order, PageIds) /\ d.pages \in PagesOfOne /\ d.first \in PageIds
         /\ DOMAIN d.pages = ids(d.order) /\ DOMAIN d.pages \subseteq PageIds
         /\ d.pages = [p \in DOMAIN d.pages |-> d.pages[p]]
         /\ \A p \in DOMAIN d.pages : d.pages[p] \in Page
<1>1. /\ d \in [order : Seq(PageIds), pages : PagesOfOne, first : PageIds]
      /\ \A i, j \in DOMAIN d.order : d.order[i] = d.order[j] => i = j
      /\ DOMAIN d.pages = ids(d.order)
  BY DEF isDashboard, PagesOfOne, OnSomeOf
<1>2. /\ d = [order |-> d.order, pages |-> d.pages, first |-> d.first]
      /\ isOrder(d.order, PageIds) /\ d.pages \in PagesOfOne /\ d.first \in PageIds
  BY <1>1 DEF isOrder
<1>3. /\ DOMAIN d.pages \subseteq PageIds /\ d.pages = [p \in DOMAIN d.pages |-> d.pages[p]]
      /\ \A p \in DOMAIN d.pages : d.pages[p] \in Page
  BY <1>2, OnSome DEF PagesOfOne
<1> QED BY <1>1, <1>2, <1>3

\* What makes one.
LEMMA DashboardMade ==
  ASSUME NEW order, isOrder(order, PageIds), NEW pages \in PagesOfOne, NEW first \in PageIds,
         DOMAIN pages = ids(order)
  PROVE  isDashboard([order |-> order, pages |-> pages, first |-> first])
BY DEF isDashboard, isOrder, PagesOfOne, OnSomeOf

\* A page is a record, and so is one with another look or other gauges.
LEMMA PageParts ==
  ASSUME NEW page1 \in Page
  PROVE  /\ page1 = [look |-> page1.look, gauges |-> page1.gauges]
         /\ page1.look \in Looks /\ page1.gauges \in Gauges
BY DEF Page

\* The dashboard d with another page p, with another look of it, with other gauges.
withPage(d, p, item) == [d EXCEPT !.pages[p] = item]
withLook(d, p, look) == [d EXCEPT !.pages[p].look = look]
withGauges(d, p, gauges) == [d EXCEPT !.pages[p].gauges = gauges]

\* A dashboard whose page p has become another stays one.
LEMMA PageReplaced ==
  ASSUME NEW d, isDashboard(d), NEW p \in DOMAIN d.pages, NEW item \in Page
  PROVE  LET now == withPage(d, p, item)
         IN /\ isDashboard(now) /\ now.order = d.order /\ now.first = d.first
            /\ DOMAIN now.pages = DOMAIN d.pages /\ now.pages[p] = item
            /\ \A q \in DOMAIN d.pages \ {p} : now.pages[q] = d.pages[q]
<1> DEFINE now   == withPage(d, p, item)
           pages == [q \in DOMAIN d.pages |-> IF q = p THEN item ELSE d.pages[q]]
<1>1. /\ d = [order |-> d.order, pages |-> d.pages, first |-> d.first]
      /\ d.pages = [q \in DOMAIN d.pages |-> d.pages[q]]
  BY DashboardParts
<1>2. [d.pages EXCEPT ![p] = item] = pages
  BY <1>1
<1>3. now = [order |-> d.order, pages |-> pages, first |-> d.first]
  BY <1>1, <1>2 DEF withPage
<1>4. pages \in PagesOfOne
  <2>1. /\ DOMAIN pages = DOMAIN d.pages /\ pages = [q \in DOMAIN pages |-> pages[q]]
        /\ DOMAIN pages \subseteq PageIds
    BY DashboardParts
  <2>2. \A q \in DOMAIN pages : pages[q] \in Page
    BY DashboardParts
  <2> HIDE DEF pages
  <2> QED BY <2>1, <2>2, OnSome DEF PagesOfOne
<1>5. /\ DOMAIN pages = DOMAIN d.pages /\ pages[p] = item
      /\ \A q \in DOMAIN d.pages \ {p} : pages[q] = d.pages[q]
  OBVIOUS
<1> HIDE DEF pages, now
<1>6. isDashboard(now)
  BY <1>3, <1>4, <1>5, DashboardParts, DashboardMade
<1> QED BY <1>3, <1>5, <1>6 DEF now

\* What is set on a page is set by replacing it.
LEMMA PageSet ==
  ASSUME NEW d, isDashboard(d), NEW p \in DOMAIN d.pages, NEW look, NEW gauges
  PROVE  /\ withLook(d, p, look) = withPage(d, p, [look |-> look, gauges |-> d.pages[p].gauges])
         /\ withGauges(d, p, gauges) = withPage(d, p, [look |-> d.pages[p].look, gauges |-> gauges])
<1>1. d.pages[p] = [look |-> d.pages[p].look, gauges |-> d.pages[p].gauges]
  BY DashboardParts, PageParts
<1> QED BY <1>1 DEF withPage, withLook, withGauges

-----------------------------------------------------------------------------
(* The list.                                                               *)

\* What differs between two dashboards, one thing at a time.
pageDiffers(b, a, p) == p \in inOne(b.pages, a.pages)
lookDiffers(b, a, p) == p \in inBoth(b.pages, a.pages) /\ b.pages[p].look # a.pages[p].look
gaugeDiffers(b, a, p, g) ==
  p \in inBoth(b.pages, a.pages) /\ g \in inOne(b.pages[p].gauges, a.pages[p].gauges)
gaugeLookDiffers(b, a, p, g) ==
  /\ p \in inBoth(b.pages, a.pages) /\ g \in inBoth(b.pages[p].gauges, a.pages[p].gauges)
  /\ b.pages[p].gauges[g] # a.pages[p].gauges[g]
orderDiffers(b, a) ==
  LET shared == inBoth(b.pages, a.pages)
  IN orderOf(b.order, shared) # orderOf(a.order, shared)
firstDiffers(b, a) == b.first # a.first

theOrder == Change("order", "none", "none")
theFirst == Change("first", "none", "none")

\* The list has an entry for each of these, and no other.
LEMMA Listed ==
  ASSUME NEW b, b # NoDashboard, NEW a, NEW c
  PROVE  c \in diffSetup(b, a)
           <=> \/ \E p : pageDiffers(b, a, p) /\ c = Change("page", p, "none")
               \/ \E p : lookDiffers(b, a, p) /\ c = Change("pageLook", p, "none")
               \/ \E p, g : gaugeDiffers(b, a, p, g) /\ c = Change("gauge", p, g)
               \/ \E p, g : gaugeLookDiffers(b, a, p, g) /\ c = Change("gaugeLook", p, g)
               \/ orderDiffers(b, a) /\ c = theOrder
               \/ firstDiffers(b, a) /\ c = theFirst
<1>1. c \in diffSetup(b, a)
        <=> \/ c \in pageChanges(b.pages, a.pages)
            \/ c \in orderChange(b, a) \/ c \in topLevelChanges(b, a)
  BY DEF diffSetup
<1>2. c \in orderChange(b, a) <=> orderDiffers(b, a) /\ c = theOrder
  BY DEF orderChange, orderDiffers, theOrder
<1>3. c \in topLevelChanges(b, a) <=> firstDiffers(b, a) /\ c = theFirst
  BY DEF topLevelChanges, firstDiffers, theFirst
<1>4. c \in pageChanges(b.pages, a.pages)
        <=> \/ \E p : pageDiffers(b, a, p) /\ c = Change("page", p, "none")
            \/ \E p \in inBoth(b.pages, a.pages) : c \in commonPageChanges(p, b.pages[p], a.pages[p])
  BY DEF pageChanges, pageDiffers
<1>5. ASSUME NEW p \in inBoth(b.pages, a.pages)
      PROVE  c \in commonPageChanges(p, b.pages[p], a.pages[p])
               <=> \/ lookDiffers(b, a, p) /\ c = Change("pageLook", p, "none")
                   \/ \E g : gaugeDiffers(b, a, p, g) /\ c = Change("gauge", p, g)
                   \/ \E g : gaugeLookDiffers(b, a, p, g) /\ c = Change("gaugeLook", p, g)
  BY DEF commonPageChanges, gaugeChanges, lookDiffers, gaugeDiffers, gaugeLookDiffers
<1>6. \A p : p \notin inBoth(b.pages, a.pages)
              => /\ ~lookDiffers(b, a, p)
                 /\ \A g : ~gaugeDiffers(b, a, p, g) /\ ~gaugeLookDiffers(b, a, p, g)
  BY DEF lookDiffers, gaugeDiffers, gaugeLookDiffers
<1> QED BY <1>1, <1>2, <1>3, <1>4, <1>5, <1>6

\* An undo that changes what c is about, and at most the order, takes c off the list.
LEMMA OneTakenOff ==
  ASSUME NEW b, b # NoDashboard, NEW a, NEW now, NEW c,
         \A p : pageDiffers(b, now, p) <=> pageDiffers(b, a, p) /\ c # Change("page", p, "none"),
         \A p : lookDiffers(b, now, p)
                  <=> lookDiffers(b, a, p) /\ c # Change("pageLook", p, "none"),
         \A p, g : gaugeDiffers(b, now, p, g)
                     <=> gaugeDiffers(b, a, p, g) /\ c # Change("gauge", p, g),
         \A p, g : gaugeLookDiffers(b, now, p, g)
                     <=> gaugeLookDiffers(b, a, p, g) /\ c # Change("gaugeLook", p, g),
         firstDiffers(b, now) <=> firstDiffers(b, a) /\ c # theFirst,
         c = theOrder => ~orderDiffers(b, now)
  PROVE  LET left == diffSetup(b, now)
         IN c \notin left /\ diffSetup(b, a) \ {c, theOrder} = left \ {theOrder}
<1>1. c \notin diffSetup(b, now)
  <2> SUFFICES ASSUME c \in diffSetup(b, now) PROVE FALSE
    OBVIOUS
  <2> QED BY Listed
<1>2. ASSUME NEW x, x # theOrder
      PROVE  x \in diffSetup(b, now) <=> x \in diffSetup(b, a) /\ x # c
  <2>1. x \in diffSetup(b, now) => x \in diffSetup(b, a)
    BY <1>2, Listed
  <2>2. x \in diffSetup(b, a) /\ x # c => x \in diffSetup(b, now)
    BY <1>2, Listed
  <2> QED BY <1>1, <2>1, <2>2
<1> QED BY <1>1, <1>2

\* The draft is a dashboard, and so is what was read from the dash, if anything was.
ListInv == isDashboard(sketch) /\ (baseline = NoDashboard \/ isDashboard(baseline))

\* What the undo of one entry does to what the dash and the draft differ in.
takesOff(c) ==
  LET now == revertChange(c)
  IN /\ \A p : pageDiffers(baseline, now, p)
                 <=> pageDiffers(baseline, sketch, p) /\ c # Change("page", p, "none")
     /\ \A p : lookDiffers(baseline, now, p)
                 <=> lookDiffers(baseline, sketch, p) /\ c # Change("pageLook", p, "none")
     /\ \A p, g : gaugeDiffers(baseline, now, p, g)
                    <=> gaugeDiffers(baseline, sketch, p, g) /\ c # Change("gauge", p, g)
     /\ \A p, g : gaugeLookDiffers(baseline, now, p, g)
                    <=> gaugeLookDiffers(baseline, sketch, p, g) /\ c # Change("gaugeLook", p, g)
     /\ firstDiffers(baseline, now) <=> firstDiffers(baseline, sketch) /\ c # theFirst
     /\ c = theOrder => ~orderDiffers(baseline, now)

\* The undo of a page puts it back or removes it.
LEMMA PageUndone ==
  ASSUME ListInv, baseline # NoDashboard, NEW p, pageDiffers(baseline, sketch, p)
  PROVE  LET c == Change("page", p, "none") IN isDashboard(revertChange(c)) /\ takesOff(c)
<1> DEFINE c     == Change("page", p, "none")
           now   == revertChange(c)
           order == assignPage(sketch.order, p, baseline.order)
           pages == assignItem(sketch.pages, p, baseline.pages)
<1>1. isDashboard(sketch) /\ isDashboard(baseline)
  BY DEF ListInv
<1>2. /\ c.kind = "page" /\ c.page = p /\ c # theFirst /\ c # theOrder
      /\ \A q : c = Change("page", q, "none") <=> q = p
      /\ \A q, g : c # Change("pageLook", q, "none") /\ c # Change("gauge", q, g)
                   /\ c # Change("gaugeLook", q, g)
  BY DEF Change, theFirst, theOrder
<1>3. /\ sketch = [order |-> sketch.order, pages |-> sketch.pages, first |-> sketch.first]
      /\ isOrder(sketch.order, PageIds) /\ isOrder(baseline.order, PageIds)
      /\ DOMAIN sketch.pages = ids(sketch.order) /\ DOMAIN sketch.pages \subseteq PageIds
      /\ DOMAIN baseline.pages = ids(baseline.order) /\ DOMAIN baseline.pages \subseteq PageIds
      /\ \A q \in DOMAIN baseline.pages : baseline.pages[q] \in Page
      /\ sketch.pages \in PagesOfOne /\ sketch.first \in PageIds
  BY <1>1, DashboardParts
<1>4. now = [order |-> order, pages |-> pages, first |-> sketch.first]
  BY <1>2, <1>3 DEF revertChange
<1>5. \/ p \in DOMAIN baseline.pages /\ p \notin DOMAIN sketch.pages
      \/ p \notin DOMAIN baseline.pages /\ p \in DOMAIN sketch.pages
  BY DEF pageDiffers, inOne
<1>6. /\ isOrder(order, PageIds) /\ pages \in PagesOfOne /\ DOMAIN pages = ids(order)
      /\ \A q : q # p => (q \in DOMAIN pages <=> q \in DOMAIN sketch.pages)
      /\ \A q \in DOMAIN sketch.pages \ {p} : pages[q] = sketch.pages[q]
      /\ p \in DOMAIN pages <=> p \in DOMAIN baseline.pages
      /\ p \in DOMAIN baseline.pages => pages[p] = baseline.pages[p]
  <2>1. CASE p \in DOMAIN baseline.pages /\ p \notin DOMAIN sketch.pages
    <3> DEFINE at == IF indexAt(baseline.order, p) <= Len(sketch.order)
                     THEN indexAt(baseline.order, p) ELSE Len(sketch.order) + 1
    <3>1. order = putAt(sketch.order, at, p)
      BY <1>3, <2>1 DEF assignPage
    <3>2. at \in 1 .. Len(sketch.order) + 1
      <4>1. indexAt(baseline.order, p) \in DOMAIN baseline.order
        BY <1>3, <2>1, FoundAt
      <4>2. indexAt(baseline.order, p) \in Nat \ {0} /\ Len(sketch.order) \in Nat
        BY <1>3, <4>1 DEF isOrder
      <4> HIDE DEF order, pages, now
      <4> QED BY <4>2
    <3> HIDE DEF at
    <3>3. isOrder(order, PageIds) /\ ids(order) = ids(sketch.order) \cup {p}
      BY <1>3, <2>1, <3>1, <3>2, PutAt
    <3>4. pages = including(sketch.pages, p, baseline.pages[p])
      BY <2>1 DEF assignItem
    <3> HIDE DEF order, pages, now
    <3>5. /\ pages \in PagesOfOne /\ DOMAIN pages = DOMAIN sketch.pages \cup {p}
          /\ pages[p] = baseline.pages[p]
          /\ \A q \in DOMAIN sketch.pages \ {p} : pages[q] = sketch.pages[q]
      <4>1. /\ p \in PageIds /\ baseline.pages[p] \in Page
            /\ sketch.pages \in OnSomeOf(PageIds, Page)
        BY <1>3, <2>1 DEF PagesOfOne
      <4>2. pages \in OnSomeOf(PageIds, Page)
        BY <3>4, <4>1, Included
      <4>3. DOMAIN pages = DOMAIN sketch.pages \cup {p} /\ pages[p] = baseline.pages[p]
        BY <3>4 DEF including
      <4>4. \A q \in DOMAIN sketch.pages \ {p} : pages[q] = sketch.pages[q]
        BY <3>4 DEF including
      <4> QED BY <4>2, <4>3, <4>4 DEF PagesOfOne
    <3> QED BY <1>3, <2>1, <3>3, <3>5
  <2>2. CASE p \notin DOMAIN baseline.pages /\ p \in DOMAIN sketch.pages
    <3> DEFINE at == indexAt(sketch.order, p)
    <3>1. order = leftOut(sketch.order, at)
      BY <1>3, <2>2 DEF assignPage
    <3>2. at \in DOMAIN sketch.order /\ sketch.order[at] = p
      BY <1>3, <2>2, FoundAt
    <3> HIDE DEF at
    <3>3. isOrder(order, PageIds) /\ ids(order) = ids(sketch.order) \ {p}
      BY <1>3, <3>1, <3>2, LeftOut
    <3>4. pages = excluding(sketch.pages, p)
      BY <2>2 DEF assignItem
    <3> HIDE DEF order, pages, now
    <3>5. /\ pages \in PagesOfOne /\ DOMAIN pages = DOMAIN sketch.pages \ {p}
          /\ \A q \in DOMAIN sketch.pages \ {p} : pages[q] = sketch.pages[q]
      BY <1>3, <3>4, Excluded DEF PagesOfOne
    <3> QED BY <1>3, <2>2, <3>3, <3>5
  <2> QED BY <1>5, <2>1, <2>2
<1> HIDE DEF order, pages, now, c
<1>7. isDashboard(now)
  BY <1>3, <1>4, <1>6, DashboardMade
<1>8. now.pages = pages /\ now.first = sketch.first
  BY <1>4
<1>9. \A q : pageDiffers(baseline, now, q)
               <=> pageDiffers(baseline, sketch, q) /\ c # Change("page", q, "none")
  BY <1>2, <1>6, <1>8 DEF pageDiffers, inOne
<1>10. /\ p \notin inBoth(baseline.pages, sketch.pages)
       /\ \A q : q # p => (q \in inBoth(baseline.pages, pages)
                             <=> q \in inBoth(baseline.pages, sketch.pages))
       /\ \A q \in inBoth(baseline.pages, sketch.pages) : pages[q] = sketch.pages[q]
       /\ p \in inBoth(baseline.pages, pages) => pages[p] = baseline.pages[p]
  BY <1>5, <1>6 DEF inBoth
<1>11. \A q : lookDiffers(baseline, now, q) <=> lookDiffers(baseline, sketch, q)
  BY <1>8, <1>10 DEF lookDiffers
<1>12. \A q, g : gaugeDiffers(baseline, now, q, g) <=> gaugeDiffers(baseline, sketch, q, g)
  <2>1. \A items, g : g \notin inOne(items, items)
    BY DEF inOne
  <2> QED BY <1>8, <1>10, <2>1 DEF gaugeDiffers
<1>13. \A q, g : gaugeLookDiffers(baseline, now, q, g) <=> gaugeLookDiffers(baseline, sketch, q, g)
  BY <1>8, <1>10 DEF gaugeLookDiffers
<1>14. firstDiffers(baseline, now) <=> firstDiffers(baseline, sketch)
  BY <1>8 DEF firstDiffers
<1>15. takesOff(c)
  BY <1>2, <1>9, <1>11, <1>12, <1>13, <1>14 DEF takesOff, now
<1> QED BY <1>7, <1>15 DEF now, c

\* An undo on a page that both have: of its look, or of one of its gauges.
LEMMA LookUndone ==
  ASSUME ListInv, baseline # NoDashboard, NEW p, lookDiffers(baseline, sketch, p)
  PROVE  LET c == Change("pageLook", p, "none") IN isDashboard(revertChange(c)) /\ takesOff(c)
<1> DEFINE c    == Change("pageLook", p, "none")
           now  == revertChange(c)
           item == [look |-> baseline.pages[p].look, gauges |-> sketch.pages[p].gauges]
<1>1. isDashboard(sketch) /\ isDashboard(baseline)
  BY DEF ListInv
<1>2. p \in DOMAIN sketch.pages /\ p \in DOMAIN baseline.pages
  BY DEF lookDiffers, inBoth
<1>3. /\ c.kind = "pageLook" /\ c.page = p /\ c # theFirst /\ c # theOrder
      /\ \A q : c = Change("pageLook", q, "none") <=> q = p
      /\ \A q, g : c # Change("page", q, "none") /\ c # Change("gauge", q, g)
                   /\ c # Change("gaugeLook", q, g)
  BY DEF Change, theFirst, theOrder
<1>4. sketch.pages[p] \in Page /\ baseline.pages[p] \in Page
  BY <1>1, <1>2, DashboardParts
<1>5. item \in Page
  BY <1>4 DEF Page
<1>6. now = withLook(sketch, p, baseline.pages[p].look)
  <2> HIDE DEF c
  <2>1. now = [sketch EXCEPT !.pages[c.page].look = baseline.pages[c.page].look]
    BY <1>3 DEF revertChange
  <2> QED BY <1>3, <2>1 DEF withLook
<1>7. now = withPage(sketch, p, item)
  BY <1>1, <1>2, <1>6, PageSet
<1>8. item.look = baseline.pages[p].look /\ item.gauges = sketch.pages[p].gauges
  OBVIOUS
<1> HIDE DEF now, item, c
<1>9. /\ isDashboard(now) /\ now.first = sketch.first
      /\ DOMAIN now.pages = DOMAIN sketch.pages /\ now.pages[p] = item
      /\ \A q \in DOMAIN sketch.pages \ {p} : now.pages[q] = sketch.pages[q]
  BY <1>1, <1>2, <1>5, <1>7, PageReplaced
<1>10. /\ \A q : pageDiffers(baseline, now, q) <=> pageDiffers(baseline, sketch, q)
       /\ firstDiffers(baseline, now) <=> firstDiffers(baseline, sketch)
  BY <1>9 DEF pageDiffers, firstDiffers, inOne
<1>11. /\ inBoth(baseline.pages, now.pages) = inBoth(baseline.pages, sketch.pages)
       /\ inBoth(baseline.pages, sketch.pages) \subseteq DOMAIN sketch.pages
  BY <1>9 DEF inBoth
<1>12. \A q : lookDiffers(baseline, now, q) <=> lookDiffers(baseline, sketch, q) /\ q # p
  BY <1>8, <1>9, <1>11 DEF lookDiffers
<1>13. \A q \in DOMAIN sketch.pages : now.pages[q].gauges = sketch.pages[q].gauges
  BY <1>8, <1>9
<1>14. \A q, g : gaugeDiffers(baseline, now, q, g) <=> gaugeDiffers(baseline, sketch, q, g)
  BY <1>11, <1>13 DEF gaugeDiffers
<1>15. \A q, g : gaugeLookDiffers(baseline, now, q, g) <=> gaugeLookDiffers(baseline, sketch, q, g)
  BY <1>11, <1>13 DEF gaugeLookDiffers
<1>16. takesOff(c)
  BY <1>3, <1>10, <1>12, <1>14, <1>15 DEF takesOff, now
<1> QED BY <1>9, <1>16 DEF now, c

\* The undo of an entry about a gauge puts it back, removes it or gives it its look again.
LEMMA GaugeUndone ==
  ASSUME ListInv, baseline # NoDashboard, NEW p, NEW g, NEW c,
         \/ gaugeDiffers(baseline, sketch, p, g) /\ c = Change("gauge", p, g)
         \/ gaugeLookDiffers(baseline, sketch, p, g) /\ c = Change("gaugeLook", p, g)
  PROVE  isDashboard(revertChange(c)) /\ takesOff(c)
<1> DEFINE now    == revertChange(c)
           onDash == baseline.pages[p].gauges
           were   == sketch.pages[p].gauges
           gauges == assignItem(were, g, onDash)
           item   == [look |-> sketch.pages[p].look, gauges |-> gauges]
<1>1. isDashboard(sketch) /\ isDashboard(baseline)
  BY DEF ListInv
<1>2. /\ p \in DOMAIN sketch.pages /\ p \in DOMAIN baseline.pages
      /\ g \in DOMAIN were \cup DOMAIN onDash
  BY DEF gaugeDiffers, gaugeLookDiffers, inBoth, inOne
<1>3. /\ c.kind \in {"gauge", "gaugeLook"} /\ c.page = p /\ c.gauge = g
      /\ c # theFirst /\ c # theOrder
      /\ \A q, h : c = Change("gauge", q, h) => q = p /\ h = g
      /\ \A q, h : c = Change("gaugeLook", q, h) => q = p /\ h = g
      /\ \A q : c # Change("page", q, "none") /\ c # Change("pageLook", q, "none")
  BY DEF Change, theFirst, theOrder
<1>4. /\ sketch.pages[p] \in Page /\ baseline.pages[p] \in Page
  BY <1>1, <1>2, DashboardParts
<1>5. /\ were \in OnSomeOf(GaugeIds, Looks) /\ onDash \in OnSomeOf(GaugeIds, Looks)
      /\ sketch.pages[p].look \in Looks
  BY <1>4 DEF Page, Gauges, OnSomeOf
<1>6. /\ gauges \in OnSomeOf(GaugeIds, Looks)
      /\ \A h : h # g => (h \in DOMAIN gauges <=> h \in DOMAIN were)
      /\ \A h \in DOMAIN were \ {g} : gauges[h] = were[h]
      /\ g \in DOMAIN gauges <=> g \in DOMAIN onDash
      /\ g \in DOMAIN onDash => gauges[g] = onDash[g]
  <2> HIDE DEF were, onDash, now, item
  <2>1. CASE g \in DOMAIN onDash
    <3>1. gauges = including(were, g, onDash[g])
      BY <2>1 DEF assignItem
    <3>2. g \in GaugeIds /\ onDash[g] \in Looks
      BY <1>5, <2>1, OnSome
    <3> HIDE DEF gauges
    <3>3. gauges \in OnSomeOf(GaugeIds, Looks)
      BY <1>5, <3>1, <3>2, Included
    <3>4. /\ DOMAIN gauges = DOMAIN were \cup {g} /\ gauges[g] = onDash[g]
          /\ \A h \in DOMAIN were \ {g} : gauges[h] = were[h]
      BY <3>1 DEF including
    <3> QED BY <2>1, <3>3, <3>4
  <2>2. CASE g \notin DOMAIN onDash
    <3>1. gauges = excluding(were, g)
      BY <2>2 DEF assignItem
    <3> HIDE DEF gauges
    <3>2. gauges \in OnSomeOf(GaugeIds, Looks)
      BY <1>5, <3>1, Excluded
    <3>3. /\ DOMAIN gauges = DOMAIN were \ {g}
          /\ \A h \in DOMAIN were \ {g} : gauges[h] = were[h]
      BY <3>1 DEF excluding
    <3> QED BY <2>2, <3>2, <3>3
  <2> QED BY <2>1, <2>2
<1> HIDE DEF gauges
<1>7. item \in Page
  BY <1>5, <1>6 DEF Page, Gauges, OnSomeOf
<1>8. now = withGauges(sketch, p, gauges)
  <2>1. now = revertGauge(c)
    BY <1>3 DEF revertChange
  <2>2. revertGauge(c)
          = [sketch EXCEPT !.pages[c.page].gauges =
               assignItem(@, c.gauge, baseline.pages[c.page].gauges)]
    BY DEF revertGauge
  <2>3. sketch = [order |-> sketch.order, pages |-> sketch.pages, first |-> sketch.first]
    BY <1>1, DashboardParts
  <2> QED BY <1>3, <2>1, <2>2, <2>3 DEF gauges, withGauges
<1>9. now = withPage(sketch, p, item)
  BY <1>1, <1>2, <1>8, PageSet
<1>10. item.look = sketch.pages[p].look /\ item.gauges = gauges
  OBVIOUS
<1> HIDE DEF now, item
<1>11. /\ isDashboard(now) /\ now.first = sketch.first
       /\ DOMAIN now.pages = DOMAIN sketch.pages /\ now.pages[p] = item
       /\ \A q \in DOMAIN sketch.pages \ {p} : now.pages[q] = sketch.pages[q]
  BY <1>1, <1>2, <1>7, <1>9, PageReplaced
<1>12. /\ \A q : pageDiffers(baseline, now, q) <=> pageDiffers(baseline, sketch, q)
       /\ firstDiffers(baseline, now) <=> firstDiffers(baseline, sketch)
  BY <1>11 DEF pageDiffers, firstDiffers, inOne
<1>13. /\ inBoth(baseline.pages, now.pages) = inBoth(baseline.pages, sketch.pages)
       /\ inBoth(baseline.pages, sketch.pages) \subseteq DOMAIN sketch.pages
       /\ p \in inBoth(baseline.pages, sketch.pages)
  BY <1>2, <1>11 DEF inBoth
<1>14. \A q \in DOMAIN sketch.pages : now.pages[q].look = sketch.pages[q].look
  BY <1>10, <1>11
<1>15. \A q : lookDiffers(baseline, now, q) <=> lookDiffers(baseline, sketch, q)
  BY <1>13, <1>14 DEF lookDiffers
<1>16. \A q, h : q # p => /\ gaugeDiffers(baseline, now, q, h)
                               <=> gaugeDiffers(baseline, sketch, q, h)
                          /\ gaugeLookDiffers(baseline, now, q, h)
                               <=> gaugeLookDiffers(baseline, sketch, q, h)
  BY <1>11, <1>13 DEF gaugeDiffers, gaugeLookDiffers
<1>17. \A h : h # g => /\ gaugeDiffers(baseline, now, p, h)
                            <=> gaugeDiffers(baseline, sketch, p, h)
                       /\ gaugeLookDiffers(baseline, now, p, h)
                            <=> gaugeLookDiffers(baseline, sketch, p, h)
  BY <1>6, <1>10, <1>11, <1>13 DEF gaugeDiffers, gaugeLookDiffers, inOne, inBoth, were, onDash
<1>18. ~gaugeDiffers(baseline, now, p, g) /\ ~gaugeLookDiffers(baseline, now, p, g)
  BY <1>6, <1>10, <1>11, <1>13 DEF gaugeDiffers, gaugeLookDiffers, inOne, inBoth, were, onDash
<1>19. \/ c = Change("gauge", p, g) /\ ~gaugeLookDiffers(baseline, sketch, p, g)
       \/ c = Change("gaugeLook", p, g) /\ ~gaugeDiffers(baseline, sketch, p, g)
  BY DEF gaugeDiffers, gaugeLookDiffers, inOne, inBoth
<1>20. takesOff(c)
  BY <1>3, <1>12, <1>15, <1>16, <1>17, <1>18, <1>19 DEF takesOff, now
<1> QED BY <1>11, <1>20 DEF now

\* The undo of the order puts the pages that both have in the order of the dash.
LEMMA OrderUndone ==
  ASSUME ListInv, baseline # NoDashboard
  PROVE  isDashboard(revertChange(theOrder)) /\ takesOff(theOrder)
<1> DEFINE now   == revertChange(theOrder)
           order == revertOrder(sketch.order, baseline.order)
           both  == inBoth(baseline.pages, sketch.pages)
<1>1. isDashboard(sketch) /\ isDashboard(baseline)
  BY DEF ListInv
<1>2. /\ theOrder.kind = "order" /\ theOrder # theFirst
      /\ \A q, g : /\ theOrder # Change("page", q, "none")
                   /\ theOrder # Change("pageLook", q, "none")
                   /\ theOrder # Change("gauge", q, g) /\ theOrder # Change("gaugeLook", q, g)
  BY DEF Change, theFirst, theOrder
<1>3. /\ sketch = [order |-> sketch.order, pages |-> sketch.pages, first |-> sketch.first]
      /\ isOrder(sketch.order, PageIds) /\ isOrder(baseline.order, PageIds)
      /\ DOMAIN sketch.pages = ids(sketch.order) /\ DOMAIN baseline.pages = ids(baseline.order)
      /\ sketch.pages \in PagesOfOne /\ sketch.first \in PageIds
  BY <1>1, DashboardParts
<1>4. now = [order |-> order, pages |-> sketch.pages, first |-> sketch.first]
  BY <1>2, <1>3 DEF revertChange
<1>5. /\ isOrder(order, PageIds) /\ ids(order) = ids(sketch.order)
      /\ \A p, q \in ids(sketch.order) :
           precedes(order, p, q) <=> sortsBefore(sketch.order, baseline.order, p, q)
  BY <1>3, OrderReverted
<1> HIDE DEF now, order
<1>6. isDashboard(now)
  BY <1>3, <1>4, <1>5, DashboardMade
<1>7. both \subseteq ids(sketch.order) /\ both \subseteq ids(baseline.order)
  BY <1>3 DEF inBoth
<1>8. orderOf(baseline.order, both) = orderOf(order, both)
  <2>1. \A p, q \in both : precedes(order, p, q) <=> precedes(baseline.order, p, q)
    BY <1>5, <1>7 DEF sortsBefore
  <2> HIDE DEF both
  <2> QED BY <2>1 DEF orderOf
<1>9. now.order = order /\ now.pages = sketch.pages /\ now.first = sketch.first
  BY <1>4
<1>10. ~orderDiffers(baseline, now)
  BY <1>8, <1>9 DEF orderDiffers
<1>11. takesOff(theOrder)
  BY <1>2, <1>9, <1>10
     DEF takesOff, now, pageDiffers, lookDiffers, gaugeDiffers, gaugeLookDiffers, firstDiffers
<1> QED BY <1>6, <1>11 DEF now

\* The undo of the page that is shown first takes it from the dash.
LEMMA FirstUndone ==
  ASSUME ListInv, baseline # NoDashboard
  PROVE  isDashboard(revertChange(theFirst)) /\ takesOff(theFirst)
<1> DEFINE now == revertChange(theFirst)
<1>1. isDashboard(sketch) /\ isDashboard(baseline)
  BY DEF ListInv
<1>2. /\ theFirst.kind = "first" /\ theFirst # theOrder
      /\ \A q, g : /\ theFirst # Change("page", q, "none")
                   /\ theFirst # Change("pageLook", q, "none")
                   /\ theFirst # Change("gauge", q, g) /\ theFirst # Change("gaugeLook", q, g)
  BY DEF Change, theFirst, theOrder
<1>3. /\ sketch = [order |-> sketch.order, pages |-> sketch.pages, first |-> sketch.first]
      /\ isOrder(sketch.order, PageIds) /\ DOMAIN sketch.pages = ids(sketch.order)
      /\ sketch.pages \in PagesOfOne /\ baseline.first \in PageIds
  BY <1>1, DashboardParts
<1>4. now = [order |-> sketch.order, pages |-> sketch.pages, first |-> baseline.first]
  BY <1>2, <1>3 DEF revertChange
<1> HIDE DEF now
<1>5. isDashboard(now)
  BY <1>3, <1>4, DashboardMade
<1>6. now.pages = sketch.pages /\ now.first = baseline.first
  BY <1>4
<1>7. takesOff(theFirst)
  BY <1>2, <1>6
     DEF takesOff, now, pageDiffers, lookDiffers, gaugeDiffers, gaugeLookDiffers, firstDiffers
<1> QED BY <1>5, <1>7 DEF now

\* Whichever entry is undone, the draft stays a dashboard and only that entry goes.
LEMMA EntryUndone ==
  ASSUME ListInv, NEW c \in notSent, c.kind # "whole"
  PROVE  baseline # NoDashboard /\ isDashboard(revertChange(c)) /\ takesOff(c)
<1>1. baseline # NoDashboard
  BY DEF notSent, diffSetup, Change
<1>2. \/ \E p : pageDiffers(baseline, sketch, p) /\ c = Change("page", p, "none")
      \/ \E p : lookDiffers(baseline, sketch, p) /\ c = Change("pageLook", p, "none")
      \/ \E p, g : gaugeDiffers(baseline, sketch, p, g) /\ c = Change("gauge", p, g)
      \/ \E p, g : gaugeLookDiffers(baseline, sketch, p, g) /\ c = Change("gaugeLook", p, g)
      \/ c = theOrder \/ c = theFirst
  BY <1>1, Listed DEF notSent
<1> QED BY <1>1, <1>2, PageUndone, LookUndone, GaugeUndone, OrderUndone, FirstUndone

-----------------------------------------------------------------------------
(* The invariant of the list.                                              *)

\* What the editor does to the pages leaves a dashboard.
LEMMA PagesEdited ==
  ASSUME ListInv,
         \/ \E p \in PageIds : addPage(p)
         \/ \E p \in DOMAIN sketch.pages : removePage(p)
         \/ \E i \in DOMAIN sketch.order : movePage(i)
  PROVE  ListInv'
<1>1. /\ isDashboard(sketch)
      /\ sketch = [order |-> sketch.order, pages |-> sketch.pages, first |-> sketch.first]
      /\ isOrder(sketch.order, PageIds) /\ DOMAIN sketch.pages = ids(sketch.order)
      /\ sketch.pages \in PagesOfOne /\ sketch.first \in PageIds
  BY DashboardParts DEF ListInv
<1>2. /\ DOMAIN sketch.order = 1 .. Len(sketch.order) /\ Len(sketch.order) \in Nat
      /\ sketch.order \in Seq(PageIds)
      /\ \A i, j \in DOMAIN sketch.order : sketch.order[i] = sketch.order[j] => i = j
  BY <1>1 DEF isOrder
<1>3. SUFFICES baseline' = baseline /\ isDashboard(sketch')
  BY DEF ListInv, isDashboard
<1>4. CASE \E p \in PageIds : addPage(p)
  <2>1. PICK p \in PageIds, look \in Looks :
          /\ p \notin DOMAIN sketch.pages
          /\ edits([sketch EXCEPT !.order = Append(@, p),
                                  !.pages = including(@, p, [look |-> look, gauges |-> <<>>])])
    BY <1>4 DEF addPage
  <2> DEFINE order == Append(sketch.order, p)
             item  == [look |-> look, gauges |-> <<>>]
             pages == including(sketch.pages, p, item)
  <2>2. baseline' = baseline /\ sketch' = [order |-> order, pages |-> pages, first |-> sketch.first]
    BY <1>1, <2>1 DEF edits
  <2>3. order \in Seq(PageIds) /\ Len(order) = Len(sketch.order) + 1
        /\ order[Len(sketch.order) + 1] = p
        /\ \A i \in 1 .. Len(sketch.order) : order[i] = sketch.order[i]
    BY <1>2
  <2>4. item \in Page
    <3>1. <<>> \in [{} -> Looks]
      OBVIOUS
    <3> QED BY <3>1 DEF Page, Gauges
  <2> HIDE DEF item, order
  <2>5. \A i \in 1 .. Len(sketch.order) : sketch.order[i] # p
    BY <1>1, <1>2, <2>1 DEF ids
  <2>6. isOrder(order, PageIds)
    <3>1. \A i \in DOMAIN order : i \in 1 .. Len(sketch.order) \/ i = Len(sketch.order) + 1
      BY <1>2, <2>3
    <3>2. \A i, j \in 1 .. Len(sketch.order) : order[i] = order[j] => i = j
      BY <1>2, <2>3
    <3>3. \A i, j \in DOMAIN order : order[i] = order[j] => i = j
      BY <2>3, <2>5, <3>1, <3>2
    <3> QED BY <2>3, <3>3 DEF isOrder
  <2>7. ids(order) = ids(sketch.order) \cup {p}
    <3>1. DOMAIN order = DOMAIN sketch.order \cup {Len(sketch.order) + 1}
      <4>1. DOMAIN order = 1 .. Len(sketch.order) + 1
        BY <2>3
      <4>2. \A n \in Nat : 1 .. n + 1 = (1 .. n) \cup {n + 1}
        OBVIOUS
      <4> QED BY <1>2, <4>1, <4>2
    <3>2. \A i \in DOMAIN sketch.order : order[i] = sketch.order[i]
      BY <1>2, <2>3
    <3> QED BY <2>3, <3>1, <3>2 DEF ids
  <2>8. pages \in PagesOfOne /\ DOMAIN pages = DOMAIN sketch.pages \cup {p}
    <3>1. sketch.pages \in OnSomeOf(PageIds, Page)
      BY <1>1 DEF PagesOfOne
    <3>2. DOMAIN pages = DOMAIN sketch.pages \cup {p}
      BY DEF including
    <3>3. including(sketch.pages, p, item) \in OnSomeOf(PageIds, Page)
      BY <2>4, <3>1, Included
    <3> QED BY <3>2, <3>3 DEF PagesOfOne
  <2> HIDE DEF pages
  <2> QED BY <1>1, <2>2, <2>6, <2>7, <2>8, DashboardMade
<1>5. CASE \E p \in DOMAIN sketch.pages : removePage(p)
  <2>1. PICK p \in DOMAIN sketch.pages : removePage(p)
    BY <1>5
  <2> DEFINE order == leftOut(sketch.order, indexAt(sketch.order, p))
             pages == excluding(sketch.pages, p)
             first == IF sketch.first = p THEN order[1] ELSE sketch.first
  <2>2. /\ Len(sketch.order) > 1
        /\ baseline' = baseline /\ sketch' = [order |-> order, pages |-> pages, first |-> first]
    BY <2>1 DEF removePage, edits
  <2>3. /\ indexAt(sketch.order, p) \in DOMAIN sketch.order
        /\ sketch.order[indexAt(sketch.order, p)] = p
    BY <1>1, FoundAt
  <2>4. isOrder(order, PageIds) /\ ids(order) = ids(sketch.order) \ {p}
    BY <1>1, <2>3, LeftOut
  <2>5. DOMAIN order = 1 .. Len(sketch.order) - 1
    BY DEF leftOut
  <2>6. pages \in PagesOfOne /\ DOMAIN pages = DOMAIN sketch.pages \ {p}
    <3>1. sketch.pages \in OnSomeOf(PageIds, Page)
      BY <1>1 DEF PagesOfOne
    <3>2. DOMAIN pages = DOMAIN sketch.pages \ {p}
      BY DEF excluding
    <3>3. excluding(sketch.pages, p) \in OnSomeOf(PageIds, Page)
      BY <3>1, Excluded
    <3> QED BY <3>2, <3>3 DEF PagesOfOne
  <2> HIDE DEF order, pages
  <2>7. first \in PageIds
    <3>1. 1 \in DOMAIN order /\ order \in Seq(PageIds)
      BY <1>2, <2>2, <2>4, <2>5 DEF isOrder
    <3> QED BY <1>1, <3>1
  <2> HIDE DEF first
  <2> QED BY <1>1, <2>2, <2>4, <2>6, <2>7, DashboardMade
<1>6. CASE \E i \in DOMAIN sketch.order : movePage(i)
  <2>1. PICK i \in DOMAIN sketch.order : movePage(i)
    BY <1>6
  <2> DEFINE was   == sketch.order
             order == [was EXCEPT ![i] = was[i + 1], ![i + 1] = was[i]]
  <2>2. /\ i + 1 \in DOMAIN was /\ baseline' = baseline
        /\ sketch' = [order |-> order, pages |-> sketch.pages, first |-> sketch.first]
    BY <1>1, <2>1 DEF movePage, edits
  <2> HIDE DEF was
  <2>3. /\ was \in Seq(PageIds) /\ DOMAIN was = 1 .. Len(was)
        /\ \A j \in DOMAIN was : was[j] \in PageIds
        /\ \A j, k \in DOMAIN was : was[j] = was[k] => j = k
    BY <1>2 DEF was
  <2>4. /\ DOMAIN order = DOMAIN was /\ order \in Seq(PageIds)
        /\ order[i] = was[i + 1] /\ order[i + 1] = was[i]
        /\ \A j \in DOMAIN was \ {i, i + 1} : order[j] = was[j]
    BY <2>1, <2>2, <2>3 DEF was
  <2> HIDE DEF order
  <2>5. isOrder(order, PageIds)
    <3>1. \A j, k \in DOMAIN order : order[j] = order[k] => j = k
      BY <2>1, <2>2, <2>3, <2>4 DEF was
    <3> QED BY <2>4, <3>1 DEF isOrder
  <2>6. ids(order) = ids(was)
    <3>1. i \in DOMAIN was
      BY DEF was
    <3> QED BY <2>2, <2>4, <3>1 DEF ids
  <2> QED BY <1>1, <2>2, <2>5, <2>6, DashboardMade DEF was
<1> QED BY <1>4, <1>5, <1>6

\* So does what it does to one page.
LEMMA PageEdited ==
  ASSUME ListInv, NEW p \in DOMAIN sketch.pages,
         \/ addGauge(p)
         \/ \E look \in Looks : setPageLook(p, look)
         \/ \E g \in DOMAIN sketch.pages[p].gauges :
              removeGauge(p, g) \/ \E look \in Looks : setGaugeLook(p, g, look)
  PROVE  ListInv'
<1> DEFINE look0 == sketch.pages[p].look
           were  == sketch.pages[p].gauges
<1>1. /\ isDashboard(sketch) /\ sketch.pages[p] \in Page
      /\ sketch = [order |-> sketch.order, pages |-> sketch.pages, first |-> sketch.first]
  BY DashboardParts DEF ListInv
<1>2. look0 \in Looks /\ were \in OnSomeOf(GaugeIds, Looks) /\ Gauges = OnSomeOf(GaugeIds, Looks)
  BY <1>1 DEF Page, Gauges, OnSomeOf
<1>3. SUFFICES baseline' = baseline
               /\ \/ \E look \in Looks : sketch' = withLook(sketch, p, look)
                  \/ \E gauges \in Gauges : sketch' = withGauges(sketch, p, gauges)
  <2>1. \A look \in Looks : isDashboard(withLook(sketch, p, look))
    <3> TAKE look \in Looks
    <3>1. [look |-> look, gauges |-> were] \in Page
      BY <1>2 DEF Page
    <3>2. withLook(sketch, p, look) = withPage(sketch, p, [look |-> look, gauges |-> were])
      BY <1>1, PageSet
    <3> QED BY <1>1, <3>1, <3>2, PageReplaced
  <2>2. \A gauges \in Gauges : isDashboard(withGauges(sketch, p, gauges))
    <3> TAKE gauges \in Gauges
    <3>1. [look |-> look0, gauges |-> gauges] \in Page
      BY <1>2 DEF Page
    <3>2. withGauges(sketch, p, gauges) = withPage(sketch, p, [look |-> look0, gauges |-> gauges])
      BY <1>1, PageSet
    <3> QED BY <1>1, <3>1, <3>2, PageReplaced
  <2> QED BY <2>1, <2>2 DEF ListInv, isDashboard
<1>4. ASSUME addGauge(p)
      PROVE  baseline' = baseline /\ \E gauges \in Gauges : sketch' = withGauges(sketch, p, gauges)
  <2>1. PICK g \in GaugeIds, look \in Looks :
          edits([sketch EXCEPT !.pages[p].gauges = including(@, g, look)])
    BY <1>4 DEF addGauge, freshGauges
  <2>2. including(were, g, look) \in Gauges
    BY <1>2, Included
  <2>3. baseline' = baseline /\ sketch' = withGauges(sketch, p, including(were, g, look))
    BY <1>1, <2>1 DEF edits, withGauges
  <2> QED BY <2>2, <2>3
<1>5. ASSUME NEW look \in Looks, setPageLook(p, look)
      PROVE  baseline' = baseline /\ sketch' = withLook(sketch, p, look)
  BY <1>5 DEF setPageLook, edits, withLook
<1>6. ASSUME NEW g \in DOMAIN were, removeGauge(p, g)
      PROVE  baseline' = baseline /\ \E gauges \in Gauges : sketch' = withGauges(sketch, p, gauges)
  <2>1. excluding(were, g) \in Gauges
    BY <1>2, Excluded
  <2>2. baseline' = baseline /\ sketch' = withGauges(sketch, p, excluding(were, g))
    BY <1>1, <1>6 DEF removeGauge, edits, withGauges
  <2> QED BY <2>1, <2>2
<1>7. ASSUME NEW g \in DOMAIN were, NEW look \in Looks, setGaugeLook(p, g, look)
      PROVE  baseline' = baseline /\ \E gauges \in Gauges : sketch' = withGauges(sketch, p, gauges)
  <2>1. were = [h \in DOMAIN were |-> were[h]] /\ DOMAIN were \subseteq GaugeIds
        /\ \A h \in DOMAIN were : were[h] \in Looks
    BY <1>2, OnSome
  <2> DEFINE now == [were EXCEPT ![g] = look]
  <2>2. now \in Gauges
    <3>1. DOMAIN now = DOMAIN were /\ now = [h \in DOMAIN now |-> now[h]]
          /\ \A h \in DOMAIN now : now[h] \in Looks
      BY <2>1
    <3> HIDE DEF now
    <3> QED BY <1>2, <2>1, <3>1, OnSome
  <2>3. baseline' = baseline /\ sketch' = withGauges(sketch, p, now)
    BY <1>1, <1>7 DEF setGaugeLook, edits, withGauges
  <2> QED BY <2>2, <2>3
<1> QED BY <1>4, <1>5, <1>6, <1>7

\* In every state the draft is a dashboard, and so is what was read from the dash.
THEOREM EditorListInvariant == ChangeListSpec => []ListInv
<1>1. ChangeListInit => ListInv
  BY ChangeListAssumption DEF ChangeListInit, ListInv
<1>2. ListInv /\ [ChangeListNext]_changeListVars => ListInv'
  <2> SUFFICES ASSUME ListInv, [ChangeListNext]_changeListVars PROVE ListInv'
    OBVIOUS
  <2>1. CASE UNCHANGED changeListVars
    BY <2>1 DEF changeListVars, ListInv, isDashboard
  <2>2. ASSUME NEW c \in notSent, undoChange(c)
        PROVE  ListInv'
    <3>1. c.kind # "whole" /\ sketch' = revertChange(c) /\ baseline' = baseline
      BY <2>2 DEF undoChange
    <3>2. isDashboard(revertChange(c))
      BY <3>1, EntryUndone
    <3> QED BY <3>1, <3>2 DEF ListInv, isDashboard
  <2>3. CASE undoAllOfList
    BY <2>3 DEF undoAllOfList, ListInv, isDashboard
  <2>4. ASSUME NEW held \in Dashboards \cup {NoDashboard}, dashboardRead(held)
        PROVE  ListInv'
    <3>1. baseline' = held /\ (held = NoDashboard \/ isDashboard(held))
      BY <2>4, ChangeListAssumption DEF dashboardRead
    <3>2. sketch' = sketch \/ (sketch' = held /\ held # NoDashboard)
      BY <2>4 DEF dashboardRead
    <3> QED BY <3>1, <3>2 DEF ListInv, isDashboard
  <2> QED BY <2>1, <2>2, <2>3, <2>4, PagesEdited, PageEdited DEF ChangeListNext
<1> QED BY <1>1, <1>2, PTL DEF ChangeListSpec

\* Always: an empty list means that nothing differs between the dash and the draft, so
\* that there is nothing a user could miss to send.
THEOREM EditorListComplete == ChangeListSpec => []NothingListedNothingDiffers
<1>1. ListInv => NothingListedNothingDiffers
  <2> SUFFICES ASSUME ListInv, notSent = {} PROVE sketch = baseline
    BY DEF NothingListedNothingDiffers
  <2>1. baseline # NoDashboard
    BY DEF notSent, diffSetup
  <2>2. isDashboard(sketch) /\ isDashboard(baseline)
    BY <2>1 DEF ListInv
  <2>3. /\ \A p, g : /\ ~pageDiffers(baseline, sketch, p) /\ ~lookDiffers(baseline, sketch, p)
                     /\ ~gaugeDiffers(baseline, sketch, p, g)
                     /\ ~gaugeLookDiffers(baseline, sketch, p, g)
        /\ ~orderDiffers(baseline, sketch) /\ ~firstDiffers(baseline, sketch)
    <3>1. \A p, g : /\ Change("page", p, "none") \notin notSent
                    /\ Change("pageLook", p, "none") \notin notSent
                    /\ Change("gauge", p, g) \notin notSent
                    /\ Change("gaugeLook", p, g) \notin notSent
      OBVIOUS
    <3>2. theOrder \notin notSent /\ theFirst \notin notSent
      OBVIOUS
    <3>3. /\ \A p : pageDiffers(baseline, sketch, p) => Change("page", p, "none") \in notSent
          /\ \A p : lookDiffers(baseline, sketch, p) => Change("pageLook", p, "none") \in notSent
          /\ \A p, g : gaugeDiffers(baseline, sketch, p, g) => Change("gauge", p, g) \in notSent
          /\ \A p, g : gaugeLookDiffers(baseline, sketch, p, g)
                         => Change("gaugeLook", p, g) \in notSent
          /\ orderDiffers(baseline, sketch) => theOrder \in notSent
          /\ firstDiffers(baseline, sketch) => theFirst \in notSent
      <4>1. \A c : c \in notSent
              <=> \/ \E p : pageDiffers(baseline, sketch, p) /\ c = Change("page", p, "none")
                  \/ \E p : lookDiffers(baseline, sketch, p) /\ c = Change("pageLook", p, "none")
                  \/ \E p, g : /\ gaugeDiffers(baseline, sketch, p, g)
                               /\ c = Change("gauge", p, g)
                  \/ \E p, g : /\ gaugeLookDiffers(baseline, sketch, p, g)
                               /\ c = Change("gaugeLook", p, g)
                  \/ orderDiffers(baseline, sketch) /\ c = theOrder
                  \/ firstDiffers(baseline, sketch) /\ c = theFirst
        BY <2>1, Listed DEF notSent
      <4> QED BY <4>1
    <3> QED BY <3>1, <3>2, <3>3
  <2>4. DOMAIN sketch.pages = DOMAIN baseline.pages
    BY <2>3 DEF pageDiffers, inOne
  <2>5. \A p \in DOMAIN sketch.pages : sketch.pages[p] = baseline.pages[p]
    <3> TAKE p \in DOMAIN sketch.pages
    <3>1. sketch.pages[p] \in Page /\ baseline.pages[p] \in Page
      BY <2>2, <2>4, DashboardParts
    <3> DEFINE s == sketch.pages[p]
               b == baseline.pages[p]
    <3>2. /\ s = [look |-> s.look, gauges |-> s.gauges]
          /\ b = [look |-> b.look, gauges |-> b.gauges]
      BY <3>1, PageParts
    <3>3. /\ s.gauges = [g \in DOMAIN s.gauges |-> s.gauges[g]]
          /\ b.gauges = [g \in DOMAIN b.gauges |-> b.gauges[g]]
      <4>1. s.gauges \in OnSomeOf(GaugeIds, Looks) /\ b.gauges \in OnSomeOf(GaugeIds, Looks)
        BY <3>1 DEF Page, Gauges, OnSomeOf
      <4> HIDE DEF s, b
      <4> QED BY <4>1, OnSome
    <3>4. s.look = b.look
      BY <2>3, <2>4 DEF lookDiffers, inBoth
    <3>5. DOMAIN s.gauges = DOMAIN b.gauges
      BY <2>3, <2>4 DEF gaugeDiffers, inOne, inBoth
    <3>6. \A g \in DOMAIN s.gauges : s.gauges[g] = b.gauges[g]
      BY <2>3, <2>4, <3>5 DEF gaugeLookDiffers, inBoth
    <3> HIDE DEF s, b
    <3>7. s.gauges = b.gauges
      BY <3>3, <3>5, <3>6
    <3>8. s = b
      BY <3>2, <3>4, <3>7
    <3> QED BY <3>8 DEF s, b
  <2>6. sketch.pages = baseline.pages
    <3>1. /\ sketch.pages = [p \in DOMAIN sketch.pages |-> sketch.pages[p]]
          /\ baseline.pages = [p \in DOMAIN baseline.pages |-> baseline.pages[p]]
      BY <2>2, DashboardParts
    <3> QED BY <2>4, <2>5, <3>1
  <2>7. sketch.order = baseline.order
    <3>1. /\ isOrder(sketch.order, PageIds) /\ isOrder(baseline.order, PageIds)
          /\ ids(sketch.order) = DOMAIN sketch.pages /\ ids(baseline.order) = DOMAIN sketch.pages
      BY <2>2, <2>4, DashboardParts
    <3>2. inBoth(baseline.pages, sketch.pages) = ids(sketch.order)
      BY <2>4, <3>1 DEF inBoth
    <3>3. orderOf(sketch.order, ids(sketch.order)) = orderOf(baseline.order, ids(sketch.order))
      BY <2>3, <3>2 DEF orderDiffers
    <3> QED BY <3>1, <3>3, SameOrder
  <2>8. sketch.first = baseline.first
    BY <2>3 DEF firstDiffers
  <2>9. /\ sketch = [order |-> sketch.order, pages |-> sketch.pages, first |-> sketch.first]
        /\ baseline = [order |-> baseline.order, pages |-> baseline.pages,
                        first |-> baseline.first]
    BY <2>2, DashboardParts
  <2> QED BY <2>6, <2>7, <2>8, <2>9
<1> QED BY <1>1, EditorListInvariant, PTL

\* Always: the undo of one change takes it off the list and touches no other entry, but
\* that the pages may be left in another order than the dash has.
THEOREM EditorUndoExact == ChangeListSpec => []UndoTakesItAway
<1>1. ListInv => UndoTakesItAway
  <2> SUFFICES ASSUME ListInv, NEW c \in notSent, c.kind # "whole"
               PROVE  LET left == diffSetup(baseline, revertChange(c))
                      IN c \notin left /\ notSent \ {c, theOrder} = left \ {theOrder}
    BY DEF UndoTakesItAway, theOrder
  <2>1. baseline # NoDashboard /\ takesOff(c)
    BY EntryUndone
  <2> QED BY <2>1, OneTakenOff DEF takesOff, notSent
<1> QED BY <1>1, EditorListInvariant, PTL
=============================================================================
