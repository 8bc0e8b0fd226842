----------------------------- MODULE ChangeList -----------------------------
(***************************************************************************)
(* The list of what is not sent yet, and the undo of one entry (src/src/   *)
(* lib/sync/diff-setup.ts, diff-pages.ts, diff-widgets.ts, revert.ts),     *)
(* between the draft the user edits and the baseline read from the dash.   *)
(* A dashboard is its pages in their order, each with its gauges, and the  *)
(* page shown first; what else is set on a page or a gauge is its look.    *)
(* The order in which the gauges of a page are drawn is left out: the list *)
(* does not tell it.                                                       *)
(***************************************************************************)
EXTENDS Naturals, Sequences, FiniteSets

CONSTANTS
  PageIds, GaugeIds, Looks,
  PageCap,            \* FIRMWARE_CAPS.MAX_PAGES
  GaugeCap,           \* FIRMWARE_CAPS.MAX_WIDGETS_PER_PAGE
  Dashboards,         \* what the dash may hold
  SimDashboard        \* DEFAULT_SIM_CONFIG

VARIABLES
  sketch,             \* the dashboard of the draft
  baseline            \* device.dashboard

changeListVars == <<sketch, baseline>>

Gauges == UNION {[gauges -> Looks] : gauges \in SUBSET GaugeIds}

Page == [look : Looks, gauges : Gauges]

ids(order) == {order[i] : i \in DOMAIN order}

\* An id names one page.
isDashboard(d) ==
  /\ d \in [order : Seq(PageIds), pages : UNION {[pages -> Page] : pages \in SUBSET PageIds},
            first : PageIds]
  /\ \A i, j \in DOMAIN d.order : d.order[i] = d.order[j] => i = j
  /\ DOMAIN d.pages = ids(d.order)

ASSUME ChangeListAssumption == \A d \in Dashboards \cup {SimDashboard} : isDashboard(d)

NoDashboard == [order |-> <<>>, pages |-> <<>>, first |-> "none"]        \* null

ChangeListInit ==
  /\ baseline \in Dashboards \cup {NoDashboard}
  /\ sketch = IF baseline = NoDashboard THEN SimDashboard ELSE baseline

-----------------------------------------------------------------------------
(* diffSetup(): a change is named by its path.                             *)

Change(kind, page, gauge) == [kind |-> kind, page |-> page, gauge |-> gauge]

inOne(before, after) == (DOMAIN before \cup DOMAIN after) \ (DOMAIN before \cap DOMAIN after)
inBoth(before, after) == DOMAIN before \cap DOMAIN after

gaugeChanges(page, before, after) ==
  {Change("gauge", page, g) : g \in inOne(before, after)}
  \cup {Change("gaugeLook", page, g) : g \in {h \in inBoth(before, after) : before[h] # after[h]}}

commonPageChanges(page, before, after) ==
  {c \in {Change("pageLook", page, "none")} : before.look # after.look}
  \cup gaugeChanges(page, before.gauges, after.gauges)

precedes(order, p, q) == \E i, j \in DOMAIN order : i < j /\ order[i] = p /\ order[j] = q

orderOf(order, keep) == {pair \in keep \X keep : precedes(order, pair[1], pair[2])}

\* Faulted orderChange: pages that moved are not noticed.
orderChangeUnseen(before, after) == {}

orderChange(before, after) ==
  LET shared == inBoth(before.pages, after.pages)
  IN {c \in {Change("order", "none", "none")} :
        orderOf(before.order, shared) # orderOf(after.order, shared)}

pageChanges(before, after) ==
  {Change("page", p, "none") : p \in inOne(before, after)}
  \cup UNION {commonPageChanges(p, before[p], after[p]) : p \in inBoth(before, after)}

topLevelChanges(before, after) ==
  {c \in {Change("first", "none", "none")} : before.first # after.first}

diffSetup(device, draft) ==
  IF device = NoDashboard THEN {Change("whole", "none", "none")}
  ELSE pageChanges(device.pages, draft.pages)
       \cup orderChange(device, draft) \cup topLevelChanges(device, draft)

notSent == diffSetup(baseline, sketch)

-----------------------------------------------------------------------------
(* The editor.                                                             *)

edits(next) ==
  /\ sketch' = next
  /\ sketch' # sketch
  /\ UNCHANGED baseline

including(items, id, item) ==
  [other \in DOMAIN items \cup {id} |-> IF other = id THEN item ELSE items[other]]

excluding(items, id) == [other \in DOMAIN items \ {id} |-> items[other]]

indexAt(order, id) == CHOOSE i \in DOMAIN order : order[i] = id

leftOut(order, at) == [i \in 1 .. Len(order) - 1 |-> order[IF i < at THEN i ELSE i + 1]]

putAt(order, at, id) ==
  [i \in 1 .. Len(order) + 1 |-> IF i = at THEN id ELSE order[IF i < at THEN i ELSE i - 1]]

\* The id of a page that was removed may be taken again (nextPageId).
addPage(p) ==
  /\ Len(sketch.order) < PageCap /\ p \notin DOMAIN sketch.pages
  /\ \E look \in Looks :
       edits([sketch EXCEPT !.order = Append(@, p),
                            !.pages = including(@, p, [look |-> look, gauges |-> <<>>])])

removePage(p) ==
  /\ Len(sketch.order) > 1
  /\ LET order == leftOut(sketch.order, indexAt(sketch.order, p))
     IN edits([order |-> order, pages |-> excluding(sketch.pages, p),
               first |-> IF sketch.first = p THEN order[1] ELSE sketch.first])

movePage(i) ==
  /\ i + 1 \in DOMAIN sketch.order
  /\ edits([sketch EXCEPT !.order[i] = sketch.order[i + 1], !.order[i + 1] = sketch.order[i]])

setPageLook(p, look) == edits([sketch EXCEPT !.pages[p].look = look])

\* createId(): no gauge of the draft, and none the dash may hold.
freshGauges == {g \in GaugeIds : \A d \in {sketch, SimDashboard} \cup Dashboards :
                   \A p \in DOMAIN d.pages : g \notin DOMAIN d.pages[p].gauges}

addGauge(p) ==
  /\ Cardinality(DOMAIN sketch.pages[p].gauges) < GaugeCap
  /\ \E g \in freshGauges, look \in Looks :
       edits([sketch EXCEPT !.pages[p].gauges = including(@, g, look)])

removeGauge(p, g) == edits([sketch EXCEPT !.pages[p].gauges = excluding(@, g)])

setGaugeLook(p, g, look) == edits([sketch EXCEPT !.pages[p].gauges[g] = look])

-----------------------------------------------------------------------------
(* revertChange(): the path takes the value it has on the dash.            *)

\* Faulted assignItem: an entry the dash does not have is left.
assignItemKept(items, id, onDash) ==
  IF id \in DOMAIN onDash THEN including(items, id, onDash[id]) ELSE items

\* assignItem(): an entry the dash does not have is removed.
assignItem(items, id, onDash) ==
  IF id \in DOMAIN onDash THEN including(items, id, onDash[id]) ELSE excluding(items, id)

\* A page the dash has goes back to its index there, as far as the list reaches.
assignPage(order, p, onDash) ==
  IF p \notin ids(onDash) THEN leftOut(order, indexAt(order, p))
  ELSE LET at == indexAt(onDash, p)
       IN putAt(order, IF at <= Len(order) THEN at ELSE Len(order) + 1, p)

\* Sorted by the index they have on the dash; pages it does not have go last.
sortsBefore(order, onDash, p, q) ==
  \/ precedes(onDash, p, q)
  \/ p \in ids(onDash) /\ q \notin ids(onDash)
  \/ p \notin ids(onDash) /\ q \notin ids(onDash) /\ precedes(order, p, q)

revertOrder(order, onDash) ==
  [i \in DOMAIN order |->
     CHOOSE p \in ids(order) :
       Cardinality({q \in ids(order) : sortsBefore(order, onDash, q, p)}) = i - 1]

revertGauge(c) ==
  [sketch EXCEPT !.pages[c.page].gauges =
     assignItem(@, c.gauge, baseline.pages[c.page].gauges)]

revertChange(c) ==
  CASE c.kind = "page"     -> [sketch EXCEPT !.order = assignPage(@, c.page, baseline.order),
                                             !.pages = assignItem(@, c.page, baseline.pages)]
    [] c.kind = "pageLook" -> [sketch EXCEPT !.pages[c.page].look = baseline.pages[c.page].look]
    [] c.kind = "order"    -> [sketch EXCEPT !.order = revertOrder(@, baseline.order)]
    [] c.kind = "first"    -> [sketch EXCEPT !.first = baseline.first]
    [] OTHER               -> revertGauge(c)

undoChange(c) ==
  /\ c.kind # "whole"
  /\ sketch' = revertChange(c)
  /\ UNCHANGED baseline

undoAllOfList ==
  /\ notSent # {} /\ baseline # NoDashboard
  /\ sketch' = baseline
  /\ UNCHANGED baseline

\* adoptDeviceDashboard(): an untouched draft becomes what the dash holds.
dashboardRead(held) ==
  /\ held # baseline
  /\ baseline' = held
  /\ sketch' = IF held # NoDashboard
                  /\ sketch = (IF baseline = NoDashboard THEN SimDashboard ELSE baseline)
               THEN held ELSE sketch

ChangeListNext ==
  \/ \E p \in PageIds : addPage(p)
  \/ \E p \in DOMAIN sketch.pages :
       \/ removePage(p) \/ addGauge(p)
       \/ \E look \in Looks : setPageLook(p, look)
       \/ \E g \in DOMAIN sketch.pages[p].gauges :
            removeGauge(p, g) \/ \E look \in Looks : setGaugeLook(p, g, look)
  \/ \E i \in DOMAIN sketch.order : movePage(i)
  \/ \E c \in notSent : undoChange(c)
  \/ undoAllOfList
  \/ \E held \in Dashboards \cup {NoDashboard} : dashboardRead(held)

ChangeListSpec == ChangeListInit /\ [][ChangeListNext]_changeListVars

-----------------------------------------------------------------------------
\* An empty list means that nothing differs, whatever was added, removed, moved,
\* changed and undone in whatever order.
NothingListedNothingDiffers == notSent = {} => sketch = baseline

\* The undo of one change takes it off the list and touches no other, but that the
\* page put back may leave the pages in another order than the dash has
\* (diff-setup.test.ts:99).
UndoTakesItAway ==
  LET order == Change("order", "none", "none")
  IN \A c \in {d \in notSent : d.kind # "whole"} :
       LET left == diffSetup(baseline, revertChange(c))
       IN c \notin left /\ notSent \ {c, order} = left \ {order}
=============================================================================
