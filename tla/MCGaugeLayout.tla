--------------------------- MODULE MCGaugeLayout ---------------------------
(***************************************************************************)
(* A page of the base grid, 12 by 12: a column of three gauges of half the *)
(* width, and a fourth beside the first.  No two overlap, and a quarter of *)
(* the page is free twice over.                                            *)
(***************************************************************************)
EXTENDS GaugeLayout

MCGauge(col, row) == [col |-> col, row |-> row, colSpan |-> 6, rowSpan |-> 4]
MCPages == {<<MCGauge(0, 0), MCGauge(0, 4), MCGauge(0, 8), MCGauge(6, 0)>>}
MCSpans == {[colSpan |-> 6, rowSpan |-> 4]}
MCFallback == <<[colSpan |-> 3, rowSpan |-> 3]>>
=============================================================================
