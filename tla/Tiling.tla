------------------------------- MODULE Tiling -------------------------------
(* How the dashboard fills one screen: a random layout, cut from one cell    *)
(* covering the screen, and the ready-made templates, stretched to it.       *)
(* Widget types are kept as the kinds that differ in size rules: a number    *)
(* tile, a list, the vignettes list, the small panels, the trend and a chart.*)
EXTENDS Integers, Sequences, FiniteSets

CONSTANTS GridCols,      \* 12
          ViewRows,      \* numbers of rows the window may have room for
          Targets,       \* numbers of cells aimed at (6 to 9)
          MinRows, MaxRandomRows   \* the random layout's clamp: 9 and 28

VARIABLES page, server, ui, calls, log
vars == <<page, server, ui, calls, log>>

Clamp(n, lo, hi) == IF n < lo THEN lo ELSE IF n > hi THEN hi ELSE n
Smallest == 3                   \* MIN
BaseRows == 15
MaxRows == 28

\* sizes in pixels, a row being 32 px under an 11 px margin
RowPitch == 43
MinSize(kind) == CASE kind = "tile" -> [w |-> 3, h |-> 3]
                   [] kind = "chart" -> [w |-> 2, h |-> 3]
                   [] kind = "trend" -> [w |-> 4, h |-> 5]
                   [] OTHER -> [w |-> 3, h |-> 4]
Fits(kind, c) == c.w >= MinSize(kind).w /\ c.h >= MinSize(kind).h

\* how many types of each kind the catalogue has; the panels are the rest
Tiles == {"tile"}
Panels == {"list", "vignettes", "panel", "trend"}
Types == [tile |-> 6, list |-> 6, vignettes |-> 1, panel |-> 2, trend |-> 1]

\* rows a list shows, from the height left under its title; 0: not a list
FitLimit(kind, w, h) ==
  LET px == h * RowPitch - 75
      AtLeast1(n) == IF n < 1 THEN 1 ELSE n
  IN CASE kind = "vignettes" ->
            Clamp(AtLeast1((w * 100 - 32) \div 136) * AtLeast1(px \div 72), 2, 50)
       [] kind = "list" -> Clamp(px \div 38, 2, 50)
       [] OTHER -> 0

Cell(x, y, w, h) == [x |-> x, y |-> y, w |-> w, h |-> h]
Area(c) == c.w * c.h
Put(kind, c) == [kind |-> kind, cell |-> c, limit |-> FitLimit(kind, c.w, c.h)]

-----------------------------------------------------------------------------
(* Templates: four headline tiles over two rows of panels.                 *)

Skeleton ==
  << Cell(0, 0, 3, 3), Cell(3, 0, 3, 3), Cell(6, 0, 3, 3), Cell(9, 0, 3, 3),
     Cell(0, 3, 8, 6), Cell(8, 3, 4, 6),
     Cell(0, 9, 4, 6), Cell(4, 9, 4, 6), Cell(8, 9, 4, 6) >>

Templates ==
  { <<"tile", "tile", "tile", "tile", "trend", "panel", "list", "list", "list">>,
    <<"chart", "tile", "tile", "tile", "chart", "chart", "chart", "chart", "chart">>,
    <<"chart", "tile", "tile", "tile", "chart", "panel", "chart", "list", "list">>,
    <<"chart", "tile", "tile", "tile", "chart", "list", "chart", "chart", "panel">>,
    <<"chart", "tile", "tile", "tile", "vignettes", "chart", "chart", "chart", "chart">> }

RowsForViewport(raw) == Clamp(raw, BaseRows, MaxRows)

\* Math.round(y * rows / BaseRows)
Scaled(y, rows) == (2 * y * rows + BaseRows) \div (2 * BaseRows)

\* edges are rounded, not sizes
Stretched(c, rows) ==
  LET y == Scaled(c.y, rows) IN Cell(c.x, y, c.w, Scaled(c.y + c.h, rows) - y)

PlaceTemplate(kinds, rows) ==
  {Put(kinds[i], Stretched(Skeleton[i], rows)) : i \in 1..Len(Skeleton)}

\* view: the rows the window has room for
ApplyTemplate(kinds, view) ==
  /\ page = "tiling" /\ ui.step = "choose"
  /\ LET rows == RowsForViewport(view) IN
       ui' = [ui EXCEPT !.step = "done", !.rows = rows, !.placed = PlaceTemplate(kinds, rows)]
  /\ UNCHANGED <<page, server, calls, log>>

-----------------------------------------------------------------------------
(* The random layout.                                                      *)

Randomize(target, view) ==
  /\ page = "tiling" /\ ui.step = "choose"
  /\ LET rows == Clamp(view, MinRows, MaxRandomRows) IN
       ui' = [ui EXCEPT !.step = "split", !.rows = rows, !.target = target,
                        !.cells = {Cell(0, 0, GridCols, rows)}]
  /\ UNCHANGED <<page, server, calls, log>>

Cuttable(c) == c.w >= 2 * Smallest \/ c.h >= 2 * Smallest
Splitting == ui.step = "split" /\ ui.placed = {} /\ Cardinality(ui.cells) < ui.target

\* slip: the second half starts where it should but ends a cell short
Halves_slip(c, wide, a) ==
  IF wide THEN {[c EXCEPT !.w = a], [c EXCEPT !.x = @ + a, !.w = @ - a - 1]}
  ELSE {[c EXCEPT !.h = a], [c EXCEPT !.y = @ + a, !.h = @ - a]}

\* A cut anywhere that leaves both sides at least Smallest: the rounded mean
\* of two such places is one.
Halves(c, wide, a) ==
  IF wide THEN {[c EXCEPT !.w = a], [c EXCEPT !.x = @ + a, !.w = @ - a]}
  ELSE {[c EXCEPT !.h = a], [c EXCEPT !.y = @ + a, !.h = @ - a]}

Split(c, wide) ==
  /\ page = "tiling" /\ Splitting /\ c \in ui.cells
  /\ (IF wide THEN c.w ELSE c.h) >= 2 * Smallest
  /\ \E a \in Smallest..((IF wide THEN c.w ELSE c.h) - Smallest) :
       ui' = [ui EXCEPT !.cells = (@ \ {c}) \cup Halves(c, wide, a)]
  /\ UNCHANGED <<page, server, calls, log>>

Dressing == ui.step = "split" /\ ~(Splitting /\ \E c \in ui.cells : Cuttable(c))

\* pick: an unused type that fits from the first pool that has one, else any
\* type that fits
Unused(pool, c) == {k \in pool : Fits(k, c) /\ ui.used[k] < Types[k]}
Pick(first, second, c) ==
  IF Unused(first, c) # {} THEN Unused(first, c)
  ELSE IF Unused(second, c) # {} THEN Unused(second, c)
  ELSE {k \in Tiles \cup Panels \cup {"chart"} : Fits(k, c)}

\* Cells are dressed from the largest: one in two becomes a chart, the small
\* ones prefer a number tile, the others a panel, or by chance a tile.
Kinds(c) ==
  {"chart"} \cup Pick(Tiles, Panels, c)
    \cup (IF c.h <= 4 \/ Area(c) <= 18 THEN {} ELSE Pick(Panels, Tiles, c))

Bare == ui.cells \ {p.cell : p \in ui.placed}

Dress(c, kind) ==
  /\ page = "tiling" /\ Dressing /\ c \in Bare
  /\ \A d \in Bare : Area(d) <= Area(c)
  /\ kind \in Kinds(c)
  /\ ui' = [ui EXCEPT !.placed = @ \cup {Put(kind, c)},
                      !.used = [k \in Tiles \cup Panels |-> IF k = kind THEN ui.used[k] + 1 ELSE ui.used[k]],
                      !.step = IF Bare = {c} THEN "done" ELSE @]
  /\ UNCHANGED <<page, server, calls, log>>

Init ==
  /\ page = "tiling" /\ server = {} /\ calls = {} /\ log = {}
  /\ ui = [step |-> "choose", rows |-> 0, target |-> 0, cells |-> {},
           placed |-> {}, used |-> [k \in Tiles \cup Panels |-> 0]]

Next ==
  \/ \E kinds \in Templates, view \in ViewRows : ApplyTemplate(kinds, view)
  \/ \E n \in Targets, view \in ViewRows : Randomize(n, view)
  \/ page = "tiling" /\ \E c \in ui.cells : \/ \E wide \in BOOLEAN : Split(c, wide)
                                            \/ \E k \in Tiles \cup Panels \cup {"chart"} : Dress(c, k)

Spec == Init /\ [][Next]_vars

-----------------------------------------------------------------------------
Disjoint(c, d) == \/ c.x + c.w <= d.x \/ d.x + d.w <= c.x
                  \/ c.y + c.h <= d.y \/ d.y + d.h <= c.y
Covers(c, x, y) == /\ c.x <= x /\ x < c.x + c.w
                   /\ c.y <= y /\ y < c.y + c.h

\* A layout made from a template or at random fills its screen exactly, with
\* no gap and no overlap (Dashboard.tsx "with no gap or overlap",
\* dashboardTemplates.ts "the tiling stays exact"), gives every widget at least
\* its minimum size, and asks a list for no more rows than its cell is high.
FillsScreen ==
  (page = "tiling" /\ ui.step = "done") =>
    /\ \A p \in ui.placed :
         /\ p.cell.x >= 0 /\ p.cell.x + p.cell.w <= GridCols
         /\ p.cell.y >= 0 /\ p.cell.y + p.cell.h <= ui.rows
         /\ Fits(p.kind, p.cell)
         /\ p.kind = "list" => p.limit * 38 <= p.cell.h * RowPitch - 75
         /\ \A q \in ui.placed : p # q => Disjoint(p.cell, q.cell)
    /\ \A x \in 0..(GridCols - 1), y \in 0..(ui.rows - 1) :
         \E p \in ui.placed : Covers(p.cell, x, y)
=============================================================================
