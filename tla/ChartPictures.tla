--------------------------- MODULE ChartPictures ---------------------------
(* What the chart types draw of a chart's input, and what its table lists:   *)
(* the numbers alone, without axes, colours or labels.  A share is a pair of *)
(* a part and its whole.  The charts of distributions (histogram, box plot,  *)
(* densities, correlations) compute with reals and are not here.             *)
EXTENDS ChartShape

CONSTANTS TopBars, TopSlices, TopPareto,    \* categories drawn before the tail
          TopCards,                         \* categories on a scorecard
          MinHours                          \* hours that make a weekly picture

Merged(s) == [name |-> Other, sum |-> Sum(s).sum, weight |-> Sum(s).weight]
Part(g) == [name |-> g.name, sum |-> g.sum, weight |-> g.weight]
\* a stable sort
ByWeight(s) ==
  LET order == ListedBy(DOMAIN s, LAMBDA i, j : \/ s[i].weight > s[j].weight
                                                \/ s[i].weight = s[j].weight /\ i < j)
  IN [k \in DOMAIN s |-> s[order[k]]]

\* biggest first, the tail merged
TopCategories(list, n) ==
  LET head == [i \in DOMAIN HeadOf(list, n) |-> Part(list[i])] IN
  IF Len(list) > n THEN Append(head, Merged(TailOf(list, n))) ELSE head

Bar(in) == TopCategories(in.categories, TopBars)
BarHorizontal(in) == TopCategories(in.categories, TopBars)
DotPlot(in) == TopCategories(in.categories, TopBars)
Column(in) == in.total
MultiLine(in) == [i \in DOMAIN in.series |-> in.series[i].values]

\* the matrix as bars, a segment per column
MatrixSeries(in) == [j \in DOMAIN in.matrix.cols |-> [i \in DOMAIN in.matrix.rows |-> in.matrix.cells[i][j]]]
Stacked100(in) ==
  [i \in DOMAIN in.matrix.rows |->
    LET whole == Sum(in.matrix.cells[i]).weight IN
    [j \in DOMAIN in.matrix.cols |-> <<in.matrix.cells[i][j].weight, whole>>]]

\* a first level, a rise or a fall per bucket standing on the lower of its two
\* levels, and the last level (of a count)
Waterfall(levels) ==
  LET n == Len(levels)
      Lower(x, y) == IF x < y THEN x ELSE y
      up == [i \in 2..n |-> IF levels[i] > levels[i - 1] THEN levels[i] - levels[i - 1] ELSE 0]
      down == [i \in 2..n |-> IF levels[i] < levels[i - 1] THEN levels[i - 1] - levels[i] ELSE 0]
  IN [first |-> levels[1], base |-> [i \in 2..n |-> Lower(levels[i], levels[i - 1])],
      up |-> up, down |-> down, last |-> levels[n]]

\* a cell without an observation is empty, but for counts
Heatmap(in) == [i \in DOMAIN in.heat.rows |->
  {<<j, in.heat.cells[i][j]>> : j \in {k \in DOMAIN in.heat.cols : in.counts \/ in.heat.cells[i][k].weight > 0}}]

-----------------------------------------------------------------------------
(* Parts of a whole, sized by weight.                                        *)

Slices(in) == TopCategories(ByWeight(in.categories), TopSlices)
Pie(in) == Slices(in)
Donut(in) == [ring |-> Slices(in), hole |-> Sum(Slices(in)).weight]
\* the unused half is a slice worth the whole
SemiDonut(in) == [ring |-> Slices(in), hidden |-> Sum(Slices(in)).weight]

\* a column is as wide as its share, and is divided by the shares of the rows
Marimekko(in) ==
  LET cells == MatrixSeries(in)
      width == [j \in DOMAIN cells |-> Sum(cells[j]).weight]
      below(s, i) == Sum(SubSeq(s, 1, i - 1)).weight
      left == [j \in DOMAIN width |-> SumFunction(SubSeq(width, 1, j - 1))]
  IN [j \in DOMAIN cells |->
       [x |-> <<left[j], left[j] + width[j]>>,
        y |-> [i \in DOMAIN cells[j] |-> <<below(cells[j], i), below(cells[j], i) + cells[j][i].weight>>]]]

\* a node is known by the positions that lead to it
Places(nodes) ==
  UNION {{<<i>>} \cup UNION {{<<i, j>>} \cup {<<i, j, k>> : k \in DOMAIN nodes[i].children[j].children} :
                               j \in DOMAIN nodes[i].children} : i \in DOMAIN nodes}
NodeAt(nodes, p) ==
  CASE Len(p) = 1 -> nodes[p[1]]
    [] Len(p) = 2 -> nodes[p[1]].children[p[2]]
    [] Len(p) = 3 -> nodes[p[1]].children[p[2]].children[p[3]]

\* the sizes of the rectangles or rings: the leaves
Leaves(nodes) ==
  [p \in {q \in Places(nodes) : NodeAt(nodes, q).children = <<>>} |-> NodeAt(nodes, p).value]

Pareto(in) ==
  LET top == HeadOf(ByWeight(in.categories), TopPareto)
      whole == Sum(top).weight
  IN [i \in DOMAIN top |-> <<Sum(SubSeq(top, 1, i)).weight, whole>>]

\* hour 0 was a Thursday; days count from Monday, 0
Weekday(t) == ((t \div 24) + 3) % 7
WeekdayHourGrid(in) ==
  [d \in 0..6 |-> [h \in 0..23 |-> Combine({r \in in.hourly : Weekday(r.t) = d /\ r.t % 24 = h})]]

-----------------------------------------------------------------------------
(* The value against the previous period, for a measure of which less is     *)
(* better, more is better, or neither.                                       *)

\* compared as values: counts, or averages (0 of nothing)
Exceeds(in, g, h) ==
  IF in.counts THEN g.sum > h.sum
  ELSE IF h.weight = 0 THEN g.sum > 0 ELSE g.sum * h.weight > h.sum * g.weight

Delta(in) ==
  IF ~in.compared THEN "none"
  ELSE IF Exceeds(in, in.value, in.previous) THEN "up"
  ELSE IF Exceeds(in, in.previous, in.value) THEN "down" ELSE "flat"

Tone(dir, polarity) ==
  IF dir \in {"none", "flat"} \/ polarity = "neutral" THEN "plain"
  ELSE IF dir = (IF polarity = "lowerBetter" THEN "down" ELSE "up") THEN "good" ELSE "bad"

\* the bar against its target: the previous period, else the value itself
Reached(in, polarity) ==
  LET target == IF in.compared THEN in.previous ELSE in.value IN
  IF polarity = "lowerBetter" THEN ~Exceeds(in, in.value, target) ELSE ~Exceeds(in, target, in.value)
Bad(in, polarity) == polarity # "neutral" /\ ~Reached(in, polarity)
Progress(in, polarity) == IF in.compared THEN Bad(in, polarity) ELSE FALSE
Gauge(in, polarity) == Bad(in, polarity)
TargetActual(in, polarity) ==
  /\ in.compared
  /\ \/ polarity = "lowerBetter" /\ Exceeds(in, in.value, in.previous)
     \/ polarity = "higherBetter" /\ Exceeds(in, in.previous, in.value)

\* the leading categories, each against what the history has of it before,
\* whether or not that history covers the whole previous period
Scorecard(in) ==
  [i \in DOMAIN HeadOf(in.categories, TopCards) |->
    LET c == in.categories[i]
        was == {g \in in.previousByCategory : g.name = c.name}
    IN CASE was = {} -> "new"
         [] \E g \in was : Exceeds(in, c, g) -> "up"
         [] \E g \in was : Exceeds(in, g, c) -> "down"
         [] OTHER -> "flat"]

MetricCard(in) == [value |-> in.value, min |-> in.min, max |-> in.max]

-----------------------------------------------------------------------------
(* What is not drawn, and what the table lists instead of the picture.       *)

Needs == {"categories", "time", "matrix", "heat", "hourly", "hierarchy", "kpi"}

HasData(need, in) ==
  CASE need = "categories" -> in.categories # <<>>
    [] need = "time" -> ~in.empty /\ Len(in.ts) >= 2
    [] need \in {"matrix", "heat"} -> in[need].rows # <<>> /\ in[need].cols # <<>>
    [] need = "hourly" -> Cardinality(in.hourly) >= MinHours
    [] need = "hierarchy" -> in.hierarchy # <<>>
    [] need = "kpi" -> ~in.empty

\* too little for this chart, or nothing at all
Rendered(need, in) ==
  IF HasData(need, in) THEN "drawn" ELSE IF in.empty THEN "noData" ELSE "notEnough"

\* every node, under the names that lead to it
Flatten(nodes) ==
  [p \in Places(nodes) |->
    [path |-> [d \in DOMAIN p |-> NodeAt(nodes, SubSeq(p, 1, d)).name], value |-> NodeAt(nodes, p).value]]

\* an hour of the week without an observation is empty
HourTable(in) ==
  LET grid == WeekdayHourGrid(in) IN
  [d \in 0..6 |-> [h \in {k \in 0..23 : grid[d][k].weight > 0} |-> grid[d][h]]]

\* the cells of each row
Table(need, in) ==
  CASE need = "categories" -> [i \in DOMAIN in.categories |-> <<Part(in.categories[i])>>]
    [] need = "time" -> [i \in DOMAIN in.ts |-> <<in.total[i]>> \o [s \in DOMAIN in.series |-> in.series[s].values[i]]]
    [] need = "matrix" -> in.matrix.cells
    [] need = "heat" -> Heatmap(in)
    [] need = "hourly" -> HourTable(in)
    [] need = "hierarchy" -> Flatten(in.hierarchy)
    [] need = "kpi" -> <<MetricCard(in), IF in.compared THEN {in.previous} ELSE {}>>

-----------------------------------------------------------------------------
Adjacent(spans, from, to) ==
  /\ \A i \in DOMAIN spans : spans[i][1] = IF i = 1 THEN from ELSE spans[i - 1][2]
  /\ spans # <<>> => Last(spans)[2] = to

\* Charts of one input agree: those that show everything show the same whole,
\* shares of a whole fill it without gap or overlap, and no chart calls a
\* value bad that another, of the same polarity, calls good.
ChartsAgree ==
  Loaded =>
    LET in == ui.input
        all == in.value
    IN /\ \A parts \in {Bar(in), BarHorizontal(in), DotPlot(in), Pie(in), Donut(in).ring, SemiDonut(in).ring, Column(in)} :
            Sum(parts) = all
       /\ SumCells([cells |-> [i \in DOMAIN in.heat.rows |-> [j \in {c[1] : c \in Heatmap(in)[i]} |-> in.heat.cells[i][j]]]]) = all
       /\ Sum([s \in DOMAIN MultiLine(in) |-> Sum(MultiLine(in)[s])]) = all
       /\ Donut(in).hole = all.weight /\ SemiDonut(in).hidden = all.weight
       /\ SumFunction(Leaves(in.hierarchy)) = all.weight
       /\ LET spans == Marimekko(in) IN
            /\ Adjacent([j \in DOMAIN spans |-> spans[j].x], 0, all.weight)
            /\ \A j \in DOMAIN spans : Adjacent(spans[j].y, 0, spans[j].x[2] - spans[j].x[1])
       /\ \A i \in DOMAIN in.matrix.rows :
            LET shares == Stacked100(in)[i] IN
            SumFunction([j \in DOMAIN shares |-> shares[j][1]]) = shares[1][2]
       /\ in.counts => LET w == Waterfall([i \in DOMAIN in.total |-> in.total[i].sum]) IN
            w.last = w.first + SumFunction(w.up) - SumFunction(w.down)
       /\ Sum([d \in 0..6 |-> Sum(WeekdayHourGrid(in)[d])]) = all
       /\ \A i \in DOMAIN Pareto(in) : Pareto(in)[i][1] <= Pareto(in)[i][2]
       /\ \A p \in {"lowerBetter", "higherBetter", "neutral"} :
            /\ Progress(in, p) = (Tone(Delta(in), p) = "bad")
            /\ Gauge(in, p) = Progress(in, p) /\ TargetActual(in, p) = Progress(in, p)

\* The table reads what the picture shows and no chart hides what another
\* draws: a figure without a category, a cell or a branch is never shown, nor
\* the other way round; the table's rows add up and are told apart; an average
\* lies between its extremes; and a total that rose, all its categories being
\* on the scorecard, has one that rose or is new, one that fell, one that fell
\* or is gone.
TablesAgree ==
  Loaded =>
    LET in == ui.input
        all == in.value
        names == {c.name : c \in ToSet(in.categories)}
    IN /\ \A need \in Needs \ {"time", "hourly"} : (Rendered(need, in) = "drawn") <=> (Rendered("kpi", in) = "drawn")
       /\ Rendered("time", in) = "notEnough" => Len(in.ts) = 1
       /\ \A row \in ToSet(Table("time", in)) : Sum(Tail(row)) = row[1]
       /\ Sum([d \in 0..6 |-> Sum(Table("hourly", in)[d])]) = all
       /\ LET rows == Table("hierarchy", in)
              last == {p \in DOMAIN rows : \A q \in DOMAIN rows : ~IsStrictPrefix(rows[p].path, rows[q].path)}
          IN /\ \A p, q \in DOMAIN rows : rows[p].path = rows[q].path => p = q
             /\ SumFunction([p \in last |-> rows[p].value]) = all.weight
       /\ LET card == Table("kpi", in)[1] IN
            /\ \A g \in card.max : in.counts => ~Exceeds(in, g, card.value)
            /\ ~in.counts /\ ~in.empty =>
                 /\ card.min # {} /\ \A g \in card.min : ~Exceeds(in, g, card.value)
                 /\ card.max # {} /\ \A g \in card.max : ~Exceeds(in, card.value, g)
       /\ (in.counts /\ Len(in.categories) <= TopCards) =>
            LET moved == ToSet(Scorecard(in)) IN
            /\ Delta(in) = "up" => moved \cap {"up", "new"} # {}
            /\ Delta(in) = "down" => "down" \in moved \/ \E g \in in.previousByCategory : g.name \notin names
=============================================================================
