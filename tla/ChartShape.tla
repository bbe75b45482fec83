----------------------------- MODULE ChartShape -----------------------------
(* How a chart's input is made: from slices of the master's history, grouped *)
(* in different ways over one window, come the categories, the series, the   *)
(* matrices, the hierarchy and the figures that the chart types draw.        *)
(*                                                                           *)
(* Time is counted in hours.  A group of rows is known by its weight (what   *)
(* averages are weighted by; the value itself of a count) and by the sum of  *)
(* value times weight; its average is the quotient, and there is none where  *)
(* the weight is 0.  Names are numbers; Other stands for the merged tail.    *)
EXTENDS Listing, SequencesExt

CONSTANTS Days,             \* periods a chart can cover
          Instants,         \* what the clock can say when it is drawn
          Ages,             \* how long ago something was recorded
          Subjects,         \* values of the three dimensions, as triples, >= 1
          Observed,         \* what is recorded: a value, and whether it is a sample
          MaxRecords,
          TopSeries, MatrixLimits, HeatLimits, TreeLimits  \* sizes before a tail

VARIABLES page, server, ui, calls, log
vars == <<page, server, ui, calls, log>>

Other == 0
Dims == 1..3                            \* dim, dim2, dim3
MaxHistory == 366 * 24                  \* the master holds, and reads, no more

-----------------------------------------------------------------------------
(* The window.                                                               *)

Step == [hour |-> 1, day |-> 24, week |-> 7 * 24]

\* Hour 0, the epoch, was a Thursday; weeks start on Monday.
BucketStart(t, b) ==
  LET offset == IF b = "week" THEN 3 * 24 ELSE 0 IN
  ((t + offset) \div Step[b]) * Step[b] - offset

\* the starts of the buckets of a window that ends now
BucketRange(from, to, b) ==
  [i \in 1..((to - BucketStart(from, b)) \div Step[b] + 1) |-> BucketStart(from, b) + (i - 1) * Step[b]]

WindowFor(days, now) ==
  LET b == CASE days <= 2 -> "hour" [] days \in 3..120 -> "day" [] OTHER -> "week"
      n == CASE b = "hour" -> days * 24 [] b = "day" -> days [] b = "week" -> days \div 7
      start == BucketStart(now, b) - (n - 1) * Step[b]
  IN [bucket |-> b, buckets |-> n, periodStart |-> start, previousStart |-> start - n * Step[b]]

-----------------------------------------------------------------------------
(* Rows and groups of rows.                                                  *)

Combine(rows) ==
  [sum |-> SumFunction([r \in rows |-> r.sum]), weight |-> SumFunction([r \in rows |-> r.weight])]

GroupsBy(rows, key(_)) ==
  {LET g == {r \in rows : key(r) = k} IN [name |-> k, rows |-> g, sum |-> Combine(g).sum, weight |-> Combine(g).weight] :
     k \in {key(r) : r \in rows}}

\* The master's answer: a row for each bucket and each value of the dimensions.
Slice(records, from, now, b, dims, counts) ==
  LET Key(r) == <<IF b = "none" THEN 0 ELSE BucketStart(r.t, b), [d \in dims |-> r.dims[d]]>>
      read == {r \in records : r.t >= from /\ r.t >= now - MaxHistory}
      Row(k) ==
        LET g == {r \in read : Key(r) = k} IN
        [t |-> k[1], dims |-> k[2],
         weight |-> SumFunction([r \in g |-> IF counts THEN r.value ELSE r.samples]),
         sum |-> SumFunction([r \in g |-> IF counts THEN r.value ELSE r.value * r.samples])]
  IN {Row(Key(r)) : r \in read}

\* biggest first; a group without an observation has nothing to show
RankBy(groups) ==
  ListedBy({g \in groups : g.weight > 0},
    LAMBDA g, h : \/ g.weight > h.weight
                  \/ g.weight = h.weight /\ g.sum > h.sum
                  \/ g.weight = h.weight /\ g.sum = h.sum /\ g.name < h.name)
Ranked(rows, d) == RankBy(GroupsBy(rows, LAMBDA r : r.dims[d]))

\* whether g's value is the greater: a count, or an average
Above(g, h, counts) == IF counts THEN g.sum > h.sum ELSE g.sum * h.weight > h.sum * g.weight

ByValue(ranked, counts) ==
  ListedBy(ToSet(ranked),
    LAMBDA g, h : \/ Above(g, h, counts)
                  \/ ~Above(h, g, counts) /\ g.weight > h.weight
                  \/ ~Above(h, g, counts) /\ g.weight = h.weight /\ g.name < h.name)

HeadOf(s, n) == SubSeq(s, 1, IF Len(s) < n THEN Len(s) ELSE n)
TailOf(s, n) == SubSeq(s, n + 1, Len(s))
RowsOf(ranked) == UNION {g.rows : g \in ToSet(ranked)}

-----------------------------------------------------------------------------
(* The parts of the input.                                                   *)

PerBucket(rows, ts, b) == [i \in DOMAIN ts |-> Combine({r \in rows : BucketStart(r.t, b) = ts[i]})]

SeriesOf(ranked, ts, b) ==
  LET rows == [i \in DOMAIN HeadOf(ranked, TopSeries) |-> [name |-> ranked[i].name, rows |-> ranked[i].rows]]
      tail == TailOf(ranked, TopSeries)
      all == IF tail = <<>> THEN rows ELSE Append(rows, [name |-> Other, rows |-> RowsOf(tail)])
  IN [i \in DOMAIN all |-> [name |-> all[i].name, values |-> PerBucket(all[i].rows, ts, b)]]

\* slip: what does not fit is left out
KeepNames_slip(ranked, limit) ==
  LET head == IF Len(ranked) > limit THEN HeadOf(ranked, limit - 1) ELSE ranked
  IN [i \in DOMAIN head |-> head[i].name]

\* limit names; what does not fit takes the last of them
KeepNames(ranked, limit) ==
  LET head == IF Len(ranked) > limit THEN HeadOf(ranked, limit - 1) ELSE ranked
      names == [i \in DOMAIN head |-> head[i].name]
  IN IF Len(ranked) > limit THEN Append(names, Other) ELSE names

MatrixOf(rows, limits) ==
  LET rowNames == KeepNames(Ranked(rows, 1), limits[1])
      colNames == KeepNames(Ranked(rows, 2), limits[2])
      Kept(names, x) == IF x \in ToSet(names) THEN x ELSE Other
  IN [rows |-> rowNames, cols |-> colNames,
      cells |-> [i \in DOMAIN rowNames |-> [j \in DOMAIN colNames |->
        Combine({r \in rows : Kept(rowNames, r.dims[1]) = rowNames[i] /\ Kept(colNames, r.dims[2]) = colNames[j]})]]]

\* one level of the hierarchy, Below its nodes the next
Level(rows, d, Below(_)) ==
  LET ranked == Ranked(rows, d)
      limit == TreeLimits[d]
      head == IF Len(ranked) > limit THEN HeadOf(ranked, limit - 1) ELSE ranked
      nodes == [i \in DOMAIN head |-> [name |-> head[i].name, value |-> head[i].weight, children |-> Below(head[i].rows)]]
      rest == Combine(RowsOf(TailOf(ranked, limit - 1)))
  IN IF Len(ranked) > limit THEN Append(nodes, [name |-> Other, value |-> rest.weight, children |-> <<>>]) ELSE nodes
Hierarchy(rows) ==
  Level(rows, 1, LAMBDA r : Level(r, 2, LAMBDA s : Level(s, 3, LAMBDA leaf : <<>>)))

\* The comparison is honest only if the history covers the previous period.
PreviousCovered(since, win, now) ==
  since # {} /\ Min(since) <= win.previousStart /\ win.previousStart >= now - MaxHistory

\* the buckets of lowest or highest value, of those that have one
Extremes(buckets, counts, Beyond(_, _)) ==
  LET finite == {g \in ToSet(buckets) : counts \/ g.weight > 0} IN
  {g \in finite : \A h \in finite : ~Beyond(h, g)}

BuildChartInput(timeRows, treeRows, hourly, counts, win, now, since) ==
  LET b == win.bucket
      current == {r \in timeRows : r.t >= win.periodStart}
      before == {r \in timeRows : r.t >= win.previousStart /\ r.t < win.periodStart}
      ts == BucketRange(win.periodStart, now, b)
      byCat == Ranked(current, 1)
      total == PerBucket(current, ts, b)
  IN [counts |-> counts, ts |-> ts,
      empty |-> \A r \in current : r.weight = 0,
      categories |-> ByValue(byCat, counts),
      series |-> SeriesOf(byCat, ts, b),
      total |-> total,
      matrix |-> MatrixOf(current, MatrixLimits),
      heat |-> MatrixOf(current, HeatLimits),
      hierarchy |-> Hierarchy(treeRows),
      hourly |-> hourly,
      value |-> Combine(current),
      previous |-> Combine(before),
      previousByCategory |-> GroupsBy(before, LAMBDA r : r.dims[1]),
      min |-> Extremes(total, counts, LAMBDA g, h : Above(h, g, counts)),
      max |-> Extremes(total, counts, LAMBDA g, h : Above(g, h, counts)),
      \* an average of no row at all is no previous value; of rows without samples, 0
      compared |-> PreviousCovered(since, win, now) /\ (counts \/ before # {})]

-----------------------------------------------------------------------------
NoInput == [win |-> <<>>, now |-> 0, input |-> <<>>]

Init ==
  /\ page = "gallery"
  /\ server \in {[records |-> {}, now |-> now] : now \in Instants}
  /\ ui = NoInput
  /\ calls = {} /\ log = <<>>

\* Something is recorded; n tells it from others like it.
Record(age, dims, kind) ==
  /\ page = "gallery" /\ ui = NoInput /\ Cardinality(server.records) < MaxRecords
  /\ LET like(n) == [n |-> n, t |-> server.now - age, dims |-> dims, value |-> kind[1], samples |-> kind[2]] IN
       server' = [server EXCEPT !.records = @ \cup {like(Cardinality({r \in @ : r = like(r.n)}))}]
  /\ UNCHANGED <<page, ui, calls, log>>

\* loadChartInput, its slices read at one moment and none cut short
LoadGallery(days, counts) ==
  /\ page = "gallery" /\ ui = NoInput
  /\ LET now == server.now
         win == WindowFor(days, now)
         From(start, b, dims) == Slice(server.records, start, now, b, dims, counts)
     IN ui' = [win |-> win, now |-> now,
               input |-> BuildChartInput(From(win.previousStart, win.bucket, 1..2),
                                         From(win.periodStart, "none", Dims),
                                         From(win.periodStart, "hour", {}),
                                         counts, win, now, {r.t : r \in server.records})]
  /\ UNCHANGED <<page, server, calls, log>>

Next ==
  \/ \E age \in Ages, dims \in Subjects, kind \in Observed : Record(age, dims, kind)
  \/ \E days \in Days, counts \in BOOLEAN : LoadGallery(days, counts)

Spec == Init /\ [][Next]_vars

-----------------------------------------------------------------------------
Loaded == page = "gallery" /\ ui.input # <<>>
Sum(s) == [sum |-> SumFunction([i \in DOMAIN s |-> s[i].sum]), weight |-> SumFunction([i \in DOMAIN s |-> s[i].weight])]
SumCells(m) == Sum([i \in DOMAIN m.cells |-> Sum(m.cells[i])])
SumNodes(nodes) == SumFunction([i \in DOMAIN nodes |-> nodes[i].value])

\* Every part of the input is made of the same observations (datasets.ts: "the
\* totals of a bar chart, a treemap and a KPI are the same rows, so they can
\* never disagree"): the categories, each bucket's series, the matrices, each
\* node's children and the hours add up to the whole, whatever was merged.
PartsAddUp ==
  Loaded =>
    LET in == ui.input IN
    /\ Sum(in.categories) = in.value
    /\ Sum(in.total) = in.value
    /\ \A i \in DOMAIN in.ts : Sum([s \in DOMAIN in.series |-> in.series[s].values[i]]) = in.total[i]
    /\ SumCells(in.matrix) = in.value /\ SumCells(in.heat) = in.value
    /\ SumNodes(in.hierarchy) = in.value.weight
    /\ \A i \in DOMAIN in.hierarchy :
         LET node == in.hierarchy[i] IN
         node.name # Other =>
           /\ SumNodes(node.children) = node.value
           /\ \A j \in DOMAIN node.children :
                node.children[j].name # Other => SumNodes(node.children[j].children) = node.children[j].value
    /\ Combine(in.hourly) = in.value

\* A chart covers whole buckets, the last of them now's; it is compared only
\* with as many buckets, all of them recorded and all of them read (shape.ts:
\* "a comparison is only honest if the history covers the whole previous period").
WindowsCompare ==
  Loaded =>
    LET w == ui.win
        in == ui.input
    IN /\ Len(in.ts) = w.buckets /\ Last(in.ts) = BucketStart(ui.now, w.bucket)
       /\ BucketStart(w.previousStart, w.bucket) = w.previousStart
       /\ w.periodStart - w.previousStart = Last(in.ts) + Step[w.bucket] - w.periodStart
       /\ in.compared => \E r \in server.records : r.t <= w.previousStart
       /\ in.compared =>
            LET past == {r \in server.records : r.t >= w.previousStart /\ r.t < w.periodStart} IN
            in.counts => in.previous.sum = SumFunction([r \in past |-> r.value])
=============================================================================
