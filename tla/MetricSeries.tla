------------------------------ MODULE MetricSeries ------------------------------
(***************************************************************************)
(* One metric item of a snapshots run: from the samples of its source to    *)
(* the chart or table of the report (src/ch_diag/samplers.py) and its       *)
(* status (the end of collect_metric_items in src/ch_diag/snapshots.py).    *)
(*                                                                          *)
(* A key is a series specification with its dimensions, or a group of table *)
(* rows; every key has counters of its own on a server that may restart.    *)
(* A value is a quotient: a rate over the elapsed time, which is positive   *)
(* and counts as 1 here, or a ratio over the growth of the denominator.     *)
(***************************************************************************)
EXTENDS Integers, SequencesExt

CONSTANTS
  Keys,
  Metrics,      \* the metrics to choose from, see Metric
  Budgets,      \* runtime policies to choose from, see Budget
  Absent,       \* no row of a key in a sample
  Gap,          \* a row without a value, null in the report
  NoObservation, NoBudget,
  MaxGrowth,    \* bound: units the counters grow by, all together
  MaxRestarts,  \* bound: restarts of the servers
  MaxPoints     \* bound: scheduled points

Metric ==
  [kind : {"chart", "table"}, transform : {"gauge", "rate", "ratio_of_deltas"},
   epoch : BOOLEAN, required : BOOLEAN, dropZero : BOOLEAN, limit : Nat \ {0}]

\* max_series_per_chart, max_points_per_series and max_total_chart_points
Budget == [series : Nat \ {0}, points : Nat \ {0}, total : Nat \ {0}]

Quotient == [top : Nat, bottom : Nat \ {0}]

ASSUME SeriesAssumption ==
  /\ IsFiniteSet(Keys)
  /\ Metrics \subseteq Metric /\ Budgets \subseteq Budget
  /\ {MaxGrowth, MaxRestarts, MaxPoints} \subseteq Nat
  /\ \A m \in Metrics : m.kind = "table" => m.transform = "gauge"
  /\ Gap \notin Quotient /\ Absent \notin Quotient \cup {Gap}

VARIABLES
  metric, budget,
  counter,     \* numerator of every key
  events,      \* denominator of every key
  generation,  \* restarts of the server of every key
  previous,    \* previous and previous_ratios: the latest observation of every key
  samples,     \* per successful sample: what every key contributes
  order,       \* keys in the order of their first appearance (grouped, groups)
  errors,      \* codes of source_errors
  points,      \* scheduled points so far
  stage,       \* "sampling", "bounding" or "assembled"
  todo,        \* retained series that the chart budget has not reached
  remaining,   \* points the budget still allows
  shown,       \* series of the report
  rows,        \* rows of the report
  status,      \* collection_status
  since        \* what happened to every key since its latest observation

world == <<counter, events, generation>>
folded == <<previous, samples, order, errors, points>>
report == <<stage, todo, remaining, shown, rows, status>>
vars == <<metric, budget, world, folded, report, since>>

Series == [key : Keys, points : Seq({Gap} \cup Quotient)]

TypeOK ==
  /\ metric \in Metrics /\ budget \in {NoBudget} \cup Budgets
  /\ {counter, events, generation} \subseteq [Keys -> Nat]
  /\ previous \in [Keys -> {NoObservation} \cup [top : Nat, bottom : Nat, epoch : Nat]]
  /\ samples \in Seq([Keys -> {Absent, Gap} \cup Quotient])
  /\ order \in Seq(Keys)
  /\ errors \subseteq {"failed", "unsupported", "busy"}
  /\ points \in Nat
  /\ stage \in {"sampling", "bounding", "assembled"}
  /\ todo \in Seq(Series) /\ remaining \in Nat /\ shown \in Seq(Series)
  /\ rows \subseteq Keys
  /\ status \in {"pending", "ok", "empty", "error", "unsupported"}
  /\ since \in [Keys -> [top : Nat, bottom : Nat, restarted : BOOLEAN]]

Fresh == [top |-> 0, bottom |-> 0, restarted |-> FALSE]

Init ==
  /\ metric \in Metrics /\ budget = NoBudget
  /\ counter = [k \in Keys |-> 0] /\ events = [k \in Keys |-> 0]
  /\ generation = [k \in Keys |-> 0]
  /\ previous = [k \in Keys |-> NoObservation]
  /\ samples = <<>> /\ order = <<>>
  /\ errors = {} /\ points = 0
  /\ stage = "sampling" /\ todo = <<>> /\ remaining = 0
  /\ shown = <<>> /\ rows = {}
  /\ status = "pending"
  /\ since = [k \in Keys |-> Fresh]

--------------------------------------------------------------------------------
(* The servers.                                                             *)

Grow(k) ==
  /\ stage = "sampling" /\ points < MaxPoints
  /\ \E top, bottom \in {0, 1} :
       /\ top + bottom > 0
       /\ metric.transform # "ratio_of_deltas" => bottom = 0
       /\ SumFunction(counter) + SumFunction(events) + top + bottom <= MaxGrowth
       /\ counter' = [counter EXCEPT ![k] = @ + top]
       /\ events' = [events EXCEPT ![k] = @ + bottom]
       /\ since' = [since EXCEPT ![k].top = @ + top, ![k].bottom = @ + bottom]
  /\ UNCHANGED <<metric, budget, generation, folded, report>>

Restart(k) ==
  /\ stage = "sampling" /\ points < MaxPoints
  /\ SumFunction(generation) < MaxRestarts
  /\ generation' = [generation EXCEPT ![k] = @ + 1]
  /\ counter' = [counter EXCEPT ![k] = 0]
  /\ events' = [events EXCEPT ![k] = 0]
  /\ since' = [since EXCEPT ![k].restarted = TRUE]
  /\ UNCHANGED <<metric, budget, folded, report>>

--------------------------------------------------------------------------------
(* The samples: the loop of build_chart_result and the groups of            *)
(* build_table_result, one sample at a time.                                *)

\* The counters of a row, with the epoch_refs of the metric if it has any.
Row(k) ==
  [top |-> counter[k], bottom |-> events[k],
   epoch |-> IF metric.epoch THEN generation[k] ELSE 0]

\* Mutant: a counter that went back is not noticed.
ContinuesBackwards(old, new) == old # NoObservation /\ new.epoch = old.epoch

\* Mutant: a changed epoch is not noticed.
ContinuesAnyEpoch(old, new) ==
  old # NoObservation /\ new.top >= old.top /\ new.bottom >= old.bottom

Continues(old, new) ==
  /\ old # NoObservation
  /\ new.top >= old.top /\ new.bottom >= old.bottom
  /\ new.epoch = old.epoch

Value(k) ==
  LET old == previous[k]  new == Row(k)
  IN CASE metric.transform = "gauge" -> [top |-> new.top, bottom |-> 1]
       [] metric.transform = "rate" ->
            IF Continues(old, new) THEN [top |-> new.top - old.top, bottom |-> 1] ELSE Gap
       [] metric.transform = "ratio_of_deltas" ->
            IF Continues(old, new) /\ new.bottom > old.bottom
            THEN [top |-> new.top - old.top, bottom |-> new.bottom - old.bottom]
            ELSE Gap

\* A source answers with rows for some keys, and with numbers in some of them.
\* A chart skips a row without numbers; a table keeps it.
Sample ==
  /\ stage = "sampling" /\ points < MaxPoints
  /\ \E present \in SUBSET Keys : \E numbers \in SUBSET present :
       /\ metric.kind = "chart" => numbers = present
       /\ samples' = Append(samples,
            [k \in Keys |-> IF k \in numbers THEN Value(k)
                            ELSE IF k \in present THEN Gap ELSE Absent])
       /\ previous' = [k \in Keys |->
            IF k \in numbers /\ metric.transform # "gauge" THEN Row(k) ELSE previous[k]]
       /\ \E first \in SetToSeqs(present \ ToSet(order)) : order' = order \o first
       /\ since' = [k \in Keys |-> IF k \in numbers THEN Fresh ELSE since[k]]
  /\ points' = points + 1
  /\ UNCHANGED <<metric, budget, world, errors, report>>

\* A point without a sample: the query or script fails, the server does not
\* have what it needs, or the loop skips the point because the source is busy.
SampleFails(code) ==
  /\ stage = "sampling" /\ points < MaxPoints
  /\ points' = points + 1
  /\ errors' = errors \cup {code}
  /\ UNCHANGED <<metric, budget, world, previous, samples, order, report, since>>

--------------------------------------------------------------------------------
(* The result of the window.                                                *)

Points(k) ==
  [i \in DOMAIN samples |-> IF samples[i][k] = Absent THEN Gap ELSE samples[i][k]]

HasValue(k) == \E i \in DOMAIN samples : Points(k)[i] # Gap

\* The keys in their order, without those that have no value anywhere.
Drawn ==
  LET drawn[n \in 0..Len(order)] ==
        IF n = 0 THEN <<>>
        ELSE IF HasValue(order[n]) THEN Append(drawn[n - 1], order[n]) ELSE drawn[n - 1]
  IN drawn[Len(order)]

ResultSeries == [n \in DOMAIN Drawn |-> [key |-> Drawn[n], points |-> Points(Drawn[n])]]

PointCount(series) == SumFunction([n \in DOMAIN series |-> Len(series[n].points)])

\* series[:n]
Leading(s, n) == IF Len(s) <= n THEN s ELSE SubSeq(s, 1, n)

\* points[-n:], which is everything for n = 0
Newest(s, n) == IF n = 0 \/ Len(s) <= n THEN s ELSE SubSeq(s, Len(s) - n + 1, Len(s))

Numbers(k) == {i \in DOMAIN samples : samples[i][k] \notin {Absent, Gap}}

Sum(k) == SumFunction([i \in Numbers(k) |-> samples[i][k].top])

\* Mutant: only the latest row decides whether a group is all zero.
NonZeroNow(k) ==
  Numbers(k) # {} /\ \A i \in Numbers(k) : (\A j \in Numbers(k) : j <= i) => samples[i][k].top # 0

NonZero(k) == \E i \in Numbers(k) : samples[i][k].top # 0

Groups == {k \in ToSet(order) : metric.dropZero => NonZero(k)}

\* The larger average first, groups without any number last, both stable.
Before(j, k) ==
  LET left == Sum(j) * Cardinality(Numbers(k))
      right == Sum(k) * Cardinality(Numbers(j))
      earlier == \E n \in DOMAIN order : \E m \in 1..(n - 1) : order[m] = j /\ order[n] = k
  IN IF Numbers(j) = {} THEN Numbers(k) = {} /\ earlier
     ELSE Numbers(k) = {} \/ left > right \/ (left = right /\ earlier)

TableRows == {k \in Groups : Cardinality({j \in Groups : Before(j, k)}) < metric.limit}

Active(i) == {k \in Keys : samples[i][k] # Absent}

AllKeys == UNION {Active(i) : i \in DOMAIN samples}

\* Samples before the first one with rows do not count.
Effective == {i \in DOMAIN samples : \E j \in 1..i : Active(j) # {}}

\* chart_coverage_diagnostics: missing observations or topology changes
CoverageGap ==
  \/ \E i \in Effective : AllKeys \ Active(i) # {}
  \/ \E i \in Effective : i + 1 \in Effective /\ Active(i) # Active(i + 1)

\* The window ends. A chart enters apply_chart_budget.
Assemble ==
  /\ stage = "sampling" /\ points > 0
  /\ \/ /\ metric.kind = "chart"
        /\ \E policy \in Budgets :
             /\ budget' = policy
             /\ todo' = Leading(ResultSeries, policy.series)
             /\ remaining' = policy.total
        /\ rows' = rows
     \/ /\ metric.kind = "table"
        /\ rows' = TableRows
        /\ UNCHANGED <<budget, todo, remaining>>
  /\ stage' = "bounding"
  /\ UNCHANGED <<metric, world, folded, shown, status, since>>

\* One round of the loop over the retained series.
BoundHead ==
  LET kept == Newest(Newest(Head(todo).points, budget.points), remaining)
  IN /\ todo' = Tail(todo)
     /\ remaining' = remaining - Len(kept)
     /\ shown' = Append(shown, [key |-> Head(todo).key, points |-> kept])
     /\ UNCHANGED <<metric, budget, world, folded, stage, rows, status, since>>

\* Mutant: the loop does not stop when the budget is used up.
BoundAnySeries == stage = "bounding" /\ todo # <<>> /\ BoundHead

BoundSeries == stage = "bounding" /\ todo # <<>> /\ remaining > 0 /\ BoundHead

\* Mutant: only dropped series count as a truncation.
FewerSeries == Len(shown) < Len(ResultSeries)

Truncated ==
  metric.kind = "chart" /\ (\/ Len(shown) # Len(ResultSeries)
                            \/ PointCount(shown) # PointCount(ResultSeries))

\* requires_fields
RequiredSeen ==
  \E i \in DOMAIN samples, k \in Keys :
    IF metric.kind = "chart" THEN samples[i][k] # Absent ELSE samples[i][k] \notin {Absent, Gap}

\* Mutant: an item without a result is empty whatever happened to its source.
StatusOfResult == IF shown # <<>> \/ rows # {} THEN "ok" ELSE "empty"

Status ==
  IF metric.required /\ ~RequiredSeen /\ samples # <<>> THEN "unsupported"
  ELSE IF shown # <<>> \/ rows # {} THEN "ok"
  ELSE IF errors = {"unsupported"} THEN "unsupported"
  ELSE IF errors # {} THEN "error"
  ELSE "empty"

Finish ==
  /\ stage = "bounding"
  /\ remaining = 0 \/ todo = <<>>
  /\ stage' = "assembled"
  /\ status' = Status
  /\ UNCHANGED <<metric, budget, world, folded, todo, remaining, shown, rows, since>>

Next ==
  \/ \E k \in Keys : Grow(k) \/ Restart(k)
  \/ Sample
  \/ \E code \in {"failed", "unsupported", "busy"} : SampleFails(code)
  \/ Assemble \/ BoundSeries \/ Finish

Spec == Init /\ [][Next]_vars

--------------------------------------------------------------------------------
(* Properties.                                                              *)

\* The point that a sample adds to a counter series is the growth of the counters
\* since the key was last observed, however many samples missed it in between; it
\* is a gap for the first observation and after a restart that the epoch_refs of
\* the metric or a fallen counter show, and a ratio of an idle interval is a gap.
PointsAreExact ==
  [][samples' # samples /\ metric.transform # "gauge" =>
       LET latest == samples'[Len(samples')]
       IN \A k \in Keys : latest[k] # Absent =>
            IF \/ previous[k] = NoObservation
               \/ since[k].restarted /\ (\/ metric.epoch
                                         \/ counter[k] < previous[k].top
                                         \/ events[k] < previous[k].bottom)
               \/ metric.transform = "ratio_of_deltas" /\ ~since[k].restarted /\ since[k].bottom = 0
            THEN latest[k] = Gap
            ELSE ~since[k].restarted =>
                   /\ latest[k] # Gap
                   /\ latest[k].top = since[k].top
                   /\ metric.transform = "ratio_of_deltas" => latest[k].bottom = since[k].bottom]_vars

\* "Restart/reset creates a gap" (instructions of merge_row_rate): no rate spans a
\* restart, whether or not the metric has epoch_refs.
RestartCreatesGap ==
  [][samples' # samples /\ metric.transform # "gauge" =>
       \A k \in Keys : since[k].restarted => samples'[Len(samples')][k] \in {Absent, Gap}]_vars

Assembled == stage = "assembled"

\* The chart stays within all three budgets and keeps the newest points of the
\* series that appeared first; "Deterministic chart truncation retains the newest
\* points" (README). A series that got a place has points.
BudgetHolds ==
  budget # NoBudget =>
  /\ Len(shown) <= budget.series
  /\ PointCount(shown) <= budget.total
  /\ \A n \in DOMAIN shown :
       /\ Len(shown[n].points) \in 1..budget.points
       /\ shown[n].key = ResultSeries[n].key
       /\ IsSuffix(shown[n].points, ResultSeries[n].points)

\* Nothing is left out of a chart without a word: without the truncation, every
\* value that a sample added is in the report; without the coverage warning, no
\* sample after the first one with rows misses a series.
OmissionsAreReported ==
  Assembled /\ metric.kind = "chart" =>
    /\ ~Truncated => \A k \in Keys, i \in DOMAIN samples : samples[i][k] \notin {Absent, Gap} =>
         \E n \in DOMAIN shown : /\ shown[n].key = k /\ i \in DOMAIN shown[n].points
                                     /\ shown[n].points[i] = samples[i][k]
    /\ ~CoverageGap => \A k \in ToSet(order), i \in DOMAIN samples :
         samples[i][k] = Absent => \A j \in 1..i : Active(j) = {}

\* A table shows the groups with the largest averages: a group that is left out
\* never exceeds one that is shown, and is only left out for the limit or because
\* every number in it is zero.
TableIsTheTop ==
  Assembled /\ metric.kind = "table" =>
    \A k \in ToSet(order) \ rows :
      \/ metric.dropZero /\ Sum(k) = 0
      \/ /\ Cardinality(rows) = metric.limit
         /\ \A j \in rows : /\ Numbers(j) = {} => Numbers(k) = {}
                            /\ Sum(k) * Cardinality(Numbers(j)) <= Sum(j) * Cardinality(Numbers(k))

\* The status does not belie the samples: an item that is ok shows a value unless
\* the truncation says what was left out, an item is empty only if no point of its
\* source failed and none of its samples had a value to show, and a failure counts
\* as unsupported, which omits the item, only behind an unseen required field.
StatusIsHonest ==
  Assembled =>
    /\ status = "ok" /\ metric.kind = "chart" =>
         Truncated \/ \E n \in DOMAIN shown : \E i \in DOMAIN shown[n].points : shown[n].points[i] # Gap
    /\ status = "empty" =>
         /\ errors = {}
         /\ \A i \in DOMAIN samples, k \in Keys :
              samples[i][k] \in {Absent, Gap} \/ (metric.dropZero /\ samples[i][k].top = 0)
    /\ status = "unsupported" /\ errors # {"unsupported"} => metric.required
================================================================================
