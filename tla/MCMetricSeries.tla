----------------------------- MODULE MCMetricSeries -----------------------------
(* TLC instances of MetricSeries.                                           *)
EXTENDS MetricSeries

Chart(transform, epoch, required) ==
  [kind |-> "chart", transform |-> transform, epoch |-> epoch, required |-> required,
   dropZero |-> FALSE, limit |-> 1]

Table(required, dropZero) ==
  [kind |-> "table", transform |-> "gauge", epoch |-> FALSE, required |-> required,
   dropZero |-> dropZero, limit |-> 1]

\* process_io, query_rate, merge_row_rate, query_latency with the epoch it lacks,
\* thread_pool_usage and thread_io_top.
PackMetrics ==
  {Chart("gauge", FALSE, TRUE), Chart("rate", TRUE, FALSE), Chart("rate", FALSE, FALSE),
   Chart("ratio_of_deltas", TRUE, FALSE),
   Table(FALSE, FALSE), Table(TRUE, TRUE)}

\* merge_row_rate
RateMetric == {Chart("rate", FALSE, FALSE)}

\* Budgets that bind by the series, by the points of a series and by the total,
\* which ends within a series or with one, and one that does not bind.
TightBudgets ==
  {[series |-> 1, points |-> 2, total |-> 9], [series |-> 2, points |-> 2, total |-> 3],
   [series |-> 2, points |-> 2, total |-> 2], [series |-> 2, points |-> 9, total |-> 9]}

WideBudget == {[series |-> 2, points |-> 9, total |-> 9]}
================================================================================
