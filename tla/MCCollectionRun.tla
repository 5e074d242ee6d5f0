---------------------------- MODULE MCCollectionRun ----------------------------
(* TLC instances of CollectionRun.                                          *)
EXTENDS CollectionRun

\* A query with a fallback, a metric of the host and an item of another mode.
MixedPlan == <<[kind |-> "source", fallback |-> TRUE, host |-> FALSE],
               [kind |-> "metric", fallback |-> FALSE, host |-> TRUE],
               [kind |-> "inapplicable", fallback |-> FALSE, host |-> FALSE]>>

SourcePlan == <<[kind |-> "source", fallback |-> TRUE, host |-> FALSE]>>

\* Cluster names that stay apart in file names.
DistinctPaths == [t \in Targets |-> t]
================================================================================
