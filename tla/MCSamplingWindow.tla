---------------------------- MODULE MCSamplingWindow ----------------------------
(* TLC instances of SamplingWindow.                                         *)
EXTENDS SamplingWindow, TLC

CONSTANTS a, b

EverySnapshot == [s \in SqlSources |-> "every_snapshot"]
MixedScopes == [s \in SqlSources |-> IF s = a THEN "window_end" ELSE "once"]

\* SQL sources of the same scope are interchangeable.
Symmetry == Permutations(SqlSources)
================================================================================
