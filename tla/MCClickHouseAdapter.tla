-------------------------- MODULE MCClickHouseAdapter --------------------------
(* TLC instances of ClickHouseAdapter.                                      *)
EXTENDS ClickHouseAdapter, TLC

\* Queries and servers are interchangeable in every property checked with it.
Symmetry == Permutations(Queries) \cup Permutations(Servers)
================================================================================
