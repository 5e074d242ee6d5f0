------------------------------ MODULE SampleLedger ------------------------------
(***************************************************************************)
(* What the sampling window of a snapshots run promises for every source    *)
(* and every scheduled point, without tasks, capacity or clocks: each point *)
(* is decided once, a point is skipped only while an earlier point of the   *)
(* same source is undecided, samples are taken in order of their points,    *)
(* and a window that closes normally leaves nothing undecided.              *)
(***************************************************************************)
EXTENDS Naturals

CONSTANTS
  Sources,
  Last,          \* index of the last scheduled point
  Schedule(_)    \* the points a source is sampled at

VARIABLES
  ledger,        \* "pending", "sampled", "failed" or "skipped", per source and point
  window         \* "open", "closed" or "cancelled"

vars == <<ledger, window>>

Slots == 0..Last

Init ==
  /\ ledger = [s \in Sources |-> [i \in Slots |-> "pending"]]
  /\ window = "open"

Decide(s, i, verdict) ==
  /\ window = "open"
  /\ i \in Schedule(s)
  /\ ledger[s][i] = "pending"
  /\ ledger' = [ledger EXCEPT ![s][i] = verdict]
  /\ UNCHANGED window

Sample(s, i) ==
  /\ \A j \in Slots : j > i => ledger[s][j] # "sampled"
  /\ Decide(s, i, "sampled")

Fail(s, i) == Decide(s, i, "failed")

Skip(s, i) ==
  /\ \E j \in Schedule(s) : j < i /\ ledger[s][j] = "pending"
  /\ Decide(s, i, "skipped")

Close ==
  /\ window = "open"
  /\ \A s \in Sources : \A i \in Schedule(s) : ledger[s][i] # "pending"
  /\ window' = "closed"
  /\ UNCHANGED ledger

Cancel ==
  /\ window = "open"
  /\ window' = "cancelled"
  /\ UNCHANGED ledger

Next ==
  \/ \E s \in Sources, i \in Slots : Sample(s, i) \/ Fail(s, i) \/ Skip(s, i)
  \/ Close
  \/ Cancel

SafeSpec == Init /\ [][Next]_vars

\* A window does not stay open for ever.
Spec == SafeSpec /\ <>(window # "open")
================================================================================
