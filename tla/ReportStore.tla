------------------------------- MODULE ReportStore -------------------------------
(***************************************************************************)
(* What write_text_secure in src/ch_diag/artifact.py promises of the report *)
(* files: each of them shows one whole report at any time, and nothing but  *)
(* the publication of another one changes what it shows. A power loss may   *)
(* bring an earlier version back, since the directory is not synchronised.  *)
(***************************************************************************)
CONSTANTS Files, Reports, NoReport

VARIABLES
  visible,   \* the report that a reader finds under every name
  versions   \* what a power loss may bring back

vars == <<visible, versions>>

Init ==
  /\ visible \in [Files -> Reports \cup {NoReport}]
  /\ versions = [f \in Files |-> {visible[f]}]

Publish(f, r) ==
  /\ visible' = [visible EXCEPT ![f] = r]
  /\ versions' = [versions EXCEPT ![f] = @ \cup {r}]

Revert ==
  /\ visible' \in [Files -> Reports \cup {NoReport}]
  /\ \A f \in Files : visible'[f] \in versions[f]
  /\ versions' = [f \in Files |-> {visible'[f]}]

Next ==
  \/ \E f \in Files, r \in Reports : Publish(f, r)
  \/ Revert

Spec == Init /\ [][Next]_vars
================================================================================
