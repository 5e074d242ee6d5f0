------------------------------ MODULE MCCommandRun ------------------------------
(* TLC instances of CommandRun, with the plans of MCCollectionRun.          *)
EXTENDS CommandRun, MCCollectionRun
================================================================================
