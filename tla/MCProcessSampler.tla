---------------------------- MODULE MCProcessSampler ----------------------------
(* TLC instances of ProcessSampler.                                         *)
EXTENDS ProcessSampler

\* Every start of the server has a pid of its own.
FreshPids == <<11, 12>>
================================================================================
