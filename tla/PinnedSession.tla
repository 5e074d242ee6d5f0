----------------------------- MODULE PinnedSession -----------------------------
(***************************************************************************)
(* What ClickHouseAdapter promises its callers, without workers, timers or  *)
(* retries: the session is pinned to one server by its first successful     *)
(* detection, every call returns exactly once, and rows are only ever       *)
(* delivered from the pinned server.                                        *)
(***************************************************************************)

CONSTANTS
  Queries,     \* execute_query calls
  Detector,    \* the detect_runtime_context call
  Servers,     \* server identities (database, version, hostname)
  NoServer

VARIABLES
  pinned,      \* the identity later answers are compared with
  state,       \* "idle", "pending" or "done", per call
  outcome,     \* how the call returned
  origin       \* the server whose rows the call delivered

vars == <<pinned, state, outcome, origin>>

Calls == Queries \cup {Detector}
Errors == {"failed", "timeout", "disconnect", "changed", "closed", "cancelled"}

Init ==
  /\ pinned = NoServer
  /\ state = [c \in Calls |-> "idle"]
  /\ outcome = [c \in Calls |-> "none"]
  /\ origin = [c \in Calls |-> NoServer]

Begin(c) ==
  /\ state[c] = "idle"
  /\ c \in Queries => pinned # NoServer
  /\ state' = [state EXCEPT ![c] = "pending"]
  /\ UNCHANGED <<pinned, outcome, origin>>

\* The first detection pins the session to the server it read.
Pin(s) ==
  /\ pinned = NoServer
  /\ state[Detector] = "pending"
  /\ pinned' = s
  /\ state' = [state EXCEPT ![Detector] = "done"]
  /\ outcome' = [outcome EXCEPT ![Detector] = "rows"]
  /\ origin' = [origin EXCEPT ![Detector] = s]

Deliver(q) ==
  /\ state[q] = "pending"
  /\ state' = [state EXCEPT ![q] = "done"]
  /\ outcome' = [outcome EXCEPT ![q] = "rows"]
  /\ origin' = [origin EXCEPT ![q] = pinned]
  /\ UNCHANGED pinned

\* A call may also fail, even before it had a chance to begin.
Fail(c, e) ==
  /\ state[c] # "done"
  /\ state' = [state EXCEPT ![c] = "done"]
  /\ outcome' = [outcome EXCEPT ![c] = e]
  /\ UNCHANGED <<pinned, origin>>

Finish(c) ==
  /\ state[c] = "pending"
  /\ \/ c \in Queries /\ Deliver(c)
     \/ c = Detector /\ \E s \in Servers : Pin(s)
     \/ \E e \in Errors : Fail(c, e)

Next ==
  \/ \E c \in Calls : Begin(c) \/ Finish(c)
  \/ \E c \in Calls, e \in Errors : Fail(c, e)

SafeSpec == Init /\ [][Next]_vars

\* Every call that has begun returns.
Spec == SafeSpec /\ \A c \in Calls : WF_vars(Finish(c))
================================================================================
