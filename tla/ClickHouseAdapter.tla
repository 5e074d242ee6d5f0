--------------------------- MODULE ClickHouseAdapter ---------------------------
(***************************************************************************)
(* The query path of src/ch_diag/clickhouse.py: coroutines on the event     *)
(* loop hand one driver client each to a bounded pool of worker threads,    *)
(* wait for it under a timeout, retry transport disconnects after verifying *)
(* the server's identity, and a close() that stops the pool.                *)
(*                                                                          *)
(* A call is one execute_query (or the detect_runtime_context that pins the *)
(* identity). It has at most one outstanding _execute_raw at any time, so   *)
(* its future, its client and its connection are functions of the call.     *)
(* The server, the network and clickhouse-driver are the environment: a     *)
(* connection stays with the server it was opened to, and any statement may *)
(* answer, fail or never come back.                                         *)
(***************************************************************************)
EXTENDS Naturals, Sequences, FiniteSets

CONSTANTS
  Queries,            \* execute_query calls
  Detector,           \* the detect_runtime_context call of the collector
  Servers,            \* identities the endpoint may answer with
  NoServer, NoCall,
  WorkerCount,        \* runtime_policy.database_workers
  ReconnectAttempts,  \* runtime_policy.database_reconnect_attempts
  MaxFailovers        \* bound on endpoint changes

ASSUME AdapterAssumption ==
  /\ Detector \notin Queries
  /\ NoCall \notin Queries \cup {Detector}
  /\ NoServer \notin Servers
  /\ Servers # {}
  /\ WorkerCount \in Nat \ {0}
  /\ ReconnectAttempts \in Nat
  /\ MaxFailovers \in Nat

VARIABLES
  endpoint,     \* the server new connections reach
  failovers,    \* how often the endpoint has moved
  identity,     \* self._identity
  pc,           \* where the call's coroutine is suspended
  step,         \* the statement it waits for
  tries,        \* reconnect attempts used
  seen,         \* server that answered the runtime context statement
  lock,         \* holder of self._identity_lock
  job,          \* the executor future of the call's current statement
  conn,         \* server the future's client is connected to
  queue,        \* work queue of the ThreadPoolExecutor
  clients,      \* self._clients: calls whose client is registered
  interrupted,  \* calls whose client was cancelled while executing
  cancels,      \* calls whose task was cancelled
  outcome,      \* how the call returned
  origin,       \* server whose rows it returned
  closing       \* progress of close()

adapterVars == <<identity, clients, closing, lock>>
callVars == <<pc, step, tries, seen, outcome, origin, cancels>>
workVars == <<job, conn, queue, interrupted>>
serverVars == <<endpoint, failovers>>
vars == <<adapterVars, callVars, workVars, serverVars>>

Calls == Queries \cup {Detector}
Busy == {"checking", "querying"}
Live == Busy \cup {"queued"}
Finished == {"rows", "failed", "disconnect", "changed", "cancelled"}
Outcomes == Finished \cup {"none", "timeout", "closed"}
Steps == {"query", "context", "readonly"}
Suspended == {"waiting", "draining", "locking"}

TypeOK ==
  /\ endpoint \in Servers
  /\ failovers \in 0..MaxFailovers
  /\ identity \in Servers \cup {NoServer}
  /\ pc \in [Calls -> Suspended \cup {"idle", "done"}]
  /\ step \in [Calls -> Steps]
  /\ tries \in [Calls -> 0..ReconnectAttempts]
  /\ seen \in [Calls -> Servers \cup {NoServer}]
  /\ lock \in Calls \cup {NoCall}
  /\ job \in [Calls -> Live \cup Finished \cup {"none"}]
  /\ conn \in [Calls -> Servers \cup {NoServer}]
  /\ queue \in Seq(Calls)
  /\ clients \subseteq Calls
  /\ interrupted \subseteq Calls
  /\ cancels \subseteq Calls
  /\ outcome \in [Calls -> Outcomes]
  /\ origin \in [Calls -> Servers \cup {NoServer}]
  /\ closing \in {"open", "signalled", "joining", "closed", "gave_up"}

Init ==
  /\ endpoint \in Servers
  /\ failovers = 0
  /\ identity = NoServer
  /\ pc = [c \in Calls |-> "idle"]
  /\ step = [c \in Calls |-> IF c = Detector THEN "context" ELSE "query"]
  /\ tries = [c \in Calls |-> 0]
  /\ seen = [c \in Calls |-> NoServer]
  /\ lock = NoCall
  /\ job = [c \in Calls |-> "none"]
  /\ conn = [c \in Calls |-> NoServer]
  /\ queue = <<>>
  /\ clients = {}
  /\ interrupted = {}
  /\ cancels = {}
  /\ outcome = [c \in Calls |-> "none"]
  /\ origin = [c \in Calls |-> NoServer]
  /\ closing = "open"

--------------------------------------------------------------------------------
(* The coroutines.                                                          *)

Return(c, result) ==
  /\ pc' = [pc EXCEPT ![c] = "done"]
  /\ outcome' = [outcome EXCEPT ![c] = result]

Held(c) == IF lock = c THEN NoCall ELSE lock

\* The synchronous part of _execute_raw: refuse when closed, otherwise create
\* and register a client, queue its execution and suspend on the future.
Submit(c, statement) ==
  \/ /\ closing = "open"
     /\ step' = [step EXCEPT ![c] = statement]
     /\ job' = [job EXCEPT ![c] = "queued"]
     /\ conn' = [conn EXCEPT ![c] = NoServer]
     /\ queue' = Append(queue, c)
     /\ clients' = clients \cup {c}
     /\ interrupted' = interrupted \ {c}
     /\ pc' = [pc EXCEPT ![c] = "waiting"]
     /\ UNCHANGED outcome
  \/ /\ closing # "open"
     /\ Return(c, "closed")
     /\ UNCHANGED <<step, workVars, clients>>

\* The collector detects the runtime context before it executes anything.
Detect ==
  /\ pc[Detector] = "idle"
  /\ Submit(Detector, "context")
  /\ UNCHANGED <<serverVars, identity, closing, lock, tries, seen, origin, cancels>>

Start(q) ==
  /\ pc[q] = "idle"
  /\ identity # NoServer
  /\ Submit(q, "query")
  /\ UNCHANGED <<serverVars, identity, closing, lock, tries, seen, origin, cancels>>

MayReconnect(c) ==
  /\ c \in Queries
  /\ job[c] = "disconnect"
  /\ tries[c] < ReconnectAttempts

Resumed(c) == pc[c] = "waiting" /\ job[c] \in Finished

\* The statement itself came back: rows, or an error that is not retried.
Answered(c) ==
  /\ Resumed(c) /\ step[c] = "query"
  /\ ~MayReconnect(c)
  /\ Return(c, job[c])
  /\ origin' = IF job[c] = "rows" THEN [origin EXCEPT ![c] = conn[c]] ELSE origin
  /\ UNCHANGED <<serverVars, adapterVars, workVars, step, tries, seen, cancels>>

\* A disconnect, of the statement or of the identity check before its retry,
\* uses one attempt and queues for the identity lock.
Reconnect(c) ==
  /\ Resumed(c) /\ MayReconnect(c)
  /\ tries' = [tries EXCEPT ![c] = @ + 1]
  /\ pc' = [pc EXCEPT ![c] = "locking"]
  /\ lock' = Held(c)
  /\ UNCHANGED <<serverVars, identity, clients, closing, workVars, step, seen,
                 outcome, origin, cancels>>

AcquireLock(c) ==
  /\ pc[c] = "locking"
  /\ lock = NoCall
  /\ Submit(c, "context")
  /\ lock' = IF closing = "open" THEN c ELSE NoCall
  /\ UNCHANGED <<serverVars, identity, closing, tries, seen, origin, cancels>>

ContextRead(c) ==
  /\ Resumed(c) /\ step[c] = "context" /\ job[c] = "rows"
  /\ seen' = [seen EXCEPT ![c] = conn[c]]
  /\ Submit(c, "readonly")
  /\ lock' = IF closing = "open" THEN lock ELSE Held(c)
  /\ UNCHANGED <<serverVars, identity, closing, tries, origin, cancels>>

\* Mutant: pins the server of the last statement, not the one it read from.
LastServerAnswered == IF identity = NoServer THEN conn[Detector] ELSE identity

DetectedIdentity == IF identity = NoServer THEN seen[Detector] ELSE identity

\* Detection ends: the first one pins the identity.
IdentityDetected ==
  /\ Resumed(Detector) /\ step[Detector] = "readonly" /\ job[Detector] = "rows"
  /\ identity' = DetectedIdentity
  /\ IF identity' = seen[Detector]
       THEN /\ Return(Detector, "rows")
            /\ origin' = [origin EXCEPT ![Detector] = seen[Detector]]
       ELSE /\ Return(Detector, "changed")
            /\ UNCHANGED origin
  /\ UNCHANGED <<serverVars, clients, closing, lock, workVars, step, tries, seen, cancels>>

\* The reconnect found the pinned server again and repeats the statement, or
\* found another one and refuses.
IdentityVerified(q) ==
  /\ Resumed(q) /\ step[q] = "readonly" /\ job[q] = "rows"
  /\ lock' = Held(q)
  /\ IF seen[q] = identity
       THEN Submit(q, "query")
       ELSE /\ Return(q, "changed")
            /\ UNCHANGED <<step, workVars, clients>>
  /\ UNCHANGED <<serverVars, identity, closing, tries, seen, origin, cancels>>

IdentityCheckFailed(c) ==
  /\ Resumed(c) /\ step[c] # "query" /\ job[c] # "rows"
  /\ ~MayReconnect(c)
  /\ Return(c, job[c])
  /\ lock' = Held(c)
  /\ UNCHANGED <<serverVars, identity, clients, closing, workVars, step, tries,
                 seen, origin, cancels>>

\* wait_for(shield(task), timeout) expires. The client is told to cancel,
\* which reaches the server only when its statement is executing.
Timeout(c) ==
  /\ pc[c] = "waiting"
  /\ pc' = [pc EXCEPT ![c] = "draining"]
  /\ interrupted' = IF job[c] \in Busy THEN interrupted \cup {c} ELSE interrupted
  /\ UNCHANGED <<serverVars, adapterVars, job, conn, queue, step, tries, seen,
                 outcome, origin, cancels>>

\* Mutant: waits for the worker without a limit.
StopDrainingWhenDone(c) ==
  /\ pc[c] = "draining" /\ job[c] \in Finished
  /\ Return(c, "timeout")
  /\ lock' = Held(c)
  /\ UNCHANGED job

\* wait_for(task, 1.0) returns, expires or is cancelled: whatever happened is
\* dropped. A future that never started is cancelled and its execute() never
\* runs; a running one keeps its worker.
StopDraining(c) ==
  /\ pc[c] = "draining"
  /\ Return(c, "timeout")
  /\ job' = IF job[c] = "queued" THEN [job EXCEPT ![c] = "cancelled"] ELSE job
  /\ lock' = Held(c)

DrainEnd(c) ==
  /\ StopDraining(c)
  /\ UNCHANGED <<serverVars, identity, clients, closing, conn, queue, interrupted,
                 step, tries, seen, origin, cancels>>

\* The task awaiting the call is cancelled. The shield leaves the future alone;
\* during the drain the cancellation is swallowed.
Cancel(c) ==
  /\ c \notin cancels
  /\ cancels' = cancels \cup {c}
  /\ \/ /\ pc[c] \in {"waiting", "locking"}
        /\ Return(c, "cancelled")
        /\ lock' = Held(c)
        /\ UNCHANGED job
     \/ StopDraining(c)
  /\ UNCHANGED <<serverVars, identity, clients, closing, conn, queue, interrupted,
                 step, tries, seen, origin>>

--------------------------------------------------------------------------------
(* The workers of the ThreadPoolExecutor.                                   *)

BusyCalls == {c \in Calls : job[c] \in Busy}

\* Mutant: fresh connections are not checked.
UncheckedStatement == "querying"

\* A fresh connection is asked for its identity once one is pinned.
FirstStatement == IF identity = NoServer THEN "querying" ELSE "checking"

\* An idle worker takes the oldest work item. A cancelled one is dropped; a
\* queued one opens its connection.
Take ==
  /\ queue # <<>>
  /\ Cardinality(BusyCalls) < WorkerCount
  /\ queue' = Tail(queue)
  /\ LET c == Head(queue) IN
       IF job[c] = "queued"
         THEN /\ job' = [job EXCEPT ![c] = FirstStatement]
              /\ conn' = [conn EXCEPT ![c] = endpoint]
         ELSE UNCHANGED <<job, conn>>
  /\ UNCHANGED <<serverVars, adapterVars, callVars, interrupted>>

\* Mutant: the client stays in the registry.
WorkerEndsRegistered(c, result) ==
  /\ job' = [job EXCEPT ![c] = result]
  /\ UNCHANGED <<serverVars, adapterVars, callVars, conn, queue, interrupted>>

\* The finally block of execute(): disconnect, leave the registry, finish.
WorkerEnds(c, result) ==
  /\ job' = [job EXCEPT ![c] = result]
  /\ clients' = clients \ {c}
  /\ UNCHANGED <<serverVars, identity, closing, lock, callVars, conn, queue, interrupted>>

\* Mutant: any answer is good enough.
AnyIdentityConfirmed(c) ==
  /\ job[c] = "checking"
  /\ job' = [job EXCEPT ![c] = "querying"]
  /\ UNCHANGED <<serverVars, adapterVars, callVars, conn, queue, interrupted>>

IdentityConfirmed(c) ==
  /\ job[c] = "checking"
  /\ conn[c] = identity
  /\ job' = [job EXCEPT ![c] = "querying"]
  /\ UNCHANGED <<serverVars, adapterVars, callVars, conn, queue, interrupted>>

IdentityRefused(c) ==
  /\ job[c] = "checking"
  /\ conn[c] # identity
  /\ WorkerEnds(c, "changed")

RowsRead(c) == job[c] = "querying" /\ WorkerEnds(c, "rows")

StatementFails(c) ==
  /\ job[c] \in Busy
  /\ \E error \in {"disconnect", "failed"} : WorkerEnds(c, error)

--------------------------------------------------------------------------------
(* close(), called once by the collector's clean-up.                        *)

CloseStart ==
  /\ closing = "open"
  /\ closing' = "signalled"
  /\ interrupted' = interrupted \cup (clients \cap BusyCalls)
  /\ UNCHANGED <<serverVars, identity, clients, lock, callVars, job, conn, queue>>

CancelQueued ==
  /\ job' = [c \in Calls |-> IF job[c] = "queued" THEN "cancelled" ELSE job[c]]
  /\ queue' = <<>>

\* executor.shutdown(wait=True, cancel_futures=True) in its own thread.
Shutdown ==
  /\ closing = "signalled"
  /\ closing' = "joining"
  /\ CancelQueued
  /\ UNCHANGED <<serverVars, identity, clients, lock, callVars, conn, interrupted>>

\* Mutant: shutdown(wait=False).
ClosedUnjoined ==
  /\ closing = "joining"
  /\ closing' = "closed"
  /\ UNCHANGED <<serverVars, identity, clients, lock, callVars, workVars>>

WorkersJoined ==
  /\ closing = "joining"
  /\ BusyCalls = {}
  /\ closing' = "closed"
  /\ UNCHANGED <<serverVars, identity, clients, lock, callVars, workVars>>

\* Mutant: the timeout does not cover the join of the workers.
CloseTimeoutEarly ==
  /\ closing = "signalled"
  /\ closing' = "gave_up"
  /\ CancelQueued
  /\ UNCHANGED <<serverVars, identity, clients, lock, callVars, conn, interrupted>>

\* close_timeout_seconds passed: shutdown(wait=False), then TimeoutError.
CloseTimeout ==
  /\ closing \in {"signalled", "joining"}
  /\ closing' = "gave_up"
  /\ CancelQueued
  /\ UNCHANGED <<serverVars, identity, clients, lock, callVars, conn, interrupted>>

--------------------------------------------------------------------------------

\* The endpoint moves to another server: failover, restart, load balancing.
Failover ==
  /\ failovers < MaxFailovers
  /\ failovers' = failovers + 1
  /\ endpoint' \in Servers \ {endpoint}
  /\ UNCHANGED <<adapterVars, callVars, workVars>>

Resume(c) ==
  \/ Answered(c)
  \/ Reconnect(c)
  \/ ContextRead(c)
  \/ c = Detector /\ IdentityDetected
  \/ c \in Queries /\ IdentityVerified(c)
  \/ IdentityCheckFailed(c)

Worker(c) ==
  \/ IdentityConfirmed(c)
  \/ IdentityRefused(c)
  \/ RowsRead(c)
  \/ StatementFails(c)

Next ==
  \/ Detect
  \/ \E q \in Queries : Start(q)
  \/ \E c \in Calls :
       \/ Resume(c) \/ AcquireLock(c)
       \/ Timeout(c) \/ DrainEnd(c) \/ Cancel(c)
       \/ Worker(c)
  \/ Take
  \/ CloseStart \/ Shutdown \/ WorkersJoined \/ CloseTimeout
  \/ Failover

SafeSpec == Init /\ [][Next]_vars

\* The event loop resumes what is ready and fires its timers. Nothing is
\* assumed of the workers: a driver may block for ever.
EventLoop ==
  /\ \A c \in Calls :
       /\ WF_vars(Resume(c)) /\ WF_vars(AcquireLock(c))
       /\ WF_vars(Timeout(c)) /\ WF_vars(DrainEnd(c))
  /\ WF_vars(CloseTimeout)

Spec == SafeSpec /\ EventLoop

--------------------------------------------------------------------------------
(* Properties.                                                              *)

\* Rows of two servers are never merged into one report: whatever failed over
\* and whenever, the rows a call returned were read on a connection to the
\* pinned server (test_reconnect_identity_change_refuses_to_mix_samples).
NoMixedServers == \A c \in Calls : outcome[c] = "rows" => origin[c] = identity

\* No statement of the report is even sent to a server other than the pinned
\* one: the check precedes it on the same connection
\* (test_each_fresh_driver_connection_is_identity_checked_before_query).
NoForeignStatement == \A q \in Queries : job[q] = "querying" => conn[q] = identity

\* Every statement that is queued or executing has its client in the registry,
\* so that close() can reach it, and only clients of futures cancelled before
\* they started stay behind when nothing uses them any more.
RegistryMatchesWork ==
  \A c \in Calls :
    /\ job[c] \in Live => c \in clients
    /\ c \in clients => job[c] \in Live \cup {"cancelled"}

\* After close() has returned normally no worker executes a statement and none
\* is left that a worker could still take
\* (test_worker_pool_is_bounded_and_close_drains_every_worker).
ClosedIsIdle ==
  closing = "closed" => queue = <<>> /\ \A c \in Calls : job[c] \notin Live

\* Only a coroutine that is verifying the identity holds the identity lock:
\* no way out of the verification (error, timeout, cancellation, closed
\* adapter) leaves it locked for the other reconnects.
LockHeldByVerifier ==
  lock # NoCall =>
    /\ lock \in Queries
    /\ pc[lock] \in {"waiting", "draining"}
    /\ step[lock] \in {"context", "readonly"}

\* close() returns or raises within its timeout, whatever the drivers do.
CloseReturns == closing = "signalled" ~> closing \in {"closed", "gave_up"}

--------------------------------------------------------------------------------
(* The adapter implements the abstract session.                             *)

CallState == [c \in Calls |-> IF pc[c] \in Suspended THEN "pending" ELSE pc[c]]

Session == INSTANCE PinnedSession WITH pinned <- identity, state <- CallState

\* The safety part, for every fault.
SessionSafety == Session!SafeSpec

\* Every call that was made returns, although drivers may block for ever, the
\* pool may be exhausted and the identity lock contended.
ImplementsSession == Session!Spec
================================================================================
