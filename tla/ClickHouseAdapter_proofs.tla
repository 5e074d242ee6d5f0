------------------------ MODULE ClickHouseAdapter_proofs ------------------------
(***************************************************************************)
(* Proofs about ClickHouseAdapter, for any number of queries, servers,      *)
(* workers, reconnect attempts and failovers. Each invariant is a type      *)
(* invariant or a strengthening of a checked one and is inductive relative  *)
(* to TypeOK.                                                               *)
(***************************************************************************)
EXTENDS ClickHouseAdapter, SequenceTheorems, TLAPS

USE AdapterAssumption DEF Calls

--------------------------------------------------------------------------------
(* Type correctness.                                                        *)

\* _execute_raw leaves well-typed calls and work items behind.
LEMMA SubmitType ==
  ASSUME TypeOK, NEW c \in Calls, NEW statement \in Steps, Submit(c, statement)
  PROVE  /\ step' \in [Calls -> Steps]
         /\ pc' \in [Calls -> Suspended \cup {"idle", "done"}]
         /\ job' \in [Calls -> Live \cup Finished \cup {"none"}]
         /\ conn' \in [Calls -> Servers \cup {NoServer}]
         /\ queue' \in Seq(Calls)
         /\ clients' \subseteq Calls
         /\ interrupted' \subseteq Calls
         /\ outcome' \in [Calls -> Outcomes]
<1>1. CASE closing = "open"
  <2>1. queue' \in Seq(Calls)
    <3>1. queue' = Append(queue, c)
      BY <1>1 DEF Submit
    <3> QED  BY <3>1, AppendProperties DEF TypeOK
  <2>2. step' \in [Calls -> Steps]
    BY <1>1 DEF TypeOK, Submit
  <2>6. pc' \in [Calls -> Suspended \cup {"idle", "done"}]
    BY <1>1 DEF TypeOK, Submit, Suspended
  <2>5. outcome' \in [Calls -> Outcomes]
    BY <1>1 DEF TypeOK, Submit
  <2>3. /\ job' \in [Calls -> Live \cup Finished \cup {"none"}]
        /\ conn' \in [Calls -> Servers \cup {NoServer}]
    BY <1>1 DEF TypeOK, Submit, Live
  <2>4. clients' \subseteq Calls /\ interrupted' \subseteq Calls
    BY <1>1 DEF TypeOK, Submit
  <2> QED  BY <2>1, <2>2, <2>3, <2>4, <2>5, <2>6
<1>2. CASE closing # "open"
  BY <1>2 DEF TypeOK, Submit, Return, workVars, Outcomes, Suspended
<1> QED  BY <1>1, <1>2

\* Every reachable state is well typed: no retry exceeds its attempts and every
\* call is in a state its coroutine can be suspended in.
THEOREM TypeCorrect == SafeSpec => []TypeOK
<1>1. Init => TypeOK
  BY DEF Init, TypeOK, Steps, Outcomes, Suspended
<1>2. TypeOK /\ [Next]_vars => TypeOK'
  <2> SUFFICES ASSUME TypeOK, [Next]_vars PROVE TypeOK'
    OBVIOUS
  <2> USE DEF TypeOK, serverVars, adapterVars, callVars, workVars
  <2>1. CASE Detect
    BY <2>1, SubmitType DEF Detect, Steps
  <2>2. ASSUME NEW q \in Queries, Start(q) PROVE TypeOK'
    BY <2>2, SubmitType DEF Start, Steps
  <2>3. ASSUME NEW c \in Calls, Answered(c) PROVE TypeOK'
    BY <2>3 DEF Answered, Resumed, Return, Outcomes, Suspended
  <2>4. ASSUME NEW c \in Calls, Reconnect(c) PROVE TypeOK'
    BY <2>4 DEF Reconnect, MayReconnect, Held, Suspended
  <2>5. ASSUME NEW c \in Calls, ContextRead(c) PROVE TypeOK'
    <3>1. Submit(c, "readonly") /\ "readonly" \in Steps
      BY <2>5 DEF ContextRead, Steps
    <3>2. seen' \in [Calls -> Servers \cup {NoServer}] /\ lock' \in Calls \cup {NoCall}
      BY <2>5 DEF ContextRead, Held
    <3> QED  BY <2>5, <3>1, <3>2, SubmitType DEF ContextRead
  <2>6. CASE IdentityDetected
    <3>1. identity' \in Servers \cup {NoServer}
      BY <2>6 DEF IdentityDetected, DetectedIdentity
    <3>2. outcome' \in [Calls -> Outcomes] /\ pc' \in [Calls -> Suspended \cup {"idle", "done"}]
      BY <2>6 DEF IdentityDetected, Return, Outcomes, Finished, Suspended
    <3>3. origin' \in [Calls -> Servers \cup {NoServer}]
      BY <2>6 DEF IdentityDetected
    <3> QED  BY <2>6, <3>1, <3>2, <3>3 DEF IdentityDetected
  <2>7. ASSUME NEW q \in Queries, IdentityVerified(q) PROVE TypeOK'
    <3>1. lock' \in Calls \cup {NoCall}
      BY <2>7 DEF IdentityVerified, Held
    <3>2. CASE seen[q] = identity
      BY <2>7, <3>1, <3>2, SubmitType DEF IdentityVerified, Steps
    <3>3. CASE seen[q] # identity
      BY <2>7, <3>1, <3>3 DEF IdentityVerified, Return, Outcomes, Finished, Suspended
    <3> QED  BY <3>2, <3>3
  <2>8. ASSUME NEW c \in Calls, IdentityCheckFailed(c) PROVE TypeOK'
    BY <2>8 DEF IdentityCheckFailed, Resumed, Return, Outcomes, Suspended, Held
  <2>9. ASSUME NEW c \in Calls, AcquireLock(c) PROVE TypeOK'
    BY <2>9, SubmitType DEF AcquireLock, Steps
  <2>10. ASSUME NEW c \in Calls, Timeout(c) PROVE TypeOK'
    BY <2>10 DEF Timeout, Suspended
  <2>11. ASSUME NEW c \in Calls, DrainEnd(c) PROVE TypeOK'
    BY <2>11 DEF DrainEnd, StopDraining, Return, Held, Outcomes, Finished, Suspended
  <2>12. ASSUME NEW c \in Calls, Cancel(c) PROVE TypeOK'
    <3>0. Return(c, "cancelled") \/ Return(c, "timeout")
      BY <2>12 DEF Cancel, StopDraining
    <3>1. /\ pc' \in [Calls -> Suspended \cup {"idle", "done"}]
          /\ outcome' \in [Calls -> Outcomes]
      <4>1. {"cancelled", "timeout"} \subseteq Outcomes
        BY DEF Outcomes, Finished
      <4> QED  BY <3>0, <4>1 DEF Return
    <3>2. job' \in [Calls -> Live \cup Finished \cup {"none"}]
      BY <2>12 DEF Cancel, StopDraining, Finished
    <3>3. lock' \in Calls \cup {NoCall} /\ cancels' \subseteq Calls
      BY <2>12 DEF Cancel, StopDraining, Held
    <3> QED  BY <2>12, <3>1, <3>2, <3>3 DEF Cancel
  <2>13. ASSUME NEW c \in Calls, Worker(c) PROVE TypeOK'
    <3>1. CASE IdentityConfirmed(c)
      BY <3>1 DEF IdentityConfirmed, Live, Busy
    <3>2. ASSUME NEW result \in Finished, WorkerEnds(c, result) PROVE TypeOK'
      BY <3>2 DEF WorkerEnds
    <3>3. \/ IdentityConfirmed(c)
          \/ \E result \in Finished : WorkerEnds(c, result)
      BY <2>13 DEF Worker, IdentityRefused, RowsRead, StatementFails, Finished
    <3> HIDE DEF TypeOK
    <3> QED  BY <3>1, <3>2, <3>3
  <2>14. CASE Take
    <3>1. queue' \in Seq(Calls) /\ Head(queue) \in Calls
      BY <2>14 DEF Take
    <3>2. job' \in [Calls -> Live \cup Finished \cup {"none"}]
      BY <2>14, <3>1 DEF Take, FirstStatement, Live, Busy
    <3>3. conn' \in [Calls -> Servers \cup {NoServer}]
      BY <2>14, <3>1 DEF Take
    <3> QED  BY <2>14, <3>1, <3>2, <3>3 DEF Take
  <2>15. CASE CloseStart \/ Shutdown \/ WorkersJoined \/ CloseTimeout
    <3>1. CASE CloseStart
      BY <3>1 DEF CloseStart
    <3>2. CASE WorkersJoined
      BY <3>2 DEF WorkersJoined
    <3>3. ASSUME CancelQueued
          PROVE  /\ job' \in [Calls -> Live \cup Finished \cup {"none"}]
                 /\ queue' \in Seq(Calls)
      BY <3>3 DEF CancelQueued, Finished
    <3>4. CASE Shutdown
      BY <3>3, <3>4 DEF Shutdown
    <3>5. CASE CloseTimeout
      BY <3>3, <3>5 DEF CloseTimeout
    <3> HIDE DEF TypeOK
    <3> QED  BY <2>15, <3>1, <3>2, <3>4, <3>5
  <2>16. CASE Failover
    BY <2>16 DEF Failover
  <2>17. CASE UNCHANGED vars
    BY <2>17 DEF vars
  <2> HIDE DEF TypeOK
  <2> QED
    BY <2>1, <2>2, <2>3, <2>4, <2>5, <2>6, <2>7, <2>8, <2>9, <2>10, <2>11, <2>12,
       <2>13, <2>14, <2>15, <2>16, <2>17 DEF Next, Resume
<1> QED  BY <1>1, <1>2, PTL DEF SafeSpec

--------------------------------------------------------------------------------
(* One server per report.                                                   *)

\* A query is untouched until the identity is pinned, which never changes
\* afterwards; a statement of a query is sent to, and rows of it come from, a
\* connection that was checked against it.
PinnedInv ==
  /\ step[Detector] # "query"
  /\ \A q \in Queries :
       /\ pc[q] # "idle" \/ job[q] # "none" \/ outcome[q] # "none" => identity # NoServer
       /\ job[q] \in {"querying", "rows"} => conn[q] = identity
  /\ NoMixedServers

\* Whatever a call submits, its own new future has no connection yet and the
\* other calls are left alone.
LEMMA SubmitPinned ==
  ASSUME TypeOK, PinnedInv,
         NEW c \in Calls, NEW statement \in Steps, Submit(c, statement),
         c = Detector => statement # "query",
         c # Detector => identity # NoServer,
         UNCHANGED <<identity, origin>>
  PROVE  PinnedInv'
<1>1. CASE closing = "open"
  <2>1. /\ step' = [step EXCEPT ![c] = statement]
        /\ job' = [job EXCEPT ![c] = "queued"]
        /\ conn' = [conn EXCEPT ![c] = NoServer]
        /\ pc' = [pc EXCEPT ![c] = "waiting"]
        /\ UNCHANGED outcome
    BY <1>1 DEF Submit
  <2> QED  BY <2>1 DEF TypeOK, PinnedInv, NoMixedServers
<1>2. CASE closing # "open"
  BY <1>2 DEF TypeOK, PinnedInv, NoMixedServers, Submit, Return, workVars
<1> QED  BY <1>1, <1>2

LEMMA PinnedStep ==
  ASSUME TypeOK, PinnedInv, [Next]_vars
  PROVE  PinnedInv'
<1> USE DEF serverVars, adapterVars, callVars, workVars
<1>1. CASE Detect
  BY <1>1, SubmitPinned DEF Detect, Steps
<1>2. ASSUME NEW q \in Queries, Start(q) PROVE PinnedInv'
  BY <1>2, SubmitPinned DEF Start, Steps
<1>3. ASSUME NEW c \in Calls, Answered(c) PROVE PinnedInv'
  <2>1. c \in Queries /\ pc[c] # "idle" /\ step[c] = "query"
    BY <1>3 DEF Answered, Resumed, PinnedInv
  <2>2. job[c] = "rows" => origin'[c] = identity
    BY <1>3, <2>1 DEF Answered, PinnedInv, TypeOK
  <2>3. \A d \in Calls : outcome'[d] = "rows" => origin'[d] = identity
    BY <1>3, <2>2 DEF Answered, Return, PinnedInv, NoMixedServers, TypeOK
  <2> QED  BY <1>3, <2>1, <2>3 DEF Answered, Return, PinnedInv, NoMixedServers, TypeOK
<1>4. ASSUME NEW c \in Calls, Reconnect(c) PROVE PinnedInv'
  BY <1>4 DEF Reconnect, Resumed, PinnedInv, NoMixedServers, TypeOK
<1>5. ASSUME NEW c \in Calls, ContextRead(c) PROVE PinnedInv'
  BY <1>5, SubmitPinned DEF ContextRead, Resumed, PinnedInv, Steps
<1>6. CASE IdentityDetected
  <2>1. identity # NoServer => identity' = identity
    BY <1>6 DEF IdentityDetected, DetectedIdentity
  <2>2. outcome'[Detector] = "rows" => origin'[Detector] = identity'
    BY <1>6 DEF IdentityDetected, Return, TypeOK
  <2>3. \A q \in Queries : /\ pc'[q] = pc[q] /\ outcome'[q] = outcome[q]
                           /\ origin'[q] = origin[q]
    BY <1>6 DEF IdentityDetected, Return, TypeOK
  <2>4. UNCHANGED <<job, conn, step>>
    BY <1>6 DEF IdentityDetected
  <2> QED  BY <2>1, <2>2, <2>3, <2>4 DEF PinnedInv, NoMixedServers
<1>7. ASSUME NEW q \in Queries, IdentityVerified(q) PROVE PinnedInv'
  <2>1. identity # NoServer
    BY <1>7 DEF IdentityVerified, Resumed, PinnedInv
  <2>2. CASE seen[q] = identity
    BY <1>7, <2>1, <2>2, SubmitPinned DEF IdentityVerified, Steps
  <2>3. CASE seen[q] # identity
    BY <1>7, <2>1, <2>3 DEF IdentityVerified, Return, PinnedInv, NoMixedServers, TypeOK
  <2> QED  BY <2>2, <2>3
<1>8. ASSUME NEW c \in Calls, IdentityCheckFailed(c) PROVE PinnedInv'
  BY <1>8 DEF IdentityCheckFailed, Resumed, Return, PinnedInv, NoMixedServers, TypeOK
<1>9. ASSUME NEW c \in Calls, AcquireLock(c) PROVE PinnedInv'
  BY <1>9, SubmitPinned DEF AcquireLock, PinnedInv, Steps
<1>10. ASSUME NEW c \in Calls, Timeout(c) PROVE PinnedInv'
  BY <1>10 DEF Timeout, PinnedInv, NoMixedServers, TypeOK
<1>11. ASSUME NEW c \in Calls, DrainEnd(c) PROVE PinnedInv'
  BY <1>11 DEF DrainEnd, StopDraining, Return, PinnedInv, NoMixedServers, TypeOK
<1>12. ASSUME NEW c \in Calls, Cancel(c) PROVE PinnedInv'
  BY <1>12 DEF Cancel, StopDraining, Return, PinnedInv, NoMixedServers, TypeOK
<1>13. ASSUME NEW c \in Calls, Worker(c) PROVE PinnedInv'
  BY <1>13 DEF Worker, IdentityConfirmed, IdentityRefused, RowsRead, StatementFails,
     WorkerEnds, PinnedInv, NoMixedServers, TypeOK, Busy
<1>14. CASE Take
  <2>1. PICK c \in Calls : c = Head(queue)
    BY <1>14, HeadTailProperties DEF Take, TypeOK
  <2>2. CASE job[c] = "queued"
    <3>1. /\ job' = [job EXCEPT ![c] = FirstStatement]
          /\ conn' = [conn EXCEPT ![c] = endpoint]
      BY <1>14, <2>1, <2>2 DEF Take
    <3>2. c \in Queries => FirstStatement = "checking"
      BY <2>2 DEF FirstStatement, PinnedInv
    <3>3. UNCHANGED <<identity, pc, step, outcome, origin>>
      BY <1>14 DEF Take
    <3>4. \A q \in Queries : /\ job'[q] # "none" => job[q] # "none"
                             /\ job'[q] \in {"querying", "rows"} => conn'[q] = identity
      BY <2>1, <2>2, <3>1, <3>2 DEF PinnedInv, TypeOK
    <3> QED  BY <3>3, <3>4 DEF PinnedInv, NoMixedServers
  <2>3. CASE job[c] # "queued"
    BY <1>14, <2>1, <2>3 DEF Take, PinnedInv, NoMixedServers
  <2> QED  BY <2>2, <2>3
<1>15. CASE CloseStart \/ Shutdown \/ WorkersJoined \/ CloseTimeout
  BY <1>15 DEF CloseStart, Shutdown, WorkersJoined, CloseTimeout, CancelQueued,
     PinnedInv, NoMixedServers
<1>16. CASE Failover
  BY <1>16 DEF Failover, PinnedInv, NoMixedServers
<1>17. CASE UNCHANGED vars
  BY <1>17 DEF vars, PinnedInv, NoMixedServers
<1> QED
  BY <1>1, <1>2, <1>3, <1>4, <1>5, <1>6, <1>7, <1>8, <1>9, <1>10, <1>11, <1>12,
     <1>13, <1>14, <1>15, <1>16, <1>17 DEF Next, Resume

LEMMA PinnedAlways == SafeSpec => []PinnedInv
<1>1. Init => PinnedInv
  BY DEF Init, PinnedInv, NoMixedServers
<1> QED  BY <1>1, PinnedStep, TypeCorrect, PTL DEF SafeSpec

\* Rows of two servers are never merged: whatever fails over, and however
\* many queries reconnect meanwhile, rows come from the pinned server only.
THEOREM OneServerPerReport == SafeSpec => []NoMixedServers
<1>1. PinnedInv => NoMixedServers
  BY DEF PinnedInv
<1> QED  BY <1>1, PinnedAlways, PTL

\* No statement of a query is even sent to another server.
THEOREM StatementsStayHome == SafeSpec => []NoForeignStatement
<1>1. PinnedInv => NoForeignStatement
  BY DEF PinnedInv, NoForeignStatement
<1> QED  BY <1>1, PinnedAlways, PTL

--------------------------------------------------------------------------------
(* Shutdown.                                                                *)

\* The registry is inductive as it stands.
THEOREM RegistryAlways == SafeSpec => []RegistryMatchesWork
<1>1. Init => RegistryMatchesWork
  BY DEF Init, RegistryMatchesWork, Live, Busy
<1>2. TypeOK /\ RegistryMatchesWork /\ [Next]_vars => RegistryMatchesWork'
  <2> SUFFICES ASSUME TypeOK, RegistryMatchesWork, [Next]_vars
               PROVE  RegistryMatchesWork'
    OBVIOUS
  <2> USE DEF serverVars, adapterVars, callVars, workVars
  \* Statements are queued together with their registration.
  <2>1. ASSUME NEW c \in Calls, NEW statement, Submit(c, statement)
        PROVE  RegistryMatchesWork'
    <3>1. CASE closing = "open"
      <4>1. job' = [job EXCEPT ![c] = "queued"] /\ clients' = clients \cup {c}
        BY <2>1, <3>1 DEF Submit
      <4> QED  BY <4>1 DEF RegistryMatchesWork, TypeOK, Live
    <3>2. CASE closing # "open"
      BY <2>1, <3>2 DEF Submit, RegistryMatchesWork
    <3> QED  BY <3>1, <3>2
  <2>2. CASE UNCHANGED <<job, clients>>
    BY <2>2 DEF RegistryMatchesWork
  \* A future that never started leaves its client behind.
  <2>3. ASSUME NEW c \in Calls, StopDraining(c), UNCHANGED clients
        PROVE  RegistryMatchesWork'
    BY <2>3 DEF StopDraining, RegistryMatchesWork, TypeOK, Live, Busy
  <2>4. ASSUME NEW c \in Calls, NEW result \in Finished, job[c] \in Busy,
               WorkerEnds(c, result)
        PROVE  RegistryMatchesWork'
    BY <2>4 DEF WorkerEnds, RegistryMatchesWork, TypeOK, Live, Busy, Finished
  <2>5. ASSUME NEW c \in Calls, IdentityConfirmed(c) PROVE RegistryMatchesWork'
    BY <2>5 DEF IdentityConfirmed, RegistryMatchesWork, TypeOK, Live, Busy
  <2>6. CASE Take
    BY <2>6, HeadTailProperties DEF Take, FirstStatement, RegistryMatchesWork, TypeOK, Live, Busy
  <2>7. ASSUME CancelQueued, UNCHANGED clients PROVE RegistryMatchesWork'
    BY <2>7 DEF CancelQueued, RegistryMatchesWork, Live, Busy
  <2>8. CASE Detect \/ \E q \in Queries : Start(q)
    BY <2>8, <2>1 DEF Detect, Start
  <2>9. ASSUME NEW c \in Calls, Resume(c) \/ AcquireLock(c) PROVE RegistryMatchesWork'
    <3>1. CASE ContextRead(c) \/ AcquireLock(c)
      BY <3>1, <2>1 DEF ContextRead, AcquireLock
    <3>2. CASE c \in Queries /\ IdentityVerified(c)
      BY <3>2, <2>1, <2>2 DEF IdentityVerified
    <3>3. CASE Answered(c) \/ Reconnect(c) \/ IdentityDetected \/ IdentityCheckFailed(c)
      BY <3>3, <2>2 DEF Answered, Reconnect, IdentityDetected, IdentityCheckFailed
    <3> QED  BY <2>9, <3>1, <3>2, <3>3 DEF Resume
  <2>10. ASSUME NEW c \in Calls, Timeout(c) \/ DrainEnd(c) \/ Cancel(c)
         PROVE  RegistryMatchesWork'
    BY <2>10, <2>2, <2>3 DEF Timeout, DrainEnd, Cancel
  <2>11. ASSUME NEW c \in Calls, Worker(c) PROVE RegistryMatchesWork'
    BY <2>11, <2>4, <2>5 DEF Worker, IdentityRefused, RowsRead, StatementFails, Finished, Busy
  <2>12. CASE CloseStart \/ Shutdown \/ WorkersJoined \/ CloseTimeout \/ Failover
    BY <2>12, <2>2, <2>7 DEF CloseStart, Shutdown, WorkersJoined, CloseTimeout, Failover
  <2> QED
    BY <2>2, <2>6, <2>8, <2>9, <2>10, <2>11, <2>12 DEF Next, vars
<1> QED  BY <1>1, <1>2, TypeCorrect, PTL DEF SafeSpec

\* From the moment shutdown() has cancelled the work items there is none left
\* to take, and none is added: close() signalled the adapter closed before.
ShutdownInv ==
  /\ closing \in {"joining", "closed", "gave_up"} =>
       queue = <<>> /\ \A c \in Calls : job[c] # "queued"
  /\ closing = "closed" => \A c \in Calls : job[c] \notin Busy

LEMMA ShutdownStep ==
  ASSUME TypeOK, ShutdownInv, [Next]_vars
  PROVE  ShutdownInv'
<1> USE DEF serverVars, adapterVars, callVars, workVars
\* Nothing is submitted once the adapter is closed.
<1>1. ASSUME NEW c \in Calls, NEW statement, Submit(c, statement), UNCHANGED closing
      PROVE  ShutdownInv'
  BY <1>1 DEF Submit, ShutdownInv
<1>2. ASSUME UNCHANGED <<job, queue, closing>> PROVE ShutdownInv'
  BY <1>2 DEF ShutdownInv
<1>3. ASSUME NEW c \in Calls, StopDraining(c), UNCHANGED <<queue, closing>>
      PROVE  ShutdownInv'
  BY <1>3 DEF StopDraining, ShutdownInv, TypeOK, Busy
<1>4. ASSUME NEW c \in Calls, Worker(c) PROVE ShutdownInv'
  <2>1. job[c] \in Busy
    BY <1>4 DEF Worker, IdentityConfirmed, IdentityRefused, RowsRead, StatementFails, Busy
  <2>2. PICK result : /\ job' = [job EXCEPT ![c] = result]
                      /\ result # "queued"
                      /\ UNCHANGED <<queue, closing>>
    BY <1>4 DEF Worker, IdentityConfirmed, IdentityRefused, RowsRead, StatementFails,
       WorkerEnds
  <2> QED  BY <2>1, <2>2 DEF ShutdownInv, TypeOK
<1>5. CASE Take
  <2>1. queue # <<>> /\ UNCHANGED closing
    BY <1>5 DEF Take
  <2> QED  BY <2>1 DEF ShutdownInv
<1>6. CASE CloseStart
  BY <1>6 DEF CloseStart, ShutdownInv
<1>7. CASE Shutdown \/ CloseTimeout
  BY <1>7 DEF Shutdown, CloseTimeout, CancelQueued, ShutdownInv
<1>8. CASE WorkersJoined
  BY <1>8 DEF WorkersJoined, BusyCalls, ShutdownInv
<1>9. ASSUME NEW c \in Calls, Resume(c) \/ AcquireLock(c) PROVE ShutdownInv'
  <2>1. CASE ContextRead(c) \/ AcquireLock(c)
    BY <2>1, <1>1 DEF ContextRead, AcquireLock
  <2>2. CASE c \in Queries /\ IdentityVerified(c)
    BY <2>2, <1>1, <1>2 DEF IdentityVerified
  <2>3. CASE Answered(c) \/ Reconnect(c) \/ IdentityDetected \/ IdentityCheckFailed(c)
    BY <2>3, <1>2 DEF Answered, Reconnect, IdentityDetected, IdentityCheckFailed
  <2> QED  BY <1>9, <2>1, <2>2, <2>3 DEF Resume
<1>10. CASE Detect \/ \E q \in Queries : Start(q)
  BY <1>10, <1>1 DEF Detect, Start
<1>11. ASSUME NEW c \in Calls, Timeout(c) \/ DrainEnd(c) \/ Cancel(c) PROVE ShutdownInv'
  BY <1>11, <1>2, <1>3 DEF Timeout, DrainEnd, Cancel
<1>12. CASE Failover \/ UNCHANGED vars
  BY <1>12, <1>2 DEF Failover, vars
<1> QED
  BY <1>4, <1>5, <1>6, <1>7, <1>8, <1>9, <1>10, <1>11, <1>12 DEF Next

\* close() returns normally only when no worker executes anything and nothing
\* is left for one to take.
THEOREM ClosedAdapterIsIdle == SafeSpec => []ClosedIsIdle
<1>1. Init => ShutdownInv
  BY DEF Init, ShutdownInv
<1>2. ShutdownInv => ClosedIsIdle
  BY DEF ShutdownInv, ClosedIsIdle, Live
<1> QED  BY <1>1, <1>2, ShutdownStep, TypeCorrect, PTL DEF SafeSpec

--------------------------------------------------------------------------------
(* The identity lock.                                                       *)

\* Only queries reconnect, so only they ever wait for the lock.
LockInv == pc[Detector] # "locking" /\ LockHeldByVerifier

LEMMA LockStep ==
  ASSUME TypeOK, LockInv, [Next]_vars
  PROVE  LockInv'
<1> USE DEF serverVars, adapterVars, callVars, workVars
\* What a call other than the holder does to its own state is harmless.
<1>1. ASSUME NEW c \in Calls, c # lock,
             \A d \in Calls \ {c} : pc'[d] = pc[d] /\ step'[d] = step[d],
             pc'[Detector] # "locking",
             UNCHANGED lock
      PROVE  LockInv'
  BY <1>1 DEF LockInv, LockHeldByVerifier, TypeOK
\* A call that leaves lets the lock go.
<1>2. ASSUME NEW c \in Calls,
             \A d \in Calls \ {c} : pc'[d] = pc[d] /\ step'[d] = step[d],
             pc'[Detector] # "locking",
             lock' = Held(c)
      PROVE  LockInv'
  BY <1>2 DEF LockInv, LockHeldByVerifier, TypeOK, Held
<1>3. ASSUME UNCHANGED <<pc, step, lock>> PROVE LockInv'
  BY <1>3 DEF LockInv, LockHeldByVerifier
\* What submitting and returning do to the calls.
<1>4. ASSUME NEW c \in Calls, NEW statement, Submit(c, statement)
      PROVE  /\ pc'[c] \in {"waiting", "done"}
             /\ closing = "open" => pc'[c] = "waiting" /\ step'[c] = statement
             /\ \A d \in Calls \ {c} : pc'[d] = pc[d] /\ step'[d] = step[d]
  BY <1>4 DEF Submit, Return, TypeOK
<1>5. ASSUME NEW c \in Calls, NEW result, Return(c, result)
      PROVE  /\ pc'[c] = "done"
             /\ \A d \in Calls \ {c} : pc'[d] = pc[d]
  BY <1>5 DEF Return, TypeOK
<1>6. CASE Detect
  BY <1>6, <1>1, <1>4 DEF Detect, LockInv, LockHeldByVerifier
<1>7. ASSUME NEW q \in Queries, Start(q) PROVE LockInv'
  BY <1>7, <1>1, <1>4 DEF Start, LockInv, LockHeldByVerifier
<1>8. ASSUME NEW c \in Calls, Answered(c) PROVE LockInv'
  BY <1>8, <1>1, <1>5 DEF Answered, LockInv, LockHeldByVerifier
<1>9. ASSUME NEW c \in Calls, Reconnect(c) PROVE LockInv'
  BY <1>9, <1>2 DEF Reconnect, MayReconnect, LockInv, TypeOK
<1>10. ASSUME NEW c \in Calls, AcquireLock(c) PROVE LockInv'
  <2>1. c \in Queries /\ Submit(c, "context") /\ lock = NoCall
    BY <1>10 DEF AcquireLock, LockInv
  <2>2. lock' = IF closing = "open" THEN c ELSE NoCall
    BY <1>10 DEF AcquireLock
  <2> QED  BY <2>1, <2>2, <1>4 DEF LockInv, LockHeldByVerifier
<1>11. ASSUME NEW c \in Calls, ContextRead(c) PROVE LockInv'
  <2>1. Submit(c, "readonly")
    BY <1>11 DEF ContextRead
  <2>2. CASE closing = "open"
    <3>1. lock' = lock
      BY <1>11, <2>2 DEF ContextRead
    <3> QED  BY <2>1, <2>2, <3>1, <1>4 DEF LockInv, LockHeldByVerifier
  <2>3. CASE closing # "open"
    <3>1. lock' = Held(c)
      BY <1>11, <2>3 DEF ContextRead
    <3> QED  BY <2>1, <3>1, <1>2, <1>4 DEF LockInv
  <2> QED  BY <2>2, <2>3
<1>12. CASE IdentityDetected
  <2>1. pc' = [pc EXCEPT ![Detector] = "done"] /\ UNCHANGED <<step, lock>>
    BY <1>12 DEF IdentityDetected, Return
  <2> QED  BY <2>1 DEF LockInv, LockHeldByVerifier, TypeOK
<1>13. ASSUME NEW q \in Queries, IdentityVerified(q) PROVE LockInv'
  <2>1. lock' = Held(q)
    BY <1>13 DEF IdentityVerified
  <2>2. CASE Submit(q, "query")
    BY <2>1, <2>2, <1>2, <1>4 DEF LockInv
  <2>3. CASE Return(q, "changed") /\ UNCHANGED step
    BY <2>1, <2>3, <1>2, <1>5 DEF LockInv
  <2> QED  BY <1>13, <2>2, <2>3 DEF IdentityVerified
<1>14. ASSUME NEW c \in Calls, IdentityCheckFailed(c) PROVE LockInv'
  BY <1>14, <1>2, <1>5 DEF IdentityCheckFailed, LockInv
<1>15. ASSUME NEW c \in Calls, Timeout(c) PROVE LockInv'
  BY <1>15 DEF Timeout, LockInv, LockHeldByVerifier, TypeOK
<1>16. ASSUME NEW c \in Calls, DrainEnd(c) \/ Cancel(c) PROVE LockInv'
  <2>1. lock' = Held(c) /\ UNCHANGED step /\ \E result \in Outcomes : Return(c, result)
    BY <1>16 DEF DrainEnd, Cancel, StopDraining, Outcomes, Finished
  <2> QED  BY <2>1, <1>2, <1>5 DEF LockInv
<1>17. ASSUME NEW c \in Calls, Worker(c) PROVE LockInv'
  BY <1>17, <1>3 DEF Worker, IdentityConfirmed, IdentityRefused, RowsRead,
     StatementFails, WorkerEnds
<1>18. CASE Take \/ CloseStart \/ Shutdown \/ WorkersJoined \/ CloseTimeout \/ Failover
  BY <1>18, <1>3 DEF Take, CloseStart, Shutdown, WorkersJoined, CloseTimeout, Failover
<1>19. CASE UNCHANGED vars
  BY <1>19, <1>3 DEF vars
<1> QED
  BY <1>6, <1>7, <1>8, <1>9, <1>10, <1>11, <1>12, <1>13, <1>14, <1>15, <1>16,
     <1>17, <1>18, <1>19 DEF Next, Resume

\* No way out of a reconnect leaves the identity lock behind.
THEOREM LockIsReleased == SafeSpec => []LockHeldByVerifier
<1>1. Init => LockInv
  BY DEF Init, LockInv, LockHeldByVerifier
<1>2. LockInv => LockHeldByVerifier
  BY DEF LockInv
<1> QED  BY <1>1, <1>2, LockStep, TypeCorrect, PTL DEF SafeSpec

--------------------------------------------------------------------------------
(* The adapter implements the session, safety part.                         *)

\* Only the detection pins the identity, so it is over when one is pinned;
\* what a call has read of the server's identity came from a server.
DetectInv ==
  /\ identity # NoServer => pc[Detector] = "done"
  /\ \A c \in Calls :
       /\ job[c] \in {"checking", "querying", "rows"} => conn[c] \in Servers
       /\ step[c] = "readonly" => seen[c] \in Servers

LEMMA DetectStep ==
  ASSUME TypeOK, DetectInv, [Next]_vars
  PROVE  DetectInv'
<1> USE DEF serverVars, adapterVars, callVars, workVars
\* A submitted statement has no connection yet.
<1>1. ASSUME NEW c \in Calls, NEW statement, Submit(c, statement),
             statement = "readonly" => seen'[c] \in Servers,
             step[c] = "readonly" => seen'[c] \in Servers,
             \A d \in Calls \ {c} : seen'[d] = seen[d],
             pc[c] # "done",
             UNCHANGED identity
      PROVE  DetectInv'
  <2>1. CASE closing = "open"
    <3>1. /\ step' = [step EXCEPT ![c] = statement]
          /\ job' = [job EXCEPT ![c] = "queued"]
          /\ conn' = [conn EXCEPT ![c] = NoServer]
          /\ pc' = [pc EXCEPT ![c] = "waiting"]
      BY <1>1, <2>1 DEF Submit
    <3> QED  BY <1>1, <3>1 DEF DetectInv, TypeOK
  <2>2. CASE closing # "open"
    <3>1. pc' = [pc EXCEPT ![c] = "done"] /\ UNCHANGED <<step, job, conn>>
      BY <1>1, <2>2 DEF Submit, Return
    <3> QED  BY <1>1, <3>1 DEF DetectInv, TypeOK
  <2> QED  BY <2>1, <2>2
<1>2. ASSUME NEW c \in Calls, NEW result, Return(c, result), UNCHANGED <<job, conn, step, seen>>,
             identity' # identity => c = Detector
      PROVE  DetectInv'
  BY <1>2 DEF Return, DetectInv, TypeOK
<1>3. ASSUME UNCHANGED <<identity, pc, job, conn, step, seen>> PROVE DetectInv'
  BY <1>3 DEF DetectInv
<1>4. CASE Detect \/ \E q \in Queries : Start(q)
  BY <1>4, <1>1 DEF Detect, Start, DetectInv, TypeOK
<1>5. ASSUME NEW c \in Calls, Answered(c) \/ IdentityCheckFailed(c) PROVE DetectInv'
  BY <1>5, <1>2 DEF Answered, IdentityCheckFailed
<1>6. ASSUME NEW c \in Calls, Reconnect(c) PROVE DetectInv'
  BY <1>6 DEF Reconnect, Resumed, DetectInv, TypeOK
<1>7. ASSUME NEW c \in Calls, AcquireLock(c) PROVE DetectInv'
  BY <1>7, <1>1 DEF AcquireLock, DetectInv, TypeOK
<1>8. ASSUME NEW c \in Calls, ContextRead(c) PROVE DetectInv'
  <2>1. conn[c] \in Servers /\ pc[c] # "done"
    BY <1>8 DEF ContextRead, Resumed, DetectInv
  <2>2. seen' = [seen EXCEPT ![c] = conn[c]] /\ Submit(c, "readonly") /\ UNCHANGED identity
    BY <1>8 DEF ContextRead
  <2> QED  BY <2>1, <2>2, <1>1 DEF TypeOK
<1>9. CASE IdentityDetected
  <2>1. \E result \in {"rows", "changed"} : Return(Detector, result)
    BY <1>9 DEF IdentityDetected
  <2>2. UNCHANGED <<job, conn, step, seen>>
    BY <1>9 DEF IdentityDetected
  <2> QED  BY <2>1, <2>2, <1>2
<1>10. ASSUME NEW q \in Queries, IdentityVerified(q) PROVE DetectInv'
  <2>1. pc[q] # "done" /\ step[q] = "readonly" /\ UNCHANGED <<identity, seen>>
    BY <1>10 DEF IdentityVerified, Resumed
  <2>2. CASE Submit(q, "query")
    BY <2>1, <2>2, <1>1 DEF DetectInv
  <2>3. CASE Return(q, "changed") /\ UNCHANGED <<step, job, conn>>
    BY <2>1, <2>3, <1>2
  <2> QED  BY <1>10, <2>2, <2>3 DEF IdentityVerified
<1>11. ASSUME NEW c \in Calls, Timeout(c) PROVE DetectInv'
  BY <1>11 DEF Timeout, DetectInv, TypeOK
<1>12. ASSUME NEW c \in Calls, DrainEnd(c) \/ Cancel(c) PROVE DetectInv'
  <2>1. /\ \E result \in Outcomes : Return(c, result)
        /\ UNCHANGED <<identity, conn, step, seen>>
    BY <1>12 DEF DrainEnd, Cancel, StopDraining, Outcomes, Finished
  <2>2. job' = job \/ job' = [job EXCEPT ![c] = "cancelled"]
    BY <1>12 DEF DrainEnd, Cancel, StopDraining
  <2> QED  BY <2>1, <2>2 DEF Return, DetectInv, TypeOK
<1>13. ASSUME NEW c \in Calls, Worker(c) PROVE DetectInv'
  BY <1>13 DEF Worker, IdentityConfirmed, IdentityRefused, RowsRead, StatementFails,
     WorkerEnds, DetectInv, TypeOK, Busy
<1>14. CASE Take
  <2>1. PICK c \in Calls : c = Head(queue)
    BY <1>14, HeadTailProperties DEF Take, TypeOK
  <2> QED  BY <1>14, <2>1 DEF Take, FirstStatement, DetectInv, TypeOK
<1>15. CASE Shutdown \/ CloseTimeout
  BY <1>15 DEF Shutdown, CloseTimeout, CancelQueued, DetectInv
<1>16. CASE CloseStart \/ WorkersJoined \/ Failover \/ UNCHANGED vars
  BY <1>16, <1>3 DEF CloseStart, WorkersJoined, Failover, vars
<1> QED
  BY <1>4, <1>5, <1>6, <1>7, <1>8, <1>9, <1>10, <1>11, <1>12, <1>13, <1>14, <1>15,
     <1>16 DEF Next, Resume

LEMMA SessionStep ==
  ASSUME TypeOK, PinnedInv, DetectInv, [Next]_vars
  PROVE  [Session!Next]_Session!vars
<1> USE DEF serverVars, adapterVars, callVars, workVars
\* The three ways a call's own state changes: it begins, it fails, or it goes
\* on pending.
<1>1. ASSUME NEW c \in Calls, NEW error \in Session!Errors, Return(c, error),
             pc[c] # "done", UNCHANGED <<identity, origin>>
      PROVE  Session!Next
  <2>1. Session!Fail(c, error)
    BY <1>1 DEF Session!Fail, Return, CallState, TypeOK, Suspended
  <2> QED  BY <2>1 DEF Session!Next, Session!Calls
<1>2. ASSUME NEW c \in Calls, pc' = [pc EXCEPT ![c] = "waiting"], pc[c] = "idle",
             c \in Queries => identity # NoServer,
             UNCHANGED <<identity, outcome, origin>>
      PROVE  Session!Next
  <2>1. Session!Begin(c)
    BY <1>2 DEF Session!Begin, CallState, TypeOK, Suspended
  <2> QED  BY <2>1 DEF Session!Next, Session!Calls
<1>3. ASSUME NEW c \in Calls, NEW now \in Suspended, pc' = [pc EXCEPT ![c] = now],
             pc[c] \in Suspended, UNCHANGED <<identity, outcome, origin>>
      PROVE  UNCHANGED Session!vars
  BY <1>3 DEF Session!vars, CallState, TypeOK, Suspended
<1>4. ASSUME UNCHANGED <<identity, pc, outcome, origin>> PROVE UNCHANGED Session!vars
  BY <1>4 DEF Session!vars, CallState
<1>5. {"failed", "timeout", "disconnect", "changed", "closed", "cancelled"} = Session!Errors
  BY DEF Session!Errors
\* A submission while the call is suspended is invisible, or fails it.
<1>6. ASSUME NEW c \in Calls, NEW statement, Submit(c, statement), pc[c] \in Suspended,
             UNCHANGED <<identity, origin>>
      PROVE  [Session!Next]_Session!vars
  <2>1. CASE closing = "open"
    BY <1>3, <1>6, <2>1 DEF Submit, Suspended
  <2>2. CASE closing # "open"
    BY <1>1, <1>5, <1>6, <2>2 DEF Submit, Suspended
  <2> QED  BY <2>1, <2>2
<1>7. ASSUME NEW c \in Calls, NEW statement, Submit(c, statement), pc[c] = "idle",
             c \in Queries => identity # NoServer,
             UNCHANGED <<identity, origin>>
      PROVE  Session!Next
  <2>1. CASE closing = "open"
    BY <1>2, <1>7, <2>1 DEF Submit
  <2>2. CASE closing # "open"
    BY <1>1, <1>5, <1>7, <2>2 DEF Submit
  <2> QED  BY <2>1, <2>2
<1>8. CASE Detect \/ \E q \in Queries : Start(q)
  BY <1>8, <1>7 DEF Detect, Start
<1>9. ASSUME NEW c \in Calls, Answered(c) PROVE [Session!Next]_Session!vars
  <2>1. c \in Queries /\ pc[c] = "waiting" /\ job[c] \in Finished /\ Return(c, job[c])
    BY <1>9 DEF Answered, Resumed, PinnedInv
  <2>2. CASE job[c] = "rows"
    <3>1. origin' = [origin EXCEPT ![c] = identity] /\ UNCHANGED identity
      BY <1>9, <2>1, <2>2 DEF Answered, PinnedInv
    <3>2. Session!Deliver(c)
      BY <2>1, <2>2, <3>1 DEF Session!Deliver, Return, CallState, TypeOK, Suspended
    <3>3. Session!Finish(c)
      BY <2>1, <3>2 DEF Session!Finish, Session!Deliver
    <3> QED  BY <3>3 DEF Session!Next, Session!Calls
  <2>3. CASE job[c] # "rows"
    <3>1. job[c] \in Session!Errors
      BY <2>1, <2>3, <1>5 DEF Finished
    <3>2. UNCHANGED <<identity, origin>>
      BY <1>9, <2>3 DEF Answered
    <3> QED  BY <2>1, <3>1, <3>2, <1>1
  <2> QED  BY <2>2, <2>3
<1>10. ASSUME NEW c \in Calls, Reconnect(c) PROVE UNCHANGED Session!vars
  BY <1>10, <1>3 DEF Reconnect, Resumed, Suspended
<1>11. ASSUME NEW c \in Calls, AcquireLock(c) PROVE [Session!Next]_Session!vars
  BY <1>11, <1>6 DEF AcquireLock, Suspended
<1>12. ASSUME NEW c \in Calls, ContextRead(c) PROVE [Session!Next]_Session!vars
  BY <1>12, <1>6 DEF ContextRead, Resumed, Suspended
<1>13. CASE IdentityDetected
  <2>1. /\ pc[Detector] = "waiting" /\ identity = NoServer
        /\ seen[Detector] \in Servers
    BY <1>13 DEF IdentityDetected, Resumed, DetectInv
  <2>2. /\ identity' = seen[Detector]
        /\ Return(Detector, "rows")
        /\ origin' = [origin EXCEPT ![Detector] = seen[Detector]]
    BY <1>13, <2>1 DEF IdentityDetected, DetectedIdentity
  <2>3. Session!Pin(seen[Detector])
    BY <2>1, <2>2 DEF Session!Pin, Return, CallState, TypeOK, Suspended
  <2>4. Session!Finish(Detector)
    BY <2>1, <2>3 DEF Session!Finish, Session!Pin
  <2> QED  BY <2>4 DEF Session!Next, Session!Calls
<1>14. ASSUME NEW q \in Queries, IdentityVerified(q) PROVE [Session!Next]_Session!vars
  <2>1. pc[q] \in Suspended /\ pc[q] # "done" /\ UNCHANGED <<identity, origin>>
    BY <1>14 DEF IdentityVerified, Resumed, Suspended
  <2>2. Submit(q, "query") \/ Return(q, "changed")
    BY <1>14 DEF IdentityVerified
  <2> QED  BY <2>1, <2>2, <1>1, <1>5, <1>6
<1>15. ASSUME NEW c \in Calls, IdentityCheckFailed(c) PROVE Session!Next
  <2>1. job[c] \in Session!Errors
    BY <1>15, <1>5 DEF IdentityCheckFailed, Resumed, Finished
  <2> QED  BY <1>15, <2>1, <1>1 DEF IdentityCheckFailed, Resumed
<1>16. ASSUME NEW c \in Calls, Timeout(c) PROVE UNCHANGED Session!vars
  BY <1>16, <1>3 DEF Timeout, Suspended
<1>17. ASSUME NEW c \in Calls, DrainEnd(c) \/ Cancel(c) PROVE Session!Next
  <2>1. /\ pc[c] # "done" /\ UNCHANGED <<identity, origin>>
        /\ Return(c, "timeout") \/ Return(c, "cancelled")
    BY <1>17 DEF DrainEnd, Cancel, StopDraining
  <2> QED  BY <2>1, <1>1, <1>5
<1>18. ASSUME NEW c \in Calls, Worker(c) PROVE UNCHANGED Session!vars
  BY <1>18, <1>4 DEF Worker, IdentityConfirmed, IdentityRefused, RowsRead,
     StatementFails, WorkerEnds
<1>19. CASE Take \/ CloseStart \/ Shutdown \/ WorkersJoined \/ CloseTimeout \/ Failover
  BY <1>19, <1>4 DEF Take, CloseStart, Shutdown, WorkersJoined, CloseTimeout, Failover
<1>20. CASE UNCHANGED vars
  BY <1>20, <1>4 DEF vars
<1> QED
  BY <1>8, <1>9, <1>10, <1>11, <1>12, <1>13, <1>14, <1>15, <1>16, <1>17, <1>18,
     <1>19, <1>20 DEF Next, Resume

\* Every behaviour of the adapter is one of the abstract session: workers,
\* reconnects, timeouts, cancellations and close() only ever begin a call, fail
\* it or deliver the pinned server's rows. (That calls return is the liveness
\* part of ImplementsSession and stays with TLC.)
THEOREM AdapterIsSession == SafeSpec => SessionSafety
<1>1. Init => DetectInv /\ Session!Init
  BY DEF Init, DetectInv, Session!Init, Session!Calls, CallState, Suspended
<1> QED
  BY <1>1, DetectStep, SessionStep, TypeCorrect, PinnedAlways, PTL
     DEF SafeSpec, SessionSafety, Session!SafeSpec
================================================================================
