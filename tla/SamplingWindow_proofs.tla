-------------------------- MODULE SamplingWindow_proofs --------------------------
(***************************************************************************)
(* Proofs about SamplingWindow for any sources, scopes, points and permits. *)
(* The argument: a loop never runs ahead of its last task, so at most that  *)
(* one is unfinished, and every point the loop has passed has a verdict or  *)
(* is that task's.                                                          *)
(***************************************************************************)
EXTENDS SamplingWindow, FiniteSetTheorems, TLAPS

\* Where a loop is, and which tasks it has launched.
LoopInv(s) ==
  /\ next[s] \in Schedule(s) \cup {Last + 1}
  /\ active[s] # NoSlot => active[s] < next[s] /\ task[s][active[s]] # "none"
  /\ \A i \in Slots : task[s][i] # "none" =>
       /\ i \in Schedule(s) /\ i <= now
       /\ active[s] # NoSlot /\ i <= active[s]
       /\ task[s][i] # "done" => i = active[s]
       /\ task[s][i] = "waiting" => s \in SqlSources

\* Every point the loop has passed has one verdict, unless its task still runs.
DecidedInv(s) ==
  /\ \A i \in SampledSlots(s) \cup failed[s] : task[s][i] = "done"
  /\ \A i \in skipped[s] : task[s][i] = "none" /\ i < next[s] /\ i \in Schedule(s)
  /\ SampledSlots(s) \cap failed[s] = {}
  /\ Len(samples[s]) = Cardinality(SampledSlots(s))
  /\ window \in {"open", "iostat", "closed"} =>
       \A i \in Schedule(s) : i < next[s] => i \in Decided(s) \/ task[s][i] \in Running

\* The samples of a source so far, and the time its next rate starts at.
OrderInv(s) ==
  /\ \A k \in 1..Len(samples[s]) :
       /\ samples[s][k].slot <= samples[s][k].at /\ samples[s][k].at <= now
       /\ k > 1 => /\ samples[s][k - 1].slot < samples[s][k].slot
                   /\ samples[s][k - 1].at <= samples[s][k].at
       /\ samples[s][k].base = IF k = 1 THEN NoTime ELSE samples[s][k - 1].at
  /\ baseline[s] = IF Len(samples[s]) = 0 THEN NoTime ELSE samples[s][Len(samples[s])].at

\* How far the loop of a source can be in every phase of the window.
PhaseInv(s) ==
  /\ window = "open" => loop[s] # "unwinding" /\ (loop[s] = "ended" => next[s] = Last + 1)
  /\ window \in {"iostat", "closed"} => loop[s] = "ended" /\ next[s] = Last + 1
  /\ window = "cancelling" => loop[s] # "looping"
  /\ window = "cancelled" => loop[s] = "ended"
  /\ loop[s] = "ended" => ActiveDone(s)

SourceInv(s) == LoopInv(s) /\ DecidedInv(s) /\ OrderInv(s) /\ PhaseInv(s)

IInv ==
  /\ TypeOK /\ PermitsConserved
  /\ \A s \in Sources : SourceInv(s)
  /\ window \in {"closed", "cancelled"} => iostat # "running"

LEMMA ScheduleFacts ==
  ASSUME NEW s \in Sources
  PROVE  /\ Schedule(s) \subseteq Slots
         /\ FirstSlot(s) \in Schedule(s)
         /\ \A i \in Schedule(s) : i >= FirstSlot(s)
         /\ next[s] \in Schedule(s) =>
              /\ NextSlot(s) \in Schedule(s) \cup {Last + 1} /\ next[s] < NextSlot(s)
              /\ \A i \in Schedule(s) : i < NextSlot(s) => i <= next[s]
<1>. USE WindowAssumption DEF Sources, Slots
<1>1. CASE s \in HostSources \/ Scope[s] = "every_snapshot"
  <2>1. Schedule(s) = Slots
    BY <1>1 DEF Schedule
  <2>2. FirstSlot(s) = 0
    BY <2>1 DEF FirstSlot
  <2>3. NextSlot(s) = next[s] + 1
    BY <2>1 DEF NextSlot
  <2>. QED  BY <2>1, <2>2, <2>3
<1>2. CASE ~(s \in HostSources \/ Scope[s] = "every_snapshot") /\ Scope[s] = "window_end"
  <2>1. Schedule(s) = {Last}
    BY <1>2 DEF Schedule
  <2>2. FirstSlot(s) = Last /\ Schedule(s) # Slots
    BY <2>1 DEF FirstSlot
  <2>3. NextSlot(s) = Last + 1
    BY <2>2 DEF NextSlot
  <2>. QED  BY <2>1, <2>2, <2>3
<1>3. CASE ~(s \in HostSources \/ Scope[s] = "every_snapshot") /\ Scope[s] # "window_end"
  <2>1. Schedule(s) = {0}
    BY <1>3 DEF Schedule
  <2>2. FirstSlot(s) = 0 /\ Schedule(s) # Slots
    BY <2>1 DEF FirstSlot
  <2>3. NextSlot(s) = Last + 1
    BY <2>2 DEF NextSlot
  <2>. QED  BY <2>1, <2>2, <2>3
<1>. QED  BY <1>1, <1>2, <1>3

--------------------------------------------------------------------------------
(* Permits.                                                                 *)

Executing == {x \in SqlSources \X Slots : task[x[1]][x[2]] = "executing"}

LEMMA ExecutingFinite == IsFiniteSet(Executing)
<1>1. IsFiniteSet(Slots)
  BY WindowAssumption, FS_Interval DEF Slots
<1>2. IsFiniteSet(SqlSources \X Slots)
  BY <1>1, WindowAssumption, FS_Product
<1>. QED  BY <1>2, FS_Subset DEF Executing

LEMMA PermitsInit == Init => PermitsConserved
<1>. SUFFICES ASSUME Init PROVE PermitsConserved
  OBVIOUS
<1>1. Executing = {}
  BY DEF Init, Executing, Sources
<1>2. permits = SqlConcurrency /\ SqlConcurrency \in Nat
  BY WindowAssumption DEF Init
<1>. QED  BY <1>1, <1>2, FS_EmptySet DEF PermitsConserved, Executing

\* The end of a task gives back the permit it holds.
LEMMA PermitReturned ==
  ASSUME TypeOK, PermitsConserved, NEW s \in Sources, NEW i \in Slots,
         task[s][i] \in Running, TaskEnds(s, i)
  PROVE  PermitsConserved' /\ permits' \in 0..SqlConcurrency
<1>. DEFINE held == s \in SqlSources /\ task[s][i] = "executing"
<1>1. task' = [task EXCEPT ![s][i] = "done"] /\ permits' = IF held THEN permits + 1 ELSE permits
  BY DEF TaskEnds
<1>2. task \in [Sources -> [Slots -> Running \cup {"none", "done"}]] /\ permits \in 0..SqlConcurrency
  BY DEF TypeOK
<1>3. permits + Cardinality(Executing) = SqlConcurrency
  BY DEF PermitsConserved, Executing
<1>4. CASE held
  <2>1. <<s, i>> \in Executing
    BY <1>4 DEF Executing
  <2>2. Executing' = Executing \ {<<s, i>>}
    BY <1>1, <1>2, <1>4 DEF Executing, Sources
  <2>3. Cardinality(Executing') = Cardinality(Executing) - 1 /\ Cardinality(Executing) \in Nat
    BY <2>1, <2>2, ExecutingFinite, FS_RemoveElement, FS_CardinalityType
  <2>4. Cardinality(Executing) # 0
    BY <2>1, ExecutingFinite, FS_EmptySet
  <2>. QED  BY <1>1, <1>2, <1>3, <1>4, <2>3, <2>4, WindowAssumption DEF PermitsConserved, Executing
<1>5. CASE ~held
  <2>1. Executing' = Executing
    BY <1>1, <1>2, <1>5 DEF Executing, Sources
  <2>. QED  BY <1>1, <1>2, <1>3, <1>5, <2>1 DEF PermitsConserved, Executing
<1>. QED  BY <1>4, <1>5

LEMMA PermitTaken ==
  ASSUME TypeOK, PermitsConserved, NEW s \in SqlSources, NEW i \in Slots, Acquire(s, i)
  PROVE  PermitsConserved'
<1>1. task' = [task EXCEPT ![s][i] = "executing"] /\ permits' = permits - 1 /\ task[s][i] = "waiting"
  BY DEF Acquire
<1>2. task \in [Sources -> [Slots -> Running \cup {"none", "done"}]] /\ permits \in Int
  BY WindowAssumption DEF TypeOK
<1>3. <<s, i>> \notin Executing
  BY <1>1 DEF Executing
<1>4. Executing' = Executing \cup {<<s, i>>}
  BY <1>1, <1>2 DEF Executing, Sources
<1>5. Cardinality(Executing') = Cardinality(Executing) + 1 /\ Cardinality(Executing) \in Nat
  BY <1>3, <1>4, ExecutingFinite, FS_AddElement, FS_CardinalityType
<1>6. permits + Cardinality(Executing) = SqlConcurrency
  BY DEF PermitsConserved, Executing
<1>7. permits' + Cardinality(Executing') = SqlConcurrency
  BY <1>1, <1>2, <1>5, <1>6
<1>. QED  BY <1>7 DEF PermitsConserved, Executing

--------------------------------------------------------------------------------
(* The initial state and the types.                                         *)

LEMMA InitInv == Init => IInv
<1>. SUFFICES ASSUME Init PROVE IInv
  OBVIOUS
<1>1. TypeOK
  <2>1. next \in [Sources -> 0..(Last + 1)]
    BY ScheduleFacts, WindowAssumption DEF Init, Slots
  <2>2. samples \in [Sources -> Seq(Observation)]
    BY DEF Init
  <2>3. task \in [Sources -> [Slots -> Running \cup {"none", "done"}]]
    BY DEF Init
  <2>4. permits \in 0..SqlConcurrency /\ marks \in 0..(Last + 1) /\ now \in Slots
    BY WindowAssumption DEF Init, Slots
  <2>5. /\ loop \in [Sources -> {"looping", "unwinding", "ended"}]
        /\ active \in [Sources -> Slots \cup {NoSlot}]
        /\ failed \in [Sources -> SUBSET Slots] /\ skipped \in [Sources -> SUBSET Slots]
        /\ baseline \in [Sources -> Slots \cup {NoTime}]
    BY DEF Init
  <2>6. /\ iostat \in {"off", "running", "ok", "failed", "cancelled"}
        /\ window \in {"open", "iostat", "cancelling", "closed", "cancelled"}
    BY DEF Init
  <2>. QED  BY <2>1, <2>2, <2>3, <2>4, <2>5, <2>6 DEF TypeOK
<1>2. ASSUME NEW s \in Sources PROVE SourceInv(s)
  <2>1. /\ next[s] = FirstSlot(s) /\ active[s] = NoSlot /\ loop[s] = "looping" /\ window = "open"
        /\ task[s] = [i \in Slots |-> "none"]
        /\ samples[s] = <<>> /\ failed[s] = {} /\ skipped[s] = {} /\ baseline[s] = NoTime
    BY DEF Init
  <2>2. SampledSlots(s) = {}
    BY <2>1 DEF SampledSlots
  <2>3. LoopInv(s)
    BY <2>1, ScheduleFacts DEF LoopInv
  <2>4. DecidedInv(s)
    <3>1. \A i \in Schedule(s) : ~(i < next[s])
      BY <2>1, ScheduleFacts, WindowAssumption DEF Slots
    <3>. QED  BY <2>1, <2>2, <3>1, FS_EmptySet DEF DecidedInv
  <2>5. OrderInv(s) /\ PhaseInv(s)
    BY <2>1 DEF OrderInv, PhaseInv
  <2>. QED  BY <2>3, <2>4, <2>5 DEF SourceInv
<1>. QED  BY <1>1, <1>2, PermitsInit DEF IInv, Init

\* An unfinished task is the last one its loop has launched.
LEMMA UnfinishedIsActive ==
  ASSUME NEW s \in Sources, LoopInv(s), NEW i \in Slots, task[s][i] \in Running
  PROVE  i = active[s] /\ i <= now /\ i \in Schedule(s)
BY DEF LoopInv, Running

TaskStep(s, i) == Observe(s, i) \/ ObservationFails(s, i) \/ ObservationCancelled(s, i)

LEMMA TypeStep == IInv /\ [Next]_vars => TypeOK' /\ PermitsConserved'
<1>. SUFFICES ASSUME IInv, [Next]_vars PROVE TypeOK' /\ PermitsConserved'
  OBVIOUS
<1>. USE WindowAssumption DEF loopVars, resultVars
<1>0. TypeOK /\ PermitsConserved /\ permits + Cardinality(Executing) = SqlConcurrency
  BY DEF IInv, PermitsConserved, Executing
<1>1. ASSUME NEW s \in Sources, Dispatch(s) \/ SkipBusy(s) PROVE TypeOK' /\ PermitsConserved'
  <2>1. next[s] \in Schedule(s)
    <3>1. next[s] \in Slots
      BY <1>1 DEF Dispatch, SkipBusy, Due
    <3>. QED  BY <3>1 DEF IInv, SourceInv, LoopInv, Slots
  <2>2. NextSlot(s) \in 0..(Last + 1) /\ next[s] \in Slots
    BY <2>1, ScheduleFacts DEF Slots
  <2>3. CASE Dispatch(s)
    <3>1. TypeOK'
      BY <1>0, <2>2, <2>3 DEF Dispatch, TypeOK, Running
    <3>2. ASSUME s \in SqlSources PROVE task[s][next[s]] # "executing"
      BY <2>3, <2>2 DEF Dispatch, ActiveDone, IInv, SourceInv, LoopInv
    <3>3. Executing' = Executing
      <4>1. task' = [task EXCEPT ![s][next[s]] = IF s \in SqlSources THEN "waiting" ELSE "executing"]
        BY <2>3 DEF Dispatch
      <4>2. task \in [Sources -> [Slots -> Running \cup {"none", "done"}]]
        BY <1>0 DEF TypeOK
      <4>. QED  BY <2>2, <3>2, <4>1, <4>2 DEF Executing, Sources
    <3>4. permits' = permits
      BY <2>3 DEF Dispatch
    <3>. QED  BY <1>0, <3>1, <3>3, <3>4 DEF PermitsConserved, Executing
  <2>4. CASE SkipBusy(s)
    <3>1. TypeOK'
      BY <1>0, <2>2, <2>4 DEF SkipBusy, TypeOK
    <3>. QED  BY <1>0, <2>4, <3>1 DEF SkipBusy, PermitsConserved
  <2>. QED  BY <1>1, <2>3, <2>4
<1>2. ASSUME NEW s \in Sources, EndLoop(s) PROVE TypeOK' /\ PermitsConserved'
  BY <1>0, <1>2 DEF EndLoop, TypeOK, PermitsConserved
<1>3. ASSUME NEW s \in Sources, NEW i \in Slots, Acquire(s, i) PROVE TypeOK' /\ PermitsConserved'
  <2>1. s \in SqlSources
    BY <1>3 DEF Acquire, IInv, SourceInv, LoopInv
  <2>2. TypeOK'
    BY <1>0, <1>3 DEF Acquire, TypeOK, Running
  <2>. QED  BY <1>0, <1>3, <2>1, <2>2, PermitTaken
<1>4. ASSUME NEW s \in Sources, NEW i \in Slots, TaskStep(s, i) PROVE TypeOK' /\ PermitsConserved'
  <2>1. task[s][i] \in Running /\ TaskEnds(s, i)
    BY <1>4 DEF TaskStep, Observe, ObservationFails, ObservationCancelled, Running
  <2>2. PermitsConserved' /\ permits' \in 0..SqlConcurrency
    BY <1>0, <2>1, PermitReturned
  <2>3. task' \in [Sources -> [Slots -> Running \cup {"none", "done"}]]
    BY <1>0, <2>1 DEF TaskEnds, TypeOK
  <2>4. /\ samples' \in [Sources -> Seq(Observation)]
        /\ baseline' \in [Sources -> Slots \cup {NoTime}]
        /\ failed' \in [Sources -> SUBSET Slots]
    <3>1. CASE Observe(s, i)
      <4>1. [slot |-> i, at |-> now, base |-> baseline[s]] \in Observation
        BY <1>0 DEF TypeOK, Observation
      <4>. QED  BY <1>0, <3>1, <4>1 DEF Observe, TypeOK
    <3>2. CASE ObservationFails(s, i)
      BY <1>0, <3>2 DEF ObservationFails, TypeOK
    <3>3. CASE ObservationCancelled(s, i)
      BY <1>0, <3>3 DEF ObservationCancelled, TypeOK
    <3>. QED  BY <1>4, <3>1, <3>2, <3>3 DEF TaskStep
  <2>5. UNCHANGED <<now, loop, next, active, skipped, marks, iostat, window>>
    BY <2>1 DEF TaskEnds
  <2>. QED  BY <1>0, <2>2, <2>3, <2>4, <2>5 DEF TypeOK
<1>5. ASSUME \/ Tick \/ Mark \/ IostatEnds \/ GatherDone \/ WindowCloses \/ CancelIostat
             \/ WindowCancelled \/ CancelWindow \/ CancelIostatWait \/ UNCHANGED vars
      PROVE  TypeOK' /\ PermitsConserved'
  <2>1. UNCHANGED <<next, active, task, samples, failed, skipped, baseline, permits>>
    BY <1>5 DEF Tick, Mark, IostatEnds, GatherDone, WindowCloses, CancelIostat,
      WindowCancelled, CancelWindow, CancelIostatWait, vars
  <2>2. now' \in Slots /\ marks' \in 0..(Last + 1)
    BY <1>0, <1>5 DEF Tick, Mark, IostatEnds, GatherDone, WindowCloses, CancelIostat,
      WindowCancelled, CancelWindow, CancelIostatWait, vars, TypeOK, Slots
  <2>3. /\ iostat' \in {"off", "running", "ok", "failed", "cancelled"}
        /\ window' \in {"open", "iostat", "cancelling", "closed", "cancelled"}
    BY <1>0, <1>5 DEF Tick, Mark, IostatEnds, GatherDone, WindowCloses, CancelIostat,
      WindowCancelled, CancelWindow, CancelIostatWait, vars, TypeOK
  <2>4. loop' \in [Sources -> {"looping", "unwinding", "ended"}]
    BY <1>0, <1>5 DEF Tick, Mark, IostatEnds, GatherDone, WindowCloses, CancelIostat,
      WindowCancelled, CancelWindow, CancelIostatWait, vars, TypeOK
  <2>. QED  BY <1>0, <2>1, <2>2, <2>3, <2>4 DEF TypeOK, PermitsConserved
<1>. QED  BY <1>1, <1>2, <1>3, <1>4, <1>5 DEF Next, Source, Finish, TaskStep

--------------------------------------------------------------------------------
(* One source.                                                              *)

LEMMA SampleTypes ==
  ASSUME TypeOK, NEW s \in Sources
  PROVE  /\ Len(samples[s]) \in Nat
         /\ \A k \in 1..Len(samples[s]) :
              samples[s][k].slot \in Slots /\ samples[s][k].at \in Slots
         /\ SampledSlots(s) \subseteq Slots
<1>1. samples[s] \in Seq(Observation)
  BY DEF TypeOK
<1>2. Len(samples[s]) \in Nat /\ \A k \in 1..Len(samples[s]) : samples[s][k] \in Observation
  BY <1>1
<1>3. \A o \in Observation : o.slot \in Slots /\ o.at \in Slots
  BY DEF Observation
<1>. QED  BY <1>2, <1>3 DEF SampledSlots

\* The point a loop is due at is one of its schedule.
LEMMA DueIsScheduled ==
  ASSUME NEW s \in Sources, LoopInv(s), next[s] \in Slots
  PROVE  next[s] \in Schedule(s)
<1>1. Last + 1 \notin Slots
  BY WindowAssumption DEF Slots
<1>. QED  BY <1>1 DEF LoopInv

\* A step of something else, which may let time pass.
LEMMA Frame ==
  ASSUME TypeOK, NEW s \in Sources, SourceInv(s), now' \in Slots, now <= now',
         next'[s] = next[s], active'[s] = active[s], task'[s] = task[s],
         samples'[s] = samples[s], failed'[s] = failed[s], skipped'[s] = skipped[s],
         baseline'[s] = baseline[s], loop'[s] = loop[s], window' = window
  PROVE  SourceInv(s)'
<1>. USE DEF SourceInv
<1>1. SampledSlots(s)' = SampledSlots(s)
  BY DEF SampledSlots
<1>2. LoopInv(s)'
  <2>1. now \in Int /\ now' \in Int /\ Slots \subseteq Int
    BY DEF TypeOK, Slots
  <2>2. \A i \in Slots : i <= now => i <= now'
    BY <2>1
  <2>3. Schedule(s)' = Schedule(s)
    BY DEF Schedule
  <2>. QED  BY <2>2, <2>3 DEF LoopInv
<1>3. DecidedInv(s)'
  BY <1>1 DEF DecidedInv, Decided
<1>4. OrderInv(s)'
  <2>1. \A k \in 1..Len(samples[s]) : samples[s][k].at \in Slots
    BY SampleTypes
  <2>2. now \in Int /\ now' \in Int /\ Slots \subseteq Int
    BY DEF TypeOK, Slots
  <2>3. \A k \in 1..Len(samples[s]) : samples[s][k].at <= now'
    BY <2>1, <2>2 DEF OrderInv
  <2>. QED  BY <2>3 DEF OrderInv
<1>5. PhaseInv(s)'
  BY DEF PhaseInv, ActiveDone
<1>. QED  BY <1>2, <1>3, <1>4, <1>5

LEMMA DispatchStep ==
  ASSUME TypeOK, NEW s \in Sources, SourceInv(s), Dispatch(s)
  PROVE  SourceInv(s)'
<1>. USE DEF SourceInv
<1>1. /\ next[s] \in Slots /\ next[s] <= now /\ ActiveDone(s)
      /\ window = "open" /\ loop[s] = "looping"
      /\ UNCHANGED <<now, loop, samples, failed, skipped, baseline, window>>
  BY DEF Dispatch, Due, resultVars
<1>2. /\ active'[s] = next[s] /\ next'[s] = NextSlot(s)
      /\ task'[s][next[s]] = IF s \in SqlSources THEN "waiting" ELSE "executing"
      /\ \A i \in Slots : i # next[s] => task'[s][i] = task[s][i]
  BY <1>1 DEF Dispatch, TypeOK
<1>3. next[s] \in Schedule(s)
  BY <1>1, DueIsScheduled
<1>4. /\ NextSlot(s) \in Schedule(s) \cup {Last + 1} /\ next[s] < NextSlot(s)
      /\ \A i \in Schedule(s) : i \in Slots /\ (i < NextSlot(s) => i <= next[s])
  BY <1>3, ScheduleFacts
<1>5. \A i \in Slots : task[s][i] # "none" => i < next[s] /\ task[s][i] = "done"
  BY <1>1 DEF LoopInv, ActiveDone, Slots, TypeOK
<1>6. task[s][next[s]] = "none"
  BY <1>1, <1>5 DEF Slots
<1>7. LoopInv(s)'
  <2>1. Schedule(s)' = Schedule(s)
    BY DEF Schedule
  <2>2. active'[s] # NoSlot
    BY <1>1, <1>2, WindowAssumption DEF Slots
  <2>. QED  BY <1>1, <1>2, <1>3, <1>4, <1>5, <2>1, <2>2 DEF LoopInv, Slots
<1>8. SampledSlots(s)' = SampledSlots(s)
  BY <1>1 DEF SampledSlots
<1>9. DecidedInv(s)'
  <2>1. SampledSlots(s) \cup failed[s] \cup skipped[s] \subseteq Slots
    BY SampleTypes DEF TypeOK
  <2>2. \A i \in SampledSlots(s) \cup failed[s] : task'[s][i] = "done"
    BY <1>2, <1>6, <2>1 DEF DecidedInv
  <2>3. \A i \in skipped[s] : task'[s][i] = "none" /\ i < NextSlot(s) /\ i \in Schedule(s)
    <3>1. \A i \in skipped[s] : i # next[s] /\ i < NextSlot(s)
      BY <1>1, <1>4, <2>1, WindowAssumption DEF DecidedInv, Slots
    <3>. QED  BY <1>2, <2>1, <3>1 DEF DecidedInv
  <2>4. \A i \in Schedule(s) : i < NextSlot(s) => i \in Decided(s) \/ task'[s][i] \in Running
    <3>1. \A i \in Schedule(s) : i < NextSlot(s) => i = next[s] \/ i < next[s]
      BY <1>1, <1>4 DEF Slots
    <3>. QED  BY <1>1, <1>2, <1>4, <3>1 DEF DecidedInv, Running
  <2>. QED  BY <1>1, <1>2, <1>8, <2>2, <2>3, <2>4 DEF DecidedInv, Decided, Schedule
<1>10. OrderInv(s)'
  BY <1>1 DEF OrderInv
<1>11. PhaseInv(s)'
  BY <1>1 DEF PhaseInv
<1>. QED  BY <1>7, <1>9, <1>10, <1>11

LEMMA SkipStep ==
  ASSUME TypeOK, NEW s \in Sources, SourceInv(s), SkipBusy(s)
  PROVE  SourceInv(s)'
<1>. USE DEF SourceInv
<1>1. /\ next[s] \in Slots /\ next[s] <= now /\ ~ActiveDone(s)
      /\ window = "open" /\ loop[s] = "looping"
      /\ UNCHANGED <<now, loop, active, task, samples, failed, baseline, window>>
      /\ skipped'[s] = skipped[s] \cup {next[s]} /\ next'[s] = NextSlot(s)
  BY DEF SkipBusy, Due, TypeOK
<1>2. next[s] \in Schedule(s)
  BY <1>1, DueIsScheduled
<1>3. /\ NextSlot(s) \in Schedule(s) \cup {Last + 1} /\ next[s] < NextSlot(s)
      /\ \A i \in Schedule(s) : i \in Slots /\ (i < NextSlot(s) => i <= next[s])
  BY <1>2, ScheduleFacts
<1>4. task[s][next[s]] = "none"
  BY <1>1 DEF LoopInv, Slots, TypeOK
<1>5. LoopInv(s)'
  <2>1. Schedule(s)' = Schedule(s)
    BY DEF Schedule
  <2>. QED  BY <1>1, <1>3, <2>1, WindowAssumption DEF LoopInv, Slots, TypeOK
<1>6. SampledSlots(s)' = SampledSlots(s)
  BY <1>1 DEF SampledSlots
<1>7. DecidedInv(s)'
  <2>1. skipped[s] \subseteq Slots
    BY DEF TypeOK
  <2>2. \A i \in skipped'[s] : task[s][i] = "none" /\ i < NextSlot(s) /\ i \in Schedule(s)
    <3>1. \A i \in skipped[s] : i < NextSlot(s)
      BY <1>1, <1>3, <2>1, WindowAssumption DEF DecidedInv, Slots
    <3>. QED  BY <1>1, <1>2, <1>3, <1>4, <3>1 DEF DecidedInv
  <2>3. \A i \in Schedule(s) : i < NextSlot(s) => i \in Decided(s)' \/ task[s][i] \in Running
    <3>1. \A i \in Schedule(s) : i < NextSlot(s) => i = next[s] \/ i < next[s]
      BY <1>1, <1>3 DEF Slots
    <3>. QED  BY <1>1, <1>6, <3>1 DEF DecidedInv, Decided
  <2>. QED  BY <1>1, <1>6, <2>2, <2>3 DEF DecidedInv, Schedule
<1>8. OrderInv(s)'
  BY <1>1 DEF OrderInv
<1>9. PhaseInv(s)'
  BY <1>1 DEF PhaseInv
<1>. QED  BY <1>5, <1>7, <1>8, <1>9

LEMMA AcquireStep ==
  ASSUME TypeOK, NEW s \in Sources, SourceInv(s), NEW i \in Slots, Acquire(s, i)
  PROVE  SourceInv(s)'
<1>. USE DEF SourceInv
<1>1. /\ task[s][i] = "waiting" /\ loop[s] = "looping"
      /\ UNCHANGED <<now, loop, next, active, samples, failed, skipped, baseline, window>>
      /\ task'[s][i] = "executing" /\ \A j \in Slots : j # i => task'[s][j] = task[s][j]
  BY DEF Acquire, TypeOK, loopVars, resultVars
<1>2. SampledSlots(s)' = SampledSlots(s)
  BY <1>1 DEF SampledSlots
<1>3. SampledSlots(s) \cup failed[s] \cup skipped[s] \subseteq Slots
  BY SampleTypes DEF TypeOK
<1>4. LoopInv(s)'
  <2>1. i = active[s]
    BY <1>1, UnfinishedIsActive DEF Running
  <2>2. Schedule(s)' = Schedule(s)
    BY DEF Schedule
  <2>. QED  BY <1>1, <2>1, <2>2 DEF LoopInv
<1>5. DecidedInv(s)'
  <2>1. i \notin SampledSlots(s) \cup failed[s] \cup skipped[s]
    BY <1>1 DEF DecidedInv
  <2>2. \A j \in Schedule(s) : j \in Slots
    BY ScheduleFacts
  <2>. QED  BY <1>1, <1>2, <1>3, <2>1, <2>2 DEF DecidedInv, Decided, Schedule, Running
<1>6. OrderInv(s)'
  BY <1>1 DEF OrderInv
<1>7. PhaseInv(s)'
  BY <1>1 DEF PhaseInv
<1>. QED  BY <1>4, <1>5, <1>6, <1>7

\* A task that ends has left its point without a verdict until then.
LEMMA TaskEndStep ==
  ASSUME TypeOK, NEW s \in Sources, SourceInv(s), NEW i \in Slots, TaskStep(s, i)
  PROVE  /\ i = active[s] /\ i <= now /\ i \in Schedule(s)
         /\ i \notin SampledSlots(s) \cup failed[s] \cup skipped[s]
         /\ \A j \in SampledSlots(s) : j < i
         /\ UNCHANGED <<now, loop, next, active, skipped, marks, iostat, window>>
         /\ task' = [task EXCEPT ![s][i] = "done"]
         /\ LoopInv(s)' /\ PhaseInv(s)'
<1>. USE DEF SourceInv
<1>1. /\ task[s][i] \in Running
      /\ UNCHANGED <<now, loop, next, active, skipped, marks, iostat, window>>
      /\ task' = [task EXCEPT ![s][i] = "done"]
  BY DEF TaskStep, Observe, ObservationFails, ObservationCancelled, TaskEnds, Running, loopVars
<1>2. i = active[s] /\ i <= now /\ i \in Schedule(s)
  BY <1>1, UnfinishedIsActive
<1>3. i \notin SampledSlots(s) \cup failed[s] \cup skipped[s]
  BY <1>1 DEF DecidedInv, Running
<1>4. \A j \in SampledSlots(s) : j < i
  <2>1. \A j \in SampledSlots(s) : j \in Slots /\ task[s][j] = "done"
    BY SampleTypes DEF DecidedInv
  <2>2. \A j \in SampledSlots(s) : j <= i /\ j # i
    BY <1>2, <1>3, <2>1 DEF LoopInv
  <2>. QED  BY <2>1, <2>2 DEF Slots
<1>5. /\ task'[s][i] = "done" /\ \A j \in Slots : j # i => task'[s][j] = task[s][j]
      /\ task[s][i] # "none"
  BY <1>1 DEF TypeOK, Running
<1>6. LoopInv(s)'
  <2>1. Schedule(s)' = Schedule(s)
    BY DEF Schedule
  <2>. QED  BY <1>1, <1>2, <1>5, <2>1 DEF LoopInv
<1>7. PhaseInv(s)'
  BY <1>1, <1>2, <1>5 DEF PhaseInv, ActiveDone
<1>. QED  BY <1>1, <1>2, <1>3, <1>4, <1>6, <1>7

\* A sample adds its point to the sampled ones.
LEMMA SampledSlotsGrow ==
  ASSUME TypeOK, NEW s \in Sources, NEW i \in Slots, NEW o, o.slot = i,
         samples'[s] = Append(samples[s], o)
  PROVE  SampledSlots(s)' = SampledSlots(s) \cup {i}
<1>. DEFINE n == Len(samples[s])
<1>1. /\ n \in Nat /\ Len(samples'[s]) = n + 1
      /\ samples'[s][n + 1] = o
      /\ \A k \in 1..n : samples'[s][k] = samples[s][k]
  <2>1. samples[s] \in Seq(Observation)
    BY DEF TypeOK
  <2>. QED  BY <2>1
<1>2. SampledSlots(s)' = {samples'[s][k].slot : k \in 1..(n + 1)}
  BY <1>1 DEF SampledSlots
<1>3. 1..(n + 1) = (1..n) \cup {n + 1}
  BY <1>1
<1>4. {samples'[s][k].slot : k \in 1..(n + 1)}
        = {samples'[s][k].slot : k \in 1..n} \cup {samples'[s][n + 1].slot}
  BY <1>3
<1>5. {samples'[s][k].slot : k \in 1..n} = {samples[s][k].slot : k \in 1..n}
  BY <1>1
<1>. QED  BY <1>1, <1>2, <1>4, <1>5 DEF SampledSlots

LEMMA ObserveStep ==
  ASSUME TypeOK, NEW s \in Sources, SourceInv(s), NEW i \in Slots, Observe(s, i)
  PROVE  SourceInv(s)'
<1>. USE DEF SourceInv
<1>. DEFINE o == [slot |-> i, at |-> now, base |-> baseline[s]]
            n == Len(samples[s])
<1>1. /\ i \notin SampledSlots(s) \cup failed[s] \cup skipped[s]
      /\ \A j \in SampledSlots(s) : j < i
      /\ i = active[s] /\ i <= now /\ i \in Schedule(s)
      /\ UNCHANGED <<now, loop, next, active, skipped, window>>
      /\ task' = [task EXCEPT ![s][i] = "done"]
      /\ LoopInv(s)' /\ PhaseInv(s)'
  BY TaskEndStep DEF TaskStep
<1>2. /\ samples'[s] = Append(samples[s], o) /\ baseline'[s] = now /\ failed' = failed
  BY DEF Observe, TypeOK
<1>3. /\ n \in Nat /\ Len(samples'[s]) = n + 1
      /\ samples'[s][n + 1] = o
      /\ \A k \in 1..n : samples'[s][k] = samples[s][k]
      /\ o.slot = i /\ o.at = now /\ o.base = baseline[s]
  <2>1. samples[s] \in Seq(Observation)
    BY DEF TypeOK
  <2>. QED  BY <1>2, <2>1
<1>4. SampledSlots(s)' = SampledSlots(s) \cup {i}
  BY <1>2, <1>3, SampledSlotsGrow
<1>5. task'[s][i] = "done" /\ \A j \in Slots : j # i => task'[s][j] = task[s][j]
  BY <1>1 DEF TypeOK
<1>6. DecidedInv(s)'
  <2>1. Cardinality(SampledSlots(s)') = n + 1
    <3>1. IsFiniteSet(SampledSlots(s))
      <4>1. IsFiniteSet(Slots)
        BY WindowAssumption, FS_Interval DEF Slots
      <4>. QED  BY <4>1, SampleTypes, FS_Subset
    <3>. QED  BY <1>1, <1>4, <3>1, FS_AddElement DEF DecidedInv
  <2>2. SampledSlots(s) \cup failed[s] \cup skipped[s] \subseteq Slots
    BY SampleTypes DEF TypeOK
  <2>3. \A j \in SampledSlots(s)' \cup failed'[s] : task'[s][j] = "done"
    BY <1>2, <1>4, <1>5, <2>2 DEF DecidedInv
  <2>4. \A j \in skipped'[s] : task'[s][j] = "none" /\ j < next'[s] /\ j \in Schedule(s)'
    BY <1>1, <1>5, <2>2 DEF DecidedInv, Schedule
  <2>5. SampledSlots(s)' \cap failed'[s] = {}
    BY <1>1, <1>2, <1>4 DEF DecidedInv
  <2>6. Len(samples'[s]) = Cardinality(SampledSlots(s)')
    BY <1>3, <2>1
  <2>7. window' \in {"open", "iostat", "closed"} =>
          \A j \in Schedule(s)' : j < next'[s] => j \in Decided(s)' \/ task'[s][j] \in Running
    <3>1. Decided(s)' = Decided(s) \cup {i}
      BY <1>1, <1>2, <1>4 DEF Decided
    <3>2. Schedule(s)' = Schedule(s) /\ \A j \in Schedule(s) : j \in Slots
      BY ScheduleFacts DEF Schedule
    <3>. QED  BY <1>1, <1>5, <3>1, <3>2 DEF DecidedInv
  <2>. QED  BY <2>3, <2>4, <2>5, <2>6, <2>7 DEF DecidedInv
<1>7. OrderInv(s)'
  <2>1. baseline[s] = IF n = 0 THEN NoTime ELSE samples[s][n].at
    BY DEF OrderInv
  <2>2. \A k \in 1..n : samples[s][k].slot < i /\ samples[s][k].at <= now
    BY <1>1 DEF OrderInv, SampledSlots
  <2>3. now' = now /\ now \in Nat
    BY <1>1 DEF TypeOK, Slots
  <2>4. ASSUME NEW k \in 1..(n + 1)
        PROVE  /\ samples'[s][k].slot <= samples'[s][k].at /\ samples'[s][k].at <= now'
               /\ k > 1 => /\ samples'[s][k - 1].slot < samples'[s][k].slot
                           /\ samples'[s][k - 1].at <= samples'[s][k].at
               /\ samples'[s][k].base = IF k = 1 THEN NoTime ELSE samples'[s][k - 1].at
    <3>1. CASE k \in 1..n
      <4>1. samples'[s][k] = samples[s][k] /\ (k > 1 => samples'[s][k - 1] = samples[s][k - 1])
        BY <1>3, <3>1
      <4>2. k \in Nat /\ k >= 1 /\ (k # 1 => k > 1)
        BY <1>3
      <4>. QED  BY <2>3, <3>1, <4>1, <4>2 DEF OrderInv
    <3>2. CASE k = n + 1
      <4>1. n # 0 => n \in 1..n /\ samples'[s][n] = samples[s][n]
        BY <1>3
      <4>2. samples'[s][k] = o /\ k - 1 = n /\ (k > 1 <=> n # 0) /\ (k = 1 <=> n = 0)
        BY <1>3, <3>2
      <4>3. o.slot <= o.at /\ o.at <= now'
        BY <1>1, <1>3, <2>3
      <4>. QED  BY <1>3, <2>1, <2>2, <4>1, <4>2, <4>3
    <3>. QED  BY <1>3, <3>1, <3>2
  <2>5. baseline'[s] = IF Len(samples'[s]) = 0 THEN NoTime ELSE samples'[s][Len(samples'[s])].at
    BY <1>2, <1>3
  <2>. QED  BY <1>3, <2>4, <2>5 DEF OrderInv
<1>. QED  BY <1>1, <1>6, <1>7

\* A task that ends without a sample.
LEMMA NoSampleStep ==
  ASSUME TypeOK, NEW s \in Sources, SourceInv(s), NEW i \in Slots,
         ObservationFails(s, i) \/ ObservationCancelled(s, i)
  PROVE  SourceInv(s)'
<1>. USE DEF SourceInv
<1>1. /\ i \notin SampledSlots(s) \cup failed[s] \cup skipped[s]
      /\ i \in Schedule(s)
      /\ UNCHANGED <<now, loop, next, active, skipped, window>>
      /\ task' = [task EXCEPT ![s][i] = "done"]
      /\ LoopInv(s)' /\ PhaseInv(s)'
  BY TaskEndStep DEF TaskStep
<1>2. /\ UNCHANGED <<samples, baseline>>
      /\ \/ failed'[s] = failed[s] \cup {i}
         \/ failed'[s] = failed[s] /\ window \notin {"open", "iostat", "closed"}
  <2>1. CASE ObservationFails(s, i)
    BY <2>1 DEF ObservationFails, TypeOK
  <2>2. CASE ObservationCancelled(s, i)
    BY <2>2 DEF ObservationCancelled, PhaseInv
  <2>. QED  BY <2>1, <2>2
<1>3. SampledSlots(s)' = SampledSlots(s)
  BY <1>2 DEF SampledSlots
<1>4. task'[s][i] = "done" /\ \A j \in Slots : j # i => task'[s][j] = task[s][j]
  BY <1>1 DEF TypeOK
<1>5. DecidedInv(s)'
  <2>1. SampledSlots(s) \cup failed[s] \cup skipped[s] \subseteq Slots
    BY SampleTypes DEF TypeOK
  <2>2. \A j \in SampledSlots(s) \cup failed'[s] : task'[s][j] = "done"
    BY <1>2, <1>4, <2>1 DEF DecidedInv
  <2>3. \A j \in skipped[s] : task'[s][j] = "none" /\ j < next[s] /\ j \in Schedule(s)
    BY <1>1, <1>4, <2>1 DEF DecidedInv
  <2>4. SampledSlots(s) \cap failed'[s] = {}
    BY <1>1, <1>2 DEF DecidedInv
  <2>5. window \in {"open", "iostat", "closed"} =>
          \A j \in Schedule(s) : j < next[s] => j \in Decided(s)' \/ task'[s][j] \in Running
    <3>1. \A j \in Schedule(s) : j \in Slots
      BY ScheduleFacts
    <3>2. window \in {"open", "iostat", "closed"} => Decided(s)' = Decided(s) \cup {i}
      BY <1>1, <1>2, <1>3 DEF Decided
    <3>. QED  BY <1>4, <3>1, <3>2 DEF DecidedInv
  <2>. QED  BY <1>1, <1>2, <1>3, <2>2, <2>3, <2>4, <2>5 DEF DecidedInv, Schedule
<1>6. OrderInv(s)'
  BY <1>1, <1>2 DEF OrderInv
<1>. QED  BY <1>1, <1>5, <1>6

LEMMA EndLoopStep ==
  ASSUME TypeOK, NEW s \in Sources, SourceInv(s), EndLoop(s)
  PROVE  SourceInv(s)'
<1>. USE DEF SourceInv
<1>1. /\ loop'[s] = "ended" /\ ActiveDone(s)
      /\ (loop[s] = "looping" /\ next[s] = Last + 1) \/ loop[s] = "unwinding"
      /\ UNCHANGED <<now, next, active, task, samples, failed, skipped, baseline, window>>
  BY DEF EndLoop, TypeOK, resultVars
<1>2. SampledSlots(s)' = SampledSlots(s)
  BY <1>1 DEF SampledSlots
<1>3. LoopInv(s)' /\ OrderInv(s)'
  BY <1>1 DEF LoopInv, OrderInv, Schedule
<1>4. DecidedInv(s)'
  BY <1>1, <1>2 DEF DecidedInv, Decided, Schedule
<1>5. PhaseInv(s)'
  BY <1>1 DEF PhaseInv, ActiveDone
<1>. QED  BY <1>3, <1>4, <1>5

--------------------------------------------------------------------------------
(* All sources.                                                             *)

\* The steps of the loop and the tasks of a source.
LEMMA SourceStep ==
  ASSUME IInv, NEW s \in Sources, Source(s)
  PROVE  SourceInv(s)'
<1>1. TypeOK /\ SourceInv(s)
  BY DEF IInv
<1>2. ASSUME Dispatch(s) PROVE SourceInv(s)'
  BY <1>1, <1>2, DispatchStep
<1>3. ASSUME SkipBusy(s) PROVE SourceInv(s)'
  BY <1>1, <1>3, SkipStep
<1>4. ASSUME EndLoop(s) PROVE SourceInv(s)'
  BY <1>1, <1>4, EndLoopStep
<1>5. ASSUME NEW i \in Slots, Acquire(s, i) PROVE SourceInv(s)'
  BY <1>1, <1>5, AcquireStep
<1>6. ASSUME NEW i \in Slots, Observe(s, i) PROVE SourceInv(s)'
  BY <1>1, <1>6, ObserveStep
<1>7. ASSUME NEW i \in Slots, ObservationFails(s, i) \/ ObservationCancelled(s, i)
      PROVE  SourceInv(s)'
  BY <1>1, <1>7, NoSampleStep
<1>. QED  BY <1>2, <1>3, <1>4, <1>5, <1>6, <1>7 DEF Source

\* What a step of one source leaves alone.
LEMMA SourceFrame ==
  ASSUME TypeOK, NEW s \in Sources, Source(s)
  PROVE  /\ UNCHANGED <<now, marks, iostat, window>>
         /\ \A r \in Sources \ {s} :
              /\ next'[r] = next[r] /\ active'[r] = active[r] /\ task'[r] = task[r]
              /\ samples'[r] = samples[r] /\ failed'[r] = failed[r]
              /\ skipped'[r] = skipped[r] /\ baseline'[r] = baseline[r]
              /\ loop'[r] = loop[r]
<1>. DEFINE Goal ==
       /\ UNCHANGED <<now, marks, iostat, window>>
       /\ \A r \in Sources \ {s} :
              /\ next'[r] = next[r] /\ active'[r] = active[r] /\ task'[r] = task[r]
              /\ samples'[r] = samples[r] /\ failed'[r] = failed[r]
              /\ skipped'[r] = skipped[r] /\ baseline'[r] = baseline[r]
              /\ loop'[r] = loop[r]
<1>. USE DEF TypeOK, loopVars, resultVars
<1>1. ASSUME Dispatch(s) PROVE Goal
  BY <1>1 DEF Dispatch
<1>2. ASSUME SkipBusy(s) PROVE Goal
  BY <1>2 DEF SkipBusy
<1>3. ASSUME EndLoop(s) PROVE Goal
  BY <1>3 DEF EndLoop
<1>4. ASSUME NEW i \in Slots, Acquire(s, i) PROVE Goal
  BY <1>4 DEF Acquire
<1>5. ASSUME NEW i \in Slots, TaskStep(s, i) PROVE Goal
  BY <1>5 DEF TaskStep, Observe, ObservationFails, ObservationCancelled, TaskEnds
<1>. QED  BY <1>1, <1>2, <1>3, <1>4, <1>5 DEF Source, TaskStep

\* A step of the window itself moves the loops and the phase only.
LEMMA PhaseStep ==
  ASSUME TypeOK, NEW s \in Sources, SourceInv(s),
         \/ GatherDone \/ WindowCloses \/ CancelWindow \/ CancelIostatWait \/ WindowCancelled
  PROVE  SourceInv(s)'
<1>. USE DEF SourceInv
<1>1. UNCHANGED <<now, next, active, task, samples, failed, skipped, baseline>>
  BY DEF GatherDone, WindowCloses, CancelWindow, CancelIostatWait, WindowCancelled,
    loopVars, resultVars
<1>2. SampledSlots(s)' = SampledSlots(s)
  BY <1>1 DEF SampledSlots
<1>3. LoopInv(s)' /\ OrderInv(s)'
  BY <1>1 DEF LoopInv, OrderInv, Schedule
<1>4. window' \in {"open", "iostat", "closed"} => window \in {"open", "iostat", "closed"}
  BY DEF GatherDone, WindowCloses, CancelWindow, CancelIostatWait, WindowCancelled
<1>5. DecidedInv(s)'
  BY <1>1, <1>2, <1>4 DEF DecidedInv, Decided, Schedule
<1>6. PhaseInv(s)'
  <2>1. CASE GatherDone
    BY <2>1 DEF GatherDone, LoopsEnded, PhaseInv, ActiveDone, loopVars
  <2>2. CASE WindowCloses
    BY <2>2 DEF WindowCloses, PhaseInv, ActiveDone, loopVars
  <2>3. CASE CancelWindow
    <3>1. loop'[s] = IF loop[s] = "looping" THEN "unwinding" ELSE loop[s]
      BY <2>3 DEF CancelWindow
    <3>. QED  BY <1>1, <2>3, <3>1 DEF CancelWindow, PhaseInv, ActiveDone
  <2>4. CASE CancelIostatWait
    BY <2>4 DEF CancelIostatWait, PhaseInv, ActiveDone, loopVars
  <2>5. CASE WindowCancelled
    BY <2>5 DEF WindowCancelled, LoopsEnded, PhaseInv, ActiveDone, loopVars
  <2>. QED  BY <2>1, <2>2, <2>3, <2>4, <2>5
<1>. QED  BY <1>3, <1>5, <1>6

LEMMA Inductive == IInv /\ [Next]_vars => IInv'
<1>. SUFFICES ASSUME IInv, [Next]_vars PROVE IInv'
  OBVIOUS
<1>1. TypeOK' /\ PermitsConserved'
  BY TypeStep
<1>2. TypeOK /\ \A r \in Sources : SourceInv(r)
  BY DEF IInv
<1>. DEFINE Rest == /\ \A r \in Sources : SourceInv(r)'
                    /\ window' \in {"closed", "cancelled"} => iostat' # "running"
<1>3. ASSUME NEW s \in Sources, Source(s) PROVE Rest
  <2>1. ASSUME NEW r \in Sources, r # s PROVE SourceInv(r)'
    <3>1. now' = now /\ window' = window /\ now \in Slots /\ Slots \subseteq Nat
      BY <1>2, <1>3, SourceFrame DEF TypeOK, Slots
    <3>. QED  BY <1>2, <1>3, <2>1, <3>1, SourceFrame, Frame
  <2>2. window' = window /\ iostat' = iostat
    BY <1>2, <1>3, SourceFrame
  <2>. QED  BY <1>3, <2>1, <2>2, SourceStep DEF IInv
<1>4. ASSUME Tick \/ Mark \/ IostatEnds \/ CancelIostat \/ UNCHANGED vars PROVE Rest
  <2>1. /\ UNCHANGED <<next, active, task, samples, failed, skipped, baseline, loop, window>>
        /\ now' \in Slots /\ now <= now'
        /\ window \in {"closed", "cancelled"} => iostat' # "running"
    <3>1. now \in Slots /\ Slots = 0..Last /\ Last \in Nat
      BY <1>2, WindowAssumption DEF TypeOK, Slots
    <3>. QED  BY <1>4, <3>1 DEF Tick, Mark, IostatEnds, CancelIostat, vars, loopVars, resultVars, IInv
  <2>. QED  BY <1>2, <2>1, Frame
<1>5. ASSUME \/ GatherDone \/ WindowCloses \/ CancelWindow \/ CancelIostatWait \/ WindowCancelled
      PROVE  Rest
  <2>1. window' \in {"closed", "cancelled"} => iostat' # "running"
    BY <1>5 DEF GatherDone, WindowCloses, CancelWindow, CancelIostatWait, WindowCancelled
  <2>. QED  BY <1>2, <1>5, <2>1, PhaseStep
<1>6. Rest
  BY <1>3, <1>4, <1>5 DEF Next, Finish
<1>. QED  BY <1>1, <1>6 DEF IInv

LEMMA Invariance == SafeSpec => []IInv
<1>. QED  BY InitInv, Inductive, PTL DEF SafeSpec

--------------------------------------------------------------------------------
(* The theorems.                                                            *)

\* Every variable of the window keeps its type.
THEOREM TypeCorrect == SafeSpec => []TypeOK
<1>1. IInv => TypeOK
  BY DEF IInv
<1>. QED  BY <1>1, Invariance, PTL

\* However the tasks that wait for sql_semaphore or hold it end, no permit is
\* lost and none is given back twice.
THEOREM PermitsBalance == SafeSpec => []PermitsConserved
<1>1. IInv => PermitsConserved
  BY DEF IInv
<1>. QED  BY <1>1, Invariance, PTL

\* When a window closes, no point of a source is without a verdict.
LEMMA ClosedIsDecided ==
  ASSUME IInv, window \in {"iostat", "closed"}, NEW s \in Sources
  PROVE  Schedule(s) \subseteq Decided(s) /\ \A i \in Slots : task[s][i] \notin Running
<1>1. LoopInv(s) /\ DecidedInv(s) /\ ActiveDone(s) /\ next[s] = Last + 1
  BY DEF IInv, SourceInv, PhaseInv
<1>2. \A i \in Slots : task[s][i] \notin Running
  <2>1. SUFFICES ASSUME NEW i \in Slots, task[s][i] \in Running PROVE FALSE
    OBVIOUS
  <2>2. i = active[s] /\ i # NoSlot
    BY <1>1, <2>1, UnfinishedIsActive, WindowAssumption DEF Slots
  <2>. QED  BY <1>1, <2>1, <2>2 DEF ActiveDone, Running
<1>3. \A i \in Schedule(s) : i \in Slots /\ i < Last + 1
  BY ScheduleFacts, WindowAssumption DEF Slots
<1>. QED  BY <1>1, <1>2, <1>3 DEF DecidedInv

\* Every scheduled point of every source gets one verdict: what a loop passes
\* over is sampled, failed or skipped, never lost and never counted twice.
THEOREM PointsDecidedOnce == SafeSpec => []EverySlotDecidedOnce
<1>1. IInv => EverySlotDecidedOnce
  <2>. SUFFICES ASSUME IInv, NEW s \in Sources
       PROVE  /\ SampledSlots(s) \cap failed[s] = {}
              /\ SampledSlots(s) \cap skipped[s] = {}
              /\ failed[s] \cap skipped[s] = {}
              /\ Len(samples[s]) = Cardinality(SampledSlots(s))
              /\ window = "closed" => Decided(s) = Schedule(s)
    BY DEF EverySlotDecidedOnce
  <2>1. DecidedInv(s) /\ LoopInv(s) /\ TypeOK
    BY DEF IInv, SourceInv
  <2>2. Decided(s) \subseteq Schedule(s)
    <3>1. \A i \in SampledSlots(s) \cup failed[s] : i \in Slots /\ task[s][i] # "none"
      BY <2>1, SampleTypes DEF DecidedInv, TypeOK
    <3>. QED  BY <2>1, <3>1 DEF Decided, DecidedInv, LoopInv
  <2>3. SampledSlots(s) \cap skipped[s] = {} /\ failed[s] \cap skipped[s] = {}
    BY <2>1 DEF DecidedInv
  <2>4. window = "closed" => Decided(s) = Schedule(s)
    BY <2>2, ClosedIsDecided
  <2>. QED  BY <2>1, <2>3, <2>4 DEF DecidedInv
<1>. QED  BY <1>1, Invariance, PTL

\* A source never has two observations at once: its loop skips a point rather
\* than launch a task beside an unfinished one.
THEOREM NoOverlap == SafeSpec => []NoSelfOverlap
<1>1. IInv => NoSelfOverlap
  <2>. SUFFICES ASSUME IInv, NEW s \in Sources
       PROVE  Cardinality({i \in Slots : task[s][i] \in Running}) <= 1
    BY DEF NoSelfOverlap
  <2>1. LoopInv(s)
    BY DEF IInv, SourceInv
  <2>2. {i \in Slots : task[s][i] \in Running} \subseteq {active[s]}
    BY <2>1, UnfinishedIsActive
  <2>3. IsFiniteSet({active[s]}) /\ Cardinality({active[s]}) = 1
    BY FS_Singleton
  <2>4. /\ Cardinality({i \in Slots : task[s][i] \in Running}) <= Cardinality({active[s]})
    BY <2>2, <2>3, FS_Subset
  <2>. QED  BY <2>3, <2>4
<1>. QED  BY <1>1, Invariance, PTL

\* When collect_metric_items returns or raises, its loops, tasks and iostat ended.
THEOREM AllEnded == SafeSpec => []NothingLeftRunning
<1>1. IInv => NothingLeftRunning
  <2>. SUFFICES ASSUME IInv, window \in {"closed", "cancelled"}
       PROVE  /\ LoopsEnded
              /\ \A s \in Sources, i \in Slots : task[s][i] \notin Running
              /\ iostat # "running"
    BY DEF NothingLeftRunning
  <2>1. ASSUME NEW s \in Sources
        PROVE  loop[s] = "ended" /\ \A i \in Slots : task[s][i] \notin Running
    <3>1. loop[s] = "ended" /\ ActiveDone(s) /\ LoopInv(s)
      BY DEF IInv, SourceInv, PhaseInv
    <3>2. SUFFICES ASSUME NEW i \in Slots, task[s][i] \in Running PROVE FALSE
      BY <3>1
    <3>3. i = active[s] /\ i # NoSlot
      BY <3>1, <3>2, UnfinishedIsActive, WindowAssumption DEF Slots
    <3>. QED  BY <3>1, <3>2, <3>3 DEF ActiveDone, Running
  <2>. QED  BY <2>1 DEF LoopsEnded, IInv
<1>. QED  BY <1>1, Invariance, PTL

\* Observations are kept in the order of their points, completion times never
\* run backwards, and none is dated before its deadline.
THEOREM Ordered == SafeSpec => []SamplesOrdered
<1>1. IInv => SamplesOrdered
  BY DEF IInv, SourceInv, OrderInv, SamplesOrdered
<1>. QED  BY <1>1, Invariance, PTL

\* The time base of a counter rate is the previous successful observation,
\* whatever failed, was skipped or was cancelled in between.
THEOREM NeighbourRates == SafeSpec => []RatesSpanNeighbours
<1>1. IInv => RatesSpanNeighbours
  BY DEF IInv, SourceInv, OrderInv, RatesSpanNeighbours, Sources
<1>. QED  BY <1>1, Invariance, PTL

--------------------------------------------------------------------------------
(* The ledger.                                                              *)

\* The abstract ledger only sees verdicts and the end of the window.
LEMMA LedgerFrame ==
  ASSUME \A s \in Sources : /\ samples'[s] = samples[s] /\ failed'[s] = failed[s]
                            /\ skipped'[s] = skipped[s],
         \/ window' = window
         \/ {window, window'} \subseteq {"open", "iostat", "cancelling"}
  PROVE  UNCHANGED Ledger!vars
<1>1. ASSUME NEW s \in Sources, NEW i \in Slots PROVE LedgerEntry(s, i)' = LedgerEntry(s, i)
  <2>1. SampledSlots(s)' = SampledSlots(s)
    BY DEF SampledSlots
  <2>. QED  BY <2>1 DEF LedgerEntry
<1>. QED  BY <1>1 DEF Ledger!vars

\* A verdict is entered once, where none was.
LEMMA LedgerDecides ==
  ASSUME NEW s \in Sources, NEW i \in Slots, NEW verdict,
         window \notin {"closed", "cancelled"}, window' = window, i \in Schedule(s),
         LedgerEntry(s, i) = "pending", LedgerEntry(s, i)' = verdict,
         \A j \in Slots \ {i} : LedgerEntry(s, j)' = LedgerEntry(s, j),
         \A r \in Sources \ {s}, j \in Slots : LedgerEntry(r, j)' = LedgerEntry(r, j)
  PROVE  Ledger!Decide(s, i, verdict)
BY DEF Ledger!Decide

\* A source with a task at work is in a window that has not ended.
LEMMA WorkingWindow ==
  ASSUME IInv, NEW s \in Sources, NEW i \in Slots, task[s][i] \in Running
  PROVE  window \notin {"closed", "cancelled"}
<1>1. LoopInv(s) /\ PhaseInv(s)
  BY DEF IInv, SourceInv
<1>2. i = active[s] /\ i # NoSlot
  BY <1>1, UnfinishedIsActive, WindowAssumption DEF Slots
<1>. QED  BY <1>1, <1>2 DEF PhaseInv, ActiveDone, Running

LEMMA ObserveIsSample ==
  ASSUME IInv, NEW s \in Sources, NEW i \in Slots, Observe(s, i)
  PROVE  Ledger!Sample(s, i)
<1>1. TypeOK /\ SourceInv(s) /\ task[s][i] \in Running
  BY DEF IInv, Observe, Running
<1>2. /\ i \in Schedule(s) /\ i \notin SampledSlots(s) \cup failed[s] \cup skipped[s]
      /\ \A j \in SampledSlots(s) : j < i
      /\ skipped' = skipped /\ window' = window
  BY <1>1, TaskEndStep DEF TaskStep
<1>3. /\ failed' = failed
      /\ \A r \in Sources \ {s} : samples'[r] = samples[r]
      /\ samples'[s] = Append(samples[s], [slot |-> i, at |-> now, base |-> baseline[s]])
  BY <1>1 DEF Observe, TypeOK
<1>4. SampledSlots(s)' = SampledSlots(s) \cup {i}
  BY <1>1, <1>3, SampledSlotsGrow
<1>5. \A r \in Sources \ {s} : SampledSlots(r)' = SampledSlots(r)
  BY <1>3 DEF SampledSlots
<1>6. LedgerEntry(s, i) = "pending" /\ LedgerEntry(s, i)' = "sampled"
  BY <1>2, <1>4 DEF LedgerEntry
<1>7. \A j \in Slots \ {i} : LedgerEntry(s, j)' = LedgerEntry(s, j)
  BY <1>2, <1>3, <1>4 DEF LedgerEntry
<1>8. \A r \in Sources \ {s}, j \in Slots : LedgerEntry(r, j)' = LedgerEntry(r, j)
  BY <1>2, <1>3, <1>5 DEF LedgerEntry
<1>9. \A j \in Slots : j > i => LedgerEntry(s, j) # "sampled"
  BY <1>2 DEF LedgerEntry, Slots
<1>10. Ledger!Decide(s, i, "sampled")
  BY <1>1, <1>2, <1>6, <1>7, <1>8, WorkingWindow, LedgerDecides
<1>. QED  BY <1>9, <1>10 DEF Ledger!Sample, Ledger!Slots, Slots

LEMMA FailureIsFail ==
  ASSUME IInv, NEW s \in Sources, NEW i \in Slots, ObservationFails(s, i)
  PROVE  Ledger!Fail(s, i)
<1>1. TypeOK /\ SourceInv(s) /\ task[s][i] \in Running
  BY DEF IInv, ObservationFails, Running
<1>2. /\ i \in Schedule(s) /\ i \notin SampledSlots(s) \cup failed[s] \cup skipped[s]
      /\ skipped' = skipped /\ window' = window
  BY <1>1, TaskEndStep DEF TaskStep
<1>3. /\ samples' = samples /\ failed'[s] = failed[s] \cup {i}
      /\ \A r \in Sources \ {s} : failed'[r] = failed[r]
  BY <1>1 DEF ObservationFails, TypeOK
<1>4. \A r \in Sources : SampledSlots(r)' = SampledSlots(r)
  BY <1>3 DEF SampledSlots
<1>5. LedgerEntry(s, i) = "pending" /\ LedgerEntry(s, i)' = "failed"
  BY <1>2, <1>3, <1>4 DEF LedgerEntry
<1>6. \A j \in Slots \ {i} : LedgerEntry(s, j)' = LedgerEntry(s, j)
  BY <1>2, <1>3, <1>4 DEF LedgerEntry
<1>7. \A r \in Sources \ {s}, j \in Slots : LedgerEntry(r, j)' = LedgerEntry(r, j)
  BY <1>2, <1>3, <1>4 DEF LedgerEntry
<1>. QED  BY <1>1, <1>2, <1>5, <1>6, <1>7, WorkingWindow, LedgerDecides DEF Ledger!Fail

\* A loop that skips has an earlier task at work.
LEMMA BusyIsSkip ==
  ASSUME IInv, NEW s \in Sources, NEW i \in Slots, i = next[s], SkipBusy(s)
  PROVE  Ledger!Skip(s, i)
<1>. DEFINE j == active[s]
<1>1. TypeOK /\ LoopInv(s) /\ DecidedInv(s)
  BY DEF IInv, SourceInv
<1>2. /\ i \in Slots /\ i \in Schedule(s) /\ window = "open"
      /\ samples' = samples /\ failed' = failed /\ window' = window
      /\ skipped'[s] = skipped[s] \cup {i}
      /\ \A r \in Sources \ {s} : skipped'[r] = skipped[r]
  BY <1>1, DueIsScheduled DEF SkipBusy, Due, TypeOK
<1>3. \A r \in Sources : SampledSlots(r)' = SampledSlots(r)
  BY <1>2 DEF SampledSlots
<1>4. i \notin SampledSlots(s) \cup failed[s] \cup skipped[s]
  <2>1. task[s][i] = "none"
    BY <1>1, <1>2 DEF LoopInv, Slots, TypeOK
  <2>2. ~(i < i)
    BY <1>2 DEF Slots
  <2>. QED  BY <1>1, <2>1, <2>2 DEF DecidedInv
<1>5. LedgerEntry(s, i) = "pending" /\ LedgerEntry(s, i)' = "skipped"
  BY <1>2, <1>3, <1>4 DEF LedgerEntry
<1>6. \A k \in Slots \ {i} : LedgerEntry(s, k)' = LedgerEntry(s, k)
  BY <1>2, <1>3 DEF LedgerEntry
<1>7. \A r \in Sources \ {s}, k \in Slots : LedgerEntry(r, k)' = LedgerEntry(r, k)
  BY <1>2, <1>3 DEF LedgerEntry
<1>8. Ledger!Decide(s, i, "skipped")
  BY <1>2, <1>5, <1>6, <1>7, LedgerDecides
<1>9. j \in Slots /\ j \in Schedule(s) /\ j < i /\ LedgerEntry(s, j) = "pending"
  <2>1. j # NoSlot /\ j \in Slots /\ task[s][j] # "done"
    BY <1>1 DEF SkipBusy, ActiveDone, TypeOK
  <2>2. j < i /\ task[s][j] # "none" /\ j \in Schedule(s)
    BY <1>1, <2>1 DEF LoopInv
  <2>3. j \notin SampledSlots(s) \cup failed[s] \cup skipped[s]
    BY <1>1, <2>1, <2>2 DEF DecidedInv
  <2>. QED  BY <2>1, <2>2, <2>3 DEF LedgerEntry
<1>. QED  BY <1>8, <1>9 DEF Ledger!Skip

LEMMA LedgerStep == IInv /\ [Next]_vars => [Ledger!Next]_(Ledger!vars)
<1>. SUFFICES ASSUME IInv, [Next]_vars PROVE [Ledger!Next]_(Ledger!vars)
  OBVIOUS
<1>1. ASSUME NEW s \in Sources, Dispatch(s) \/ EndLoop(s) PROVE UNCHANGED Ledger!vars
  BY <1>1, LedgerFrame DEF Dispatch, EndLoop, resultVars
<1>2. ASSUME NEW s \in Sources, NEW i \in Slots, Acquire(s, i) \/ ObservationCancelled(s, i)
      PROVE  UNCHANGED Ledger!vars
  <2>1. UNCHANGED <<samples, failed, skipped, window>>
    BY <1>2 DEF Acquire, ObservationCancelled, TaskEnds, resultVars
  <2>. QED  BY <2>1, LedgerFrame
<1>3. ASSUME NEW s \in Sources, SkipBusy(s) PROVE Ledger!Next
  <2>1. next[s] \in Slots
    BY <1>3 DEF SkipBusy, Due
  <2>. QED  BY <1>3, <2>1, BusyIsSkip DEF Ledger!Next, Ledger!Slots, Slots
<1>4. ASSUME NEW s \in Sources, NEW i \in Slots, Observe(s, i) \/ ObservationFails(s, i)
      PROVE  Ledger!Next
  BY <1>4, ObserveIsSample, FailureIsFail DEF Ledger!Next, Ledger!Slots, Slots
<1>5. ASSUME \/ Tick \/ Mark \/ IostatEnds \/ GatherDone \/ CancelIostat \/ CancelWindow
             \/ UNCHANGED vars
      PROVE  UNCHANGED Ledger!vars
  <2>1. UNCHANGED <<samples, failed, skipped>>
    BY <1>5 DEF Tick, Mark, IostatEnds, GatherDone, CancelIostat, CancelWindow, vars, resultVars
  <2>2. \/ window' = window
        \/ window = "open" /\ window' \in {"iostat", "cancelling"}
    BY <1>5 DEF Tick, Mark, IostatEnds, GatherDone, CancelIostat, CancelWindow, vars
  <2>. QED  BY <2>1, <2>2, LedgerFrame
<1>6. ASSUME NEW s \in Sources, NEW i \in Slots, UNCHANGED <<samples, failed, skipped>>
      PROVE  LedgerEntry(s, i)' = LedgerEntry(s, i)
  <2>1. SampledSlots(s)' = SampledSlots(s)
    BY <1>6 DEF SampledSlots
  <2>. QED  BY <1>6, <2>1 DEF LedgerEntry
<1>7. ASSUME WindowCloses PROVE Ledger!Next
  <2>1. /\ window = "iostat" /\ window' = "closed"
        /\ UNCHANGED <<samples, failed, skipped>>
    BY <1>7 DEF WindowCloses, resultVars
  <2>2. \A s \in Sources : \A i \in Schedule(s) : i \in Slots /\ LedgerEntry(s, i) # "pending"
    BY <2>1, ClosedIsDecided, ScheduleFacts DEF Decided, LedgerEntry
  <2>3. Ledger!Close
    BY <1>6, <2>1, <2>2 DEF Ledger!Close
  <2>. QED  BY <2>3 DEF Ledger!Next
<1>8. ASSUME CancelIostatWait \/ WindowCancelled PROVE Ledger!Next
  <2>1. /\ window \in {"iostat", "cancelling"} /\ window' = "cancelled"
        /\ UNCHANGED <<samples, failed, skipped>>
    BY <1>8 DEF CancelIostatWait, WindowCancelled, resultVars
  <2>2. Ledger!Cancel
    BY <1>6, <2>1 DEF Ledger!Cancel
  <2>. QED  BY <2>2 DEF Ledger!Next
<1>. QED  BY <1>1, <1>2, <1>3, <1>4, <1>5, <1>7, <1>8 DEF Next, Source, Finish

\* The window implements the ledger: a point is decided once and for good, it is
\* skipped only while an earlier one of its source is undecided, samples come in
\* the order of their points, and a normal end leaves nothing undecided. (That a
\* window ends is the rest of ImplementsLedger and needs fairness.)
THEOREM WindowImplementsLedger == SafeSpec => LedgerSafety
<1>1. Init => Ledger!Init
  <2>. SUFFICES ASSUME Init PROVE Ledger!Init
    OBVIOUS
  <2>1. window = "open"
    BY DEF Init
  <2>2. \A s \in Sources : SampledSlots(s) = {} /\ failed[s] = {} /\ skipped[s] = {}
    BY DEF Init, SampledSlots
  <2>3. \A s \in Sources, i \in Slots : LedgerEntry(s, i) = "pending"
    BY <2>2 DEF LedgerEntry
  <2>. QED  BY <2>1, <2>3 DEF Ledger!Init, Ledger!Slots, Slots
<1>. QED  BY <1>1, LedgerStep, Invariance, PTL DEF SafeSpec, LedgerSafety, Ledger!SafeSpec

================================================================================
