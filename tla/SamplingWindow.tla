----------------------------- MODULE SamplingWindow -----------------------------
(***************************************************************************)
(* The timed window of collect_metric_items in src/ch_diag/snapshots.py:    *)
(* one loop per source that launches a task at each absolute deadline, a    *)
(* semaphore for SQL, the snapshot markers, the iostat process, and the     *)
(* way all of it is unwound when the run is cancelled.                      *)
(*                                                                          *)
(* Time is the number of the last deadline that has passed. The event loop  *)
(* may be late: any number of deadlines may pass before a loop wakes.       *)
(***************************************************************************)
EXTENDS Naturals, Sequences, FiniteSets

CONSTANTS
  SqlSources,      \* metric source queries with a variant for this server
  HostSources,     \* procfs and ClickHouse process/thread samplers
  Scope,           \* collection_scope of every SQL source
  Last,            \* index of the last offset of schedule_offsets
  SqlConcurrency,  \* runtime_policy.database_workers
  UsesIostat,      \* whether os.disk is sampled
  NoSlot, NoTime

ASSUME WindowAssumption ==
  /\ SqlSources \cap HostSources = {}
  /\ IsFiniteSet(SqlSources)
  /\ Scope \in [SqlSources -> {"every_snapshot", "window_end", "once"}]
  /\ Last \in Nat \ {0}
  /\ SqlConcurrency \in Nat \ {0}
  /\ UsesIostat \in BOOLEAN
  /\ NoSlot \notin 0..Last
  /\ NoTime \notin 0..Last

Sources == SqlSources \cup HostSources
Slots == 0..Last

\* schedule, [schedule[-1]] or [schedule[0]]
Schedule(s) ==
  IF s \in HostSources \/ Scope[s] = "every_snapshot" THEN Slots
  ELSE IF Scope[s] = "window_end" THEN {Last} ELSE {0}

FirstSlot(s) == IF 0 \in Schedule(s) THEN 0 ELSE Last

VARIABLES
  now,       \* the last deadline that has passed
  loop,      \* state of each _run_scheduled_source
  next,      \* the point each loop looks at, Last + 1 at its end
  active,    \* the point of the task a loop has launched last
  task,      \* the guarded_collect task of every source and point
  samples,   \* successful observations in the order they were appended
  failed,    \* points with a recorded execution error
  skipped,   \* points with a sample_skipped_source_busy diagnostic
  baseline,  \* completion time of the previous successful sample
  permits,   \* free permits of sql_semaphore
  marks,     \* number of snapshot markers
  iostat,    \* the iostat task
  window     \* progress of collect_metric_items

loopVars == <<loop, next, active>>
resultVars == <<samples, failed, skipped, baseline>>
vars == <<now, loopVars, task, resultVars, permits, marks, iostat, window>>

Running == {"waiting", "executing"}
Observation == [slot : Slots, at : Slots, base : Slots \cup {NoTime}]

TypeOK ==
  /\ now \in Slots
  /\ loop \in [Sources -> {"looping", "unwinding", "ended"}]
  /\ next \in [Sources -> 0..(Last + 1)]
  /\ active \in [Sources -> Slots \cup {NoSlot}]
  /\ task \in [Sources -> [Slots -> Running \cup {"none", "done"}]]
  /\ samples \in [Sources -> Seq(Observation)]
  /\ failed \in [Sources -> SUBSET Slots]
  /\ skipped \in [Sources -> SUBSET Slots]
  /\ baseline \in [Sources -> Slots \cup {NoTime}]
  /\ permits \in 0..SqlConcurrency
  /\ marks \in 0..(Last + 1)
  /\ iostat \in {"off", "running", "ok", "failed", "cancelled"}
  /\ window \in {"open", "iostat", "cancelling", "closed", "cancelled"}

Init ==
  /\ now = 0
  /\ loop = [s \in Sources |-> "looping"]
  /\ next = [s \in Sources |-> FirstSlot(s)]
  /\ active = [s \in Sources |-> NoSlot]
  /\ task = [s \in Sources |-> [i \in Slots |-> "none"]]
  /\ samples = [s \in Sources |-> <<>>]
  /\ failed = [s \in Sources |-> {}]
  /\ skipped = [s \in Sources |-> {}]
  /\ baseline = [s \in Sources |-> NoTime]
  /\ permits = SqlConcurrency
  /\ marks = 0
  /\ iostat = IF UsesIostat THEN "running" ELSE "off"
  /\ window = "open"

Tick ==
  /\ window = "open" /\ now < Last
  /\ now' = now + 1
  /\ UNCHANGED <<loopVars, task, resultVars, permits, marks, iostat, window>>

--------------------------------------------------------------------------------
(* The loops of _run_scheduled_source.                                      *)

ActiveDone(s) == active[s] # NoSlot => task[s][active[s]] = "done"

NextSlot(s) == IF Schedule(s) = Slots THEN next[s] + 1 ELSE Last + 1

\* _sleep_until returned: the loop reached a deadline that has passed.
Due(s) ==
  /\ window = "open" /\ loop[s] = "looping"
  /\ next[s] \in Slots /\ next[s] <= now

Dispatch(s) ==
  /\ Due(s) /\ ActiveDone(s)
  /\ active' = [active EXCEPT ![s] = next[s]]
  /\ task' = [task EXCEPT ![s][next[s]] = IF s \in SqlSources THEN "waiting" ELSE "executing"]
  /\ next' = [next EXCEPT ![s] = NextSlot(s)]
  /\ UNCHANGED <<now, loop, resultVars, permits, marks, iostat, window>>

\* Mutant: the skip is not recorded.
SkipBusyUnrecorded(s) ==
  /\ Due(s) /\ ~ActiveDone(s)
  /\ next' = [next EXCEPT ![s] = NextSlot(s)]
  /\ UNCHANGED <<now, loop, active, task, resultVars, permits, marks, iostat, window>>

\* Mutant: points are also skipped when the pool is busy with other sources.
SkipWithoutPermit(s) ==
  /\ Due(s) /\ (permits = 0 \/ ~ActiveDone(s))
  /\ skipped' = [skipped EXCEPT ![s] = @ \cup {next[s]}]
  /\ next' = [next EXCEPT ![s] = NextSlot(s)]
  /\ UNCHANGED <<now, loop, active, task, samples, failed, baseline, permits,
                 marks, iostat, window>>

SkipBusy(s) ==
  /\ Due(s) /\ ~ActiveDone(s)
  /\ skipped' = [skipped EXCEPT ![s] = @ \cup {next[s]}]
  /\ next' = [next EXCEPT ![s] = NextSlot(s)]
  /\ UNCHANGED <<now, loop, active, task, samples, failed, baseline, permits,
                 marks, iostat, window>>

\* Mutant: the loop cancels its task and does not wait for it.
EndLoopEarly(s) ==
  /\ loop[s] = "unwinding" \/ (loop[s] = "looping" /\ next[s] = Last + 1 /\ ActiveDone(s))
  /\ loop' = [loop EXCEPT ![s] = "ended"]
  /\ UNCHANGED <<now, next, active, task, resultVars, permits, marks, iostat, window>>

\* The final await of the last task, or the one after its cancellation.
EndLoop(s) ==
  /\ \/ loop[s] = "looping" /\ next[s] = Last + 1
     \/ loop[s] = "unwinding"
  /\ ActiveDone(s)
  /\ loop' = [loop EXCEPT ![s] = "ended"]
  /\ UNCHANGED <<now, next, active, task, resultVars, permits, marks, iostat, window>>

--------------------------------------------------------------------------------
(* The observations: collect_proc_once, collect_process_once and            *)
(* collect_query_once under guarded_collect.                                *)

\* async with sql_semaphore
Acquire(s, i) ==
  /\ task[s][i] = "waiting" /\ loop[s] = "looping"
  /\ permits > 0
  /\ permits' = permits - 1
  /\ task' = [task EXCEPT ![s][i] = "executing"]
  /\ UNCHANGED <<now, loopVars, resultVars, marks, iostat, window>>

\* Mutant: the permit is lost.
TaskEndsHolding(s, i) ==
  /\ task' = [task EXCEPT ![s][i] = "done"]
  /\ UNCHANGED <<now, loopVars, skipped, permits, marks, iostat, window>>

TaskEnds(s, i) ==
  /\ task' = [task EXCEPT ![s][i] = "done"]
  /\ permits' = IF s \in SqlSources /\ task[s][i] = "executing" THEN permits + 1 ELSE permits
  /\ UNCHANGED <<now, loopVars, skipped, marks, iostat, window>>

\* The metadata is taken on completion; the previous observation of a host
\* sampler is replaced together with its time.
Observe(s, i) ==
  /\ task[s][i] = "executing"
  /\ samples' = [samples EXCEPT ![s] = Append(@, [slot |-> i, at |-> now, base |-> baseline[s]])]
  /\ baseline' = [baseline EXCEPT ![s] = now]
  /\ TaskEnds(s, i)
  /\ UNCHANGED failed

\* Mutant: the failed attempt becomes the start of the next rate.
ObservationFailsRebased(s, i) ==
  /\ task[s][i] = "executing"
  /\ failed' = [failed EXCEPT ![s] = @ \cup {i}]
  /\ baseline' = [baseline EXCEPT ![s] = now]
  /\ TaskEnds(s, i)
  /\ UNCHANGED samples

\* An exception or a status other than ok and empty is recorded for the source.
ObservationFails(s, i) ==
  /\ task[s][i] = "executing"
  /\ failed' = [failed EXCEPT ![s] = @ \cup {i}]
  /\ TaskEnds(s, i)
  /\ UNCHANGED <<samples, baseline>>

\* The cancelled task ends without a trace. Until then it may still complete:
\* the adapter swallows a cancellation while it drains a timed-out query.
ObservationCancelled(s, i) ==
  /\ task[s][i] \in Running
  /\ loop[s] = "unwinding"
  /\ TaskEnds(s, i)
  /\ UNCHANGED <<samples, baseline, failed>>

--------------------------------------------------------------------------------
(* The window.                                                              *)

\* _collect_snapshot_markers
Mark ==
  /\ window = "open"
  /\ marks <= Last /\ marks <= now
  /\ marks' = marks + 1
  /\ UNCHANGED <<now, loopVars, task, resultVars, permits, iostat, window>>

IostatEnds ==
  /\ iostat = "running"
  /\ iostat' \in {"ok", "failed"}
  /\ UNCHANGED <<now, loopVars, task, resultVars, permits, marks, window>>

LoopsEnded == \A s \in Sources : loop[s] = "ended"

GatherDone ==
  /\ window = "open"
  /\ LoopsEnded /\ marks = Last + 1
  /\ window' = "iostat"
  /\ UNCHANGED <<now, loopVars, task, resultVars, permits, marks, iostat>>

\* The iostat stream is awaited last, its failure isolated in its own source.
WindowCloses ==
  /\ window = "iostat" /\ iostat # "running"
  /\ window' = "closed"
  /\ UNCHANGED <<now, loopVars, task, resultVars, permits, marks, iostat>>

\* The run is cancelled. gather() cancels every loop; one that sleeps ends,
\* one that has a task running cancels it and waits for it.
CancelWindow ==
  /\ window = "open"
  /\ window' = "cancelling"
  /\ loop' = [s \in Sources |-> IF loop[s] = "looping" THEN "unwinding" ELSE loop[s]]
  /\ UNCHANGED <<now, next, active, task, resultVars, permits, marks, iostat>>

\* A cancellation that arrives while iostat is awaited goes to that task.
CancelIostatWait ==
  /\ window = "iostat"
  /\ window' = "cancelled"
  /\ iostat' = IF iostat = "running" THEN "cancelled" ELSE iostat
  /\ UNCHANGED <<now, loopVars, task, resultVars, permits, marks>>

\* The except block: after the loops, iostat is cancelled and awaited.
CancelIostat ==
  /\ window = "cancelling" /\ LoopsEnded
  /\ iostat = "running"
  /\ iostat' = "cancelled"
  /\ UNCHANGED <<now, loopVars, task, resultVars, permits, marks, window>>

WindowCancelled ==
  /\ window = "cancelling" /\ LoopsEnded
  /\ iostat # "running"
  /\ window' = "cancelled"
  /\ UNCHANGED <<now, loopVars, task, resultVars, permits, marks, iostat>>

--------------------------------------------------------------------------------

Source(s) ==
  \/ Dispatch(s) \/ SkipBusy(s) \/ EndLoop(s)
  \/ \E i \in Slots :
       \/ Acquire(s, i)
       \/ Observe(s, i) \/ ObservationFails(s, i) \/ ObservationCancelled(s, i)

Finish ==
  \/ Mark \/ IostatEnds
  \/ GatherDone \/ WindowCloses
  \/ CancelIostat \/ WindowCancelled

Next ==
  \/ Tick
  \/ \E s \in Sources : Source(s)
  \/ Finish
  \/ CancelWindow \/ CancelIostatWait

SafeSpec == Init /\ [][Next]_vars

\* Time passes, the event loop runs what is ready, and an observation ends:
\* execute_query returns (ClickHouseAdapter!ImplementsSession) and host scripts and
\* iostat run under a timeout.
Fairness ==
  /\ WF_vars(Tick)
  /\ \A s \in Sources : WF_vars(Source(s))
  /\ WF_vars(Finish)

Spec == SafeSpec /\ Fairness

--------------------------------------------------------------------------------
(* Properties.                                                              *)

SampledSlots(s) == {samples[s][k].slot : k \in 1..Len(samples[s])}
Decided(s) == SampledSlots(s) \cup failed[s] \cup skipped[s]

\* A source is never overlapped with itself (README, collection timing).
NoSelfOverlap ==
  \A s \in Sources : Cardinality({i \in Slots : task[s][i] \in Running}) <= 1

\* No scheduled point is lost and none is reported twice: a window that closes
\* has, for every source and point, exactly one sample, error or skip.
EverySlotDecidedOnce ==
  \A s \in Sources :
    /\ SampledSlots(s) \cap failed[s] = {}
    /\ SampledSlots(s) \cap skipped[s] = {}
    /\ failed[s] \cap skipped[s] = {}
    /\ Len(samples[s]) = Cardinality(SampledSlots(s))
    /\ window = "closed" => Decided(s) = Schedule(s)

\* The observations of a source are appended in schedule order with completion
\* times that never run backwards and never precede their deadline.
SamplesOrdered ==
  \A s \in Sources : \A k \in 1..Len(samples[s]) :
    /\ samples[s][k].slot <= samples[s][k].at
    /\ k > 1 => /\ samples[s][k - 1].slot < samples[s][k].slot
                /\ samples[s][k - 1].at <= samples[s][k].at

\* Counter rates use the time between neighbouring successful samples, across
\* whatever failed or was skipped between them (README, collection timing).
RatesSpanNeighbours ==
  \A s \in HostSources : \A k \in 1..Len(samples[s]) :
    samples[s][k].base = IF k = 1 THEN NoTime ELSE samples[s][k - 1].at

\* However an observation ends, its SQL permit returns exactly once.
PermitsConserved ==
  permits + Cardinality({x \in SqlSources \X Slots : task[x[1]][x[2]] = "executing"})
    = SqlConcurrency

\* When collect_metric_items has returned or raised, no loop, observation or
\* iostat process of it is left running on the event loop.
NothingLeftRunning ==
  window \in {"closed", "cancelled"} =>
    /\ LoopsEnded
    /\ \A s \in Sources, i \in Slots : task[s][i] \notin Running
    /\ iostat # "running"

--------------------------------------------------------------------------------
(* The window implements the ledger: in particular it ends, although sources *)
(* are slow and compete for the semaphore.                                  *)

LedgerEntry(s, i) ==
  IF i \in SampledSlots(s) THEN "sampled"
  ELSE IF i \in failed[s] THEN "failed"
  ELSE IF i \in skipped[s] THEN "skipped" ELSE "pending"

Ledger == INSTANCE SampleLedger WITH
  ledger <- [s \in Sources |-> [i \in Slots |-> LedgerEntry(s, i)]],
  window <- IF window \in {"closed", "cancelled"} THEN window ELSE "open"

\* The part without liveness.
LedgerSafety == Ledger!SafeSpec

ImplementsLedger == Ledger!Spec
================================================================================
