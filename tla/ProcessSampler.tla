----------------------------- MODULE ProcessSampler -----------------------------
(***************************************************************************)
(* The ClickHouse process and thread sampler of a snapshots run:            *)
(* collect_process_once in src/ch_diag/snapshots.py, the rates of           *)
(* src/ch_diag/samplers.py and the host script clickhouse_process.sh,       *)
(* next to a server whose threads come and go and which may restart.        *)
(*                                                                          *)
(* One unit of work stands for CPU ticks and bytes of I/O alike. A rate is  *)
(* the difference of a counter between two successful samples; the time     *)
(* between them is positive and left out.                                   *)
(***************************************************************************)
EXTENDS Naturals, FiniteSets

CONSTANTS
  Tids,         \* Linux thread ids, which the kernel reuses
  PidOf,        \* the pid of every generation of the server
  Limits,       \* values of config.max_process_threads
  NoProcess, NoSelection, NoPid, NoRate,
  MaxWork,      \* bound: units of work of a server
  MaxStarts,    \* bound: starts of threads
  MaxPoints     \* bound: scheduled points

Generations == DOMAIN PidOf

Counters == [Tids -> Nat]

\* What parse_clickhouse_process returns: the threads it has a row of have a
\* start time, those of io also an I/O counter.
Process == [generation : Generations, pid : Nat, total : Nat, access : BOOLEAN,
            start : Counters, work : Counters, io : SUBSET Tids]

ASSUME SamplerAssumption ==
  /\ Tids \subseteq Nat /\ IsFiniteSet(Tids)
  /\ Generations \subseteq Nat /\ 1 \in Generations
  /\ PidOf \in [Generations -> Nat]
  /\ Limits \subseteq Nat \ {0}
  /\ {MaxWork, MaxStarts, MaxPoints} \subseteq Nat
  /\ NoPid \notin Nat /\ NoRate \notin Nat
  /\ NoProcess \notin Process
  /\ \A threads \in SUBSET Tids : NoSelection # threads

VARIABLES
  generation,  \* how often the server has been started
  start,       \* start time of every running thread, 0 if there is none
  work,        \* counter of every running thread
  total,       \* counter of the process
  clock,       \* ticks since boot, as far as threads were started in them
  wanted,      \* whether a thread sampler is planned (thread_sampler_ids)
  limit,       \* config.max_process_threads
  last,        \* previous_process: the latest successful sample
  selected,    \* selected_thread_ids
  selectedPid, \* selected_process_pid
  discovered,  \* discovered_thread_count
  diagnostics, \* codes recorded for the thread samplers
  points,      \* scheduled points so far
  roster,      \* threads that ran when the current selection was made
  steady       \* threads seen by every sample of the current generation, and their number

server == <<generation, start, work, total, clock>>
sampler == <<last, selected, selectedPid, discovered, diagnostics, points>>
plan == <<wanted, limit>>
ghosts == <<roster, steady>>
vars == <<server, plan, sampler, ghosts>>

Codes == {"failed", "process_thread_limit", "process_thread_capture_incomplete",
          "process_thread_io_incomplete"}

TypeOK ==
  /\ generation \in Generations
  /\ start \in Counters /\ work \in Counters
  /\ total \in Nat /\ clock \in Nat
  /\ wanted \in BOOLEAN /\ limit \in Limits
  /\ last \in Process \cup {NoProcess}
  /\ selected \in {NoSelection} \cup ((SUBSET Tids) \ {{}})
  /\ selectedPid \in Nat \cup {NoPid}
  /\ discovered \in Nat
  /\ diagnostics \subseteq Codes
  /\ points \in Nat
  /\ roster \subseteq Tids
  /\ steady \in [threads : SUBSET Tids, since : Counters, samples : Nat]

Alive == {t \in Tids : start[t] # 0}

Init ==
  /\ generation = 1
  /\ start \in [Tids -> {0, 1}] /\ Alive # {}
  /\ work = [t \in Tids |-> 0]
  /\ total = 0 /\ clock = 1
  /\ wanted \in BOOLEAN /\ limit \in Limits
  /\ last = NoProcess
  /\ selected = NoSelection /\ selectedPid = NoPid /\ discovered = 0
  /\ diagnostics = {}
  /\ points = 0
  /\ roster = {}
  /\ steady = [threads |-> {}, since |-> [t \in Tids |-> 0], samples |-> 0]

--------------------------------------------------------------------------------
(* The server and the kernel.                                               *)

Work(t) ==
  /\ t \in Alive /\ total < MaxWork
  /\ work' = [work EXCEPT ![t] = @ + 1]
  /\ total' = total + 1
  /\ UNCHANGED <<generation, start, clock, plan, sampler, ghosts>>

\* A tid is free for reuse once its thread has exited; the new thread then
\* starts in a later tick.
Spawn(t) ==
  /\ t \notin Alive /\ clock < MaxStarts
  /\ clock' = clock + 1
  /\ start' = [start EXCEPT ![t] = clock']
  /\ work' = [work EXCEPT ![t] = 0]
  /\ UNCHANGED <<generation, total, plan, sampler, ghosts>>

Exit(t) ==
  /\ t \in Alive /\ Alive # {t}
  /\ start' = [start EXCEPT ![t] = 0]
  /\ work' = [work EXCEPT ![t] = 0]
  /\ UNCHANGED <<generation, total, clock, plan, sampler, ghosts>>

Restart ==
  /\ generation + 1 \in Generations
  /\ clock < MaxStarts
  /\ generation' = generation + 1
  /\ clock' = clock + 1
  /\ \E threads \in (SUBSET Tids) \ {{}} :
       start' = [t \in Tids |-> IF t \in threads THEN clock' ELSE 0]
  /\ work' = [t \in Tids |-> 0]
  /\ total' = 0

ServerRestarts == Restart /\ UNCHANGED <<plan, sampler, ghosts>>

--------------------------------------------------------------------------------
(* One sample.                                                              *)

\* sort -k1,1nr -k2,2n: the busier thread first, then the lower tid.
Precedes(s, t) == work[s] > work[t] \/ (work[s] = work[t] /\ s < t)

Busiest(visible) ==
  {t \in visible : Cardinality({s \in visible : Precedes(s, t)}) < limit}

Discovering == wanted /\ selected = NoSelection

\* The threads the script reports on, of those it can see.
Captured(visible) ==
  IF Discovering THEN Busiest(visible)
  ELSE IF wanted THEN selected \cap visible ELSE {}

Reading(visible, access, io) ==
  LET captured == Captured(visible)
  IN [generation |-> generation, pid |-> PidOf[generation], total |-> total,
      access |-> access,
      start |-> [t \in Tids |-> IF t \in captured THEN start[t] ELSE 0],
      work |-> [t \in Tids |-> IF t \in captured THEN work[t] ELSE 0],
      io |-> io \cap captured]

\* thread_coverage
Coverage(visible, io) ==
  [discovered |-> IF ~wanted THEN 0
                  ELSE IF Discovering THEN Cardinality(visible) ELSE discovered,
   selected |-> IF wanted /\ ~Discovering THEN Cardinality(selected)
                ELSE Cardinality(Captured(visible)),
   captured |-> Cardinality(Captured(visible)),
   io |-> Cardinality(io \cap Captured(visible))]

\* Mutant: one kind of gap hides the other.
DiagnosedOnce(coverage) ==
  IF coverage.discovered > coverage.selected THEN {"process_thread_limit"}
  ELSE IF coverage.captured < coverage.selected THEN {"process_thread_capture_incomplete"}
  ELSE IF coverage.io < coverage.captured THEN {"process_thread_io_incomplete"} ELSE {}

Diagnosed(coverage) ==
  (IF coverage.discovered > coverage.selected THEN {"process_thread_limit"} ELSE {})
  \cup (IF coverage.captured < coverage.selected
          THEN {"process_thread_capture_incomplete"} ELSE {})
  \cup (IF coverage.io < coverage.captured THEN {"process_thread_io_incomplete"} ELSE {})

\* tuple(...) or None
Select(threads) == IF threads = {} THEN NoSelection ELSE threads

\* Mutant: the selection outlives the process it was made for.
ForgetNothing(pid) == FALSE

\* elif selected_process_pid != int(current_process["pid"])
Forget(pid) == selectedPid # pid

UpdateSelection(visible) ==
  LET pid == PidOf[generation]
  IN /\ selected' = IF Discovering THEN Select(Captured(visible))
                    ELSE IF Forget(pid) THEN NoSelection ELSE selected
     /\ selectedPid' = IF Discovering THEN pid ELSE IF Forget(pid) THEN NoPid ELSE selectedPid
     /\ discovered' = IF Discovering THEN Cardinality(visible)
                      ELSE IF Forget(pid) THEN 0 ELSE discovered

\* The threads that every sample of this generation has seen.
Witness(visible) ==
  /\ roster' = IF Discovering THEN visible ELSE roster
  /\ steady' =
       LET again == last # NoProcess /\ last.generation = generation
       IN [threads |-> IF again THEN {t \in visible \cap steady.threads : start[t] = steady.since[t]}
                       ELSE visible,
           since |-> [t \in Tids |-> IF t \in visible THEN start[t] ELSE 0],
           samples |-> IF again THEN steady.samples + 1 ELSE 1]

\* The script ran while it could see these threads, and the I/O counters of the
\* process and of these threads were readable.
Observe(visible, access, io) ==
  /\ points < MaxPoints
  /\ points' = points + 1
  /\ last' = Reading(visible, access, io)
  /\ UpdateSelection(visible)
  /\ diagnostics' = diagnostics \cup Diagnosed(Coverage(visible, io))
  /\ Witness(visible)
  /\ UNCHANGED plan

Sample ==
  \E access \in BOOLEAN, io \in SUBSET Tids :
    /\ io \subseteq Captured(Alive)
    /\ access \/ io = {}
    /\ Observe(Alive, access, io)
    /\ UNCHANGED server

\* The server dies after its own counters were read, and with it its threads.
SampleDyingServer == Observe({}, FALSE, {}) /\ Restart

\* The script fails or times out: nothing but a diagnostic changes.
SampleFails ==
  /\ points < MaxPoints
  /\ points' = points + 1
  /\ diagnostics' = diagnostics \cup {"failed"}
  /\ UNCHANGED <<server, plan, last, selected, selectedPid, discovered, ghosts>>

Next ==
  \/ \E t \in Tids : Work(t) \/ Spawn(t) \/ Exit(t)
  \/ ServerRestarts
  \/ Sample \/ SampleDyingServer \/ SampleFails

Spec == Init /\ [][Next]_vars

--------------------------------------------------------------------------------
(* The rows of a sample, from the previous successful sample and this one.  *)

\* _counter_delta
CounterDelta(old, new) == IF new >= old THEN new - old ELSE NoRate

\* Processes are told apart by pid alone.
SameProcess(old, new) == old # NoProcess /\ old.pid = new.pid

\* cpu_pct of normalized_clickhouse_process_rows
ProcessCpu(old, new) ==
  IF SameProcess(old, new) THEN CounterDelta(old.total, new.total) ELSE NoRate

\* read_bytes_per_sec and write_bytes_per_sec
ProcessIo(old, new) ==
  IF SameProcess(old, new) /\ old.access /\ new.access
  THEN CounterDelta(old.total, new.total) ELSE NoRate

\* Mutant: threads are told apart by their tid only.
SameTid(old, new, t) == SameProcess(old, new) /\ old.start[t] # 0

SameThread(old, new, t) ==
  SameProcess(old, new) /\ old.start[t] # 0 /\ old.start[t] = new.start[t]

\* cpu_pct of normalized_clickhouse_thread_rows
ThreadCpu(old, new, t) ==
  IF SameThread(old, new, t) THEN CounterDelta(old.work[t], new.work[t]) ELSE NoRate

\* An I/O counter that could not be read is recorded as zero.
ThreadBytes(process, t) == IF t \in process.io THEN process.work[t] ELSE 0

ThreadIo(old, new, t) ==
  IF SameThread(old, new, t) /\ t \in old.io /\ t \in new.io
  THEN CounterDelta(ThreadBytes(old, t), ThreadBytes(new, t)) ELSE NoRate

ThreadRows(process) == {t \in Tids : process.start[t] # 0}

--------------------------------------------------------------------------------
(* Properties.                                                              *)

\* Whatever happens to the server, the rates of a thread row are the growth of
\* the counters of one and the same thread between two successful samples: a
\* reused tid gives a gap, and so does an I/O counter that could not be read.
ThreadRatesAreTrue ==
  [][last' # last =>
       \A t \in ThreadRows(last') :
         /\ ThreadCpu(last, last', t) # NoRate =>
              /\ last.generation = last'.generation
              /\ last.start[t] = last'.start[t]
              /\ last.work[t] + ThreadCpu(last, last', t) = last'.work[t]
         /\ ThreadIo(last, last', t) # NoRate =>
              ThreadIo(last, last', t) = ThreadCpu(last, last', t)]_vars

\* Sampling recovers from a restart: the second sample of a start of the server has
\* the rates of the process row. From the third on, every thread that all of them
\* saw has its row and its rate, unless the report says that threads were left out;
\* this needs a pid of its own for each start.
RatesResume ==
  [][last' # last =>
       /\ steady'.samples >= 2 =>
            /\ ProcessCpu(last, last') # NoRate
            /\ last.access /\ last'.access => ProcessIo(last, last') # NoRate
       /\ wanted /\ steady'.samples >= 3 /\ "process_thread_limit" \notin diagnostics' =>
            \A t \in steady'.threads :
              t \in ThreadRows(last') /\ ThreadCpu(last, last', t) # NoRate]_vars

\* "Reports expose selection and capture gaps instead of implying complete
\* thread coverage" (README), for the threads that ran when the selection was made:
\* without the diagnostic of the limit, the selection holds every tid of them;
\* without the one of the capture, no sample since then misses a tid of it; without
\* the one of I/O, every row has its I/O counters. Nothing reports a thread that is
\* born after the selection: it is neither selected nor counted.
GapsAreReported ==
  /\ selected # NoSelection =>
       /\ "process_thread_limit" \notin diagnostics => roster \subseteq selected
       /\ "process_thread_capture_incomplete" \notin diagnostics => selected \subseteq ThreadRows(last)
  /\ last # NoProcess /\ "process_thread_io_incomplete" \notin diagnostics =>
       ThreadRows(last) \subseteq last.io
================================================================================
