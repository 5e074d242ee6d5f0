-------------------------- MODULE ProcessSampler_proofs --------------------------
(***************************************************************************)
(* Proofs about ProcessSampler for any threads, limits and starts of the    *)
(* server. The argument: a start time is never given twice, so a thread of  *)
(* the latest sample that still has its start time is the same thread, of   *)
(* the same server, and its counter has not gone back.                      *)
(***************************************************************************)
EXTENDS ProcessSampler, FiniteSetTheorems, TLAPS

\* Start times are not in the future, and a server has a thread.
ServerInv ==
  /\ \A t \in Tids : start[t] <= clock
  /\ Alive # {}

\* The latest sample.
LastInv ==
  last # NoProcess =>
    /\ last.pid = PidOf[last.generation]
    /\ last.generation <= generation
    /\ last.generation = generation => last.total <= total
    /\ \A t \in Tids : last.start[t] <= clock
    /\ \A t \in Tids : last.start[t] # 0 /\ last.start[t] = start[t] =>
         last.generation = generation /\ last.work[t] <= work[t]

\* The current selection, and what the diagnostics say about it.
SelectionInv ==
  selected # NoSelection =>
    /\ wanted /\ last # NoProcess /\ selectedPid = PidOf[last.generation]
    /\ "process_thread_limit" \notin diagnostics => roster \subseteq selected
    /\ "process_thread_capture_incomplete" \notin diagnostics => selected \subseteq ThreadRows(last)

IoInv ==
  last # NoProcess /\ "process_thread_io_incomplete" \notin diagnostics =>
    ThreadRows(last) \subseteq last.io

Inv == TypeOK /\ ServerInv /\ LastInv /\ SelectionInv /\ IoInv

LEMMA InitInv == Init => Inv
<1>. SUFFICES ASSUME Init PROVE Inv
  OBVIOUS
<1>. USE SamplerAssumption
<1>1. TypeOK
  <2>1. start \in Counters /\ work \in Counters
    BY DEF Init, Counters
  <2>2. steady \in [threads : SUBSET Tids, since : Counters, samples : Nat]
    BY DEF Init, Counters
  <2>3. /\ generation \in Generations /\ total \in Nat /\ clock \in Nat
        /\ wanted \in BOOLEAN /\ limit \in Limits /\ last \in Process \cup {NoProcess}
        /\ selected \in {NoSelection} \cup ((SUBSET Tids) \ {{}})
        /\ selectedPid \in Nat \cup {NoPid} /\ discovered \in Nat
        /\ diagnostics \subseteq Codes /\ points \in Nat /\ roster \subseteq Tids
    BY DEF Init
  <2>. QED  BY <2>1, <2>2, <2>3 DEF TypeOK
<1>2. ServerInv
  BY DEF Init, ServerInv
<1>. QED  BY <1>1, <1>2 DEF Inv, Init, LastInv, SelectionInv, IoInv

--------------------------------------------------------------------------------
(* What a sample reads.                                                     *)

LEMMA ThreadsFinite == \A threads \in SUBSET Tids :
                         IsFiniteSet(threads) /\ Cardinality(threads) \in Nat
BY SamplerAssumption, FS_Subset, FS_CardinalityType

LEMMA BusiestVisible == ASSUME NEW visible \in SUBSET Tids PROVE Busiest(visible) \subseteq visible
BY DEF Busiest

LEMMA CapturedVisible ==
  ASSUME TypeOK, NEW visible \in SUBSET Tids
  PROVE  /\ Captured(visible) \subseteq visible
         /\ wanted /\ selected # NoSelection => Captured(visible) \subseteq selected
BY BusiestVisible DEF Captured, Discovering

\* The sample that is kept.
LEMMA ReadingFacts ==
  ASSUME TypeOK, NEW visible \in SUBSET Alive, NEW access \in BOOLEAN, NEW io \in SUBSET Tids,
         last' = Reading(visible, access, io)
  PROVE  /\ last' \in Process
         /\ last'.generation = generation /\ last'.pid = PidOf[generation]
         /\ last'.total = total /\ last'.io = io \cap Captured(visible)
         /\ \A t \in Tids : /\ last'.start[t] = IF t \in Captured(visible) THEN start[t] ELSE 0
                            /\ last'.work[t] = IF t \in Captured(visible) THEN work[t] ELSE 0
         /\ ThreadRows(last') = Captured(visible)
<1>. DEFINE captured == Captured(visible)
<1>1. captured \subseteq visible /\ visible \subseteq Tids /\ \A t \in captured : start[t] # 0
  BY CapturedVisible DEF Alive
<1>2. last' = [generation |-> generation, pid |-> PidOf[generation], total |-> total,
               access |-> access,
               start |-> [t \in Tids |-> IF t \in captured THEN start[t] ELSE 0],
               work |-> [t \in Tids |-> IF t \in captured THEN work[t] ELSE 0],
               io |-> io \cap captured]
  BY DEF Reading
<1>3. /\ generation \in Generations /\ PidOf[generation] \in Nat /\ total \in Nat
      /\ start \in [Tids -> Nat] /\ work \in [Tids -> Nat]
  BY SamplerAssumption DEF TypeOK, Counters
<1>4. last' \in Process
  BY <1>1, <1>2, <1>3 DEF Process, Counters
<1>5. \A t \in Tids : /\ last'.start[t] = IF t \in captured THEN start[t] ELSE 0
                      /\ last'.work[t] = IF t \in captured THEN work[t] ELSE 0
  BY <1>2
<1>6. ThreadRows(last') = captured
  BY <1>1, <1>5 DEF ThreadRows
<1>. QED  BY <1>2, <1>4, <1>5, <1>6

\* A set of threads that the diagnostic of the limit does not count as cut off,
\* and a selection that the one of the capture does not count as missed.
LEMMA CoverageFacts ==
  ASSUME TypeOK, NEW visible \in SUBSET Tids, NEW io \in SUBSET Tids
  PROVE  /\ Discovering
              /\ "process_thread_limit" \notin Diagnosed(Coverage(visible, io)) =>
              Captured(visible) = visible
         /\ wanted /\ ~Discovering
              /\ "process_thread_capture_incomplete" \notin Diagnosed(Coverage(visible, io)) =>
              Captured(visible) = selected
         /\ "process_thread_io_incomplete" \notin Diagnosed(Coverage(visible, io)) =>
              Captured(visible) \subseteq io
<1>1. ASSUME Discovering, "process_thread_limit" \notin Diagnosed(Coverage(visible, io))
      PROVE  Captured(visible) = visible
  <2>1. ~(Cardinality(visible) > Cardinality(Captured(visible)))
    BY <1>1 DEF Diagnosed, Coverage, Discovering
  <2>2. Captured(visible) \in SUBSET visible /\ Captured(visible) \in SUBSET Tids
    BY CapturedVisible
  <2>3. Cardinality(visible) = Cardinality(Captured(visible))
    BY <2>1, <2>2, ThreadsFinite, FS_Subset
  <2>. QED  BY <2>2, <2>3, ThreadsFinite, FS_Subset
<1>2. ASSUME wanted, ~Discovering,
             "process_thread_capture_incomplete" \notin Diagnosed(Coverage(visible, io))
      PROVE  Captured(visible) = selected
  <2>1. ~(Cardinality(Captured(visible)) < Cardinality(selected))
    BY <1>2 DEF Diagnosed, Coverage
  <2>2. /\ selected # NoSelection /\ selected \in SUBSET Tids
        /\ Captured(visible) \in SUBSET selected /\ Captured(visible) \in SUBSET Tids
    BY <1>2, CapturedVisible DEF Discovering, TypeOK
  <2>3. Cardinality(selected) = Cardinality(Captured(visible))
    BY <2>1, <2>2, ThreadsFinite, FS_Subset
  <2>. QED  BY <2>2, <2>3, ThreadsFinite, FS_Subset
<1>3. ASSUME "process_thread_io_incomplete" \notin Diagnosed(Coverage(visible, io))
      PROVE  Captured(visible) \subseteq io
  <2>1. ~(Cardinality(io \cap Captured(visible)) < Cardinality(Captured(visible)))
    BY <1>3 DEF Diagnosed, Coverage
  <2>2. /\ Captured(visible) \in SUBSET Tids
        /\ io \cap Captured(visible) \in SUBSET Captured(visible)
        /\ io \cap Captured(visible) \in SUBSET Tids
    BY CapturedVisible
  <2>3. Cardinality(io \cap Captured(visible)) = Cardinality(Captured(visible))
    BY <2>1, <2>2, ThreadsFinite, FS_Subset
  <2>. QED  BY <2>2, <2>3, ThreadsFinite, FS_Subset
<1>. QED  BY <1>1, <1>2, <1>3

--------------------------------------------------------------------------------
(* The steps of the server.                                                 *)

ServerMoves == (\E t \in Tids : Work(t) \/ Spawn(t) \/ Exit(t)) \/ Restart

\* A thread that keeps its start time keeps its server and does not lose work; a
\* new one starts later than any before.
LEMMA ServerStep ==
  ASSUME TypeOK, ServerInv, ServerMoves
  PROVE  /\ generation' \in Generations /\ start' \in Counters /\ work' \in Counters
         /\ total' \in Nat /\ clock' \in Nat
         /\ ServerInv'
         /\ clock <= clock'
         /\ \/ generation' = generation /\ total <= total'
            \/ generation' = generation + 1
         /\ \A t \in Tids : start'[t] = start[t] /\ start[t] # 0 =>
              generation' = generation /\ work[t] <= work'[t]
         /\ \A t \in Tids : start'[t] \in {0, start[t]} \/ start'[t] > clock
<1>. DEFINE Goal ==
         /\ generation' \in Generations /\ start' \in Counters /\ work' \in Counters
         /\ total' \in Nat /\ clock' \in Nat
         /\ ServerInv'
         /\ clock <= clock'
         /\ \/ generation' = generation /\ total <= total'
            \/ generation' = generation + 1
         /\ \A t \in Tids : start'[t] = start[t] /\ start[t] # 0 =>
              generation' = generation /\ work[t] <= work'[t]
         /\ \A t \in Tids : start'[t] \in {0, start[t]} \/ start'[t] > clock
<1>0. /\ generation \in Generations /\ start \in [Tids -> Nat] /\ work \in [Tids -> Nat]
      /\ total \in Nat /\ clock \in Nat
      /\ \A t \in Tids : start[t] <= clock
      /\ Alive # {} /\ Alive \subseteq Tids
  BY DEF TypeOK, Counters, ServerInv, Alive
<1>1. ASSUME NEW t \in Tids, Work(t) PROVE Goal
  <2>1. /\ work' = [work EXCEPT ![t] = @ + 1] /\ total' = total + 1
        /\ UNCHANGED <<generation, start, clock>>
    BY <1>1 DEF Work
  <2>2. \A r \in Tids : work[r] <= work'[r]
    BY <1>0, <2>1
  <2>. QED  BY <1>0, <2>1, <2>2 DEF Counters, ServerInv, Alive
<1>2. ASSUME NEW t \in Tids, Spawn(t) PROVE Goal
  <2>1. /\ start[t] = 0 /\ clock' = clock + 1
        /\ start' = [start EXCEPT ![t] = clock + 1] /\ work' = [work EXCEPT ![t] = 0]
        /\ UNCHANGED <<generation, total>>
    BY <1>2 DEF Spawn, Alive
  <2>2. start' \in [Tids -> Nat] /\ work' \in [Tids -> Nat]
    BY <1>0, <2>1
  <2>3. start'[t] = clock + 1 /\ \A r \in Tids \ {t} : start'[r] = start[r] /\ work'[r] = work[r]
    BY <1>0, <2>1
  <2>4. ServerInv'
    <3>1. t \in Alive'
      BY <1>0, <2>3 DEF Alive
    <3>2. \A r \in Tids : start'[r] <= clock'
      BY <1>0, <2>1, <2>3
    <3>. QED  BY <3>1, <3>2 DEF ServerInv
  <2>5. \A r \in Tids : start'[r] = start[r] /\ start[r] # 0 => work[r] <= work'[r]
    BY <1>0, <2>1, <2>3
  <2>6. \A r \in Tids : start'[r] \in {0, start[r]} \/ start'[r] > clock
    BY <1>0, <2>3
  <2>. QED  BY <1>0, <2>1, <2>2, <2>4, <2>5, <2>6 DEF Counters
<1>3. ASSUME NEW t \in Tids, Exit(t) PROVE Goal
  <2>1. /\ t \in Alive /\ Alive # {t}
        /\ start' = [start EXCEPT ![t] = 0] /\ work' = [work EXCEPT ![t] = 0]
        /\ UNCHANGED <<generation, total, clock>>
    BY <1>3 DEF Exit
  <2>2. start' \in [Tids -> Nat] /\ work' \in [Tids -> Nat]
    BY <1>0, <2>1
  <2>3. start'[t] = 0 /\ \A r \in Tids \ {t} : start'[r] = start[r] /\ work'[r] = work[r]
    BY <1>0, <2>1
  <2>4. ServerInv'
    <3>1. PICK r \in Alive : r # t
      <4>1. ~(Alive \subseteq {t})
        BY <2>1
      <4>. QED  BY <4>1
    <3>2. r \in Alive'
      BY <1>0, <2>3, <3>1 DEF Alive
    <3>3. \A q \in Tids : start'[q] <= clock'
      BY <1>0, <2>1, <2>3
    <3>. QED  BY <3>2, <3>3 DEF ServerInv
  <2>5. \A r \in Tids : start'[r] = start[r] /\ start[r] # 0 => work[r] <= work'[r]
    BY <1>0, <2>3
  <2>6. \A r \in Tids : start'[r] \in {0, start[r]}
    BY <2>3
  <2>. QED  BY <1>0, <2>1, <2>2, <2>4, <2>5, <2>6 DEF Counters
<1>4. ASSUME Restart PROVE Goal
  <2>1. PICK threads \in (SUBSET Tids) \ {{}} :
          start' = [t \in Tids |-> IF t \in threads THEN clock' ELSE 0]
    BY <1>4 DEF Restart
  <2>2. /\ generation' = generation + 1 /\ generation' \in Generations
        /\ clock' = clock + 1 /\ work' = [t \in Tids |-> 0] /\ total' = 0
    BY <1>4 DEF Restart
  <2>3. \A t \in Tids : start'[t] \in {0, clock + 1}
    BY <2>1, <2>2
  <2>4. ServerInv'
    <3>1. PICK r \in threads : r \in Tids
      BY <2>1
    <3>2. r \in Alive'
      BY <1>0, <2>1, <2>2, <3>1 DEF Alive
    <3>3. \A q \in Tids : start'[q] <= clock'
      BY <1>0, <2>2, <2>3
    <3>. QED  BY <3>2, <3>3 DEF ServerInv
  <2>5. start' \in [Tids -> Nat] /\ work' \in [Tids -> Nat]
    BY <1>0, <2>1, <2>2
  <2>6. \A t \in Tids : ~(start'[t] = start[t] /\ start[t] # 0)
    BY <1>0, <2>3
  <2>7. \A t \in Tids : start'[t] = 0 \/ start'[t] > clock
    BY <1>0, <2>3
  <2>. QED  BY <1>0, <2>2, <2>4, <2>5, <2>6, <2>7 DEF Counters
<1>. QED  BY <1>1, <1>2, <1>3, <1>4 DEF ServerMoves

\* A step of the server alone.
LEMMA ServerKeepsInv ==
  ASSUME Inv, ServerMoves, UNCHANGED <<plan, sampler, ghosts>>
  PROVE  Inv'
<1>. USE DEF plan, sampler, ghosts
<1>1. TypeOK /\ ServerInv /\ LastInv /\ SelectionInv /\ IoInv
  BY DEF Inv
<1>2. TypeOK'
  BY <1>1, ServerStep DEF TypeOK
<1>3. LastInv'
  <2>1. SUFFICES ASSUME last # NoProcess
        PROVE  /\ last.generation <= generation'
               /\ last.generation = generation' => last.total <= total'
               /\ \A t \in Tids : last.start[t] <= clock'
               /\ \A t \in Tids : last.start[t] # 0 /\ last.start[t] = start'[t] =>
                    last.generation = generation' /\ last.work[t] <= work'[t]
    BY <1>1 DEF LastInv
  <2>2. /\ last.start \in [Tids -> Nat] /\ last.work \in [Tids -> Nat]
        /\ clock \in Nat /\ start \in [Tids -> Nat] /\ work \in [Tids -> Nat]
        /\ clock' \in Nat /\ work' \in [Tids -> Nat]
    BY <1>1, <2>1, ServerStep DEF TypeOK, Process, Counters
  <2>3. \A t \in Tids : last.start[t] <= clock
    BY <1>1, <2>1 DEF LastInv
  <2>4. ASSUME NEW t \in Tids, last.start[t] # 0, last.start[t] = start'[t]
        PROVE  last.generation = generation' /\ last.work[t] <= work'[t]
    <3>1. start'[t] = start[t]
      BY <1>1, <2>2, <2>3, <2>4, ServerStep
    <3>2. generation' = generation /\ work[t] <= work'[t]
      BY <1>1, <2>4, <3>1, ServerStep
    <3>3. last.generation = generation /\ last.work[t] <= work[t]
      BY <1>1, <2>1, <2>4, <3>1 DEF LastInv
    <3>. QED  BY <2>2, <3>2, <3>3
  <2>5. clock <= clock'
    BY <1>1, ServerStep
  <2>6. last.generation <= generation' /\ (last.generation = generation' => last.total <= total')
    <3>1. /\ last.generation \in Nat /\ generation \in Nat
          /\ last.total \in Nat /\ total \in Nat /\ total' \in Nat
      BY <1>1, <1>2, <2>1, SamplerAssumption DEF TypeOK, Process
    <3>2. last.generation <= generation /\ (last.generation = generation => last.total <= total)
      BY <1>1, <2>1 DEF LastInv
    <3>3. \/ generation' = generation /\ total <= total'
          \/ generation' = generation + 1
      BY <1>1, ServerStep
    <3>. QED  BY <3>1, <3>2, <3>3
  <2>. QED  BY <2>2, <2>3, <2>4, <2>5, <2>6
<1>4. SelectionInv' /\ IoInv'
  BY <1>1 DEF SelectionInv, IoInv, ThreadRows
<1>. QED  BY <1>1, <1>2, <1>3, <1>4, ServerStep DEF Inv

--------------------------------------------------------------------------------
(* The steps of the sampler.                                                *)

\* Whatever the server does afterwards.
LEMMA ObserveTypes ==
  ASSUME TypeOK, NEW visible \in SUBSET Alive, NEW access \in BOOLEAN, NEW io \in SUBSET Tids,
         Observe(visible, access, io)
  PROVE  /\ last' \in Process \cup {NoProcess}
         /\ selected' \in {NoSelection} \cup ((SUBSET Tids) \ {{}})
         /\ selectedPid' \in Nat \cup {NoPid} /\ discovered' \in Nat
         /\ diagnostics' \subseteq Codes /\ points' \in Nat /\ roster' \subseteq Tids
         /\ steady' \in [threads : SUBSET Tids, since : Counters, samples : Nat]
         /\ wanted' = wanted /\ limit' = limit
<1>. USE DEF Observe, plan
<1>1. visible \in SUBSET Tids
  BY DEF Alive
<1>2. last' \in Process
  BY ReadingFacts
<1>3. /\ selected' \in {NoSelection} \cup ((SUBSET Tids) \ {{}})
      /\ selectedPid' \in Nat \cup {NoPid} /\ discovered' \in Nat
  <2>1. Captured(visible) \in SUBSET Tids /\ Cardinality(visible) \in Nat
    BY <1>1, CapturedVisible, ThreadsFinite
  <2>2. PidOf[generation] \in Nat
    BY SamplerAssumption DEF TypeOK
  <2>. QED  BY <2>1, <2>2 DEF UpdateSelection, Select, TypeOK
<1>4. diagnostics' \subseteq Codes
  BY DEF Diagnosed, Codes, TypeOK
<1>5. roster' \subseteq Tids /\ points' \in Nat
  BY <1>1 DEF Witness, TypeOK
<1>6. steady' \in [threads : SUBSET Tids, since : Counters, samples : Nat]
  <2>. DEFINE again == last # NoProcess /\ last.generation = generation
  <2>1. steady' = [threads |-> IF again THEN {t \in visible \cap steady.threads : start[t] = steady.since[t]}
                               ELSE visible,
                   since |-> [t \in Tids |-> IF t \in visible THEN start[t] ELSE 0],
                   samples |-> IF again THEN steady.samples + 1 ELSE 1]
    BY DEF Witness
  <2>2. /\ steady.samples \in Nat /\ start \in [Tids -> Nat]
    BY DEF TypeOK, Counters
  <2>3. [t \in Tids |-> IF t \in visible THEN start[t] ELSE 0] \in Counters
    BY <2>2 DEF Counters
  <2>. QED  BY <1>1, <2>1, <2>2, <2>3
<1>. QED  BY <1>2, <1>3, <1>4, <1>5, <1>6

\* The selection after a sample.
LEMMA ObserveSelection ==
  ASSUME TypeOK, SelectionInv, NEW visible \in SUBSET Alive, NEW access \in BOOLEAN,
         NEW io \in SUBSET Tids, Observe(visible, access, io), last' # NoProcess
  PROVE  SelectionInv'
<1>. USE DEF plan
<1>. SUFFICES ASSUME selected' # NoSelection
     PROVE  /\ wanted /\ selectedPid' = PidOf[last'.generation]
            /\ "process_thread_limit" \notin diagnostics' => roster' \subseteq selected'
            /\ "process_thread_capture_incomplete" \notin diagnostics' =>
                 selected' \subseteq ThreadRows(last')
  BY DEF SelectionInv, ThreadRows, Observe
<1>1. /\ visible \in SUBSET Tids
      /\ last'.generation = generation /\ ThreadRows(last') = Captured(visible)
  BY ReadingFacts DEF Alive, Observe
<1>2. diagnostics \subseteq diagnostics'
      /\ Diagnosed(Coverage(visible, io)) \subseteq diagnostics'
  BY DEF Observe
<1>3. CASE Discovering
  <2>1. selected' = Captured(visible) /\ selectedPid' = PidOf[generation] /\ roster' = visible
    BY <1>3 DEF Observe, UpdateSelection, Select, Witness
  <2>2. "process_thread_limit" \notin diagnostics' => Captured(visible) = visible
    BY <1>1, <1>2, <1>3, CoverageFacts DEF Discovering
  <2>. QED  BY <1>1, <1>3, <2>1, <2>2 DEF Discovering
<1>4. CASE ~Discovering
  <2>1. /\ selected' = selected /\ selectedPid' = PidOf[generation] /\ selected # NoSelection
        /\ roster' = roster
    BY <1>4 DEF Observe, UpdateSelection, Forget, Witness, SelectionInv, Discovering
  <2>2. wanted
    BY <2>1 DEF SelectionInv
  <2>3. "process_thread_capture_incomplete" \notin diagnostics' => Captured(visible) = selected
    BY <1>1, <1>2, <1>4, <2>2, CoverageFacts
  <2>. QED  BY <1>1, <1>2, <2>1, <2>2, <2>3 DEF SelectionInv
<1>. QED  BY <1>3, <1>4

\* The I/O counters after a sample.
LEMMA ObserveIo ==
  ASSUME TypeOK, NEW visible \in SUBSET Alive, NEW access \in BOOLEAN,
         NEW io \in SUBSET Tids, Observe(visible, access, io)
  PROVE  IoInv'
<1>1. visible \in SUBSET Tids
  BY DEF Alive
<1>2. last'.io = io \cap Captured(visible) /\ ThreadRows(last') = Captured(visible)
  BY ReadingFacts DEF Observe
<1>3. "process_thread_io_incomplete" \notin diagnostics' => Captured(visible) \subseteq io
  BY <1>1, CoverageFacts DEF Observe
<1>. QED  BY <1>2, <1>3 DEF IoInv, ThreadRows

LEMMA SampleKeepsInv ==
  ASSUME Inv, Sample
  PROVE  Inv'
<1>. USE DEF server
<1>1. TypeOK /\ ServerInv /\ LastInv /\ SelectionInv /\ IoInv
  BY DEF Inv
<1>2. PICK access \in BOOLEAN, io \in SUBSET Tids : Observe(Alive, access, io) /\ UNCHANGED server
  BY DEF Sample
<1>3. Alive \in SUBSET Alive /\ last' = Reading(Alive, access, io)
  BY <1>2 DEF Observe
<1>4. TypeOK'
  <2>1. /\ last' \in Process \cup {NoProcess}
        /\ selected' \in {NoSelection} \cup ((SUBSET Tids) \ {{}})
        /\ selectedPid' \in Nat \cup {NoPid} /\ discovered' \in Nat
        /\ diagnostics' \subseteq Codes /\ points' \in Nat /\ roster' \subseteq Tids
        /\ steady' \in [threads : SUBSET Tids, since : Counters, samples : Nat]
        /\ wanted' = wanted /\ limit' = limit
    BY <1>1, <1>2, <1>3, ObserveTypes
  <2>. QED  BY <1>1, <1>2, <2>1 DEF TypeOK
<1>5. ServerInv'
  BY <1>1, <1>2 DEF ServerInv, Alive
<1>6. LastInv'
  <2>1. /\ last'.generation = generation /\ last'.pid = PidOf[generation] /\ last'.total = total
        /\ \A t \in Tids : /\ last'.start[t] = IF t \in Captured(Alive) THEN start[t] ELSE 0
                           /\ last'.work[t] = IF t \in Captured(Alive) THEN work[t] ELSE 0
    BY <1>1, <1>3, ReadingFacts
  <2>2. \A t \in Tids : start[t] \in Nat /\ work[t] \in Nat /\ start[t] <= clock /\ 0 <= clock
    BY <1>1 DEF TypeOK, Counters, ServerInv
  <2>3. generation \in Nat /\ total \in Nat
    BY <1>1, SamplerAssumption DEF TypeOK
  <2>. QED  BY <1>2, <2>1, <2>2, <2>3 DEF LastInv
<1>7. SelectionInv'
  <2>1. last' \in Process
    BY <1>1, <1>3, ReadingFacts
  <2>. QED  BY <1>1, <1>2, <1>3, <2>1, ObserveSelection, SamplerAssumption
<1>8. IoInv'
  BY <1>1, <1>2, <1>3, ObserveIo
<1>. QED  BY <1>4, <1>5, <1>6, <1>7, <1>8 DEF Inv

LEMMA DyingKeepsInv ==
  ASSUME Inv, SampleDyingServer
  PROVE  Inv'
<1>1. TypeOK /\ ServerInv /\ LastInv /\ SelectionInv /\ IoInv
  BY DEF Inv
<1>2. Observe({}, FALSE, {}) /\ ServerMoves /\ last' = Reading({}, FALSE, {})
      /\ {} \in SUBSET Alive /\ {} \in SUBSET Tids
  BY DEF SampleDyingServer, ServerMoves, Observe
<1>3. Captured({}) = {}
  BY <1>1, <1>2, CapturedVisible
<1>4. /\ last' \in Process /\ last'.pid = PidOf[last'.generation]
      /\ \A t \in Tids : last'.start[t] = 0
  BY <1>1, <1>2, <1>3, ReadingFacts
<1>5. TypeOK'
  <2>1. /\ last' \in Process \cup {NoProcess}
        /\ selected' \in {NoSelection} \cup ((SUBSET Tids) \ {{}})
        /\ selectedPid' \in Nat \cup {NoPid} /\ discovered' \in Nat
        /\ diagnostics' \subseteq Codes /\ points' \in Nat /\ roster' \subseteq Tids
        /\ steady' \in [threads : SUBSET Tids, since : Counters, samples : Nat]
        /\ wanted' = wanted /\ limit' = limit
    BY <1>1, <1>2, ObserveTypes
  <2>2. /\ generation' \in Generations /\ start' \in Counters /\ work' \in Counters
        /\ total' \in Nat /\ clock' \in Nat
    BY <1>1, <1>2, ServerStep
  <2>. QED  BY <1>1, <2>1, <2>2 DEF TypeOK
<1>6. LastInv'
  <2>1. clock' \in Nat /\ generation \in Nat
    BY <1>1, <1>5, SamplerAssumption DEF TypeOK
  <2>2. last'.generation = generation /\ generation' = generation + 1
    BY <1>1, <1>2, ReadingFacts DEF SampleDyingServer, Restart
  <2>. QED  BY <1>4, <2>1, <2>2 DEF LastInv
<1>7. SelectionInv'
  BY <1>1, <1>2, <1>4, ObserveSelection, SamplerAssumption
<1>8. ServerInv'
  BY <1>1, <1>2, ServerStep
<1>9. IoInv'
  BY <1>1, <1>2, ObserveIo
<1>. QED  BY <1>5, <1>6, <1>7, <1>8, <1>9 DEF Inv

LEMMA FailureKeepsInv ==
  ASSUME Inv, SampleFails
  PROVE  Inv'
<1>. USE DEF SampleFails, server, plan, ghosts
<1>1. TypeOK /\ ServerInv /\ LastInv /\ SelectionInv /\ IoInv
  BY DEF Inv
<1>2. TypeOK'
  BY <1>1 DEF TypeOK, Codes
<1>3. ServerInv' /\ LastInv'
  BY <1>1 DEF ServerInv, LastInv, Alive
<1>4. SelectionInv' /\ IoInv'
  BY <1>1 DEF SelectionInv, IoInv, ThreadRows
<1>. QED  BY <1>2, <1>3, <1>4 DEF Inv

\* The three kinds of steps.
LEMMA Steps ==
  ASSUME [Next]_vars
  PROVE  \/ ServerMoves /\ UNCHANGED <<plan, sampler, ghosts>>
         \/ Sample \/ SampleDyingServer \/ SampleFails
         \/ UNCHANGED vars
<1>1. ASSUME NEW t \in Tids, Work(t) \/ Spawn(t) \/ Exit(t)
      PROVE  ServerMoves /\ UNCHANGED <<plan, sampler, ghosts>>
  BY <1>1 DEF ServerMoves, Work, Spawn, Exit
<1>2. ASSUME ServerRestarts PROVE ServerMoves /\ UNCHANGED <<plan, sampler, ghosts>>
  BY <1>2 DEF ServerMoves, ServerRestarts
<1>. QED  BY <1>1, <1>2 DEF Next

LEMMA Inductive == Inv /\ [Next]_vars => Inv'
<1>. SUFFICES ASSUME Inv, [Next]_vars PROVE Inv'
  OBVIOUS
<1>1. CASE ServerMoves /\ UNCHANGED <<plan, sampler, ghosts>>
  BY <1>1, ServerKeepsInv
<1>2. CASE Sample
  BY <1>2, SampleKeepsInv
<1>3. CASE SampleDyingServer
  BY <1>3, DyingKeepsInv
<1>4. CASE SampleFails
  BY <1>4, FailureKeepsInv
<1>5. CASE UNCHANGED vars
  <2>. USE <1>5 DEF vars, server, plan, sampler, ghosts, Inv
  <2>1. TypeOK'
    BY DEF TypeOK
  <2>2. ServerInv' /\ LastInv'
    BY DEF ServerInv, LastInv, Alive
  <2>3. SelectionInv' /\ IoInv'
    BY DEF SelectionInv, IoInv, ThreadRows
  <2>. QED  BY <2>1, <2>2, <2>3
<1>. QED  BY <1>1, <1>2, <1>3, <1>4, <1>5, Steps

LEMMA Invariance == Spec => []Inv
<1>. QED  BY InitInv, Inductive, PTL DEF Spec

--------------------------------------------------------------------------------
(* The theorems.                                                            *)

\* Every variable of the sampler keeps its type.
THEOREM TypeCorrect == Spec => []TypeOK
<1>1. Inv => TypeOK
  BY DEF Inv
<1>. QED  BY <1>1, Invariance, PTL

\* Without their diagnostics, the selection has every thread that ran when it was
\* made, the latest sample has every thread of the selection, and each of its threads
\* has its I/O counters.
THEOREM CoverageIsHonest == Spec => []GapsAreReported
<1>1. Inv => GapsAreReported
  BY DEF Inv, SelectionInv, IoInv, GapsAreReported
<1>. QED  BY <1>1, Invariance, PTL

LEMMA SampleReads ==
  ASSUME TypeOK, Sample \/ SampleDyingServer
  PROVE  /\ \E visible \in SUBSET Alive, access \in BOOLEAN, io \in SUBSET Tids :
              last' = Reading(visible, access, io)
         /\ last' \in Process
<1>1. PICK visible \in SUBSET Alive, access \in BOOLEAN, io \in SUBSET Tids :
        last' = Reading(visible, access, io)
  <2>1. CASE Sample
    BY <2>1 DEF Sample, Observe, Alive
  <2>2. CASE SampleDyingServer
    BY <2>2 DEF SampleDyingServer, Observe
  <2>. QED  BY <2>1, <2>2
<1>2. last' \in Process
  BY <1>1, ReadingFacts
<1>. QED  BY <1>1, <1>2

\* Two samples with rows of one thread and start time are of one server, and the
\* counter has not gone back in between.
LEMMA SameThreadSameServer ==
  ASSUME Inv, TypeOK, Sample \/ SampleDyingServer, NEW t \in Tids, SameThread(last, last', t)
  PROVE  /\ last.generation = last'.generation
         /\ last.work[t] \in Nat /\ last'.work[t] \in Nat /\ last.work[t] <= last'.work[t]
<1>1. PICK visible \in SUBSET Alive, access \in BOOLEAN, io \in SUBSET Tids :
        last' = Reading(visible, access, io)
  BY SampleReads
<1>2. /\ last' \in Process /\ last'.generation = generation
      /\ last'.start[t] = IF t \in Captured(visible) THEN start[t] ELSE 0
      /\ last'.work[t] = IF t \in Captured(visible) THEN work[t] ELSE 0
  BY <1>1, ReadingFacts DEF Inv
<1>3. /\ last # NoProcess /\ last \in Process
      /\ last.start[t] # 0 /\ last.start[t] = last'.start[t]
  BY DEF SameThread, SameProcess, Inv, TypeOK
<1>4. last'.start[t] = start[t] /\ last'.work[t] = work[t]
  BY <1>2, <1>3
<1>5. last.generation = generation /\ last.work[t] <= work[t]
  BY <1>3, <1>4 DEF Inv, LastInv
<1>. QED  BY <1>2, <1>3, <1>4, <1>5 DEF Process, Counters

\* Whatever happens to the server between two samples, even if a new server gets
\* the pid of the old one: the rates of a thread row are the growth of the counters
\* of one and the same thread.
THEOREM ThreadRates == Spec => ThreadRatesAreTrue
<1>1. ASSUME Inv, [Next]_vars, last' # last, NEW t \in ThreadRows(last')
      PROVE  /\ ThreadCpu(last, last', t) # NoRate =>
                  /\ last.generation = last'.generation
                  /\ last.start[t] = last'.start[t]
                  /\ last.work[t] + ThreadCpu(last, last', t) = last'.work[t]
             /\ ThreadIo(last, last', t) # NoRate =>
                  ThreadIo(last, last', t) = ThreadCpu(last, last', t)
  <2>1. Sample \/ SampleDyingServer
    BY <1>1, Steps DEF SampleFails, vars, sampler
  <2>2. t \in Tids
    BY DEF ThreadRows
  <2>3. CASE SameThread(last, last', t)
    <3>1. /\ last.generation = last'.generation
          /\ last.work[t] \in Nat /\ last'.work[t] \in Nat /\ last.work[t] <= last'.work[t]
      BY <1>1, <2>1, <2>2, <2>3, SameThreadSameServer DEF Inv
    <3>2. ThreadCpu(last, last', t) = last'.work[t] - last.work[t]
      BY <2>3, <3>1 DEF ThreadCpu, CounterDelta
    <3>3. last.start[t] = last'.start[t]
      BY <2>3 DEF SameThread
    <3>4. ThreadIo(last, last', t) # NoRate =>
            ThreadIo(last, last', t) = ThreadCpu(last, last', t)
      BY <2>3 DEF ThreadIo, ThreadBytes, ThreadCpu
    <3>. QED  BY <3>1, <3>2, <3>3, <3>4
  <2>4. CASE ~SameThread(last, last', t)
    BY <2>4 DEF ThreadCpu, ThreadIo
  <2>. QED  BY <2>3, <2>4
<1>2. Inv /\ [Next]_vars =>
        [last' # last =>
           \A t \in ThreadRows(last') :
             /\ ThreadCpu(last, last', t) # NoRate =>
                  /\ last.generation = last'.generation
                  /\ last.start[t] = last'.start[t]
                  /\ last.work[t] + ThreadCpu(last, last', t) = last'.work[t]
             /\ ThreadIo(last, last', t) # NoRate =>
                  ThreadIo(last, last', t) = ThreadCpu(last, last', t)]_vars
  BY <1>1
<1>. QED  BY <1>2, Invariance, PTL DEF Spec, ThreadRatesAreTrue

--------------------------------------------------------------------------------
(* Sampling resumes.                                                        *)

\* Every start of the server has a pid of its own, which a server in a container
\* need not have.
FreshStarts == \A g, h \in Generations : PidOf[g] = PidOf[h] => g = h

NoLimit == "process_thread_limit" \notin diagnostics

\* A selection that was made for the running server has every thread that all of
\* its samples saw, and so has the latest sample; from the second sample on there
\* is such a selection.
SteadyInv ==
  wanted /\ NoLimit /\ last # NoProcess /\ last.generation = generation =>
    /\ steady.samples >= 2 => selected # NoSelection
    /\ selected # NoSelection =>
         \A t \in steady.threads : t \in selected /\ last.start[t] = steady.since[t]

\* What a sample of the running server keeps of the threads seen before.
LEMMA SampleFacts ==
  ASSUME FreshStarts, Inv, SteadyInv, Sample, wanted, NoLimit'
  PROVE  /\ last' \in Process /\ last'.generation = generation /\ generation' = generation
         /\ last'.pid = PidOf[generation]
         /\ steady'.threads \subseteq Alive
         /\ \A t \in steady'.threads : steady'.since[t] = start[t]
         /\ selected' # NoSelection => \A t \in steady'.threads :
              t \in selected' /\ last'.start[t] = start[t]
         /\ steady'.samples >= 2 =>
              /\ selected' # NoSelection
              /\ last # NoProcess /\ last.generation = generation
              /\ steady'.samples = steady.samples + 1
              /\ steady.samples >= 2 =>
                   \A t \in steady'.threads : last.start[t] = start[t]
<1>. DEFINE again == last # NoProcess /\ last.generation = generation
<1>1. TypeOK /\ ServerInv /\ SelectionInv /\ Alive \in SUBSET Tids
  BY DEF Inv, Alive
<1>2. PICK access \in BOOLEAN, io \in SUBSET Tids : Observe(Alive, access, io) /\ UNCHANGED server
  BY DEF Sample
<1>3. /\ last' \in Process /\ last'.generation = generation /\ last'.pid = PidOf[generation]
      /\ \A t \in Tids : last'.start[t] = IF t \in Captured(Alive) THEN start[t] ELSE 0
      /\ generation' = generation
  BY <1>1, <1>2, ReadingFacts DEF Observe, server
<1>4. /\ steady'.threads = IF again THEN {t \in Alive \cap steady.threads : start[t] = steady.since[t]}
                           ELSE Alive
      /\ \A t \in Alive : steady'.since[t] = start[t]
      /\ steady'.samples = IF again THEN steady.samples + 1 ELSE 1
  BY <1>1, <1>2 DEF Observe, Witness
<1>5. NoLimit /\ "process_thread_limit" \notin Diagnosed(Coverage(Alive, io))
  BY <1>2 DEF NoLimit, Observe
<1>6. CASE Discovering
  <2>1. Captured(Alive) = Alive
    BY <1>1, <1>5, <1>6, CoverageFacts
  <2>2. selected' = Alive /\ selected' # NoSelection
    BY <1>1, <1>2, <1>6, <2>1, SamplerAssumption DEF Observe, UpdateSelection, Select, ServerInv
  <2>3. \A t \in Alive : last'.start[t] = start[t]
    BY <1>1, <1>3, <2>1
  <2>4. ~(again /\ steady.samples >= 2)
    BY <1>5, <1>6 DEF SteadyInv, Discovering
  <2>. QED  BY <1>1, <1>3, <1>4, <2>2, <2>3, <2>4
<1>7. CASE ~Discovering
  <2>1. /\ selected # NoSelection /\ last # NoProcess /\ selectedPid = PidOf[last.generation]
        /\ last.generation \in Generations /\ generation \in Generations
    BY <1>1, <1>7 DEF Discovering, SelectionInv, TypeOK, Process
  <2>2. CASE again
    <3>1. selected' = selected
      BY <1>2, <1>7, <2>1, <2>2 DEF Observe, UpdateSelection, Forget
    <3>2. \A t \in steady.threads : t \in selected /\ last.start[t] = steady.since[t]
      BY <1>5, <2>1, <2>2 DEF SteadyInv
    <3>3. Captured(Alive) = selected \cap Alive
      BY <1>7 DEF Captured
    <3>4. \A t \in steady'.threads : t \in selected /\ t \in Alive /\ last.start[t] = start[t]
      BY <1>4, <2>2, <3>2
    <3>. QED  BY <1>1, <1>3, <1>4, <2>1, <2>2, <3>1, <3>3, <3>4
  <2>3. CASE ~again
    <3>1. Forget(PidOf[generation])
      BY <2>1, <2>3 DEF Forget, FreshStarts
    <3>2. selected' = NoSelection
      BY <1>2, <1>7, <3>1 DEF Observe, UpdateSelection
    <3>. QED  BY <1>1, <1>3, <1>4, <2>3, <3>2
  <2>. QED  BY <2>2, <2>3
<1>. QED  BY <1>6, <1>7

LEMMA SteadyStep ==
  ASSUME FreshStarts, Inv, SteadyInv, [Next]_vars
  PROVE  SteadyInv'
<1>1. TypeOK /\ generation \in Nat
  BY SamplerAssumption DEF Inv, TypeOK
<1>2. CASE ServerMoves /\ UNCHANGED <<plan, sampler, ghosts>>
  <2>1. generation' = generation \/ generation' = generation + 1
    BY <1>2 DEF ServerMoves, Work, Spawn, Exit, Restart
  <2>2. last # NoProcess => last.generation \in Nat
    BY <1>1, SamplerAssumption DEF TypeOK, Process
  <2>3. last # NoProcess => last.generation <= generation
    BY DEF Inv, LastInv
  <2>. QED  BY <1>1, <1>2, <2>1, <2>2, <2>3 DEF SteadyInv, NoLimit, plan, sampler, ghosts
<1>3. CASE Sample
  <2>1. last'.generation = generation /\ generation' = generation
    <3>1. last'.generation = generation
      BY <1>1, <1>3, ReadingFacts DEF Sample, Observe, Alive
    <3>. QED  BY <1>3, <3>1 DEF Sample, server
  <2>2. wanted' = wanted
    BY <1>3 DEF Sample, Observe, plan
  <2>3. wanted /\ NoLimit' =>
          /\ steady'.samples >= 2 => selected' # NoSelection
          /\ selected' # NoSelection => \A t \in steady'.threads :
               t \in selected' /\ last'.start[t] = steady'.since[t]
    BY <1>3, SampleFacts
  <2>. QED  BY <1>1, <2>1, <2>2, <2>3 DEF SteadyInv
<1>4. CASE SampleDyingServer
  <2>1. generation' = generation + 1
    BY <1>4 DEF SampleDyingServer, Restart
  <2>2. last'.generation = generation
    <3>1. last' = Reading({}, FALSE, {})
      BY <1>4 DEF SampleDyingServer, Observe
    <3>. QED  BY <3>1 DEF Reading
  <2>. QED  BY <1>1, <2>1, <2>2 DEF SteadyInv
<1>5. CASE SampleFails
  BY <1>5 DEF SampleFails, SteadyInv, NoLimit, server, plan, ghosts
<1>6. CASE UNCHANGED vars
  BY <1>6 DEF SteadyInv, NoLimit, vars, server, plan, sampler, ghosts
<1>. QED  BY <1>2, <1>3, <1>4, <1>5, <1>6, Steps

\* The second sample of a start has the rates of the process row, even if a new server
\* gets the pid of the old one.
LEMMA ProcessRowResumes ==
  ASSUME Inv, [Next]_vars, last' # last, steady'.samples >= 2
  PROVE  /\ ProcessCpu(last, last') # NoRate
         /\ last.access /\ last'.access => ProcessIo(last, last') # NoRate
<1>1. Sample \/ SampleDyingServer
  BY Steps DEF SampleFails, vars, sampler
<1>2. PICK visible \in SUBSET Alive, access \in BOOLEAN, io \in SUBSET Tids :
        last' = Reading(visible, access, io)
  BY <1>1, SampleReads DEF Inv
<1>3. last'.generation = generation /\ last'.pid = PidOf[generation] /\ last'.total = total
  BY <1>2, ReadingFacts DEF Inv
<1>4. last # NoProcess /\ last.generation = generation
  <2>1. \E seen \in SUBSET Tids : Witness(seen)
    BY <1>1 DEF Sample, SampleDyingServer, Observe, Alive
  <2>. QED  BY <2>1 DEF Witness
<1>5. SameProcess(last, last') /\ last.total <= total
  BY <1>3, <1>4 DEF SameProcess, Inv, LastInv
<1>6. last.total \in Nat /\ total \in Nat
  BY <1>4 DEF Inv, TypeOK, Process
<1>7. CounterDelta(last.total, last'.total) \in Nat
  BY <1>3, <1>5, <1>6 DEF CounterDelta
<1>. QED  BY <1>5, <1>7, SamplerAssumption DEF ProcessCpu, ProcessIo

\* Sampling recovers from every restart: the second sample of a start has the rates
\* of the process row, and the third a rate for each thread that all three saw,
\* unless threads were cut off by the limit.
THEOREM SamplingResumes ==
  ASSUME FreshStarts
  PROVE  Spec => RatesResume
<1>1. Init => SteadyInv
  BY DEF Init, SteadyInv
<1>2. Inv /\ SteadyInv /\ [Next]_vars => SteadyInv'
  BY SteadyStep
<1>3. ASSUME Inv, SteadyInv, [Next]_vars, last' # last, wanted, steady'.samples >= 3, NoLimit',
             NEW t \in steady'.threads
      PROVE  t \in ThreadRows(last') /\ ThreadCpu(last, last', t) # NoRate
  <2>0. TypeOK
    BY <1>3 DEF Inv
  <2>1. Sample \/ SampleDyingServer
    BY <1>3, Steps DEF SampleFails, vars, sampler
  <2>2. ~SampleDyingServer
    <3>1. ASSUME SampleDyingServer PROVE steady'.threads = {}
      BY <3>1 DEF SampleDyingServer, Observe, Witness
    <3>. QED  BY <1>3, <3>1
  <2>3. /\ last # NoProcess /\ last.generation = generation
        /\ last'.pid = PidOf[generation]
        /\ t \in Alive /\ last.start[t] = start[t] /\ last'.start[t] = start[t]
    <3>1. steady.samples \in Nat /\ steady'.samples \in Nat
      BY <1>3, <2>0, Inductive DEF Inv, TypeOK
    <3>2. steady'.samples >= 2
      BY <1>3, <3>1
    <3>3. /\ last'.pid = PidOf[generation]
          /\ steady'.threads \subseteq Alive
          /\ last # NoProcess /\ last.generation = generation
          /\ selected' # NoSelection
          /\ steady'.samples = steady.samples + 1
      BY <1>3, <2>1, <2>2, <3>2, SampleFacts
    <3>4. last.start[t] = start[t] /\ last'.start[t] = start[t]
      BY <1>3, <2>1, <2>2, <3>1, <3>2, <3>3, SampleFacts
    <3>. QED  BY <1>3, <3>3, <3>4
  <2>4. t \in Tids /\ start[t] # 0
    BY <2>3 DEF Alive
  <2>5. SameThread(last, last', t)
    BY <1>3, <2>3, <2>4 DEF SameThread, SameProcess, Inv, LastInv
  <2>6. last.work[t] \in Nat /\ last'.work[t] \in Nat /\ last.work[t] <= last'.work[t]
    BY <1>3, <2>0, <2>1, <2>4, <2>5, SameThreadSameServer
  <2>7. ThreadCpu(last, last', t) \in Nat
    BY <2>5, <2>6 DEF ThreadCpu, CounterDelta
  <2>. QED  BY <2>3, <2>4, <2>7, SamplerAssumption DEF ThreadRows
<1>4. Inv /\ SteadyInv /\ [Next]_vars =>
        [last' # last =>
           /\ steady'.samples >= 2 =>
                /\ ProcessCpu(last, last') # NoRate
                /\ last.access /\ last'.access => ProcessIo(last, last') # NoRate
           /\ wanted /\ steady'.samples >= 3 /\ "process_thread_limit" \notin diagnostics' =>
                \A t \in steady'.threads :
                  t \in ThreadRows(last') /\ ThreadCpu(last, last', t) # NoRate]_vars
  BY <1>3, ProcessRowResumes DEF NoLimit
<1>. QED  BY <1>1, <1>2, <1>4, Invariance, PTL DEF Spec, RatesResume
================================================================================
