-------------------------- MODULE CollectionRun_proofs --------------------------
(***************************************************************************)
(* Proofs about CollectionRun, for any number of targets and any plan. The  *)
(* safety properties the runs check follow from inductive invariants on     *)
(* where the run is (StageInv), what has been closed (CloseInv), decided    *)
(* (ItemsInv), written (JsonInv, FilesInv, WrittenInv) and concluded        *)
(* (CompletionInv, ExitInv). StepsLeft bounds the length of a run.          *)
(***************************************************************************)
EXTENDS CollectionRun, SequenceTheorems, TLAPS

--------------------------------------------------------------------------------
(* Where the run is.                                                        *)

Opening == {"connecting", "creating", "detecting", "hostname", "resolving"}
Collecting == Opening \cup {"primary", "fallback", "recording", "sampling", "finalizing"}
Writing == {"json", "html", "returning"}
Closing == {"close_adapter", "close_ssh", "exiting"}

\* A target is being collected or written until the clean-up starts; then the
\* loop over the targets has ended or an exception left it.
StageInv ==
  /\ stage \in Collecting \cup Writing => target = returned + 1 /\ error = "none"
  /\ stage \in Closing =>
       /\ returned < target
       /\ error = "none" => returned = TargetCount
  /\ stage \in Opening => target = 1 /\ index = 1
  /\ stage \in {"fallback", "recording"} => index <= Len(Plan)
  /\ stage = "fallback" => index \notin Metrics
  /\ stage \in Collecting \cup Writing => target <= TargetCount
  /\ stage \in {"finalizing"} \cup Writing => index = 1
  /\ exit # Running => stage = "exiting"

\* Lengths and entries of the plan.
LEMMA PlanFacts ==
  /\ TargetCount \in Nat \ {0}
  /\ Len(Plan) \in Nat
  /\ Metrics \subseteq Items
  /\ \A i \in Items : i \in Metrics <=> Plan[i].kind = "metric"
  /\ \A i \in Items : Plan[i].kind \in {"source", "metric", "inapplicable"}
  /\ \A t \in Targets : PathOf[t] \in Paths
<1>1. Plan \in Seq([kind : {"source", "metric", "inapplicable"}, fallback : BOOLEAN,
                  host : BOOLEAN])
  BY RunAssumption
<1>2. \A i \in Items : Plan[i].kind \in {"source", "metric", "inapplicable"}
  <2> SUFFICES ASSUME NEW i \in Items
               PROVE  Plan[i] \in [kind : {"source", "metric", "inapplicable"},
                                    fallback : BOOLEAN, host : BOOLEAN]
    OBVIOUS
  <2> QED  BY <1>1, ElementOfSeq DEF Items
<1> QED  BY <1>1, <1>2, RunAssumption DEF Metrics, Paths

\* One step of the run moves it to a place that fits target, item and error.
LEMMA StageStep ==
  ASSUME TypeOK, StageInv, [Next]_vars
  PROVE  StageInv'
<1> USE PlanFacts DEF StageInv, Opening, Collecting, Writing, Closing
<1>0. /\ target \in Nat /\ index \in Nat /\ returned \in Nat
      /\ TargetCount \in Nat \ {0} /\ stage \in Stages /\ target >= 1
  BY DEF TypeOK
<1> USE <1>0 DEF Stages
<1>1. CASE ConnectSsh
  BY <1>1 DEF ConnectSsh, Raise
<1>2. CASE CreateAdapter
  BY <1>2 DEF CreateAdapter, Raise
<1>3. CASE Prepare
  BY <1>3 DEF Prepare, Attempt, Raise, DriverErrors
<1>4. CASE PassOver
  BY <1>4 DEF PassOver
<1>5. CASE ExecutePrimary
  BY <1>5 DEF ExecutePrimary, ItemEnds, Item, Metrics
<1>6. CASE ExecuteFallback
  BY <1>6 DEF ExecuteFallback
<1>7. CASE RecordItem
  BY <1>7 DEF RecordItem, AfterRecording, Raise, FailFastStops
<1>8. CASE Sample
  BY <1>8 DEF Sample
<1>9. CASE NextMetric
  BY <1>9 DEF NextMetric
<1>10. CASE Finalize
  BY <1>10 DEF Finalize
<1>11. CASE WriteJson
  BY <1>11 DEF WriteJson, Attempt, Raise
<1>12. CASE WriteHtml
  BY <1>12 DEF WriteHtml, Attempt, Raise
<1>13. CASE ReturnTarget
  BY <1>13 DEF ReturnTarget
<1>14. CASE CloseAdapter
  BY <1>14 DEF CloseAdapter
<1>15. CASE CloseSsh
  BY <1>15 DEF CloseSsh
<1>16. CASE Exit
  BY <1>16 DEF Exit, Running
<1>17. CASE InterruptRaises
  BY <1>17 DEF InterruptRaises, Raise, ExecutingItem, Sampling
<1>18. CASE InterruptSwallowed
  BY <1>18 DEF InterruptSwallowed, Raise, ItemEnds, ExecutingItem, Sampling, Item, Metrics
<1>19. CASE InterruptClose
  BY <1>19 DEF InterruptClose
<1>20. CASE UNCHANGED vars
  BY <1>20 DEF vars
<1> QED
  BY <1>1, <1>2, <1>3, <1>4, <1>5, <1>6, <1>7, <1>8, <1>9, <1>10, <1>11, <1>12, <1>13,
     <1>14, <1>15, <1>16, <1>17, <1>18, <1>19, <1>20 DEF Next, Run, Proceed, Interrupt

--------------------------------------------------------------------------------
(* Types.                                                                   *)

\* Setting an entry of an item keeps its type.
LEMMA EntryType ==
  ASSUME NEW S, NEW f \in [Targets -> [Items -> S]], NEW t, NEW i, NEW v \in S
  PROVE  [f EXCEPT ![t][i] = v] \in [Targets -> [Items -> S]]
OBVIOUS

AnyStatus == Statuses \cup {Pending, "omitted"}

ItemsTyped ==
  /\ primary \in [Targets -> [Items -> Statuses \cup {Pending}]]
  /\ status \in [Targets -> [Items -> AnyStatus]]
  /\ incomplete \in [Targets -> [Items -> BOOLEAN]]

\* So does replacing the entries of all metrics of a target.
LEMMA MetricsType ==
  ASSUME status \in [Targets -> [Items -> AnyStatus]], NEW r \in [Metrics -> AnyStatus]
  PROVE  [status EXCEPT ![target] = [i \in Items |-> IF i \in Metrics THEN r[i] ELSE @[i]]]
           \in [Targets -> [Items -> AnyStatus]]
<1>1. CASE target \in Targets
  <2>1. [i \in Items |-> IF i \in Metrics THEN r[i] ELSE status[target][i]] \in [Items -> AnyStatus]
    BY <1>1
  <2> QED  BY <2>1
<1>2. CASE target \notin Targets
  BY <1>2
<1> QED  BY <1>1, <1>2

\* The two parts of a result keep the types of the items.
LEMMA CoverageType ==
  ASSUME incomplete \in [Targets -> [Items -> BOOLEAN]], NEW result, Coverage(result)
  PROVE  incomplete' \in [Targets -> [Items -> BOOLEAN]]
<1>1. [incomplete EXCEPT ![target][index] = TRUE] \in [Targets -> [Items -> BOOLEAN]]
  BY EntryType, Zenon
<1> QED  BY <1>1, Zenon DEF Coverage

LEMMA ItemEndsType ==
  ASSUME ItemsTyped, NEW result \in Statuses, ItemEnds(result)
  PROVE  ItemsTyped'
<1>1. primary' \in [Targets -> [Items -> Statuses \cup {Pending}]]
  BY EntryType DEF ItemEnds, ItemsTyped
<1>2. status' \in [Targets -> [Items -> AnyStatus]]
  <2>1. [status EXCEPT ![target][index] = result] \in [Targets -> [Items -> AnyStatus]]
    BY EntryType DEF ItemsTyped, AnyStatus
  <2> QED  BY <2>1 DEF ItemEnds, ItemsTyped
<1>3. incomplete' \in [Targets -> [Items -> BOOLEAN]]
  BY CoverageType DEF ItemEnds, ItemsTyped
<1> QED  BY <1>1, <1>2, <1>3 DEF ItemsTyped

\* Every step keeps every variable in its type.
LEMMA TypeStep ==
  ASSUME TypeOK, StageInv, [Next]_vars
  PROVE  TypeOK'
<1> USE PlanFacts DEF TypeOK, StageInv, Opening, Collecting, Writing, Closing, Stages,
        resources, files, items, ItemsTyped, AnyStatus
<1>1. CASE ConnectSsh
  BY <1>1 DEF ConnectSsh, Raise
<1>2. CASE CreateAdapter
  BY <1>2 DEF CreateAdapter, Raise
<1>3. CASE Prepare
  BY <1>3 DEF Prepare, Attempt, Raise, DriverErrors
<1>4. CASE PassOver
  <2>1. status' \in [Targets -> [Items -> AnyStatus]]
    BY <1>4, EntryType DEF PassOver, AnyStatus
  <2> QED  BY <1>4, <2>1 DEF PassOver
<1>5. CASE ExecutePrimary
  <2>1. PICK result \in Statuses : ItemEnds(result)
    BY <1>5 DEF ExecutePrimary
  <2>2. ItemsTyped'
    BY <2>1, ItemEndsType
  <2> QED  BY <1>5, <2>1, <2>2 DEF ExecutePrimary, ItemEnds
<1>6. CASE ExecuteFallback
  <2>1. ItemsTyped'
    <3>1. PICK result \in Statuses :
             /\ status' = [status EXCEPT ![target][index] = result]
             /\ Coverage(result)
      BY <1>6 DEF ExecuteFallback
    <3>2. status' \in [Targets -> [Items -> AnyStatus]]
      BY <3>1, EntryType DEF AnyStatus
    <3> QED  BY <1>6, <3>1, <3>2, CoverageType DEF ExecuteFallback
  <2> QED  BY <1>6, <2>1 DEF ExecuteFallback
<1>7. CASE RecordItem
  <2>1. status' \in [Targets -> [Items -> AnyStatus]]
    BY <1>7, EntryType DEF RecordItem, AnyStatus
  <2> QED  BY <1>7, <2>1 DEF RecordItem, AfterRecording, Raise
<1>8. CASE Sample
  <2>1. PICK result \in [Metrics -> {"ok", "error", "unsupported"}] :
           status' = [status EXCEPT ![target] =
                        [i \in Items |-> IF i \in Metrics THEN result[i] ELSE @[i]]]
    BY <1>8 DEF Sample
  <2>2. {"ok", "error", "unsupported"} \subseteq AnyStatus
    BY DEF AnyStatus, Statuses, Collected, FailedStatuses
  <2>3. status' \in [Targets -> [Items -> AnyStatus]]
    <3> HIDE DEF TypeOK, StageInv, AnyStatus
    <3>1. result \in [Metrics -> AnyStatus]
      BY <2>1, <2>2
    <3>2. status \in [Targets -> [Items -> AnyStatus]]
      BY DEF TypeOK, AnyStatus
    <3> QED  BY <2>1, <3>1, <3>2, MetricsType
  <2>4. incomplete' \in [Targets -> [Items -> BOOLEAN]]
    <3>1. PICK cut : incomplete' = [incomplete EXCEPT ![target] =
                                      [i \in Items |-> @[i] \/ i \in cut]]
      BY <1>8 DEF Sample
    <3>2. [i \in Items |-> incomplete[target][i] \/ i \in cut] \in [Items -> BOOLEAN]
      BY Zenon
    <3> QED  BY <3>1, <3>2, Zenon
  <2> QED  BY <1>8, <2>3, <2>4 DEF Sample
<1>9. CASE NextMetric
  BY <1>9 DEF NextMetric
<1>10. CASE Finalize
  BY <1>10 DEF Finalize, CompletionStatus
<1>11. CASE WriteJson
  BY <1>11 DEF WriteJson, Attempt, Raise
<1>12. CASE WriteHtml
  <2>1. html' \in [Paths -> 0..TargetCount]
    <3>1. target \in 0..TargetCount
      BY <1>12 DEF WriteHtml
    <3>2. html' = html \/ html' = [html EXCEPT ![PathOf[target]] = target]
      BY <1>12 DEF WriteHtml
    <3> HIDE DEF TypeOK, StageInv
    <3>3. html \in [Paths -> 0..TargetCount]
      BY DEF TypeOK
    <3> QED  BY <3>1, <3>2, <3>3
  <2> QED  BY <1>12, <2>1 DEF WriteHtml, Attempt, Raise
<1>13. CASE ReturnTarget
  BY <1>13 DEF ReturnTarget
<1>14. CASE CloseAdapter
  BY <1>14 DEF CloseAdapter
<1>15. CASE CloseSsh
  BY <1>15 DEF CloseSsh
<1>16. CASE Exit
  BY <1>16 DEF Exit
<1>17. CASE InterruptRaises
  BY <1>17 DEF InterruptRaises, Raise
<1>18. CASE InterruptSwallowed
  <2>1. CASE stage \in {"detecting", "resolving"}
    BY <1>18, <2>1 DEF InterruptSwallowed, Raise, ExecutingItem, Sampling
  <2>2. CASE stage = "primary" /\ ItemEnds("timeout") /\ UNCHANGED <<index, error>>
    <3>1. ItemsTyped'
      BY <2>2, ItemEndsType DEF Statuses, FailedStatuses
    <3> QED  BY <1>18, <2>2, <3>1 DEF InterruptSwallowed, ItemEnds
  <2>3. CASE stage = "fallback"
    <3>1. status' \in [Targets -> [Items -> AnyStatus]]
      <4>1. status' = [status EXCEPT ![target][index] = "timeout"]
        BY <1>18, <2>3 DEF InterruptSwallowed, ExecutingItem, Sampling
      <4>2. "timeout" \in AnyStatus
        BY DEF Statuses, FailedStatuses
      <4> QED  BY <4>1, <4>2, EntryType
    <3> QED  BY <1>18, <2>3, <3>1 DEF InterruptSwallowed, ExecutingItem, Sampling
  <2>4. CASE /\ status' = [status EXCEPT ![target] =
                            [i \in Items |-> IF i \in Metrics THEN "error" ELSE @[i]]]
            /\ stage' = "sampling" /\ index' = 1
            /\ UNCHANGED <<primary, incomplete, error>>
    <3>1. "error" \in AnyStatus
      BY DEF AnyStatus, Statuses, FailedStatuses
    <3>2. status' \in [Targets -> [Items -> AnyStatus]]
      <4>1. [i \in Metrics |-> "error"] \in [Metrics -> AnyStatus]
        BY <3>1
      <4>2. status' = [status EXCEPT ![target] =
                         [i \in Items |-> IF i \in Metrics THEN [j \in Metrics |-> "error"][i]
                                          ELSE @[i]]]
        BY <2>4
      <4> QED  BY <4>1, <4>2, MetricsType
    <3> QED  BY <1>18, <2>4, <3>2 DEF InterruptSwallowed
  <2> QED  BY <1>18, <2>1, <2>2, <2>3, <2>4 DEF InterruptSwallowed, Sampling
<1>19. CASE InterruptClose
  BY <1>19 DEF InterruptClose
<1>20. CASE UNCHANGED vars
  BY <1>20 DEF vars
<1> QED
  BY <1>1, <1>2, <1>3, <1>4, <1>5, <1>6, <1>7, <1>8, <1>9, <1>10, <1>11, <1>12, <1>13,
     <1>14, <1>15, <1>16, <1>17, <1>18, <1>19, <1>20 DEF Next, Run, Proceed, Interrupt

\* The first state has its type and its place.
LEMMA InitTyped == Init => TypeOK /\ StageInv
<1> SUFFICES ASSUME Init PROVE TypeOK /\ StageInv
  OBVIOUS
<1>1. TypeOK
  <2>1. 1 \in 1..(TargetCount + 1) /\ 1 \in 1..(Len(Plan) + 1) /\ 0 \in 0..TargetCount
    BY PlanFacts
  <2> QED  BY <2>1 DEF Init, TypeOK, Stages
<1>2. StageInv
  BY PlanFacts DEF Init, StageInv, Opening, Collecting, Writing, Closing
<1> QED  BY <1>1, <1>2

\* Every reachable state is well typed: the collector never looks past the end
\* of the plan or of the targets.
THEOREM TypeCorrect == SafeSpec => []TypeOK
BY InitTyped, StageStep, TypeStep, PTL DEF SafeSpec

--------------------------------------------------------------------------------
(* The resources and the files of the target being written.                 *)

\* Whatever way the run takes out of the try block, it passes both closes.
CloseInv ==
  /\ stage \in {"connecting", "creating"} => adapter = "none"
  /\ stage = "close_ssh" => adapter # "open"
  /\ stage = "exiting" => ssh # "open" /\ adapter # "open"
  /\ exit # Running => stage = "exiting"

\* Only the two closes lead to the exit.
LEMMA CloseStep ==
  ASSUME CloseInv, [Next]_vars
  PROVE  CloseInv'
<1> USE DEF CloseInv, resources
<1>1. CASE ConnectSsh
  BY <1>1 DEF ConnectSsh, Raise
<1>2. CASE CreateAdapter
  BY <1>2 DEF CreateAdapter, Raise
<1>3. CASE Prepare
  BY <1>3 DEF Prepare, Attempt, Raise
<1>4. CASE PassOver
  BY <1>4 DEF PassOver
<1>5. CASE ExecutePrimary
  BY <1>5 DEF ExecutePrimary, ItemEnds
<1>6. CASE ExecuteFallback
  BY <1>6 DEF ExecuteFallback
<1>7. CASE RecordItem
  BY <1>7 DEF RecordItem, AfterRecording, Raise
<1>8. CASE Sample
  BY <1>8 DEF Sample
<1>9. CASE NextMetric
  BY <1>9 DEF NextMetric
<1>10. CASE Finalize
  BY <1>10 DEF Finalize
<1>11. CASE WriteJson
  BY <1>11 DEF WriteJson, Attempt, Raise
<1>12. CASE WriteHtml
  BY <1>12 DEF WriteHtml, Attempt, Raise
<1>13. CASE ReturnTarget
  BY <1>13 DEF ReturnTarget
<1>14. CASE CloseAdapter
  BY <1>14 DEF CloseAdapter
<1>15. CASE CloseSsh
  BY <1>15 DEF CloseSsh
<1>16. CASE Exit
  BY <1>16 DEF Exit
<1>17. CASE InterruptRaises
  BY <1>17 DEF InterruptRaises, Raise, ExecutingItem, Sampling
<1>18. CASE InterruptSwallowed
  BY <1>18 DEF InterruptSwallowed, Raise, ItemEnds, ExecutingItem, Sampling
<1>19. CASE InterruptClose
  BY <1>19 DEF InterruptClose
<1>20. CASE UNCHANGED vars
  BY <1>20 DEF vars
<1> QED
  BY <1>1, <1>2, <1>3, <1>4, <1>5, <1>6, <1>7, <1>8, <1>9, <1>10, <1>11, <1>12, <1>13,
     <1>14, <1>15, <1>16, <1>17, <1>18, <1>19, <1>20 DEF Next, Run, Proceed, Interrupt

\* Both resources have had their close when the process exits.
THEOREM ResourcesAreClosed == SafeSpec => []ResourcesClosed
<1>1. Init => CloseInv
  BY DEF Init, CloseInv
<1>2. CloseInv => ResourcesClosed
  BY DEF CloseInv, ResourcesClosed
<1> QED
  BY <1>1, <1>2, CloseStep, PTL DEF SafeSpec

\* The JSON of the target being written is there before its HTML.
JsonInv == stage \in {"html", "returning"} => json[PathOf[target]] = target

LEMMA JsonStep ==
  ASSUME TypeOK, StageInv, JsonInv, [Next]_vars
  PROVE  JsonInv'
<1> USE PlanFacts DEF JsonInv, files, Opening
<1>1. CASE ConnectSsh
  BY <1>1 DEF ConnectSsh, Raise
<1>2. CASE CreateAdapter
  BY <1>2 DEF CreateAdapter, Raise
<1>3. CASE Prepare
  BY <1>3 DEF Prepare, Attempt, Raise
<1>4. CASE PassOver
  BY <1>4 DEF PassOver
<1>5. CASE ExecutePrimary
  BY <1>5 DEF ExecutePrimary, ItemEnds
<1>6. CASE ExecuteFallback
  BY <1>6 DEF ExecuteFallback
<1>7. CASE RecordItem
  BY <1>7 DEF RecordItem, AfterRecording, Raise
<1>8. CASE Sample
  BY <1>8 DEF Sample
<1>9. CASE NextMetric
  BY <1>9 DEF NextMetric
<1>10. CASE Finalize
  BY <1>10 DEF Finalize
<1>11. CASE WriteJson
  <2>1. PathOf[target] \in Paths
    BY <1>11 DEF WriteJson, TypeOK, StageInv, Writing, Targets
  <2>2. json \in [Paths -> 0..TargetCount]
    BY DEF TypeOK
  <2> QED  BY <1>11, <2>1, <2>2 DEF WriteJson, Attempt, Raise
<1>12. CASE WriteHtml
  BY <1>12 DEF WriteHtml, Attempt, Raise
<1>13. CASE ReturnTarget
  BY <1>13 DEF ReturnTarget
<1>14. CASE CloseAdapter
  BY <1>14 DEF CloseAdapter
<1>15. CASE CloseSsh
  BY <1>15 DEF CloseSsh
<1>16. CASE Exit
  BY <1>16 DEF Exit
<1>17. CASE InterruptRaises
  BY <1>17 DEF InterruptRaises, Raise, ExecutingItem, Sampling
<1>18. CASE InterruptSwallowed
  BY <1>18 DEF InterruptSwallowed, Raise, ItemEnds, ExecutingItem, Sampling
<1>19. CASE InterruptClose
  BY <1>19 DEF InterruptClose
<1>20. CASE UNCHANGED vars
  BY <1>20 DEF vars
<1> QED
  BY <1>1, <1>2, <1>3, <1>4, <1>5, <1>6, <1>7, <1>8, <1>9, <1>10, <1>11, <1>12, <1>13,
     <1>14, <1>15, <1>16, <1>17, <1>18, <1>19, <1>20 DEF Next, Run, Proceed, Interrupt

\* A step that writes an HTML finds its JSON in place.
LEMMA HtmlStep ==
  ASSUME TypeOK, JsonInv, [Next]_vars
  PROVE  \A p \in Paths : html'[p] # html[p] => html'[p] = json[p]
<1>1. CASE WriteHtml
  <2>1. html \in [Paths -> 0..TargetCount] /\ json[PathOf[target]] = target
    BY <1>1 DEF WriteHtml, JsonInv, TypeOK
  <2> QED  BY <1>1, <2>1 DEF WriteHtml
<1>2. UNCHANGED html \/ WriteHtml
  BY DEF Next, Run, Proceed, Interrupt, vars, files, ConnectSsh, CreateAdapter, Prepare, PassOver,
     ExecutePrimary, ExecuteFallback, RecordItem, Sample, NextMetric, Finalize, WriteJson,
     ReturnTarget, CloseAdapter, CloseSsh, Exit, InterruptRaises, InterruptSwallowed,
     InterruptClose
<1> QED  BY <1>1, <1>2

\* No HTML is written ahead of its JSON.
THEOREM HtmlIsNeverAhead == SafeSpec => HtmlFollowsJson
<1>1. Init => TypeOK /\ StageInv /\ JsonInv
  BY InitTyped DEF Init, JsonInv
<1> QED
  BY <1>1, StageStep, TypeStep, JsonStep, HtmlStep, PTL DEF SafeSpec, HtmlFollowsJson

--------------------------------------------------------------------------------
(* What has been decided about the items.                                   *)

Decided(s) == s \in Collected \cup {"omitted"} \cup (IF failFast THEN {} ELSE FailedStatuses)

\* Only delivered results are cut.
CutInv == \A t \in Targets, i \in Items : incomplete[t][i] => status[t][i] \in Collected

\* The metrics of the target being collected are pending until they are
\* sampled, then they are decided in order.
CurrentInv ==
  \A i \in Items :
    LET s == status[target][i] IN
    /\ stage \in Opening \cup {"primary", "fallback"} =>
         IF i < index /\ i \notin Metrics THEN Decided(s) ELSE s = Pending
    /\ stage = "recording" /\ index \notin Metrics =>
         IF i < index /\ i \notin Metrics THEN Decided(s)
         ELSE IF i = index THEN s \in Statuses ELSE s = Pending
    /\ stage = "sampling" \/ (stage = "recording" /\ index \in Metrics) =>
         IF i < index \/ i \notin Metrics THEN Decided(s) ELSE s \in Statuses
    /\ stage \in {"finalizing"} \cup Writing => Decided(s)

\* Returned targets are decided, later ones untouched.
OthersInv ==
  \A t \in Targets, i \in Items :
    /\ t <= returned => Decided(status[t][i])
    /\ t > target => status[t][i] = Pending

ItemsInv == CutInv /\ CurrentInv /\ OthersInv

\* The facts the steps need of TypeOK and StageInv.
LEMMA Placed ==
  ASSUME TypeOK, StageInv
  PROVE  /\ target \in 1..(TargetCount + 1) /\ index \in 1..(Len(Plan) + 1)
         /\ returned \in 0..TargetCount
         /\ status \in [Targets -> [Items -> AnyStatus]]
         /\ incomplete \in [Targets -> [Items -> BOOLEAN]]
         /\ stage \in Collecting \cup Writing => target = returned + 1 /\ target \in Targets
         /\ stage \in Closing => returned < target
         /\ stage \in Opening => index = 1
         /\ stage \in {"fallback", "recording"} => index \in Items
         /\ stage = "fallback" => index \notin Metrics
BY PlanFacts DEF TypeOK, StageInv, AnyStatus, Closing, Targets, Items

\* A step that touches items of the current target only.
LEMMA CurrentStep ==
  ASSUME TypeOK, StageInv, ItemsInv, stage \in Collecting,
         UNCHANGED <<failFast, target, returned>>,
         \A t \in Targets \ {target} : status'[t] = status[t] /\ incomplete'[t] = incomplete[t],
         \A i \in Items : incomplete'[target][i] => status'[target][i] \in Collected,
         CurrentInv'
  PROVE  ItemsInv'
<1>1. CutInv'
  BY DEF ItemsInv, CutInv
<1>2. OthersInv'
  <2>1. \A t \in Targets : t <= returned \/ t > target => t \in Targets \ {target}
    BY Placed DEF Targets
  <2>2. OthersInv
    BY DEF ItemsInv
  <2> QED  BY <2>1, <2>2 DEF OthersInv, Decided
<1> QED  BY <1>1, <1>2 DEF ItemsInv

\* The result of an item's own source or of its fallback.
LEMMA ResultStep ==
  ASSUME TypeOK, StageInv, ItemsInv, NEW result \in Statuses,
         stage \in {"primary", "fallback"}, index \in Items, index \notin Metrics,
         status' = [status EXCEPT ![target][index] = result], Coverage(result),
         stage' = "recording", UNCHANGED <<failFast, target, returned, index>>
  PROVE  ItemsInv'
<1>1. /\ target \in Targets
      /\ status'[target][index] = result
      /\ \A i \in Items \ {index} : status'[target][i] = status[target][i]
      /\ \A t \in Targets \ {target} : status'[t] = status[t]
  BY Placed DEF Collecting
<1>2. /\ \A t \in Targets \ {target} : incomplete'[t] = incomplete[t]
      /\ \A i \in Items \ {index} : incomplete'[target][i] = incomplete[target][i]
      /\ incomplete'[target][index] => incomplete[target][index] \/ result \in Collected
  BY Placed DEF Coverage
<1>3. status[target][index] \notin Collected
  BY <1>1, Placed DEF ItemsInv, CurrentInv, Pending, Collected
<1>4. \A i \in Items : incomplete'[target][i] => status'[target][i] \in Collected
  BY <1>1, <1>2, <1>3 DEF ItemsInv, CutInv
<1>5. CurrentInv'
  BY <1>1, Placed DEF ItemsInv, CurrentInv, Opening, Writing, Decided
<1> QED  BY <1>1, <1>2, <1>4, <1>5, CurrentStep DEF Collecting

\* An item's own source ends it, or leaves it to its fallback.
LEMMA EndsStep ==
  ASSUME TypeOK, StageInv, ItemsInv, NEW result \in Statuses, ItemEnds(result),
         stage = "primary", index \in Items, index \notin Metrics,
         UNCHANGED <<failFast, target, returned, index>>
  PROVE  ItemsInv'
<1>1. CASE stage' = "recording"
  BY <1>1, ResultStep DEF ItemEnds
<1>2. CASE stage' = "fallback"
  BY <1>2, Placed DEF ItemEnds, ItemsInv, CutInv, CurrentInv, OthersInv, Opening, Writing, Decided
<1> QED  BY <1>1, <1>2 DEF ItemEnds

\* A metric's or an item's turn is over: it is recorded, or stops the run.
LEMMA RecordStep ==
  ASSUME TypeOK, StageInv, ItemsInv, RecordItem
  PROVE  ItemsInv'
<1>1. /\ stage = "recording" /\ index \in Items /\ target \in Targets
      /\ status[target][index] \in Statuses
  BY Placed, PlanFacts DEF RecordItem, Collecting, ItemsInv, CurrentInv
<1> DEFINE s == IF status[target][index] = "unsupported" THEN "omitted" ELSE status[target][index]
<1>3. /\ status'[target][index] = s
      /\ \A i \in Items \ {index} : status'[target][i] = status[target][i]
      /\ \A t \in Targets \ {target} : status'[t] = status[t]
  BY <1>1, Placed DEF RecordItem
<1>4. UNCHANGED <<failFast, target, returned, incomplete>>
  BY DEF RecordItem
<1>5. \A i \in Items : incomplete'[target][i] => status'[target][i] \in Collected
  BY <1>1, <1>3, <1>4 DEF ItemsInv, CutInv, Collected
<1>6. CurrentInv'
  <2>1. CASE stage' = "close_adapter"
    BY <2>1 DEF CurrentInv, Opening, Writing
  <2>2. CASE stage' # "close_adapter"
    <3>1. ~FailFastStops /\ index' = index + 1
          /\ stage' = IF index \in Metrics THEN "sampling" ELSE "primary"
      BY <1>1, <2>2, PlanFacts DEF RecordItem, AfterRecording, Raise, Item
    <3>2. Decided(s)
      BY <1>1, <3>1 DEF Decided, FailFastStops, Statuses
    <3> HIDE DEF s
    <3>3. index \in Nat /\ index + 1 \in Nat /\ \A i \in Items : i \in Nat
      BY <1>1 DEF Items
    <3>4. CASE index \in Metrics
      <4>1. \A i \in Items :
               IF i < index \/ i \notin Metrics THEN Decided(status[target][i])
               ELSE status[target][i] \in Statuses
        BY <1>1, <3>4 DEF ItemsInv, CurrentInv
      <4>2. stage' = "sampling"
        BY <3>1, <3>4
      <4> QED
        BY <1>1, <1>3, <1>4, <3>1, <3>2, <3>3, <3>4, <4>1, <4>2
           DEF CurrentInv, Opening, Writing, Decided
    <3>5. CASE index \notin Metrics
      <4>1. \A i \in Items \ {index} :
               IF i < index /\ i \notin Metrics THEN Decided(status[target][i])
               ELSE status[target][i] = Pending
        BY <1>1, <3>5 DEF ItemsInv, CurrentInv
      <4>2. stage' = "primary"
        BY <3>1, <3>5
      <4> QED
        BY <1>1, <1>3, <1>4, <3>1, <3>2, <3>3, <3>5, <4>1, <4>2
           DEF CurrentInv, Opening, Writing, Decided
    <3> QED  BY <3>4, <3>5
  <2> QED  BY <2>1, <2>2
<1> QED  BY <1>1, <1>3, <1>4, <1>5, <1>6, CurrentStep DEF Collecting

\* The metrics get their results.
LEMMA SampleStep ==
  ASSUME TypeOK, StageInv, ItemsInv, stage = "primary", index = Len(Plan) + 1,
         NEW r \in [Metrics -> Statuses],
         status' = [status EXCEPT ![target] =
                      [i \in Items |-> IF i \in Metrics THEN r[i] ELSE @[i]]],
         NEW cut \in SUBSET {i \in Metrics : r[i] \in Collected},
         incomplete' = [incomplete EXCEPT ![target] = [i \in Items |-> @[i] \/ i \in cut]],
         stage' = "sampling", index' = 1, UNCHANGED <<failFast, target, returned>>
  PROVE  ItemsInv'
<1>1. /\ target \in Targets
      /\ \A i \in Items : status'[target][i] = IF i \in Metrics THEN r[i] ELSE status[target][i]
      /\ \A t \in Targets \ {target} : status'[t] = status[t]
  BY Placed DEF Collecting
<1>2. /\ \A i \in Items : incomplete'[target][i] <=> incomplete[target][i] \/ i \in cut
      /\ \A t \in Targets \ {target} : incomplete'[t] = incomplete[t]
  BY <1>1, Placed
<1>3. \A i \in Metrics : status[target][i] = Pending
  BY PlanFacts DEF ItemsInv, CurrentInv
<1>4. \A i \in Items : incomplete'[target][i] => status'[target][i] \in Collected
  BY <1>1, <1>2, <1>3, PlanFacts DEF ItemsInv, CutInv, Pending, Collected
<1>5. CurrentInv'
  BY <1>1, PlanFacts DEF ItemsInv, CurrentInv, Opening, Writing, Decided, Items
<1> QED  BY <1>1, <1>2, <1>4, <1>5, CurrentStep DEF Collecting

\* A step that changes no item keeps what its new place asks of them.
LEMMA KeptStep ==
  ASSUME TypeOK, StageInv, ItemsInv, UNCHANGED <<failFast, items, target, returned>>,
         \/ stage' = stage /\ index' = index
         \/ stage' \in Closing
         \/ stage \in Opening /\ stage' \in Opening \cup {"primary"} /\ index' = index
         \/ stage = "sampling" /\ stage' = stage /\ index \notin Metrics /\ index' = index + 1
         \/ stage = "sampling" /\ stage' = "recording" /\ index \in Metrics /\ index' = index
         \/ stage = "sampling" /\ stage' = "finalizing" /\ index > Len(Plan)
         \/ stage \in {"finalizing"} \cup Writing /\ stage' \in Writing
  PROVE  ItemsInv'
<1>1. CutInv' /\ OthersInv'
  BY DEF ItemsInv, CutInv, OthersInv, Decided, items
<1>2. CurrentInv'
  BY Placed, PlanFacts
     DEF ItemsInv, CurrentInv, Decided, Opening, Writing, Closing, Items, items
<1> QED  BY <1>1, <1>2 DEF ItemsInv

\* Every step decides items in order and touches no other target's.
LEMMA ItemsStep ==
  ASSUME TypeOK, StageInv, ItemsInv, [Next]_vars
  PROVE  ItemsInv'
<1>1. CASE ConnectSsh
  BY KeptStep, <1>1 DEF ConnectSsh, Raise, Opening, Closing
<1>2. CASE CreateAdapter
  BY KeptStep, <1>2 DEF CreateAdapter, Raise, Opening, Closing
<1>3. CASE Prepare
  BY KeptStep, <1>3 DEF Prepare, Attempt, Raise, Opening, Closing
<1>4. CASE PassOver
  <2>1. stage = "primary" /\ index \in Items /\ target \in Targets
    BY <1>4, Placed DEF PassOver, Collecting, Items
  <2>2. /\ index \in Metrics => status' = status
        /\ index \notin Metrics => status'[target][index] = "omitted"
        /\ \A i \in Items \ {index} : status'[target][i] = status[target][i]
        /\ \A t \in Targets \ {target} : status'[t] = status[t]
    BY <1>4, <2>1, Placed, PlanFacts DEF PassOver, Item
  <2>3. UNCHANGED <<failFast, target, returned, incomplete, stage>> /\ index' = index + 1
    BY <1>4 DEF PassOver
  <2>4. \A i \in Items : incomplete'[target][i] => status'[target][i] \in Collected
    BY <2>1, <2>2, <2>3, Placed DEF ItemsInv, CutInv, CurrentInv, Pending, Collected
  <2>5. CurrentInv'
    BY <2>1, <2>2, <2>3, Placed DEF ItemsInv, CurrentInv, Opening, Writing, Decided, Items
  <2> QED  BY <2>1, <2>2, <2>3, <2>4, <2>5, CurrentStep DEF Collecting
<1>5. CASE ExecutePrimary
  BY <1>5, EndsStep, PlanFacts, Placed DEF ExecutePrimary, Item, Items
<1>6. CASE ExecuteFallback
  BY <1>6, ResultStep, Placed DEF ExecuteFallback
<1>7. CASE RecordItem
  BY <1>7, RecordStep
<1>8. CASE Sample
  <2>1. PICK r \in [Metrics -> {"ok", "error", "unsupported"}] :
           status' = [status EXCEPT ![target] =
                        [i \in Items |-> IF i \in Metrics THEN r[i] ELSE @[i]]]
    BY <1>8 DEF Sample
  <2>2. r \in [Metrics -> Statuses]
    <3>1. {"ok", "error", "unsupported"} \subseteq Statuses
      BY DEF Statuses, Collected, FailedStatuses
    <3> QED  BY <2>1, <3>1
  <2>3. PICK cut \in SUBSET {i \in Metrics : status'[target][i] = "ok"} :
           incomplete' = [incomplete EXCEPT ![target] = [i \in Items |-> @[i] \/ i \in cut]]
    BY <1>8 DEF Sample
  <2>4. cut \in SUBSET {i \in Metrics : r[i] \in Collected}
    BY <1>8, <2>1, <2>3, Placed, PlanFacts DEF Sample, Collecting, Collected
  <2> QED  BY <1>8, <2>1, <2>2, <2>3, <2>4, SampleStep DEF Sample
<1>9. CASE NextMetric
  BY KeptStep, <1>9 DEF NextMetric
<1>10. CASE Finalize
  BY KeptStep, <1>10 DEF Finalize, Writing
<1>11. CASE WriteJson
  BY KeptStep, <1>11 DEF WriteJson, Attempt, Raise, Writing, Closing
<1>12. CASE WriteHtml
  BY KeptStep, <1>12 DEF WriteHtml, Attempt, Raise, Writing, Closing
<1>13. CASE ReturnTarget
  <2>1. /\ UNCHANGED <<failFast, items, index>> /\ index = 1
        /\ returned' = target /\ target' = target + 1 /\ target = returned + 1
        /\ stage' \in {"close_adapter", "primary"}
        /\ stage' = "primary" => target' \in Targets
        /\ \A i \in Items : Decided(status[target][i])
    BY <1>13, Placed, PlanFacts DEF ReturnTarget, StageInv, ItemsInv, CurrentInv, Writing, Targets
  <2>2. CutInv'
    BY <2>1 DEF ItemsInv, CutInv, items
  <2>3. OthersInv'
    BY <2>1, Placed, PlanFacts DEF ItemsInv, OthersInv, Decided, items, Targets
  <2>4. CurrentInv'
    BY <2>1, Placed, PlanFacts
       DEF ItemsInv, OthersInv, CurrentInv, Opening, Writing, items, Targets, Items
  <2> QED  BY <2>2, <2>3, <2>4 DEF ItemsInv
<1>14. CASE CloseAdapter
  BY KeptStep, <1>14 DEF CloseAdapter, Closing
<1>15. CASE CloseSsh
  BY KeptStep, <1>15 DEF CloseSsh, Closing
<1>16. CASE Exit
  BY KeptStep, <1>16 DEF Exit
<1>17. CASE InterruptRaises
  BY KeptStep, <1>17 DEF InterruptRaises, Raise, Closing
<1>18. CASE InterruptSwallowed
  <2>1. CASE Raise("reported") /\ UNCHANGED <<index, items>>
    BY <1>18, <2>1, KeptStep DEF InterruptSwallowed, Raise, Closing
  <2>2. CASE stage = "primary" /\ ExecutingItem /\ ItemEnds("timeout") /\ UNCHANGED <<index, error>>
    BY <1>18, <2>2, EndsStep, PlanFacts, Placed
       DEF InterruptSwallowed, ExecutingItem, Item, Items, Statuses, FailedStatuses
  <2>3. CASE /\ stage = "fallback" /\ stage' = "recording"
            /\ status' = [status EXCEPT ![target][index] = "timeout"]
            /\ UNCHANGED <<index, primary, incomplete, error>>
    <3>1. "timeout" \in Statuses /\ Coverage("timeout")
      BY <2>3 DEF Statuses, FailedStatuses, Coverage
    <3> QED  BY <1>18, <2>3, <3>1, ResultStep, Placed DEF InterruptSwallowed
  <2>4. CASE /\ Sampling /\ stage' = "sampling" /\ index' = 1
            /\ status' = [status EXCEPT ![target] =
                            [i \in Items |-> IF i \in Metrics THEN "error" ELSE @[i]]]
            /\ UNCHANGED <<primary, incomplete, error>>
    <3> DEFINE r == [i \in Metrics |-> "error"]
    <3>1. r \in [Metrics -> Statuses]
      BY DEF Statuses, FailedStatuses
    <3>2. status' = [status EXCEPT ![target] =
                       [i \in Items |-> IF i \in Metrics THEN r[i] ELSE @[i]]]
      BY <2>4
    <3>4. {} \in SUBSET {i \in Metrics : r[i] \in Collected}
      OBVIOUS
    <3> HIDE DEF r
    <3>3. incomplete' = [incomplete EXCEPT ![target] = [i \in Items |-> @[i] \/ i \in {}]]
      BY <2>4, Placed
    <3> QED  BY <1>18, <2>4, <3>1, <3>2, <3>3, <3>4, SampleStep DEF InterruptSwallowed, Sampling
  <2> QED  BY <1>18, <2>1, <2>2, <2>3, <2>4 DEF InterruptSwallowed
<1>19. CASE InterruptClose
  BY KeptStep, <1>19 DEF InterruptClose, Closing
<1>20. CASE UNCHANGED vars
  BY KeptStep, <1>20 DEF vars
<1> QED
  BY <1>1, <1>2, <1>3, <1>4, <1>5, <1>6, <1>7, <1>8, <1>9, <1>10, <1>11, <1>12, <1>13,
     <1>14, <1>15, <1>16, <1>17, <1>18, <1>19, <1>20 DEF Next, Run, Proceed, Interrupt

--------------------------------------------------------------------------------
(* What the files show.                                                     *)

DecidedTarget(t) == \A i \in Items : Decided(status[t][i])

\* What a step may touch: the items of the target being collected, its
\* completion when they are final, its files when they are written.
LEMMA Frame ==
  ASSUME TypeOK, StageInv, [Next]_vars
  PROVE  /\ failFast' = failFast
         /\ \A t \in Targets \ {target} : status'[t] = status[t] /\ incomplete'[t] = incomplete[t]
         /\ stage \in Collecting => target' = target
         /\ stage \notin Collecting =>
              /\ UNCHANGED <<status, incomplete>>
              /\ \/ target' = target /\ stage' \notin Collecting
                 \/ stage = "returning" /\ target' = target + 1 /\ stage' \notin Writing
         /\ stage' \in Writing => stage \in Writing \/ Finalize
         /\ stage' = "returning" => WriteHtml \/ UNCHANGED <<stage, target, files>>
         /\ Finalize \/ UNCHANGED completion
         /\ returned' = returned \/ (stage = "returning" /\ returned' = target)
         /\ \A p \in Paths :
              /\ json'[p] = json[p] \/ (stage = "json" /\ p = PathOf[target] /\ json'[p] = target)
              /\ html'[p] = html[p] \/ (stage = "html" /\ p = PathOf[target] /\ html'[p] = target)
<1> USE Placed DEF Collecting, Opening, Writing, items, files
<1>0. json \in [Paths -> 0..TargetCount] /\ html \in [Paths -> 0..TargetCount]
  BY DEF TypeOK
<1>1. CASE ConnectSsh
  BY <1>0, <1>1 DEF ConnectSsh, Raise
<1>2. CASE CreateAdapter
  BY <1>0, <1>2 DEF CreateAdapter, Raise
<1>3. CASE Prepare
  BY <1>0, <1>3 DEF Prepare, Attempt, Raise
<1>4. CASE PassOver
  BY <1>0, <1>4 DEF PassOver
<1>5. CASE ExecutePrimary
  BY <1>0, <1>5 DEF ExecutePrimary, ItemEnds, Coverage
<1>6. CASE ExecuteFallback
  BY <1>0, <1>6 DEF ExecuteFallback, Coverage
<1>7. CASE RecordItem
  BY <1>0, <1>7 DEF RecordItem, AfterRecording, Raise
<1>8. CASE Sample
  BY <1>0, <1>8 DEF Sample
<1>9. CASE NextMetric
  BY <1>0, <1>9 DEF NextMetric
<1>10. CASE Finalize
  BY <1>0, <1>10 DEF Finalize
<1>11. CASE WriteJson
  BY <1>0, <1>11 DEF WriteJson, Attempt, Raise
<1>12. CASE WriteHtml
  BY <1>0, <1>12 DEF WriteHtml, Attempt, Raise
<1>13. CASE ReturnTarget
  BY <1>0, <1>13 DEF ReturnTarget
<1>14. CASE CloseAdapter
  BY <1>0, <1>14 DEF CloseAdapter
<1>15. CASE CloseSsh
  BY <1>0, <1>15 DEF CloseSsh
<1>16. CASE Exit
  BY <1>0, <1>16 DEF Exit
<1>17. CASE InterruptRaises
  BY <1>0, <1>17 DEF InterruptRaises, Raise, ExecutingItem, Sampling
<1>18. CASE InterruptSwallowed
  BY <1>0, <1>18 DEF InterruptSwallowed, Raise, ItemEnds, Coverage, ExecutingItem,
     Sampling
<1>19. CASE InterruptClose
  BY <1>0, <1>19 DEF InterruptClose
<1>20. CASE UNCHANGED vars
  BY <1>0, <1>20 DEF vars
<1> QED
  BY <1>1, <1>2, <1>3, <1>4, <1>5, <1>6, <1>7, <1>8, <1>9, <1>10, <1>11, <1>12, <1>13,
     <1>14, <1>15, <1>16, <1>17, <1>18, <1>19, <1>20 DEF Next, Run, Proceed, Interrupt

\* A decided target that is not being collected stays as it is.
LEMMA DecidedStep ==
  ASSUME TypeOK, StageInv, [Next]_vars,
         NEW t \in Targets, t < target \/ (t = target /\ stage \notin Collecting)
  PROVE  /\ DecidedTarget(t) => DecidedTarget(t)'
         /\ t < target' \/ (t = target' /\ stage' \notin Collecting)
         /\ status'[t] = status[t] /\ incomplete'[t] = incomplete[t]
<1>1. /\ failFast' = failFast
      /\ status'[t] = status[t] /\ incomplete'[t] = incomplete[t]
      /\ t < target' \/ (t = target' /\ stage' \notin Collecting)
  BY Frame, Placed, PlanFacts DEF Targets
<1> QED  BY <1>1 DEF DecidedTarget, Decided

\* Files show decided targets only, and none that is still being collected.
FilesInv ==
  \A p \in Paths : \A t \in {json[p], html[p]} \ {0} :
    /\ t < target \/ (t = target /\ stage \notin Collecting)
    /\ DecidedTarget(t)

\* What is written is decided, and what shows in a file is not touched again.
LEMMA FilesStep ==
  ASSUME TypeOK, StageInv, ItemsInv, FilesInv, [Next]_vars
  PROVE  FilesInv'
<1> SUFFICES ASSUME NEW p \in Paths, NEW t \in {json'[p], html'[p]} \ {0}
             PROVE  /\ t < target' \/ (t = target' /\ stage' \notin Collecting)
                    /\ DecidedTarget(t)'
  BY DEF FilesInv
<1>1. /\ t < target \/ (t = target /\ stage \notin Collecting)
      /\ DecidedTarget(t)
  <2>1. CASE t \in {json[p], html[p]}
    BY <2>1 DEF FilesInv
  <2>2. CASE t = target /\ stage \in {"json", "html"}
    BY <2>2 DEF ItemsInv, CurrentInv, Writing, Collecting, Opening, DecidedTarget
  <2> QED  BY <2>1, <2>2, Frame
<1>2. t \in Targets
  BY Frame, Placed, PlanFacts DEF TypeOK, Targets, Writing
<1> QED  BY <1>1, <1>2, DecidedStep

\* Nothing is decided or written at first.
LEMMA InitDecided == Init => ItemsInv /\ FilesInv
<1> SUFFICES ASSUME Init PROVE ItemsInv /\ FilesInv
  OBVIOUS
<1>1. \A t \in Targets, i \in Items : status[t][i] = Pending /\ ~incomplete[t][i]
  BY DEF Init
<1>2. target \in Targets /\ index = 1 /\ returned = 0 /\ stage \in Opening
  BY PlanFacts DEF Init, Opening, Targets
<1>3. CutInv /\ OthersInv
  BY <1>1, <1>2 DEF CutInv, OthersInv, Targets
<1>4. CurrentInv
  BY <1>1, <1>2 DEF CurrentInv, Opening, Writing, Items
<1>5. FilesInv
  BY DEF Init, FilesInv
<1> QED  BY <1>3, <1>4, <1>5 DEF ItemsInv

\* No file shows an undecided item, nor a failed one with fail_fast.
THEOREM FilesAreDecided == SafeSpec => []ReportsAreDecided
<1>1. FilesInv => ReportsAreDecided
  BY DEF FilesInv, ReportsAreDecided, DecidedTarget, Decided, Collected, FailedStatuses, Pending
<1> QED
  BY <1>1, InitTyped, InitDecided, StageStep, TypeStep, ItemsStep, FilesStep, PTL DEF SafeSpec

--------------------------------------------------------------------------------
(* The exit status.                                                         *)

\* The targets have output paths of their own.
PathsDiffer == \A t, u \in Targets : PathOf[t] = PathOf[u] => t = u

\* The completion status of a target depends on its items only.
LEMMA SameCompletion ==
  ASSUME NEW t \in Targets, status'[t] = status[t], incomplete'[t] = incomplete[t]
  PROVE  CompletionStatus(t)' = CompletionStatus(t)
BY DEF CompletionStatus

\* A finalized target has the completion status its items give it.
CompletionInv ==
  \A t \in Targets :
    t <= returned \/ (t = target /\ stage \in Writing) => completion[t] = CompletionStatus(t)

\* Once finalized, neither the items nor the completion change.
LEMMA CompletionStep ==
  ASSUME TypeOK, StageInv, CompletionInv, [Next]_vars
  PROVE  CompletionInv'
<1> SUFFICES ASSUME NEW t \in Targets, t <= returned' \/ (t = target' /\ stage' \in Writing)
             PROVE  completion'[t] = CompletionStatus(t)'
  BY DEF CompletionInv
<1>1. CASE Finalize /\ t = target
  <2>1. completion'[t] = CompletionStatus(t)
    BY <1>1 DEF Finalize, TypeOK
  <2> QED  BY <1>1, <2>1, SameCompletion DEF Finalize, items
<1>2. CASE ~(Finalize /\ t = target)
  <2>1. t <= returned \/ (t = target /\ stage \in Writing)
    <3>1. CASE t <= returned'
      BY <3>1, Frame, Placed DEF Writing, Targets
    <3>2. CASE t = target' /\ stage' \in Writing
      BY <1>2, <3>2, Frame DEF Finalize, Collecting, Opening, Writing, Targets
    <3> QED  BY <3>1, <3>2
  <2>2. status'[t] = status[t] /\ incomplete'[t] = incomplete[t]
    <3>1. returned < target
      BY Placed DEF TypeOK, Stages, Collecting, Opening, Writing, Closing, Targets
    <3>2. t < target \/ (t = target /\ stage \notin Collecting)
      BY <2>1, <3>1, Placed DEF Writing, Collecting, Opening, Targets
    <3> QED  BY <3>2, DecidedStep
  <2>3. completion'[t] = completion[t]
    BY <1>2, Frame DEF Finalize, TypeOK
  <2> QED  BY <2>1, <2>2, <2>3, SameCompletion DEF CompletionInv
<1> QED  BY <1>1, <1>2

\* A returned target has both files.
WrittenInv ==
  /\ stage = "returning" => html[PathOf[target]] = target
  /\ \A t \in Targets : t <= returned => Written(t)

\* Later targets write elsewhere.
LEMMA WrittenStep ==
  ASSUME PathsDiffer, TypeOK, StageInv, JsonInv, WrittenInv, [Next]_vars
  PROVE  WrittenInv'
<1>1. ASSUME stage' = "returning"
      PROVE  html'[PathOf[target']] = target'
  <2>1. CASE WriteHtml
    BY <1>1, <2>1, Placed, PlanFacts DEF WriteHtml, Attempt, Raise, TypeOK, Writing
  <2> QED  BY <1>1, <2>1, Frame DEF WrittenInv, files
<1>2. ASSUME NEW t \in Targets, t <= returned
      PROVE  Written(t)'
  <2>1. Written(t)
    BY <1>2 DEF WrittenInv
  <2>2. stage \in Writing => PathOf[t] # PathOf[target]
    BY <1>2, Placed DEF PathsDiffer, Targets
  <2> QED  BY <1>2, <2>1, <2>2, Frame, PlanFacts DEF Written, Writing
<1>3. ASSUME NEW t \in Targets, t = target, stage = "returning"
      PROVE  Written(t)'
  BY <1>3, Frame, PlanFacts DEF Written, WrittenInv, JsonInv
<1>4. ASSUME NEW t \in Targets, t <= returned'
      PROVE  Written(t)'
  BY <1>2, <1>3, <1>4, Frame, Placed DEF Writing, Targets
<1> QED  BY <1>1, <1>4 DEF WrittenInv

\* Statuses 0 and 1 of a run without an error follow from the completions.
ExitInv ==
  /\ exit = 0 => error = "none" /\ \A t \in Targets : completion[t] = "succeeded"
  /\ exit = 1 /\ error = "none" => \E t \in Targets : completion[t] # "succeeded"

\* The exit status is set once, and nothing changes after it.
LEMMA ExitStep ==
  ASSUME TypeOK, StageInv, ExitInv, [Next]_vars
  PROVE  ExitInv'
<1>1. CASE Exit
  BY <1>1 DEF Exit, ExitInv, TypeOK
<1>2. CASE UNCHANGED vars
  BY <1>2 DEF vars, ExitInv
<1>3. CASE stage # "exiting"
  <2>1. exit = Running
    BY <1>3 DEF StageInv
  <2>2. exit' = exit
    BY <1>2, <1>3
       DEF Next, Run, Proceed, Interrupt, ConnectSsh, CreateAdapter, Prepare, PassOver, ExecutePrimary,
           ExecuteFallback, RecordItem, Sample, NextMetric, Finalize, WriteJson, WriteHtml,
           ReturnTarget, CloseAdapter, CloseSsh, Exit, InterruptRaises, InterruptSwallowed,
           InterruptClose, vars
  <2> QED  BY <2>1, <2>2 DEF ExitInv, Running
<1>4. stage = "exiting" => Exit \/ UNCHANGED vars
  BY DEF Next, Run, Proceed, Interrupt, ConnectSsh, CreateAdapter, Prepare, PassOver, ExecutePrimary,
         ExecuteFallback, RecordItem, Sample, NextMetric, Finalize, WriteJson, WriteHtml,
         ReturnTarget, CloseAdapter, CloseSsh, InterruptRaises, InterruptSwallowed,
         InterruptClose, ExecutingItem, Sampling
<1> QED  BY <1>1, <1>2, <1>3, <1>4

\* What an exit status 0 or 1 says, in one invariant.
EndInv == StageInv /\ ItemsInv /\ CompletionInv /\ WrittenInv /\ ExitInv

\* What is known of a target whose report has been written.
Concluded(t) ==
  /\ Written(t)
  /\ completion[t] = CompletionStatus(t)
  /\ \A i \in Items : status[t][i] \in Collected \cup {"omitted"} \cup FailedStatuses
  /\ \A i \in Items : incomplete[t][i] => status[t][i] \in Collected

\* A run that ends without an error leaves decided, written targets only.
LEMMA ReportsAtExit ==
  ASSUME TypeOK, StageInv, ItemsInv, CompletionInv, WrittenInv,
         stage = "exiting", error = "none", NEW t \in Targets
  PROVE  Concluded(t)
<1>1. t <= returned
  BY DEF StageInv, Closing, Targets
<1> QED
  BY <1>1 DEF Concluded, WrittenInv, CompletionInv, ItemsInv, OthersInv, CutInv, Decided

\* The completion status of such a target says what its items are.
LEMMA SucceededTarget ==
  ASSUME NEW t \in Targets, Concluded(t), completion[t] = "succeeded"
  PROVE  \A i \in Items : status[t][i] \in Collected \cup {"omitted"} /\ ~incomplete[t][i]
<1>1. CompletionStatus(t) = "succeeded"
  BY DEF Concluded
<1>2. \A i \in Items : /\ status[t][i] \notin FailedStatuses
                       /\ status[t][i] # "omitted" => ~incomplete[t][i]
  BY <1>1 DEF CompletionStatus
<1> SUFFICES ASSUME NEW i \in Items
             PROVE  status[t][i] \in Collected \cup {"omitted"} /\ ~incomplete[t][i]
  OBVIOUS
<1>3. /\ status[t][i] \in Collected \cup {"omitted"} \cup FailedStatuses
      /\ incomplete[t][i] => status[t][i] \in Collected
  BY DEF Concluded
<1> QED  BY <1>2, <1>3 DEF Collected

LEMMA UnsuccessfulTarget ==
  ASSUME NEW t \in Targets, Concluded(t), completion[t] # "succeeded"
  PROVE  \E i \in Items : \/ status[t][i] \in FailedStatuses
                          \/ status[t][i] # "omitted" /\ incomplete[t][i]
<1>1. CompletionStatus(t) # "succeeded"
  BY DEF Concluded
<1> QED  BY <1>1 DEF CompletionStatus

\* It is an invariant of the runs whose output paths differ.
LEMMA EndInvariant ==
  ASSUME PathsDiffer
  PROVE  SafeSpec => [](TypeOK /\ EndInv)
<1>1. Init => CompletionInv /\ WrittenInv /\ ExitInv /\ JsonInv
  BY PlanFacts DEF Init, CompletionInv, WrittenInv, ExitInv, JsonInv, Writing, Targets, Running
<1>2. TypeOK /\ EndInv /\ JsonInv /\ [Next]_vars => (TypeOK /\ EndInv /\ JsonInv)'
  BY StageStep, TypeStep, ItemsStep, CompletionStep, WrittenStep, ExitStep, JsonStep DEF EndInv
<1>3. Init => TypeOK /\ EndInv /\ JsonInv
  BY <1>1, InitTyped, InitDecided DEF EndInv
<1> QED  BY <1>2, <1>3, PTL DEF SafeSpec

\* Exit status 0 says that every target has a complete report of its own.
THEOREM ExitZeroIsTruthful ==
  ASSUME PathsDiffer
  PROVE  SafeSpec => []ExitZeroIsComplete
<1>1. TypeOK /\ EndInv => ExitZeroIsComplete
  <2> SUFFICES ASSUME TypeOK, EndInv, exit = 0, NEW t \in Targets
               PROVE  /\ Written(t) /\ completion[t] = "succeeded"
                      /\ \A i \in Items : /\ status[t][i] \in Collected \cup {"omitted"}
                                          /\ ~incomplete[t][i]
    BY DEF ExitZeroIsComplete
  <2>1. error = "none" /\ completion[t] = "succeeded" /\ stage = "exiting"
    BY DEF EndInv, ExitInv, StageInv, Running
  <2>2. Concluded(t)
    BY <2>1, ReportsAtExit DEF EndInv
  <2> QED  BY <2>1, <2>2, SucceededTarget DEF Concluded
<1> QED  BY <1>1, EndInvariant, PTL

\* A run that ended without an error and exits with 1 has written every report,
\* one of them with a failure or a gap.
THEOREM PartialRunsAreWritten ==
  ASSUME PathsDiffer
  PROVE  SafeSpec => []PartialRunIsWritten
<1>1. TypeOK /\ EndInv => PartialRunIsWritten
  <2> SUFFICES ASSUME TypeOK, EndInv, exit = 1, error = "none"
               PROVE  /\ \A t \in Targets : Written(t)
                      /\ \E t \in Targets, i \in Items :
                           \/ status[t][i] \in FailedStatuses
                           \/ status[t][i] # "omitted" /\ incomplete[t][i]
    BY DEF PartialRunIsWritten
  <2>1. PICK t \in Targets : completion[t] # "succeeded"
    BY DEF EndInv, ExitInv
  <2>2. stage = "exiting"
    BY DEF EndInv, StageInv, Running
  <2>3. \A u \in Targets : Concluded(u)
    BY <2>2, ReportsAtExit DEF EndInv
  <2> QED  BY <2>1, <2>3, UnsuccessfulTarget DEF Concluded
<1> QED  BY <1>1, EndInvariant, PTL

--------------------------------------------------------------------------------
(* Targets that share an output path: _output_paths maps every character    *)
(* that does not suit a file name to one.                                    *)

\* A run that ends without an error shows, as JSON and as HTML, the last target of
\* each path; an earlier one with the same path has lost its report.
LastTargetIsShown ==
  exit # Running /\ error = "none" =>
    \A p \in Paths :
      /\ html[p] = json[p]
      /\ json[p] \in Targets /\ PathOf[json[p]] = p
      /\ \A t \in Targets : PathOf[t] = p => t <= json[p]

\* A path shows targets of its own, and later ones as the run goes on.
SharedInv ==
  /\ \A p \in Paths : /\ json[p] # 0 => PathOf[json[p]] = p
                      /\ html[p] # 0 => PathOf[html[p]] = p
                      /\ json[p] <= target /\ html[p] <= target
  /\ \A t \in Targets : t <= returned => json[PathOf[t]] >= t /\ html[PathOf[t]] >= t
  /\ stage = "returning" => html[PathOf[target]] = target

\* A target is written over those that share its path.
LEMMA SharedStep ==
  ASSUME TypeOK, StageInv, JsonInv, SharedInv, [Next]_vars
  PROVE  SharedInv'
<1>1. /\ target \in Nat /\ target' \in Nat /\ target <= target'
      /\ stage \in Writing => target \in Targets /\ target = returned + 1
      /\ returned \in Nat
      /\ \A p \in Paths : json[p] \in Nat /\ html[p] \in Nat
  BY Frame, Placed, PlanFacts DEF TypeOK, Targets
<1>2. ASSUME NEW p \in Paths
      PROVE  /\ json'[p] # 0 => PathOf[json'[p]] = p
             /\ html'[p] # 0 => PathOf[html'[p]] = p
             /\ json'[p] <= target' /\ html'[p] <= target'
             /\ json[p] <= json'[p] /\ html[p] <= html'[p]
  BY <1>1, Frame DEF SharedInv
<1>3. ASSUME NEW t \in Targets, t <= returned'
      PROVE  json'[PathOf[t]] >= t /\ html'[PathOf[t]] >= t
  <2>1. json[PathOf[t]] >= t /\ html[PathOf[t]] >= t
    <3>1. CASE t <= returned
      BY <3>1 DEF SharedInv
    <3>2. CASE ~(t <= returned)
      <4>1. stage = "returning" /\ t = target
        BY <1>1, <1>3, <3>2, Frame DEF Writing, Targets
      <4> QED  BY <1>1, <4>1 DEF SharedInv, JsonInv
    <3> QED  BY <3>1, <3>2
  <2> QED  BY <1>1, <1>2, <2>1, PlanFacts, Frame DEF Targets
<1>4. ASSUME stage' = "returning"
      PROVE  html'[PathOf[target']] = target'
  <2>1. CASE WriteHtml
    BY <1>4, <2>1, Placed, PlanFacts DEF WriteHtml, Attempt, Raise, TypeOK, Writing
  <2> QED  BY <1>4, <2>1, Frame DEF SharedInv, files
<1> QED  BY <1>2, <1>3, <1>4 DEF SharedInv

\* What is on disk after a run without an error, also when output paths coincide.
THEOREM SharedPathsShowTheLast == SafeSpec => []LastTargetIsShown
<1>1. Init => TypeOK /\ StageInv /\ JsonInv /\ SharedInv
  <2> SUFFICES ASSUME Init PROVE TypeOK /\ StageInv /\ JsonInv /\ SharedInv
    OBVIOUS
  <2>1. returned = 0 /\ \A t \in Targets : ~(t <= returned)
    BY DEF Init, Targets
  <2> QED  BY <2>1, InitTyped DEF Init, JsonInv, SharedInv
<1>2. TypeOK /\ StageInv /\ JsonInv /\ SharedInv => LastTargetIsShown
  <2> SUFFICES ASSUME TypeOK, StageInv, SharedInv, exit # Running, error = "none",
                      NEW p \in Paths
               PROVE  /\ html[p] = json[p]
                      /\ json[p] \in Targets /\ PathOf[json[p]] = p
                      /\ \A t \in Targets : PathOf[t] = p => t <= json[p]
    BY DEF LastTargetIsShown
  <2>1. returned = TargetCount
    BY DEF StageInv, Closing
  <2>2. /\ TargetCount \in Nat
        /\ json[p] \in 0..TargetCount /\ html[p] \in 0..TargetCount
    BY PlanFacts DEF TypeOK
  <2>3. \A t \in Targets : PathOf[t] = p => t <= json[p] /\ t <= html[p]
    BY <2>1, <2>2 DEF SharedInv, Targets
  <2>4. PICK t \in Targets : PathOf[t] = p
    BY DEF Paths
  <2>5. json[p] # 0 /\ html[p] # 0
    BY <2>2, <2>3, <2>4 DEF Targets
  <2>6. json[p] \in Targets /\ PathOf[json[p]] = p /\ html[p] \in Targets /\ PathOf[html[p]] = p
    BY <2>2, <2>5 DEF SharedInv, Targets
  <2>7. html[p] = json[p]
    BY <2>2, <2>3, <2>6
  <2> QED  BY <2>3, <2>6, <2>7
<1>3. TypeOK /\ StageInv /\ JsonInv /\ SharedInv /\ [Next]_vars
        => (TypeOK /\ StageInv /\ JsonInv /\ SharedInv)'
  BY StageStep, TypeStep, JsonStep, SharedStep
<1> QED  BY <1>1, <1>2, <1>3, PTL DEF SafeSpec

--------------------------------------------------------------------------------
(* The length of a run.                                                     *)

\* The steps a target can still take: three for an item before the metrics, two in the
\* loop over the metrics, four for the report.
TargetSteps(place, item) ==
  LET left == Len(Plan) + 1 - item
  IN CASE place = "primary" -> 3 * left + 2 * Len(Plan) + 6
       [] place = "fallback" -> 3 * left + 2 * Len(Plan) + 5
       [] place = "recording" -> IF item \in Metrics THEN 2 * left + 4
                                 ELSE 3 * left + 2 * Len(Plan) + 4
       [] place = "sampling" -> 2 * left + 5
       [] place = "finalizing" -> 4
       [] place = "json" -> 3
       [] place = "html" -> 2
       [] place = "returning" -> 1

\* A target takes fewer steps than this, and so do those after the first t.
TargetLength == 5 * Len(Plan) + 7
StepsAfter(t) == (TargetCount - t) * TargetLength

\* The steps a run can still take: those of its targets and, whatever happens, the
\* two closes and the exit.
RunSteps(place, t, item, code) ==
  CASE place = "connecting" -> StepsAfter(0) + 8
    [] place = "creating" -> StepsAfter(0) + 7
    [] place = "detecting" -> StepsAfter(0) + 6
    [] place = "hostname" -> StepsAfter(0) + 5
    [] place = "resolving" -> StepsAfter(0) + 4
    [] place = "close_adapter" -> 3
    [] place = "close_ssh" -> 2
    [] place = "exiting" -> IF code = Running THEN 1 ELSE 0
    [] OTHER -> StepsAfter(t) + TargetSteps(place, item) + 3

StepsLeft == RunSteps(stage, target, index, exit)

\* No step of the run is in vain: neither a failure nor Ctrl-C makes it longer.
EveryStepCounts == [][StepsLeft' \in Nat /\ StepsLeft' < StepsLeft]_vars

\* The length that is left, place by place.
LeftByStage ==
  LET left == Len(Plan) + 1 - index
  IN /\ stage = "connecting" => StepsLeft = StepsAfter(0) + 8
     /\ stage = "creating" => StepsLeft = StepsAfter(0) + 7
     /\ stage = "detecting" => StepsLeft = StepsAfter(0) + 6
     /\ stage = "hostname" => StepsLeft = StepsAfter(0) + 5
     /\ stage = "resolving" => StepsLeft = StepsAfter(0) + 4
     /\ stage = "primary" => StepsLeft = StepsAfter(target) + (3 * left + 2 * Len(Plan) + 6) + 3
     /\ stage = "fallback" => StepsLeft = StepsAfter(target) + (3 * left + 2 * Len(Plan) + 5) + 3
     /\ stage = "recording" /\ index \in Metrics =>
          StepsLeft = StepsAfter(target) + (2 * left + 4) + 3
     /\ stage = "recording" /\ index \notin Metrics =>
          StepsLeft = StepsAfter(target) + (3 * left + 2 * Len(Plan) + 4) + 3
     /\ stage = "sampling" => StepsLeft = StepsAfter(target) + (2 * left + 5) + 3
     /\ stage = "finalizing" => StepsLeft = StepsAfter(target) + 4 + 3
     /\ stage = "json" => StepsLeft = StepsAfter(target) + 3 + 3
     /\ stage = "html" => StepsLeft = StepsAfter(target) + 2 + 3
     /\ stage = "returning" => StepsLeft = StepsAfter(target) + 1 + 3
     /\ stage = "close_adapter" => StepsLeft = 3
     /\ stage = "close_ssh" => StepsLeft = 2
     /\ stage = "exiting" /\ exit = Running => StepsLeft = 1
     /\ stage = "exiting" /\ exit # Running => StepsLeft = 0

LEMMA Lengths == LeftByStage
BY DEF LeftByStage, StepsLeft, RunSteps, TargetSteps

\* The targets that remain never take a negative number of steps, and the next
\* target takes its share of them.
LEMMA TargetsAhead ==
  /\ TargetLength \in Nat /\ TargetLength >= 7
  /\ \A t \in 0..TargetCount : StepsAfter(t) \in Nat
  /\ \A t \in 0..(TargetCount - 1) : StepsAfter(t) = StepsAfter(t + 1) + TargetLength
<1>1. TargetLength \in Nat /\ TargetLength >= 7 /\ TargetCount \in Nat
  BY PlanFacts DEF TargetLength
<1>2. ASSUME NEW n \in Nat PROVE n * TargetLength \in Nat
  BY <1>1
<1>3. ASSUME NEW t \in 0..TargetCount PROVE StepsAfter(t) \in Nat
  <2>1. TargetCount - t \in Nat
    BY <1>1
  <2> QED  BY <1>2, <2>1 DEF StepsAfter
<1>4. ASSUME NEW t \in 0..(TargetCount - 1)
      PROVE  StepsAfter(t) = StepsAfter(t + 1) + TargetLength
  <2>1. PICK n \in Nat : n = TargetCount - (t + 1)
    BY <1>1
  <2>2. TargetCount - t = n + 1 /\ TargetCount - (t + 1) = n
    BY <1>1, <2>1
  <2>3. (n + 1) * TargetLength = n * TargetLength + TargetLength
    BY <1>1
  <2> QED  BY <2>2, <2>3 DEF StepsAfter
<1> QED  BY <1>1, <1>3, <1>4

\* The length that is left is a number.
LEMMA LengthTyped ==
  ASSUME TypeOK, StageInv
  PROVE  StepsLeft \in Nat
<1>1. /\ Len(Plan) \in Nat /\ target \in Nat \ {0} /\ index \in 1..(Len(Plan) + 1)
      /\ stage \in Stages /\ TargetCount \in Nat \ {0}
  BY PlanFacts DEF TypeOK
<1>2. StepsAfter(0) \in Nat /\ LeftByStage
  BY <1>1, TargetsAhead, Lengths
<1>3. CASE stage \in Opening
  BY <1>2, <1>3 DEF LeftByStage, Opening
<1>4. CASE stage \in Collecting \cup Writing /\ stage \notin Opening
  <2>1. StepsAfter(target) \in Nat
    BY <1>1, <1>4, TargetsAhead DEF StageInv
  <2>2. CASE stage = "recording"
    BY <1>1, <1>2, <2>1, <2>2 DEF LeftByStage
  <2>3. CASE stage # "recording"
    <3>1. CASE stage \in {"primary", "fallback", "sampling"}
      BY <1>1, <1>2, <2>1, <3>1 DEF LeftByStage
    <3>2. CASE stage \in {"finalizing"} \cup Writing
      BY <1>2, <2>1, <3>2 DEF LeftByStage, Writing
    <3> QED  BY <1>4, <2>3, <3>1, <3>2 DEF Opening, Collecting
  <2> QED  BY <2>2, <2>3
<1>5. CASE stage \in Closing
  BY <1>2, <1>5 DEF LeftByStage, Closing
<1> QED
  BY <1>1, <1>3, <1>4, <1>5 DEF Stages, Opening, Collecting, Writing, Closing

\* Every step of the run leaves fewer steps.
LEMMA LengthStep ==
  ASSUME TypeOK, StageInv, Next
  PROVE  StepsLeft' \in Nat /\ StepsLeft' < StepsLeft
<1>1. /\ Len(Plan) \in Nat /\ TargetCount \in Nat \ {0} /\ Running = -1
      /\ target \in Nat \ {0} /\ index \in 1..(Len(Plan) + 1)
      /\ exit \in {Running, 0, 1, 2, 130} /\ stage \in Stages
  BY PlanFacts DEF TypeOK, Running
<1>2. LeftByStage
  BY Lengths
<1>3. LeftByStage'
  BY DEF LeftByStage, StepsLeft, RunSteps, TargetSteps
<1>4. /\ StepsAfter(0) \in Nat /\ StepsAfter(1) \in Nat
      /\ StepsAfter(0) = StepsAfter(1) + (5 * Len(Plan) + 7)
  BY <1>1, TargetsAhead DEF TargetLength
<1>5. ASSUME stage \in Collecting \cup Writing PROVE StepsAfter(target) \in Nat
  BY <1>1, <1>5, TargetsAhead DEF StageInv
<1> USE <1>1, <1>2, <1>3 DEF LeftByStage
<1>6. CASE ConnectSsh
  BY <1>6, <1>4 DEF ConnectSsh, Raise
<1>7. CASE CreateAdapter
  BY <1>7, <1>4 DEF CreateAdapter, Raise
<1>8. CASE Prepare
  <2>1. target = 1 /\ index = 1 /\ UNCHANGED <<target, index>>
    BY <1>8 DEF Prepare, StageInv, Opening
  <2>2. \/ stage = "detecting" /\ stage' \in {"hostname", "close_adapter"}
        \/ stage = "hostname" /\ stage' \in {"resolving", "close_adapter"}
        \/ stage = "resolving" /\ stage' \in {"primary", "close_adapter"}
    BY <1>8 DEF Prepare, Attempt, Raise
  <2> QED  BY <1>4, <2>1, <2>2
<1>9. CASE PassOver
  <2>1. /\ stage = "primary" /\ index <= Len(Plan) /\ index' = index + 1
        /\ UNCHANGED <<stage, target>>
    BY <1>9 DEF PassOver
  <2> QED  BY <1>5, <2>1 DEF Collecting
<1>10. CASE ExecutePrimary
  <2>1. index \notin Metrics
    BY <1>10 DEF ExecutePrimary, Item, Metrics
  <2>2. stage' \in {"recording", "fallback"}
    BY <1>10 DEF ExecutePrimary, ItemEnds
  <2> QED  BY <1>10, <1>5, <2>1, <2>2 DEF ExecutePrimary, Collecting
<1>11. CASE ExecuteFallback
  <2>1. /\ stage = "fallback" /\ stage' = "recording" /\ UNCHANGED <<target, index>>
        /\ index \notin Metrics
    BY <1>11 DEF ExecuteFallback, StageInv
  <2> QED  BY <1>5, <2>1 DEF Collecting
<1>12. CASE RecordItem
  <2>1. index \in Items /\ (index \in Metrics <=> Item.kind = "metric")
    BY <1>12, PlanFacts DEF RecordItem, StageInv, Items, Item
  <2>2. /\ stage = "recording" /\ UNCHANGED target
        /\ \/ stage' = "close_adapter"
           \/ /\ index' = index + 1
              /\ stage' = IF Item.kind = "metric" THEN "sampling" ELSE "primary"
    BY <1>12 DEF RecordItem, AfterRecording, Raise
  <2>3. index <= Len(Plan)
    BY <2>1 DEF Items
  <2>4. StepsAfter(target) \in Nat
    BY <1>5, <2>2 DEF Collecting
  <2>5. CASE stage' = "close_adapter"
    BY <2>2, <2>3, <2>4, <2>5
  <2>6. CASE /\ index \in Metrics
             /\ index' = index + 1 /\ stage' = "sampling"
    BY <2>2, <2>3, <2>4, <2>6
  <2>7. CASE /\ index \notin Metrics
             /\ index' = index + 1 /\ stage' = "primary"
    BY <2>2, <2>3, <2>4, <2>7
  <2> QED  BY <2>1, <2>2, <2>5, <2>6, <2>7
<1>13. CASE Sample
  BY <1>13, <1>5 DEF Sample, Collecting
<1>14. CASE NextMetric
  <2>1. stage = "sampling" /\ UNCHANGED target
    BY <1>14 DEF NextMetric
  <2>2. CASE index > Len(Plan)
    BY <1>14, <1>5, <2>1, <2>2 DEF NextMetric, Collecting
  <2>3. CASE index <= Len(Plan) /\ index \in Metrics
    BY <1>14, <1>5, <2>1, <2>3 DEF NextMetric, Collecting
  <2>4. CASE index <= Len(Plan) /\ index \notin Metrics
    BY <1>14, <1>5, <2>1, <2>4 DEF NextMetric, Collecting
  <2> QED  BY <2>2, <2>3, <2>4
<1>15. CASE Finalize
  BY <1>15, <1>5 DEF Finalize, Collecting
<1>16. CASE WriteJson
  BY <1>16, <1>5 DEF WriteJson, Attempt, Raise, Writing
<1>17. CASE WriteHtml
  BY <1>17, <1>5 DEF WriteHtml, Attempt, Raise, Writing
<1>18. CASE ReturnTarget
  <2>1. target <= TargetCount /\ index = 1
    BY <1>18 DEF ReturnTarget, StageInv, Writing
  <2>2. CASE target = TargetCount
    BY <1>18, <1>5, <2>2 DEF ReturnTarget, Writing
  <2>3. CASE target # TargetCount
    <3>1. /\ StepsAfter(target + 1) \in Nat
          /\ StepsAfter(target) = StepsAfter(target + 1) + (5 * Len(Plan) + 7)
      BY <2>1, <2>3, TargetsAhead DEF TargetLength
    <3> QED  BY <1>18, <2>1, <2>3, <3>1 DEF ReturnTarget
  <2> QED  BY <2>2, <2>3
<1>19. CASE CloseAdapter
  BY <1>19 DEF CloseAdapter
<1>20. CASE CloseSsh
  BY <1>20 DEF CloseSsh
<1>21. CASE Exit
  BY <1>21 DEF Exit, TypeOK
<1>22. CASE InterruptRaises
  <2>1. stage' = "close_adapter"
    BY <1>22 DEF InterruptRaises, Raise
  <2>2. stage \in Opening \cup {"primary", "fallback"}
    BY <1>22 DEF InterruptRaises, ExecutingItem, Sampling, Opening
  <2>3. CASE stage \in Opening
    BY <1>4, <2>1, <2>3 DEF Opening
  <2>4. CASE stage \in {"primary", "fallback"}
    BY <1>5, <2>1, <2>4 DEF Collecting
  <2> QED  BY <2>2, <2>3, <2>4
<1>23. CASE InterruptSwallowed
  <2>1. CASE stage \in {"detecting", "resolving"}
    <3>1. stage' = "close_adapter"
      BY <1>23, <2>1 DEF InterruptSwallowed, Raise, ExecutingItem, Sampling
    <3> QED  BY <1>4, <2>1, <3>1
  <2>2. CASE stage = "primary" /\ ExecutingItem
    <3>1. index \notin Metrics
      BY <2>2 DEF ExecutingItem, Item, Metrics
    <3>2. UNCHANGED <<target, index, exit>> /\ stage' \in {"recording", "fallback"}
      BY <1>23, <2>2 DEF InterruptSwallowed, ItemEnds, ExecutingItem, Sampling
    <3> QED  BY <1>5, <2>2, <3>1, <3>2 DEF Collecting
  <2>3. CASE stage = "fallback"
    <3>1. /\ stage' = "recording" /\ UNCHANGED <<target, index>>
          /\ index \notin Metrics
      BY <1>23, <2>3 DEF InterruptSwallowed, Sampling, StageInv
    <3> QED  BY <1>5, <2>3, <3>1 DEF Collecting
  <2>4. CASE Sampling
    BY <1>23, <1>5, <2>4 DEF InterruptSwallowed, ExecutingItem, Sampling, Collecting
  <2> QED  BY <1>23, <2>1, <2>2, <2>3, <2>4 DEF InterruptSwallowed
<1>24. CASE InterruptClose
  BY <1>24 DEF InterruptClose
<1> QED
  BY <1>6, <1>7, <1>8, <1>9, <1>10, <1>11, <1>12, <1>13, <1>14, <1>15, <1>16, <1>17,
     <1>18, <1>19, <1>20, <1>21, <1>22, <1>23, <1>24 DEF Next, Run, Proceed, Interrupt

\* Every step uses up one of finitely many: whatever fails, and whenever Ctrl-C comes,
\* the run is over after at most TargetCount * TargetLength + 8 steps.
THEOREM RunsAreBounded ==
  /\ Init => StepsLeft \in Nat /\ StepsLeft <= TargetCount * TargetLength + 8
  /\ SafeSpec => EveryStepCounts
<1>1. Init => StepsLeft \in Nat /\ StepsLeft <= TargetCount * TargetLength + 8
  <2> SUFFICES ASSUME Init
               PROVE  StepsLeft \in Nat /\ StepsLeft <= TargetCount * TargetLength + 8
    OBVIOUS
  <2>1. StepsLeft \in {StepsAfter(0) + 8, StepsAfter(0) + 7}
    BY Lengths DEF Init, LeftByStage
  <2>2. StepsAfter(0) = TargetCount * TargetLength /\ StepsAfter(0) \in Nat
    BY PlanFacts, TargetsAhead DEF StepsAfter
  <2> QED  BY <2>1, <2>2
<1>2. TypeOK /\ StageInv /\ [Next]_vars => [StepsLeft' \in Nat /\ StepsLeft' < StepsLeft]_vars
  BY LengthStep
<1>3. TypeOK /\ StageInv /\ [Next]_vars => (TypeOK /\ StageInv)'
  BY StageStep, TypeStep
<1> QED  BY <1>1, <1>2, <1>3, InitTyped, PTL DEF SafeSpec, EveryStepCounts

================================================================================
