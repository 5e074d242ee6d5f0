--------------------------- MODULE CommandRun_proofs ---------------------------
(***************************************************************************)
(* Proofs about CommandRun, for any number of targets, any plan and any     *)
(* number of fetched files. The collection keeps the invariants of          *)
(* CollectionRun_proofs until it has ended; what it has closed and decided  *)
(* then stays (KeptInv), and the command answers once (AnswerInv). If the   *)
(* targets have output paths of their own, so does what it has written and  *)
(* concluded (RunInv, ResultInv, DeedsInv), and an envelope says so         *)
(* (TruthInv). CommandSteps bounds the length of a command.                 *)
(***************************************************************************)
EXTENDS CommandRun, CollectionRun_proofs, FiniteSetTheorems

\* Where the command is around the collection, and where it makes a result of it.
Before == {"loading", "dispatching"}
Reporting == {"describing", "summarizing", "printed"}

--------------------------------------------------------------------------------
(* The collection inside the command.                                        *)

\* A cancelled run was interrupted.
CancelInv == error = "cancelled" => interrupted

\* The invariants of the collection while it has not ended, then what it has closed
\* and decided. Targets may share an output path.
KeptInv ==
  /\ step \in Before =>
       /\ TypeOK /\ StageInv /\ JsonInv /\ CloseInv /\ ItemsInv /\ FilesInv /\ CancelInv
       /\ exit = Running
  /\ step = "loading" => ssh = "none" /\ adapter = "none"
  /\ step \notin Before => ssh # "open" /\ adapter # "open"
  /\ json \in [Paths -> 0..TargetCount]
  /\ ReportsAreDecided

\* The collection does not end the command, and is cancelled by Ctrl-C only.
LEMMA CollectionStep ==
  ASSUME Proceed \/ Interrupt
  PROVE  /\ exit' = exit
         /\ CancelInv => CancelInv'
<1> USE DEF Raise, Attempt, CancelInv, DriverErrors
<1>1. ASSUME Proceed PROVE exit' = exit /\ (CancelInv => CancelInv')
  BY <1>1 DEF Proceed, ConnectSsh, CreateAdapter, Prepare, PassOver, ExecutePrimary,
     ExecuteFallback, RecordItem, AfterRecording, Sample, NextMetric, Finalize, WriteJson,
     WriteHtml, ReturnTarget, CloseAdapter, CloseSsh
<1>2. ASSUME Interrupt PROVE exit' = exit /\ (CancelInv => CancelInv')
  BY <1>2 DEF Interrupt, InterruptRaises, InterruptSwallowed, InterruptClose
<1> QED  BY <1>1, <1>2

\* The actions around the collection.
LEMMA Actions ==
  ASSUME [CommandNext]_allVars
  PROVE  \/ Dispatch \/ ExitPlain \/ LoadContent \/ DispatchEnds \/ Describe \/ Summarize
         \/ Emit \/ Return \/ EmitFailure \/ InterruptCommand \/ Fetch \/ UNCHANGED allVars
BY DEF CommandNext, Command

\* Until the collection ends the command's steps are steps of it.
LEMMA BeforeStep ==
  ASSUME step \in Before => TypeOK, [CommandNext]_allVars, step' \in Before
  PROVE  /\ step \in Before /\ [Next]_vars
         /\ step' = "loading" => step = "loading"
         /\ (Dispatch /\ exit' = exit) \/ UNCHANGED vars
<1>1. /\ step \in Before /\ (step' = "loading" => step = "loading")
      /\ (Dispatch /\ exit' = exit) \/ UNCHANGED vars
  <2>1. CASE Dispatch
    BY <2>1, CollectionStep DEF Dispatch, Before, commandVars
  <2>2. CASE LoadContent
    BY <2>2 DEF LoadContent, Handle, Finish, collection, vars, Before, items, files, resources
  <2>3. CASE ~Dispatch /\ ~LoadContent
    <3>1. CASE UNCHANGED allVars
      BY <3>1 DEF allVars, commandVars
    <3>2. ~(ExitPlain \/ Describe \/ Emit \/ Return \/ EmitFailure \/ InterruptCommand)
      BY DEF ExitPlain, Describe, Emit, Return, EmitFailure, InterruptCommand, Handle, Finish, Before
    <3>3. ~(Summarize \/ Fetch)
      BY DEF Summarize, Fetch, Handle, Before
    <3>4. ~DispatchEnds
      <4>1. ASSUME DispatchEnds PROVE error \in {"none", "cancelled", "reported", "unhandled"}
        BY <4>1 DEF DispatchEnds, Before, TypeOK
      <4> QED  BY <4>1 DEF DispatchEnds, Handle, Finish, Before
    <3> QED  BY <2>3, <3>1, <3>2, <3>3, <3>4, Actions
  <2> QED  BY <2>1, <2>2, <2>3
<1> QED  BY <1>1 DEF Dispatch, Next, Run

\* Outside the collection what it made is left alone.
LEMMA CollectionRests ==
  ASSUME [CommandNext]_allVars, ~Dispatch
  PROVE  UNCHANGED collection
<1>1. CASE Fetch \/ UNCHANGED allVars
  BY <1>1 DEF Fetch, allVars, vars, commandVars, collection, resources, items, files
<1>2. CASE ExitPlain
  BY <1>2 DEF ExitPlain, Exit, collection
<1> QED
  BY <1>1, <1>2, Actions
     DEF LoadContent, DispatchEnds, Describe, Summarize, Emit, Return, EmitFailure,
         InterruptCommand

\* What does not change while the collection rests.
LEMMA CollectionKept ==
  ASSUME UNCHANGED collection
  PROVE  /\ UNCHANGED <<failFast, status, incomplete, completion, json, html, ssh, adapter>>
         /\ UNCHANGED <<error, machine>>
         /\ ReportsAreDecided' = ReportsAreDecided
<1>1. UNCHANGED <<failFast, status, incomplete, completion, json, html, ssh, adapter, error, machine>>
  BY DEF collection, resources, items, files
<1> QED  BY <1>1 DEF ReportsAreDecided

\* Closed resources stay closed, and a report that shows a decided target keeps
\* showing it.
LEMMA KeptCommandStep ==
  ASSUME KeptInv, [CommandNext]_allVars
  PROVE  KeptInv'
<1>1. CASE step' \in Before
  <2>1. step \in Before => TypeOK
    BY DEF KeptInv
  <2>2. /\ step \in Before /\ [Next]_vars
        /\ step' = "loading" => step = "loading"
        /\ (Dispatch /\ exit' = exit) \/ UNCHANGED vars
    BY <1>1, <2>1, BeforeStep
  <2>3. TypeOK /\ StageInv /\ JsonInv /\ CloseInv /\ ItemsInv /\ FilesInv /\ exit = Running
    BY <2>2 DEF KeptInv
  <2>4. (TypeOK /\ StageInv /\ JsonInv /\ CloseInv /\ ItemsInv /\ FilesInv)'
    BY <2>2, <2>3, StageStep, TypeStep, JsonStep, CloseStep, ItemsStep, FilesStep
  <2>5. ReportsAreDecided' /\ json' \in [Paths -> 0..TargetCount]
    BY <2>4 DEF FilesInv, ReportsAreDecided, DecidedTarget, Decided, Collected, FailedStatuses,
       Pending, TypeOK
  <2>6. exit' = Running /\ CancelInv'
    BY <2>2, <2>3, CollectionStep DEF Dispatch, KeptInv, CancelInv, vars
  <2>7. step' = "loading" => ssh' = "none" /\ adapter' = "none"
    BY <2>2 DEF KeptInv, Dispatch, vars, resources
  <2> QED  BY <1>1, <2>4, <2>5, <2>6, <2>7 DEF KeptInv
<1>2. CASE step' \notin Before
  <2>1. UNCHANGED collection
    BY <1>2, CollectionRests DEF Dispatch, commandVars, Before
  <2>2. step = "dispatching" => stage = "exiting"
    BY <1>2, Actions
       DEF Dispatch, ExitPlain, Exit, LoadContent, DispatchEnds, Describe, Summarize, Emit, Return,
           EmitFailure, InterruptCommand, Fetch, allVars, commandVars, Before
  <2>3. ssh # "open" /\ adapter # "open"
    BY <2>2 DEF KeptInv, CloseInv, Before
  <2> QED  BY <1>2, <2>1, <2>3, CollectionKept DEF KeptInv, Before
<1> QED  BY <1>1, <1>2

--------------------------------------------------------------------------------
(* The answers of the command.                                              *)

\* The summaries come one after the other, in machine mode.
ShapeInv ==
  /\ step \in Reporting => machine
  /\ step \in Before \cup {"describing"} => summaries = <<>>
  /\ step \in {"summarizing", "printed"} => Len(summaries) <= TargetCount

\* What was printed, and how the command ends.
AnswerInv ==
  /\ step \in Before \cup {"describing", "summarizing"} => envelopes = <<>>
  /\ step = "printed" => Len(envelopes) = 1 /\ pending.code = envelopes[1].code
  /\ step = "handling" =>
       /\ machine /\ pending.status \in {"failed", "cancelled"}
       /\ ~interrupted => envelopes = <<>>
  /\ MachineAnswersOnce

\* The envelopes of the handlers.
LEMMA PreparedTyped ==
  /\ NoEnvelope \in Envelopes
  /\ \A kind \in {"failed", "cancelled"}, cause \in Codes :
       [NoEnvelope EXCEPT !.status = kind, !.code = cause] \in Envelopes
<1>1. <<>> \in Seq(Targets)
  OBVIOUS
<1> QED  BY <1>1 DEF NoEnvelope, Envelopes, Codes, ExitCode

\* A summary is that of a target.
LEMMA SummaryTyped ==
  ASSUME KeptInv, NEW t \in Targets
  PROVE  SummaryOf(t) \in Targets
<1>1. OnDisk(ReportOf(t)) => json[PathOf[t]] # 0
  BY DEF OnDisk, Stored, ReportOf
<1> QED  BY <1>1, PlanFacts DEF SummaryOf, KeptInv, Targets

\* It is its own if its report was written.
LEMMA OwnSummary ==
  ASSUME NEW t \in Targets, Written(t)
  PROVE  SummaryOf(t) = t
BY DEF SummaryOf, Written

\* There is a target left to summarise.
LEMMA NextTarget ==
  ASSUME CommandTypeOK, Len(summaries) < TargetCount
  PROVE  Len(summaries) + 1 \in Targets /\ Len(summaries) \in Nat
BY PlanFacts DEF CommandTypeOK, Targets

\* What Emit prints.
LEMMA ResultTyped ==
  ASSUME CommandTypeOK
  PROVE  /\ Verdict.status \in {"succeeded", "partial", "failed"} /\ Verdict.code \in Codes
         /\ [status |-> Verdict.status, code |-> Verdict.code, outputs |-> outputs,
             summaries |-> summaries] \in Envelopes
<1>1. Verdict.status \in {"succeeded", "partial", "failed"} /\ Verdict.code \in Codes
  BY DEF Verdict, Codes, ExitCode
<1> QED  BY <1>1 DEF Envelopes, CommandTypeOK

\* The command's own variables keep their types.
LEMMA CommandTypeStep ==
  ASSUME CommandTypeOK, KeptInv, [CommandNext]_allVars
  PROVE  CommandTypeOK'
<1> USE DEF CommandTypeOK
<1>0. {"validation_error", "execution_error", "cancelled"} \subseteq Codes
  BY DEF Codes, ExitCode
<1>1. CASE Dispatch
  BY <1>1 DEF Dispatch, commandVars
<1>2. CASE ExitPlain
  BY <1>2 DEF ExitPlain
<1>3. CASE LoadContent
  BY <1>0, <1>3, PreparedTyped DEF LoadContent, Handle, Finish, collection
<1>4. CASE DispatchEnds
  <2>1. error \in {"none", "cancelled", "reported", "unhandled"}
    BY <1>4 DEF DispatchEnds, KeptInv, Before, TypeOK
  <2> QED  BY <1>0, <1>4, <2>1, PreparedTyped DEF DispatchEnds, Handle, Finish, collection
<1>5. CASE Describe
  BY <1>0, <1>5, PreparedTyped DEF Describe, Handle, collection
<1>6. CASE Summarize
  <2>1. SummaryOf(Len(summaries) + 1) \in Targets
    BY <1>6, NextTarget, SummaryTyped DEF Summarize
  <2>2. Append(summaries, SummaryOf(Len(summaries) + 1)) \in Seq(Targets)
    BY <2>1
  <2> QED  BY <1>0, <1>6, <2>2, PreparedTyped DEF Summarize, Handle, collection
<1>7. CASE Emit
  <2>1. pending' \in Envelopes
    BY <1>7, ResultTyped DEF Emit
  <2>2. envelopes' \in Seq(Envelopes)
    BY <1>7, <2>1 DEF Emit
  <2> QED  BY <1>7, <2>1, <2>2 DEF Emit, collection
<1>8. CASE Return
  BY <1>8 DEF Return, Finish, collection
<1>9. CASE EmitFailure
  BY <1>9 DEF EmitFailure, Finish, collection
<1>10. CASE InterruptCommand
  BY <1>0, <1>10, PreparedTyped DEF InterruptCommand, Handle, Finish, collection
<1>11. CASE Fetch
  <2>1. PICK f \in Files : fetched' = fetched \cup {f}
    BY <1>11 DEF Fetch
  <2>2. /\ IsFiniteSet(fetched') /\ fetched' \subseteq Files
        /\ Cardinality(fetched') <= Cardinality(fetched) + 1
        /\ Cardinality(fetched) \in Nat
    <3>1. Cardinality(fetched) \in Nat
      BY FS_CardinalityType
    <3>2. /\ IsFiniteSet(fetched \cup {f})
          /\ Cardinality(fetched \cup {f}) =
               IF f \in fetched THEN Cardinality(fetched) ELSE Cardinality(fetched) + 1
      BY FS_AddElement
    <3> QED  BY <2>1, <3>1, <3>2
  <2>3. Cardinality(fetched') <= MaxFetched
    BY <1>11, <2>2, CommandAssumption, FS_CardinalityType DEF Fetch
  <2> QED  BY <1>11, <2>2, <2>3 DEF Fetch
<1>12. CASE UNCHANGED allVars
  BY <1>12 DEF allVars, commandVars
<1> QED
  BY <1>1, <1>2, <1>3, <1>4, <1>5, <1>6, <1>7, <1>8, <1>9, <1>10, <1>11, <1>12, Actions

\* No more reports are summarised than there are targets.
LEMMA ShapeStep ==
  ASSUME CommandTypeOK, KeptInv, ShapeInv, [CommandNext]_allVars
  PROVE  ShapeInv'
<1> USE DEF ShapeInv, Before, Reporting
<1>1. CASE Dispatch
  BY <1>1, CollectionRests DEF Dispatch, commandVars
<1>2. CASE ExitPlain \/ LoadContent \/ Return \/ EmitFailure \/ InterruptCommand
  BY <1>2 DEF ExitPlain, LoadContent, Return, EmitFailure, InterruptCommand, Handle, Finish
<1>3. CASE DispatchEnds
  <2>1. error \in {"none", "cancelled", "reported", "unhandled"}
    BY <1>3 DEF DispatchEnds, KeptInv, TypeOK
  <2> QED  BY <1>3, <2>1 DEF DispatchEnds, Handle, Finish, collection
<1>4. CASE Describe
  <2>1. summaries' = <<>> /\ Len(summaries') = 0
    BY <1>4 DEF Describe
  <2> QED  BY <1>4, <2>1, PlanFacts DEF Describe, Handle, collection
<1>5. CASE Summarize
  <2>1. Len(summaries) + 1 \in Targets /\ Len(summaries) \in Nat
    BY <1>5, NextTarget DEF Summarize
  <2>2. CASE step' = "handling"
    BY <2>2
  <2>3. CASE step' # "handling"
    <3>1. step' = step /\ Len(summaries') = Len(summaries) + 1
      BY <1>5, <2>3 DEF Summarize, Handle, CommandTypeOK
    <3> QED  BY <1>5, <2>1, <3>1 DEF Summarize, Targets, collection
  <2> QED  BY <2>2, <2>3
<1>6. CASE Emit
  BY <1>6 DEF Emit, collection
<1>7. CASE Fetch \/ UNCHANGED allVars
  BY <1>7 DEF Fetch, allVars, commandVars
<1> QED  BY <1>1, <1>2, <1>3, <1>4, <1>5, <1>6, <1>7, Actions

\* Every way the command ends is answered once.
LEMMA AnswerStep ==
  ASSUME CommandTypeOK, KeptInv, ShapeInv, AnswerInv, [CommandNext]_allVars
  PROVE  AnswerInv'
<1> USE DEF AnswerInv, Before, Reporting, MachineAnswersOnce
<1>1. CASE Dispatch
  BY <1>1 DEF Dispatch, commandVars
<1>2. CASE ExitPlain
  <2>1. error \in {"none", "cancelled", "reported", "unhandled"}
    BY <1>2 DEF ExitPlain, KeptInv, TypeOK
  <2>2. error = "cancelled" => interrupted
    BY <1>2 DEF ExitPlain, KeptInv, CancelInv
  <2> QED  BY <1>2, <2>1, <2>2 DEF ExitPlain, Exit
<1>3. CASE LoadContent
  BY <1>3 DEF LoadContent, Handle, Finish, collection, NoEnvelope
<1>4. CASE DispatchEnds
  <2>1. error \in {"none", "cancelled", "reported", "unhandled"}
    BY <1>4 DEF DispatchEnds, KeptInv, TypeOK
  <2> QED  BY <1>4, <2>1 DEF DispatchEnds, Handle, Finish, collection, NoEnvelope
<1>5. CASE Describe
  BY <1>5 DEF Describe, ShapeInv, Handle, collection, NoEnvelope
<1>6. CASE Summarize
  BY <1>6 DEF Summarize, ShapeInv, Handle, collection, NoEnvelope
<1>7. CASE Emit
  <2>1. envelopes' = <<pending'>> /\ step' = "printed"
    BY <1>7 DEF Emit
  <2> QED  BY <2>1
<1>8. CASE Return
  BY <1>8 DEF Return, ShapeInv, Finish, collection
<1>9. CASE EmitFailure
  <2>1. UNCHANGED <<collection, interrupted>> /\ step' = "ended" /\ step = "handling"
        /\ exit' = ExitCode[pending.code] /\ envelopes' = Append(envelopes, pending)
    BY <1>9 DEF EmitFailure, Finish
  <2>2. ~interrupted => Len(envelopes') = 1 /\ envelopes'[1] = pending
    BY <2>1
  <2> QED  BY <2>1, <2>2 DEF collection
<1>10. CASE InterruptCommand
  BY <1>10 DEF InterruptCommand, Handle, Finish, NoEnvelope, collection
<1>11. CASE Fetch
  BY <1>11 DEF Fetch, vars
<1>12. CASE UNCHANGED allVars
  BY <1>12 DEF allVars, commandVars, vars
<1> QED
  BY <1>1, <1>2, <1>3, <1>4, <1>5, <1>6, <1>7, <1>8, <1>9, <1>10, <1>11, <1>12, Actions

--------------------------------------------------------------------------------
(* The reports, when the targets have output paths of their own.            *)

\* The targets that have returned, while the collection has not ended.
RunInv == step \in Before => WrittenInv /\ CompletionInv

\* What a result is made of, once the collection has returned.
ResultInv == step \in Reporting => /\ \A t \in Targets : Written(t)
                                   /\ \A t \in 1..Len(summaries) : summaries[t] = t

\* A target that has returned stays written and concluded.
LEMMA RunStep ==
  ASSUME PathsDiffer, KeptInv, RunInv, [CommandNext]_allVars
  PROVE  RunInv'
<1> SUFFICES ASSUME step' \in Before PROVE WrittenInv' /\ CompletionInv'
  BY DEF RunInv
<1>1. step \in Before /\ [Next]_vars
  BY BeforeStep DEF KeptInv
<1> QED  BY <1>1, WrittenStep, CompletionStep DEF KeptInv, RunInv

\* What a result says of the reports stays true.
LEMMA WrittenStays ==
  ASSUME UNCHANGED collection, NEW t \in Targets
  PROVE  /\ Written(t)' = Written(t)
         /\ completion'[t] = completion[t]
         /\ machine' = machine
BY DEF collection, Written, files

\* A result is made of reports that were written.
LEMMA ReportStep ==
  ASSUME CommandTypeOK, KeptInv, ShapeInv, RunInv, ResultInv, [CommandNext]_allVars
  PROVE  ResultInv'
<1> USE DEF ResultInv, Before, Reporting
<1>1. CASE Dispatch
  BY <1>1 DEF Dispatch, commandVars
<1>2. CASE ExitPlain \/ LoadContent \/ Return \/ EmitFailure \/ InterruptCommand
  BY <1>2 DEF ExitPlain, LoadContent, Return, EmitFailure, InterruptCommand, Handle, Finish
<1>3. CASE DispatchEnds
  <2>1. error \in {"none", "cancelled", "reported", "unhandled"}
    BY <1>3 DEF DispatchEnds, KeptInv, TypeOK
  <2>2. CASE error = "none"
    <3>1. returned = TargetCount /\ \A t \in Targets : Written(t)
      BY <1>3, <2>2, PlanFacts
         DEF DispatchEnds, KeptInv, RunInv, StageInv, Closing, WrittenInv, Targets
    <3>2. \A t \in Targets : Written(t)'
      BY <1>3, <3>1, WrittenStays DEF DispatchEnds
    <3>3. summaries' = <<>> /\ Len(summaries') = 0
      BY <1>3 DEF DispatchEnds, ShapeInv
    <3> QED  BY <3>2, <3>3
  <2>3. CASE error # "none"
    BY <1>3, <2>1, <2>3 DEF DispatchEnds, Handle, Finish
  <2> QED  BY <2>2, <2>3
<1>4. CASE Describe \/ Emit
  BY <1>4, WrittenStays DEF Describe, Emit
<1>5. CASE Summarize
  <2>1. CASE step' = "handling"
    BY <2>1
  <2>2. CASE step' # "handling"
    <3> DEFINE n == Len(summaries)
    <3>1. n + 1 \in Targets /\ n \in Nat /\ SummaryOf(n + 1) = n + 1
      BY <1>5, NextTarget, OwnSummary DEF Summarize
    <3>2. summaries' = Append(summaries, n + 1)
      BY <1>5, <2>2, <3>1 DEF Summarize, Handle
    <3>3. /\ Len(summaries') = n + 1
          /\ \A t \in 1..(n + 1) : summaries'[t] = IF t = n + 1 THEN n + 1 ELSE summaries[t]
      BY <3>1, <3>2 DEF CommandTypeOK
    <3>4. \A t \in 1..Len(summaries') : summaries'[t] = t
      BY <1>5, <3>1, <3>3 DEF Summarize
    <3>5. \A t \in Targets : Written(t)'
      BY <1>5, WrittenStays DEF Summarize
    <3> QED  BY <3>4, <3>5
  <2> QED  BY <2>1, <2>2
<1>6. CASE Fetch
  BY <1>6 DEF Fetch, Written, vars, files
<1>7. CASE UNCHANGED allVars
  BY <1>7 DEF allVars, commandVars, Written, vars, files
<1> QED  BY <1>1, <1>2, <1>3, <1>4, <1>5, <1>6, <1>7, Actions

\* What the envelopes say.
TruthInv == EnvelopeIsTruthful /\ SummariesMatchTargets

\* What an envelope says is true when it is printed and stays so.
LEMMA TruthStep ==
  ASSUME CommandTypeOK, ResultInv, AnswerInv, TruthInv, [CommandNext]_allVars
  PROVE  TruthInv'
<1> USE DEF TruthInv, EnvelopeIsTruthful, SummariesMatchTargets
<1>1. CASE envelopes' = <<>>
  BY <1>1
<1>2. CASE UNCHANGED <<collection, envelopes>>
  BY <1>2, WrittenStays
<1>3. CASE Emit
  <2>1. /\ envelopes' = <<pending'>> /\ UNCHANGED collection
        /\ pending'.status = Verdict.status /\ pending'.outputs = outputs
        /\ pending'.summaries = summaries
    BY <1>3 DEF Emit, AnswerInv, Before
  <2>2. summaries = [t \in Targets |-> t]
    BY <1>3, PlanFacts DEF Emit, ResultInv, Reporting, CommandTypeOK, Targets
  <2>3. \A t \in Targets : Written(t)
    BY <1>3 DEF Emit, ResultInv, Reporting
  <2>4. Verdict.status = "succeeded" => \A t \in Targets : completion[t] = "succeeded"
    BY DEF Verdict
  <2>5. Verdict.status = "partial" => outputs # {} /\ \E t \in Targets : completion[t] # "succeeded"
    BY DEF Verdict
  <2> QED  BY <2>1, <2>2, <2>3, <2>4, <2>5, WrittenStays
<1>4. CASE EmitFailure
  <2>1. /\ envelopes' = Append(envelopes, pending) /\ UNCHANGED collection
        /\ pending.status \in {"failed", "cancelled"}
    BY <1>4 DEF EmitFailure, AnswerInv
  <2>2. \A n \in DOMAIN envelopes' :
          envelopes'[n] = pending \/ (n \in DOMAIN envelopes /\ envelopes'[n] = envelopes[n])
    BY <2>1 DEF CommandTypeOK
  <2> QED  BY <2>1, <2>2, WrittenStays
<1>5. CASE Dispatch \/ ExitPlain
  BY <1>1, <1>5 DEF Dispatch, ExitPlain, AnswerInv, Before, commandVars
<1>6. CASE Fetch \/ UNCHANGED allVars
  BY <1>2, <1>6 DEF Fetch, allVars, vars, commandVars, collection, resources, items, files
<1> QED
  BY <1>2, <1>3, <1>4, <1>5, <1>6, Actions
     DEF LoadContent, DispatchEnds, Describe, Summarize, Return, InterruptCommand

\* The targets are complete, as the exit status 0 says.
Complete == \A t \in Targets : completion[t] = "succeeded"

\* What the exit statuses 0 and 1 say of the reports.
CompleteReports ==
  \A t \in Targets :
    /\ Written(t)
    /\ completion[t] = "succeeded"
    /\ \A i \in Items : status[t][i] \in Collected \cup {"omitted"} /\ ~incomplete[t][i]

PartialReports ==
  /\ \A t \in Targets : Written(t)
  /\ \E t \in Targets, i \in Items :
       status[t][i] \in FailedStatuses \/ (status[t][i] # "omitted" /\ incomplete[t][i])

\* What it has concluded, and what that makes of the exit.
DeedsInv ==
  /\ step \in Reporting => \A t \in Targets : Concluded(t)
  /\ step = "printed" => (pending.code = "success" => Complete)
  /\ step = "handling" => pending.code # "success"
  /\ exit = 0 => CompleteReports
  /\ exit = 1 /\ error = "none" => PartialReports

\* Conclusions stay.
LEMMA DeedsStay ==
  ASSUME UNCHANGED collection
  PROVE  /\ \A t \in Targets : Concluded(t)' = Concluded(t)
         /\ Complete' = Complete /\ error' = error
         /\ CompleteReports' = CompleteReports /\ PartialReports' = PartialReports
<1>1. UNCHANGED <<status, incomplete, completion, json, html, error>>
  BY CollectionKept
<1>2. \A t \in Targets : Concluded(t)' = Concluded(t)
  BY <1>1 DEF Concluded, Written, CompletionStatus
<1>3. Complete' = Complete
  BY <1>1 DEF Complete
<1>4. CompleteReports' = CompleteReports /\ PartialReports' = PartialReports
  BY <1>1 DEF CompleteReports, PartialReports, Written
<1> QED  BY <1>1, <1>2, <1>3, <1>4

\* What is known when the collection has reached its exit.
LEMMA AtTheExit ==
  ASSUME RunInv, KeptInv, step = "dispatching", stage = "exiting"
  PROVE  /\ error = "none" => \A t \in Targets : Concluded(t)
         /\ error \in {"none", "cancelled", "reported", "unhandled"}
<1>1. TypeOK /\ StageInv /\ WrittenInv /\ ItemsInv /\ CompletionInv
  BY DEF RunInv, KeptInv, Before
<1> QED  BY <1>1, ReportsAtExit DEF TypeOK

\* Then a status 0 or 1 can be justified.
LEMMA ConcludedReports ==
  ASSUME \A t \in Targets : Concluded(t)
  PROVE  (Complete => CompleteReports) /\ (~Complete => PartialReports)
BY SucceededTarget, UnsuccessfulTarget
   DEF CompleteReports, PartialReports, Complete, Concluded

\* Every step of the command keeps what the collection has promised.
LEMMA DeedsStep ==
  ASSUME CommandTypeOK, RunInv, KeptInv, DeedsInv, [CommandNext]_allVars
  PROVE  DeedsInv'
<1>1. CASE Dispatch
  BY <1>1, CollectionStep DEF Dispatch, commandVars, DeedsInv, KeptInv, Before, Reporting, Running
<1>2. CASE ExitPlain
  <2>1. UNCHANGED collection /\ step' = "ended" /\ step = "dispatching" /\ stage = "exiting"
    BY <1>2 DEF ExitPlain, Exit, collection
  <2>2. /\ exit' = 0 => error = "none" /\ Complete
        /\ exit' = 1 /\ error = "none" => ~Complete
    BY <1>2, <2>1, AtTheExit DEF ExitPlain, Exit, Complete
  <2>3. /\ exit' = 0 => CompleteReports
        /\ exit' = 1 /\ error = "none" => PartialReports
    BY <2>1, <2>2, AtTheExit, ConcludedReports
  <2> QED  BY <2>1, <2>3, AtTheExit, DeedsStay DEF DeedsInv, Before, Reporting
<1>3. CASE LoadContent
  <2>1. UNCHANGED collection /\ step = "loading" /\ exit = Running
    BY <1>3 DEF LoadContent, KeptInv, Before
  <2>2. \/ step' = "dispatching" /\ exit' = Running
        \/ step' = "handling" /\ exit' = Running /\ pending'.code # "success"
        \/ step' = "ended" /\ exit' = 2
    BY <1>3, <2>1 DEF LoadContent, Handle, Finish, NoEnvelope
  <2> QED  BY <2>1, <2>2, DeedsStay DEF DeedsInv, Reporting, Running
<1>4. CASE DispatchEnds
  <2>1. UNCHANGED collection /\ step = "dispatching" /\ stage = "exiting" /\ exit = Running
    BY <1>4 DEF DispatchEnds, KeptInv, Before
  <2>2. \/ step' = "describing" /\ error = "none" /\ exit' = Running
        \/ step' = "handling" /\ exit' = Running /\ pending'.code # "success"
        \/ step' = "ended" /\ exit' = 1 /\ error # "none"
    BY <1>4, <2>1, AtTheExit DEF DispatchEnds, Handle, Finish, NoEnvelope
  <2> QED
    BY <2>1, <2>2, AtTheExit, DeedsStay DEF DeedsInv, Before, Reporting, Running
<1>5. CASE Describe \/ Summarize
  <2>1. /\ UNCHANGED collection /\ exit' = exit
        /\ step \in {"describing", "summarizing"}
        /\ step' \in {"summarizing", "handling"}
        /\ step' = "handling" => pending'.code # "success"
    BY <1>5 DEF Describe, Summarize, Handle, NoEnvelope
  <2> QED  BY <2>1, DeedsStay DEF DeedsInv, Before, Reporting
<1>6. CASE Emit
  <2>1. UNCHANGED collection /\ exit' = exit /\ step = "summarizing" /\ step' = "printed"
    BY <1>6 DEF Emit
  <2>2. pending'.code = "success" => Complete
    BY <1>6 DEF Emit, Verdict, Complete
  <2> QED  BY <2>1, <2>2, DeedsStay DEF DeedsInv, Before, Reporting
<1>7. CASE Return \/ EmitFailure
  <2>1. /\ UNCHANGED collection /\ exit' = ExitCode[pending.code]
        /\ step \in {"printed", "handling"} /\ step' = "ended"
    BY <1>7 DEF Return, EmitFailure, Finish
  <2>2. exit' # 1 /\ (exit' = 0 => pending.code = "success")
    BY <2>1 DEF CommandTypeOK, Envelopes, Codes, ExitCode
  <2>3. exit' = 0 => CompleteReports
    BY <2>1, <2>2, ConcludedReports DEF DeedsInv, Reporting
  <2> QED  BY <2>1, <2>2, <2>3, DeedsStay DEF DeedsInv, Before, Reporting
<1>8. CASE InterruptCommand
  <2>1. /\ UNCHANGED collection /\ step # "dispatching"
        /\ \/ step' = "handling" /\ exit' = exit /\ pending'.code # "success"
           \/ step' = "ended" /\ exit' = 130
    BY <1>8 DEF InterruptCommand, Handle, Finish, NoEnvelope
  <2> QED  BY <2>1, DeedsStay DEF DeedsInv, Before, Reporting
<1>9. CASE Fetch \/ UNCHANGED allVars
  <2>1. UNCHANGED <<vars, step, pending>>
    BY <1>9 DEF Fetch, allVars, commandVars
  <2>2. UNCHANGED collection
    BY <1>9 DEF Fetch, allVars, vars, commandVars, collection, resources, items, files
  <2> QED  BY <2>1, <2>2, DeedsStay DEF DeedsInv, vars
<1> QED
  BY <1>1, <1>2, <1>3, <1>4, <1>5, <1>6, <1>7, <1>8, <1>9, Actions

--------------------------------------------------------------------------------
(* The theorems.                                                            *)

\* With and without output paths of their own.
BaseInv == CommandTypeOK /\ KeptInv /\ ShapeInv /\ AnswerInv
CommandInv == BaseInv /\ RunInv /\ ResultInv /\ TruthInv /\ DeedsInv

\* The command starts well.
LEMMA CommandStarts == CommandInit => CommandInv
<1> SUFFICES ASSUME CommandInit PROVE CommandInv
  OBVIOUS
<1>1. TypeOK /\ StageInv /\ ItemsInv /\ FilesInv
  BY InitTyped, InitDecided DEF CommandInit
<1>2. /\ JsonInv /\ CloseInv /\ CancelInv /\ ReportsAreDecided
      /\ step = "loading" /\ ssh = "none" /\ adapter = "none" /\ exit = Running
  BY DEF CommandInit, Init, JsonInv, CloseInv, CancelInv, ReportsAreDecided
<1>3. KeptInv
  BY <1>1, <1>2 DEF KeptInv, Before, TypeOK
<1>4. RunInv
  BY PlanFacts DEF CommandInit, Init, RunInv, WrittenInv, CompletionInv, Targets, Writing
<1>5. CommandTypeOK
  <2>1. IsFiniteSet({}) /\ Cardinality({}) = 0
    BY FS_EmptySet
  <2>2. <<>> \in Seq(Targets) /\ <<>> \in Seq(Envelopes)
    OBVIOUS
  <2>3. fetched = {} /\ fetched \subseteq Files /\ IsFiniteSet(fetched)
    BY <2>1 DEF CommandInit
  <2>4. Cardinality(fetched) <= MaxFetched
    BY <2>1, <2>3, CommandAssumption
  <2>5. pending \in Envelopes /\ summaries \in Seq(Targets) /\ envelopes \in Seq(Envelopes)
    BY <2>2, PreparedTyped DEF CommandInit
  <2> QED  BY <2>3, <2>4, <2>5 DEF CommandInit, CommandTypeOK
<1>6. ShapeInv /\ ResultInv /\ AnswerInv /\ TruthInv
  BY DEF CommandInit, ShapeInv, ResultInv, AnswerInv, TruthInv, Before, Reporting,
     MachineAnswersOnce, EnvelopeIsTruthful, SummariesMatchTargets
<1>7. DeedsInv
  BY <1>2 DEF DeedsInv, Reporting, Running
<1> QED  BY <1>3, <1>4, <1>5, <1>6, <1>7 DEF CommandInv, BaseInv

\* What holds of any command is inductive.
THEOREM BaseInductive == CommandSafe => []BaseInv
<1>1. BaseInv /\ [CommandNext]_allVars => BaseInv'
  BY CommandTypeStep, KeptCommandStep, ShapeStep, AnswerStep DEF BaseInv
<1>2. CommandInit => BaseInv
  BY CommandStarts DEF CommandInv
<1> QED  BY <1>1, <1>2, PTL DEF CommandSafe

\* And with the rest when output paths differ.
THEOREM CommandInductive ==
  ASSUME PathsDiffer
  PROVE  CommandSafe => []CommandInv
<1>1. CommandInv /\ [CommandNext]_allVars => CommandInv'
  BY CommandTypeStep, KeptCommandStep, ShapeStep, AnswerStep, RunStep, ReportStep, TruthStep,
     DeedsStep DEF CommandInv, BaseInv
<1> QED  BY <1>1, CommandStarts, PTL DEF CommandSafe

\* Type correctness of the command around the collection.
THEOREM CommandTyped == CommandSafe => []CommandTypeOK
<1>1. BaseInv => CommandTypeOK
  BY DEF BaseInv
<1> QED  BY <1>1, BaseInductive, PTL

\* A machine command ends with one envelope and its code.
THEOREM OneAnswer == CommandSafe => []MachineAnswersOnce
<1>1. BaseInv => MachineAnswersOnce
  BY DEF BaseInv, AnswerInv
<1> QED  BY <1>1, BaseInductive, PTL

\* Whatever the command answers, the resources of its collection have had their
\* close when it ends: those of a run that was never started too.
THEOREM CommandClosesResources == CommandSafe => []ResourcesClosed
<1>1. BaseInv => ResourcesClosed
  BY DEF BaseInv, KeptInv, ResourcesClosed, Before
<1> QED  BY <1>1, BaseInductive, PTL

\* No file shows an undecided item, nor a failed one with fail_fast, before and
\* after the command has answered.
THEOREM CommandFilesAreDecided == CommandSafe => []ReportsAreDecided
<1>1. BaseInv => ReportsAreDecided
  BY DEF BaseInv, KeptInv
<1> QED  BY <1>1, BaseInductive, PTL

\* The command writes no HTML ahead of its JSON.
THEOREM CommandHtmlIsNeverAhead == CommandSafe => HtmlFollowsJson
<1>1. ASSUME KeptInv, [CommandNext]_allVars
      PROVE  [\A p \in Paths : html'[p] # html[p] => html'[p] = json[p]]_vars
  <2>1. CASE Dispatch
    <3>1. [Next]_vars /\ TypeOK /\ JsonInv
      BY <1>1, <2>1 DEF Dispatch, Next, Run, KeptInv, Before
    <3> QED  BY <3>1, HtmlStep
  <2>2. CASE ~Dispatch
    <3>1. html' = html
      BY <1>1, <2>2, CollectionRests DEF collection, files
    <3> QED  BY <3>1
  <2> QED  BY <2>1, <2>2
<1>2. BaseInv => KeptInv
  BY DEF BaseInv
<1> QED  BY <1>1, <1>2, BaseInductive, PTL DEF CommandSafe, HtmlFollowsJson

\* Machine mode never calls a partial collection a success, nor an empty one
\* partial (docs/orchestration.md).
THEOREM EnvelopesAreTruthful ==
  ASSUME PathsDiffer
  PROVE  CommandSafe => []EnvelopeIsTruthful
<1>1. CommandInv => EnvelopeIsTruthful
  BY DEF CommandInv, TruthInv
<1> QED  BY <1>1, CommandInductive, PTL

\* Every target's summary is its own, whoever fetches reports meanwhile.
THEOREM SummariesAreOwn ==
  ASSUME PathsDiffer
  PROVE  CommandSafe => []SummariesMatchTargets
<1>1. CommandInv => SummariesMatchTargets
  BY DEF CommandInv, TruthInv
<1> QED  BY <1>1, CommandInductive, PTL

\* A command that ends with status 0, in either mode, has a complete report of
\* every target on disk.
THEOREM CommandExitZeroIsTruthful ==
  ASSUME PathsDiffer
  PROVE  CommandSafe => []ExitZeroIsComplete
<1>1. CommandInv => ExitZeroIsComplete
  BY DEF CommandInv, DeedsInv, CompleteReports, ExitZeroIsComplete
<1> QED  BY <1>1, CommandInductive, PTL

\* Status 1 without an error is that of a collection that wrote every report,
\* one of them with a failure or a gap.
THEOREM CommandPartialRunsAreWritten ==
  ASSUME PathsDiffer
  PROVE  CommandSafe => []PartialRunIsWritten
<1>1. CommandInv => PartialRunIsWritten
  BY DEF CommandInv, DeedsInv, PartialReports, PartialRunIsWritten
<1> QED  BY <1>1, CommandInductive, PTL

--------------------------------------------------------------------------------
(* The length of a command.                                                  *)

\* The steps the command can still take after those of the collection.
AnswerSteps ==
  CASE step = "loading" -> StepsLeft + TargetCount + 5
    [] step = "dispatching" -> StepsLeft + TargetCount + 4
    [] step = "describing" -> TargetCount + 4
    [] step = "summarizing" -> (TargetCount - Len(summaries)) + 3
    [] step = "printed" -> 2
    [] step = "handling" -> 1
    [] OTHER -> 0

\* With those of the environment that fetches reports.
CommandSteps == AnswerSteps + (MaxFetched - Cardinality(fetched))

\* No step of the command is in vain either.
EveryCommandStepCounts == [][CommandSteps' \in Nat /\ CommandSteps' < CommandSteps]_allVars

AnswerByStep ==
  /\ step = "loading" => AnswerSteps = StepsLeft + TargetCount + 5
  /\ step = "dispatching" => AnswerSteps = StepsLeft + TargetCount + 4
  /\ step = "describing" => AnswerSteps = TargetCount + 4
  /\ step = "summarizing" => AnswerSteps = (TargetCount - Len(summaries)) + 3
  /\ step = "printed" => AnswerSteps = 2
  /\ step = "handling" => AnswerSteps = 1
  /\ step = "ended" => AnswerSteps = 0

LEMMA Answers == AnswerByStep
BY DEF AnswerByStep, AnswerSteps

\* What is left of a command is a number.
LEMMA AnswerTyped ==
  ASSUME BaseInv
  PROVE  AnswerSteps \in Nat /\ MaxFetched - Cardinality(fetched) \in Nat
<1>1. MaxFetched - Cardinality(fetched) \in Nat
  BY CommandAssumption, FS_CardinalityType DEF BaseInv, CommandTypeOK
<1>2. TargetCount \in Nat /\ Len(summaries) \in Nat
  BY PlanFacts DEF BaseInv, CommandTypeOK
<1>3. step \in Before => StepsLeft \in Nat
  BY LengthTyped DEF BaseInv, KeptInv
<1>4. AnswerSteps \in Nat
  <2>1. CASE step \in Before
    BY <1>2, <1>3, <2>1, Answers DEF AnswerByStep, Before
  <2>2. CASE step = "summarizing"
    BY <1>2, <2>2, Answers DEF AnswerByStep, BaseInv, ShapeInv
  <2>3. CASE step \notin Before \cup {"summarizing"}
    BY <1>2, <2>3 DEF AnswerSteps, Before
  <2> QED  BY <2>1, <2>2, <2>3
<1> QED  BY <1>1, <1>4

\* Every step of the command itself brings its end nearer.
LEMMA AnswerShrinks ==
  ASSUME BaseInv, BaseInv', Dispatch \/ Command \/ InterruptCommand
  PROVE  AnswerSteps' < AnswerSteps /\ UNCHANGED fetched
<1> USE DEF AnswerByStep
<1>1. AnswerByStep /\ AnswerSteps \in Nat
  BY Answers, AnswerTyped
<1>2. AnswerByStep'
  BY DEF AnswerSteps
<1>3. TargetCount \in Nat /\ Len(summaries) \in Nat
  BY PlanFacts DEF BaseInv, CommandTypeOK
<1>4. /\ step \in Before => StepsLeft \in Nat /\ TypeOK /\ StageInv /\ exit = Running
      /\ step \in {"summarizing", "printed"} => Len(summaries) <= TargetCount
      /\ step = "describing" => Len(summaries) = 0
      /\ step \in {"loading", "dispatching", "describing", "summarizing", "emitting", "printed",
                   "handling", "ended"}
  BY LengthTyped DEF BaseInv, KeptInv, ShapeInv, CommandTypeOK, Before
<1>5. CASE Dispatch
  <2>1. Next /\ step = "dispatching" /\ UNCHANGED commandVars
    BY <1>5 DEF Dispatch, Next, Run
  <2>2. StepsLeft' \in Nat /\ StepsLeft' < StepsLeft /\ StepsLeft \in Nat
    BY <1>4, <2>1, LengthStep DEF Before
  <2>3. step' = step /\ fetched' = fetched
    BY <2>1 DEF commandVars
  <2>4. /\ AnswerSteps = StepsLeft + TargetCount + 4
        /\ AnswerSteps' = StepsLeft' + TargetCount + 4
    BY <1>1, <1>2, <2>1, <2>3
  <2>5. ASSUME NEW m \in Nat, NEW n \in Nat, m < n
        PROVE  m + TargetCount + 4 < n + TargetCount + 4
    BY <1>3, <2>5
  <2>6. AnswerSteps' < AnswerSteps
    BY <2>2, <2>4, <2>5
  <2> QED  BY <2>3, <2>6
<1>6. CASE LoadContent
  <2>1. StepsLeft' = StepsLeft \/ step' # "dispatching"
    <3>1. ASSUME step' = "dispatching" PROVE UNCHANGED <<stage, target, index, exit>>
      BY <1>6, <3>1 DEF LoadContent, Handle, Finish, collection
    <3> QED  BY <3>1 DEF StepsLeft
  <2>2. /\ step = "loading" /\ step' \in {"dispatching", "handling", "ended"}
        /\ UNCHANGED fetched
    BY <1>6 DEF LoadContent, Handle, Finish
  <2> QED  BY <1>1, <1>2, <1>3, <1>4, <2>1, <2>2 DEF Before
<1>7. CASE ExitPlain
  BY <1>1, <1>2, <1>3, <1>4, <1>7 DEF ExitPlain, Before
<1>8. CASE DispatchEnds
  <2>1. error \in {"none", "cancelled", "reported", "unhandled"}
    BY <1>4, <1>8 DEF DispatchEnds, Before, TypeOK
  <2>2. /\ step = "dispatching" /\ step' \in {"describing", "handling", "ended"}
        /\ UNCHANGED fetched /\ stage = "exiting"
    BY <1>8, <2>1 DEF DispatchEnds, Handle, Finish
  <2>3. StepsLeft = 1
    BY <1>4, <2>2, Lengths DEF LeftByStage, Before
  <2> QED  BY <1>1, <1>2, <1>3, <2>2, <2>3
<1>9. CASE Describe
  <2>1. /\ step = "describing" /\ step' \in {"summarizing", "handling"}
        /\ UNCHANGED <<fetched, summaries>>
    BY <1>9 DEF Describe, Handle
  <2> QED  BY <1>1, <1>2, <1>3, <1>4, <2>1
<1>10. CASE Summarize
  <2>1. step = "summarizing" /\ UNCHANGED fetched /\ Len(summaries) < TargetCount
    BY <1>10 DEF Summarize
  <2>2. \/ step' = "handling"
        \/ step' = step /\ Len(summaries') = Len(summaries) + 1
    BY <1>10 DEF Summarize, Handle, BaseInv, CommandTypeOK
  <2> QED  BY <1>1, <1>2, <1>3, <2>1, <2>2
<1>11. CASE Emit
  BY <1>1, <1>2, <1>3, <1>11 DEF Emit
<1>12. CASE Return
  BY <1>1, <1>2, <1>12 DEF Return, Finish
<1>13. CASE EmitFailure
  BY <1>1, <1>2, <1>13 DEF EmitFailure, Finish
<1>14. CASE InterruptCommand
  <2>1. /\ UNCHANGED fetched
        /\ \/ /\ step \in {"loading", "describing", "summarizing", "printed"}
              /\ step' = "handling"
           \/ step \in {"handling", "loading"} /\ step' = "ended"
    BY <1>14 DEF InterruptCommand, Handle, Finish
  <2> QED  BY <1>1, <1>2, <1>3, <1>4, <2>1 DEF Before
<1> QED
  BY <1>5, <1>6, <1>7, <1>8, <1>9, <1>10, <1>11, <1>12, <1>13, <1>14 DEF Command

\* A fetched report is gone from the disk, and so fetched once.
LEMMA FetchShrinks ==
  ASSUME BaseInv, Fetch
  PROVE  /\ AnswerSteps' = AnswerSteps
         /\ Cardinality(fetched') = Cardinality(fetched) + 1
<1>1. PICK f \in Files : OnDisk(f) /\ fetched' = fetched \cup {f}
  BY DEF Fetch
<1>2. Cardinality(fetched') = Cardinality(fetched) + 1
  BY <1>1, FS_AddElement DEF OnDisk, BaseInv, CommandTypeOK
<1>3. UNCHANGED <<step, summaries, stage, target, index, exit>>
  BY DEF Fetch, vars
<1> QED  BY <1>2, <1>3 DEF AnswerSteps, StepsLeft

\* In either mode, whatever fails, whoever fetches reports and whenever Ctrl-C comes,
\* the command has ended after a number of steps fixed by the targets and the plan.
THEOREM CommandsAreBounded ==
  /\ CommandInit => /\ CommandSteps \in Nat
                    /\ CommandSteps <= TargetCount * (TargetLength + 1) + MaxFetched + 13
  /\ CommandSafe => EveryCommandStepCounts
<1>1. ASSUME CommandInit
      PROVE  /\ CommandSteps \in Nat
             /\ CommandSteps <= TargetCount * (TargetLength + 1) + MaxFetched + 13
  <2>1. /\ StepsLeft \in Nat /\ StepsLeft <= TargetCount * TargetLength + 8
        /\ Cardinality(fetched) = 0 /\ AnswerSteps = StepsLeft + TargetCount + 5
    BY <1>1, RunsAreBounded, FS_EmptySet, Answers DEF CommandInit, AnswerByStep
  <2>2. TargetCount * (TargetLength + 1) = TargetCount * TargetLength + TargetCount
    BY PlanFacts, TargetsAhead
  <2>3. TargetCount * TargetLength \in Nat /\ TargetCount \in Nat /\ MaxFetched \in Nat
    BY PlanFacts, TargetsAhead, CommandAssumption
  <2> QED  BY <2>1, <2>2, <2>3 DEF CommandSteps
<1>2. ASSUME BaseInv, BaseInv', [CommandNext]_allVars
      PROVE  [CommandSteps' \in Nat /\ CommandSteps' < CommandSteps]_allVars
  <2>1. /\ AnswerSteps \in Nat /\ MaxFetched - Cardinality(fetched) \in Nat
        /\ AnswerSteps' \in Nat /\ MaxFetched - Cardinality(fetched') \in Nat
        /\ Cardinality(fetched) \in Nat /\ MaxFetched \in Nat
    <3>1. (AnswerSteps \in Nat /\ MaxFetched - Cardinality(fetched) \in Nat)'
      BY <1>2, AnswerTyped, PTL
    <3> QED
      BY <1>2, <3>1, AnswerTyped, CommandAssumption, FS_CardinalityType DEF BaseInv, CommandTypeOK
  <2>2. CASE Dispatch \/ Command \/ InterruptCommand
    <3>1. AnswerSteps' < AnswerSteps /\ fetched' = fetched
      BY <1>2, <2>2, AnswerShrinks
    <3> QED  BY <2>1, <3>1 DEF CommandSteps
  <2>3. CASE Fetch
    <3>1. AnswerSteps' = AnswerSteps /\ Cardinality(fetched') = Cardinality(fetched) + 1
      BY <1>2, <2>3, FetchShrinks
    <3> QED  BY <2>1, <3>1 DEF CommandSteps
  <2> QED  BY <1>2, <2>2, <2>3 DEF CommandNext
<1> QED  BY <1>1, <1>2, BaseInductive, PTL DEF CommandSafe, EveryCommandStepCounts

================================================================================
