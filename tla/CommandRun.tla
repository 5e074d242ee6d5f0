------------------------------- MODULE CommandRun -------------------------------
(***************************************************************************)
(* The command around one run of the collector (src/ch_diag/cli.py): the   *)
(* content is loaded, the collection of CollectionRun runs, and its result *)
(* becomes an exit status or, in machine mode, one JSON envelope with the  *)
(* report files and a summary of every report (docs/orchestration.md).     *)
(*                                                                          *)
(* The files are looked at twice, once for their hashes and later for the  *)
(* summaries, while somebody else may fetch them from the output directory.*)
(* Standard output is taken to be writable.                                 *)
(***************************************************************************)
EXTENDS CollectionRun, FiniteSets

CONSTANT MaxFetched   \* bound: files fetched while the command still runs

ASSUME CommandAssumption == MaxFetched \in Nat

VARIABLES
  machine,    \* --machine was given
  step,       \* where the command is
  fetched,    \* files that were moved away after they had been written
  outputs,    \* files described so far
  summaries,  \* reports summarised so far, by target
  pending,    \* the envelope to be printed next
  envelopes   \* what was printed

commandVars == <<machine, step, fetched, outputs, summaries, pending, envelopes>>
allVars == <<vars, commandVars>>

Files == {"json", "html"} \X Paths

\* EXIT_CODES; precondition_failed, unsupported and ownership_error are not used.
ExitCode == [success |-> 0, validation_error |-> 2, partial |-> 5, execution_error |-> 6,
             cancelled |-> 7]
Codes == DOMAIN ExitCode

Envelopes == [status : {"succeeded", "partial", "failed", "cancelled"}, code : Codes,
              outputs : SUBSET Files, summaries : Seq(Targets)]

NoEnvelope == [status |-> "failed", code |-> "execution_error", outputs |-> {},
               summaries |-> <<>>]

\* "emitting" and "printed" are inside the try block of _run_machine, "handling"
\* is in one of its handlers.
CommandTypeOK ==
  /\ machine \in BOOLEAN
  /\ step \in {"loading", "dispatching", "describing", "summarizing", "emitting", "printed",
               "handling", "ended"}
  /\ fetched \subseteq Files /\ IsFiniteSet(fetched) /\ Cardinality(fetched) <= MaxFetched
  /\ outputs \subseteq Files
  /\ summaries \in Seq(Targets)
  /\ pending \in Envelopes
  /\ envelopes \in Seq(Envelopes)

CommandInit ==
  /\ Init
  /\ machine \in BOOLEAN
  /\ step = "loading"
  /\ fetched = {}
  /\ outputs = {}
  /\ summaries = <<>>
  /\ pending = NoEnvelope
  /\ envelopes = <<>>

Stored(file) == (IF file[1] = "json" THEN json ELSE html)[file[2]]
OnDisk(file) == Stored(file) # 0 /\ file \notin fetched

--------------------------------------------------------------------------------
(* _run_machine, its handlers, and main().                                  *)

collection == <<failFast, stage, resources, target, index, items, completion, files, returned,
                error, machine>>

\* A handler's envelope carries nothing but the error.
Handle(kind, cause) ==
  /\ step' = "handling"
  /\ pending' = [NoEnvelope EXCEPT !.status = kind, !.code = cause]

Finish(code) == step' = "ended" /\ exit' = code

\* load_content, before the collection: a broken integrity manifest has a code
\* of its own. Without --machine main() prints the error and returns 2.
LoadContent ==
  /\ step = "loading"
  /\ \/ step' = "dispatching" /\ UNCHANGED <<exit, pending>>
     \/ /\ machine
        /\ \E c \in {"validation_error", "execution_error"} : Handle("failed", c)
        /\ UNCHANGED exit
     \/ ~machine /\ Finish(2) /\ UNCHANGED pending
  /\ UNCHANGED <<collection, interrupted, fetched, outputs, summaries, envelopes>>

\* The collection, all but its exit.
Dispatch ==
  /\ step = "dispatching"
  /\ Proceed \/ Interrupt
  /\ UNCHANGED commandVars

\* Without --machine.
ExitPlain ==
  /\ step = "dispatching" /\ ~machine
  /\ Exit
  /\ step' = "ended"
  /\ UNCHANGED <<machine, fetched, outputs, summaries, pending, envelopes>>

\* Mutant: an error of the collection is left to main(), as without --machine.
DispatchEndsPlainly ==
  /\ step = "dispatching" /\ stage = "exiting" /\ machine
  /\ CASE error = "none" -> step' = "describing" /\ UNCHANGED <<pending, exit>>
       [] error = "cancelled" -> Handle("cancelled", "cancelled") /\ UNCHANGED exit
       [] error = "reported" -> Finish(2) /\ UNCHANGED pending
       [] error = "unhandled" -> Finish(1) /\ UNCHANGED pending
  /\ UNCHANGED <<collection, interrupted, fetched, outputs, summaries, envelopes>>

\* With --machine: a result is described, the exceptions of the handlers become
\* envelopes and any other leaves the program.
DispatchEnds ==
  /\ step = "dispatching" /\ stage = "exiting" /\ machine
  /\ CASE error = "none" -> step' = "describing" /\ UNCHANGED <<pending, exit>>
       [] error = "reported" -> Handle("failed", "execution_error") /\ UNCHANGED exit
       [] error = "cancelled" -> Handle("cancelled", "cancelled") /\ UNCHANGED exit
       [] error = "unhandled" -> Finish(1) /\ UNCHANGED pending
  /\ UNCHANGED <<collection, interrupted, fetched, outputs, summaries, envelopes>>

\* _machine_artifacts. A file may disappear between is_file and its hash.
Describe ==
  /\ step = "describing"
  /\ \/ /\ outputs' = {f \in Files : OnDisk(f)}
        /\ step' = "summarizing" /\ UNCHANGED pending
     \/ /\ fetched # {}
        /\ Handle("failed", "execution_error") /\ UNCHANGED outputs
  /\ UNCHANGED <<collection, interrupted, exit, fetched, summaries, envelopes>>

ReportOf(t) == <<"json", PathOf[t]>>

\* Mutant: a report that is no longer on disk gives the summary of the last one
\* that is.
SummaryOnDisk(t) ==
  LET readable == {u \in Targets : OnDisk(ReportOf(u))}
  IN IF readable = {} THEN t
     ELSE json[PathOf[CHOOSE u \in readable : \A v \in readable : v <= u]]

\* A summary is of the file, or of the artifact in memory when there is none.
SummaryOf(t) == IF OnDisk(ReportOf(t)) THEN json[PathOf[t]] ELSE t

\* _machine_result, one report after the other. A file may disappear between
\* is_file and load_artifact.
Summarize ==
  /\ step = "summarizing" /\ Len(summaries) < TargetCount
  /\ LET t == Len(summaries) + 1
     IN \/ summaries' = Append(summaries, SummaryOf(t)) /\ UNCHANGED <<step, pending>>
        \/ /\ ReportOf(t) \in outputs \cap fetched
           /\ Handle("failed", "execution_error") /\ UNCHANGED summaries
  /\ UNCHANGED <<collection, interrupted, exit, fetched, outputs, envelopes>>

\* Mutant: what matters is that every file is there.
VerdictOfFiles ==
  IF outputs = Files THEN [status |-> "succeeded", code |-> "success"]
  ELSE [status |-> "partial", code |-> "partial"]

\* _collection_exit_status, from the artifacts in memory; then the files decide
\* what an incomplete collection is called.
Verdict ==
  IF \A t \in Targets : completion[t] = "succeeded"
    THEN [status |-> "succeeded", code |-> "success"]
  ELSE IF outputs # {} THEN [status |-> "partial", code |-> "partial"]
  ELSE [status |-> "failed", code |-> "execution_error"]

Emit ==
  /\ step = "summarizing" /\ Len(summaries) = TargetCount
  /\ pending' = [status |-> Verdict.status, code |-> Verdict.code, outputs |-> outputs,
                 summaries |-> summaries]
  /\ envelopes' = Append(envelopes, pending')
  /\ step' = "printed"
  /\ UNCHANGED <<collection, interrupted, exit, fetched, outputs, summaries>>

Return ==
  /\ step = "printed"
  /\ Finish(ExitCode[pending.code])
  /\ UNCHANGED <<collection, interrupted, fetched, outputs, summaries, pending, envelopes>>

EmitFailure ==
  /\ step = "handling"
  /\ envelopes' = Append(envelopes, pending)
  /\ Finish(ExitCode[pending.code])
  /\ UNCHANGED <<collection, interrupted, fetched, outputs, summaries, pending>>

\* Ctrl-C outside the collection: the handler of _run_machine prints an envelope,
\* also after the one of the result; in a handler, and without --machine, Python
\* ends the program.
InterruptCommand ==
  /\ ~interrupted /\ interrupted' = TRUE
  /\ \/ /\ machine /\ step \in {"loading", "describing", "summarizing", "printed"}
        /\ Handle("cancelled", "cancelled") /\ UNCHANGED exit
     \/ /\ step = "handling" \/ (~machine /\ step = "loading")
        /\ Finish(130) /\ UNCHANGED pending
  /\ UNCHANGED <<collection, fetched, outputs, summaries, envelopes>>

\* Whoever waits for the reports moves them away as soon as they are there.
Fetch ==
  /\ step \in {"describing", "summarizing"}
  /\ Cardinality(fetched) < MaxFetched
  /\ \E f \in Files : OnDisk(f) /\ fetched' = fetched \cup {f}
  /\ UNCHANGED <<vars, machine, step, outputs, summaries, pending, envelopes>>

Command ==
  \/ LoadContent
  \/ ExitPlain \/ DispatchEnds
  \/ Describe \/ Summarize \/ Emit \/ Return \/ EmitFailure

CommandNext == Dispatch \/ Command \/ InterruptCommand \/ Fetch

CommandSafe == CommandInit /\ [][CommandNext]_allVars

\* The collection may wait forever at an await that has no timeout. Every other await
\* has one, and the rest is sequential code.
Stuck == step = "dispatching" /\ AwaitsForGood
DispatchGoesOn == step = "dispatching" /\ ~Stuck /\ Proceed /\ UNCHANGED commandVars
CommandGoesOn == ~Stuck /\ Command
CommandSpec == CommandSafe /\ WF_allVars(DispatchGoesOn) /\ WF_allVars(CommandGoesOn)

--------------------------------------------------------------------------------
(* Properties.                                                              *)

\* "Machine mode never promotes a partial collection to success merely because a
\* JSON or HTML file exists" (docs/orchestration.md), and "partial" comes with
\* retained reports: whatever was fetched meanwhile, success means that every
\* target was written and is complete, and partial that some target is not.
EnvelopeIsTruthful ==
  \A n \in DOMAIN envelopes :
    LET e == envelopes[n]
    IN /\ e.status = "succeeded" =>
            \A t \in Targets : Written(t) /\ completion[t] = "succeeded"
       /\ e.status = "partial" =>
            /\ e.outputs # {}
            /\ \E t \in Targets : completion[t] # "succeeded"

\* The summaries of a result are those of the targets, each its own, also when
\* reports disappear between the hashes and the summaries.
SummariesMatchTargets ==
  \A n \in DOMAIN envelopes :
    envelopes[n].status \in {"succeeded", "partial"} =>
      envelopes[n].summaries = [t \in Targets |-> t]

\* A machine command nobody interrupted, and that met no exception Python has no
\* handler for, printed one envelope whose code is its exit status. A command
\* without --machine ends with a status of its own and prints none.
MachineAnswersOnce ==
  step = "ended" /\ ~interrupted /\ error # "unhandled" =>
    IF machine THEN Len(envelopes) = 1 /\ exit = ExitCode[envelopes[1].code]
    ELSE envelopes = <<>> /\ exit \in {0, 1, 2}

\* A command gets to the exit status of main(), or waits for good at one of the
\* awaits that have no timeout: nothing else in it waits forever or goes round in
\* circles. Python may then still wait for threads of the driver.
CommandEnds == <>(step = "ended") \/ <>[]Stuck

\* "output artifact path, SHA-256 and size when a file exists"
\* (docs/orchestration.md): an envelope lists every report the command has
\* written and that is still there.
EveryFileIsListed ==
  \A n \in DOMAIN envelopes : {f \in Files : OnDisk(f)} \subseteq envelopes[n].outputs

================================================================================
