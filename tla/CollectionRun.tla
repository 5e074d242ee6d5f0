----------------------------- MODULE CollectionRun -----------------------------
(***************************************************************************)
(* One run of the collector (src/ch_diag/collector.py) up to the exit       *)
(* status of the command (src/ch_diag/cli.py): the resources are opened in  *)
(* order, every target is collected item by item and written, the resources *)
(* are closed whatever happened, and the outcome becomes an exit status.    *)
(*                                                                          *)
(* Ctrl-C is a cancellation of the run's task at an await; a signal during  *)
(* synchronous code takes effect at the next one.                           *)
(***************************************************************************)
EXTENDS Integers, Sequences

CONSTANTS
  TargetCount,   \* number of targets resolve_targets returns
  Plan,          \* the planned items of a target, in order: whether they have a
                 \* fallback, and whether they run on the host
  FailFastPolicies, \* the values of runtime_policy.fail_fast to consider
  UsesSsh,       \* remote mode
  PathOf         \* the default output path of every target

Targets == 1..TargetCount
Items == 1..Len(Plan)

ASSUME RunAssumption ==
  /\ TargetCount \in Nat \ {0}
  /\ Plan \in Seq([kind : {"source", "metric", "inapplicable"}, fallback : BOOLEAN,
                   host : BOOLEAN])
  /\ FailFastPolicies \subseteq BOOLEAN
  /\ UsesSsh \in BOOLEAN
  /\ DOMAIN PathOf = Targets

Paths == {PathOf[t] : t \in Targets}

\* "ok" also stands for "empty", "error" for "permission_denied".
Collected == {"ok"}
FailedStatuses == {"error", "timeout"}
Statuses == Collected \cup FailedStatuses \cup {"unsupported"}

VARIABLES
  failFast,     \* runtime_policy.fail_fast of this run
  stage,        \* where the run is
  ssh, adapter, \* "none", "open", "closed" or "close_failed"
  target,       \* the target being collected
  index,        \* the item being collected
  primary,      \* how the item's own source ended, per target and item
  status,       \* the item's final status
  incomplete,   \* the item carries a coverage_incomplete diagnostic
  completion,   \* completion_status of each artifact
  json, html,   \* the target whose report a path holds, 0 for none
  returned,     \* targets whose artifact _collect_target has returned
  error,        \* the exception propagating: "none", "cancelled", "reported"
                \* (one main() catches) or "unhandled"
  interrupted,  \* Ctrl-C was pressed
  exit          \* exit status, Running before it is known

resources == <<ssh, adapter>>
items == <<primary, status, incomplete>>
files == <<json, html>>
vars == <<failFast, stage, resources, target, index, items, completion, files,
          returned, error, interrupted, exit>>

Stages == {"connecting", "creating", "detecting", "hostname", "resolving",
           "primary", "fallback", "recording", "sampling", "finalizing",
           "json", "html", "returning", "close_adapter", "close_ssh", "exiting"}
Pending == "pending"
Running == -1

TypeOK ==
  /\ failFast \in FailFastPolicies
  /\ stage \in Stages
  /\ ssh \in {"none", "open", "closed", "close_failed"}
  /\ adapter \in {"none", "open", "closed", "close_failed"}
  /\ target \in 1..(TargetCount + 1)
  /\ index \in 1..(Len(Plan) + 1)
  /\ primary \in [Targets -> [Items -> Statuses \cup {Pending}]]
  /\ status \in [Targets -> [Items -> Statuses \cup {Pending, "omitted"}]]
  /\ incomplete \in [Targets -> [Items -> BOOLEAN]]
  /\ completion \in [Targets -> {"none", "succeeded", "partial", "failed"}]
  /\ json \in [Paths -> 0..TargetCount]
  /\ html \in [Paths -> 0..TargetCount]
  /\ returned \in 0..TargetCount
  /\ error \in {"none", "cancelled", "reported", "unhandled"}
  /\ interrupted \in BOOLEAN
  /\ exit \in {Running, 0, 1, 2, 130}

Init ==
  /\ failFast \in FailFastPolicies
  /\ stage = IF UsesSsh THEN "connecting" ELSE "creating"
  /\ ssh = "none"
  /\ adapter = "none"
  /\ target = 1
  /\ index = 1
  /\ primary = [t \in Targets |-> [i \in Items |-> Pending]]
  /\ status = [t \in Targets |-> [i \in Items |-> Pending]]
  /\ incomplete = [t \in Targets |-> [i \in Items |-> FALSE]]
  /\ completion = [t \in Targets |-> "none"]
  /\ json = [p \in Paths |-> 0]
  /\ html = [p \in Paths |-> 0]
  /\ returned = 0
  /\ error = "none"
  /\ interrupted = FALSE
  /\ exit = Running

--------------------------------------------------------------------------------
(* _collect: the resources.                                                 *)

\* An exception leaves the try block of _collect for its finally block.
Raise(kind) == stage' = "close_adapter" /\ error' = kind

\* A step that either succeeds or raises one of the given exceptions.
Attempt(next, exceptions) ==
  \/ stage' = next /\ UNCHANGED error
  \/ \E e \in exceptions : Raise(e)

ConnectSsh ==
  /\ stage = "connecting"
  /\ \/ ssh' = "open" /\ stage' = "creating" /\ UNCHANGED error
     \/ Raise("reported") /\ UNCHANGED ssh
  /\ UNCHANGED <<failFast, adapter, target, index, items, completion, files, returned,
                 interrupted, exit>>

\* In remote mode a tunnel of the SSH session first; then adapter_factory.
CreateAdapter ==
  /\ stage = "creating"
  /\ \/ adapter' = "open" /\ stage' = "detecting" /\ UNCHANGED error
     \/ Raise("reported") /\ UNCHANGED adapter
  /\ UNCHANGED <<failFast, ssh, target, index, items, completion, files, returned,
                 interrupted, exit>>

\* What the driver raises outside execute_query: connection resets are OSErrors,
\* the EOFError and the driver's own types that failure_kind expects are not.
DriverErrors == {"reported", "unhandled"}

\* detect_runtime_context, then hostname, then resolve_targets and its limits.
Prepare ==
  /\ \/ stage = "detecting" /\ Attempt("hostname", DriverErrors)
     \/ stage = "hostname" /\ Attempt("resolving", {"reported"})
     \/ stage = "resolving" /\ Attempt("primary", DriverErrors)
  /\ UNCHANGED <<failFast, resources, target, index, items, completion, files, returned,
                 interrupted, exit>>

--------------------------------------------------------------------------------
(* _collect_target: the items.                                              *)

Item == Plan[index]

\* Items that are not planned are omitted, metrics wait for the window.
PassOver ==
  /\ stage = "primary" /\ index <= Len(Plan)
  /\ Item.kind # "source"
  /\ status' = IF Item.kind = "inapplicable"
                 THEN [status EXCEPT ![target][index] = "omitted"] ELSE status
  /\ index' = index + 1
  /\ UNCHANGED <<failFast, stage, resources, target, primary, incomplete, completion, files,
                 returned, error, interrupted, exit>>

\* A result that was delivered may have been cut at a declared limit.
Coverage(result) ==
  \/ UNCHANGED incomplete
  \/ result \in Collected /\ incomplete' = [incomplete EXCEPT ![target][index] = TRUE]

\* A failure that has one of the item's triggers runs its fallback.
ItemEnds(result) ==
  /\ primary' = [primary EXCEPT ![target][index] = result]
  /\ \/ /\ stage' = "recording"
        /\ status' = [status EXCEPT ![target][index] = result]
        /\ Coverage(result)
     \/ /\ Item.fallback /\ result \notin Collected
        /\ stage' = "fallback"
        /\ UNCHANGED <<status, incomplete>>

ExecutePrimary ==
  /\ stage = "primary" /\ index <= Len(Plan)
  /\ Item.kind = "source"
  /\ \E result \in Statuses : ItemEnds(result)
  /\ UNCHANGED <<failFast, resources, target, index, completion, files, returned, error,
                 interrupted, exit>>

\* The fallback's item replaces the failed one, whatever its status.
ExecuteFallback ==
  /\ stage = "fallback"
  /\ stage' = "recording"
  /\ \E result \in Statuses :
       /\ status' = [status EXCEPT ![target][index] = result]
       /\ Coverage(result)
  /\ UNCHANGED <<failFast, resources, target, index, primary, completion, files, returned,
                 error,
                 interrupted, exit>>

\* Mutant: fail_fast is ignored.
NeverStops == FALSE

FailFastStops == failFast /\ status[target][index] \in FailedStatuses

AfterRecording(next) ==
  IF FailFastStops
    THEN Raise("reported") /\ UNCHANGED index
    ELSE stage' = next /\ index' = index + 1 /\ UNCHANGED error

\* An unsupported item is omitted, any other enters the artifact.
RecordItem ==
  /\ stage = "recording"
  /\ status' = IF status[target][index] = "unsupported"
                 THEN [status EXCEPT ![target][index] = "omitted"] ELSE status
  /\ AfterRecording(IF Item.kind = "metric" THEN "sampling" ELSE "primary")
  /\ UNCHANGED <<failFast, resources, target, primary, incomplete, completion, files, returned,
                 interrupted, exit>>

Metrics == {i \in Items : Plan[i].kind = "metric"}

\* collect_metric_items returns an item for every metric, or raises and makes
\* every metric an error. The loop over the metrics starts at the first one.
Sample ==
  /\ stage = "primary" /\ index = Len(Plan) + 1
  /\ \E result \in [Metrics -> {"ok", "error", "unsupported"}] :
       status' = [status EXCEPT ![target] =
                    [i \in Items |-> IF i \in Metrics THEN result[i] ELSE @[i]]]
  /\ \E cut \in SUBSET {i \in Metrics : status'[target][i] = "ok"} :
       incomplete' = [incomplete EXCEPT ![target] = [i \in Items |-> @[i] \/ i \in cut]]
  /\ stage' = "sampling"
  /\ index' = 1
  /\ UNCHANGED <<failFast, resources, target, primary, completion, files, returned, error,
                 interrupted, exit>>

\* Mutant: the loop does not pass an item that is no metric.
NextMetricStuck ==
  /\ stage = "sampling"
  /\ index' = IF index > Len(Plan) THEN 1 ELSE index
  /\ stage' = IF index > Len(Plan) THEN "finalizing"
              ELSE IF index \in Metrics THEN "recording" ELSE stage
  /\ UNCHANGED <<failFast, resources, target, items, completion, files, returned, error,
                 interrupted, exit>>

NextMetric ==
  /\ stage = "sampling"
  /\ IF index > Len(Plan) THEN stage' = "finalizing" /\ index' = 1
     ELSE IF index \in Metrics THEN stage' = "recording" /\ UNCHANGED index
     ELSE index' = index + 1 /\ UNCHANGED stage
  /\ UNCHANGED <<failFast, resources, target, items, completion, files, returned, error,
                 interrupted, exit>>

--------------------------------------------------------------------------------
(* _collect_target: the report.                                             *)

\* Mutant: incomplete coverage is forgotten.
UncutStatus(t) ==
  IF ~(\E i \in Items : status[t][i] \in FailedStatuses) THEN "succeeded"
  ELSE IF \E i \in Items : status[t][i] \in Collected THEN "partial" ELSE "failed"

\* Mutant: an omitted item counts as missing.
StrictStatus(t) ==
  IF \A i \in Items : status[t][i] \in Collected THEN "succeeded"
  ELSE IF \E i \in Items : status[t][i] \in Collected THEN "partial" ELSE "failed"

CompletionStatus(t) ==
  LET successful == {i \in Items : status[t][i] \in Collected}
      failedItems == {i \in Items : status[t][i] \in FailedStatuses}
      cutItems == {i \in Items : status[t][i] # "omitted" /\ incomplete[t][i]}
  IN IF failedItems # {} /\ successful = {} THEN "failed"
     ELSE IF failedItems \cup cutItems # {} THEN "partial" ELSE "succeeded"

\* omit_uncollected_items, finalize_collection_summary, validate_artifact.
Finalize ==
  /\ stage = "finalizing"
  /\ completion' = [completion EXCEPT ![target] = CompletionStatus(target)]
  /\ stage' = "json"
  /\ UNCHANGED <<failFast, resources, target, index, items, files, returned, error,
                 interrupted, exit>>

\* Mutant: a JSON that could not be written does not stop the HTML.
WriteJsonBestEffort ==
  /\ stage = "json"
  /\ stage' = "html"
  /\ json' \in {json, [json EXCEPT ![PathOf[target]] = target]}
  /\ UNCHANGED <<failFast, resources, target, index, items, completion, html, returned, error,
                 interrupted, exit>>

\* write_json, then the HTML. A failure may come after the file was replaced.
WriteJson ==
  /\ stage = "json"
  /\ \/ json' = [json EXCEPT ![PathOf[target]] = target] /\ Attempt("html", {"reported"})
     \/ UNCHANGED json /\ Raise("reported")
  /\ UNCHANGED <<failFast, resources, target, index, items, completion, html, returned,
                 interrupted, exit>>

WriteHtml ==
  /\ stage = "html"
  /\ \/ html' = [html EXCEPT ![PathOf[target]] = target] /\ Attempt("returning", {"reported"})
     \/ UNCHANGED html /\ Raise("reported")
  /\ UNCHANGED <<failFast, resources, target, index, items, completion, json, returned,
                 interrupted, exit>>

\* The artifact is appended; the loop continues with the next target.
ReturnTarget ==
  /\ stage = "returning"
  /\ returned' = target
  /\ target' = target + 1
  /\ stage' = IF target = TargetCount THEN "close_adapter" ELSE "primary"
  /\ UNCHANGED <<failFast, resources, index, items, completion, files, error, interrupted,
                 exit>>

--------------------------------------------------------------------------------
(* _close_collection_resources, and the exit status of main().              *)

\* Mutant: an adapter that fails to close hides the SSH session.
CloseAdapterOnly ==
  /\ stage = "close_adapter"
  /\ \/ /\ adapter' = IF adapter = "open" THEN "closed" ELSE adapter
        /\ stage' = "close_ssh" /\ UNCHANGED error
     \/ /\ adapter = "open" /\ adapter' = "close_failed"
        /\ stage' = "exiting" /\ error' = "reported"
  /\ UNCHANGED <<failFast, ssh, target, index, items, completion, files, returned,
                 interrupted, exit>>

\* Each close is attempted; the first error is raised unless an exception is
\* propagating already.
CloseAdapter ==
  /\ stage = "close_adapter"
  /\ stage' = "close_ssh"
  /\ \/ /\ adapter' = IF adapter = "open" THEN "closed" ELSE adapter
        /\ UNCHANGED error
     \/ /\ adapter = "open" /\ adapter' = "close_failed"
        /\ error' = IF error = "none" THEN "reported" ELSE error
  /\ UNCHANGED <<failFast, ssh, target, index, items, completion, files, returned,
                 interrupted, exit>>

CloseSsh ==
  /\ stage = "close_ssh"
  /\ stage' = "exiting"
  /\ \/ /\ ssh' = IF ssh = "open" THEN "closed" ELSE ssh
        /\ UNCHANGED error
     \/ /\ ssh = "open" /\ ssh' = "close_failed"
        /\ error' = IF error = "none" THEN "reported" ELSE error
  /\ UNCHANGED <<failFast, adapter, target, index, items, completion, files, returned,
                 interrupted, exit>>

\* _collection_exit_status for a run that returned its artifacts; main() turns
\* the exceptions it catches into 2, Python ends on any other with 1 and on
\* the KeyboardInterrupt of a cancelled run with 130.
Exit ==
  /\ stage = "exiting" /\ exit = Running
  /\ exit' = CASE error = "none" -> IF \E t \in Targets : completion[t] # "succeeded" THEN 1 ELSE 0
               [] error = "reported" -> 2
               [] error = "unhandled" -> 1
               [] error = "cancelled" -> 130
  /\ UNCHANGED <<failFast, stage, resources, target, index, items, completion, files, returned,
                 error, interrupted>>

--------------------------------------------------------------------------------
(* Ctrl-C.                                                                  *)

ExecutingItem ==
  \/ stage = "fallback"
  \/ stage = "primary" /\ index <= Len(Plan) /\ Item.kind = "source"
Sampling == stage = "primary" /\ index = Len(Plan) + 1 /\ Metrics # {}

InterruptRaises ==
  /\ ~interrupted /\ interrupted' = TRUE
  /\ \/ stage \in {"connecting", "detecting", "hostname", "resolving"}
     \/ stage = "creating" /\ UsesSsh
     \/ ExecutingItem
     \/ Sampling
  /\ Raise("cancelled")
  /\ UNCHANGED <<failFast, resources, target, index, items, completion, files, returned, exit>>

\* While a timed-out SQL statement is drained the adapter swallows it
\* (ClickHouseAdapter!Cancel) and reports the timeout alone: to the preparation
\* as an exception, to an item as its status, to the metrics as their error.
InterruptSwallowed ==
  /\ ~interrupted /\ interrupted' = TRUE
  /\ \/ /\ stage \in {"detecting", "resolving"}
        /\ Raise("reported")
        /\ UNCHANGED <<index, items>>
     \/ /\ stage = "primary" /\ ExecutingItem
        /\ ItemEnds("timeout")
        /\ UNCHANGED <<index, error>>
     \/ /\ stage = "fallback"
        /\ stage' = "recording"
        /\ status' = [status EXCEPT ![target][index] = "timeout"]
        /\ UNCHANGED <<index, primary, incomplete, error>>
     \/ /\ Sampling
        /\ status' = [status EXCEPT ![target] =
                        [i \in Items |-> IF i \in Metrics THEN "error" ELSE @[i]]]
        /\ stage' = "sampling" /\ index' = 1
        /\ UNCHANGED <<primary, incomplete, error>>
  /\ UNCHANGED <<failFast, resources, target, completion, files, returned, exit>>

\* During a close it becomes that close's error; the other one is still tried.
InterruptClose ==
  /\ ~interrupted /\ interrupted' = TRUE
  /\ \/ /\ stage = "close_adapter" /\ adapter = "open"
        /\ adapter' = "close_failed" /\ stage' = "close_ssh" /\ UNCHANGED ssh
     \/ /\ stage = "close_ssh" /\ ssh = "open"
        /\ ssh' = "close_failed" /\ stage' = "exiting" /\ UNCHANGED adapter
  /\ error' = IF error = "none" THEN "cancelled" ELSE error
  /\ UNCHANGED <<failFast, target, index, items, completion, files, returned, exit>>

Interrupt == InterruptRaises \/ InterruptSwallowed \/ InterruptClose

Proceed ==
  \/ ConnectSsh \/ CreateAdapter \/ Prepare
  \/ PassOver \/ ExecutePrimary \/ ExecuteFallback \/ RecordItem
  \/ Sample \/ NextMetric
  \/ Finalize \/ WriteJson \/ WriteHtml \/ ReturnTarget
  \/ CloseAdapter \/ CloseSsh

Run == Proceed \/ Exit

Next == Run \/ Interrupt

SafeSpec == Init /\ [][Next]_vars

\* The awaits without a timeout: the tunnel, the session of the SSH connection for a
\* hostname or a script, a local script that was killed while its children hold its
\* pipes (host.py:46), and the end of the tunnel and of the SSH connection. If the
\* close of the adapter was given up, asyncio.run still joins the thread that waits
\* for the driver, before main() has its result.
AwaitsForGood ==
  \/ UsesSsh /\ stage \in {"creating", "hostname"}
  \/ ExecutingItem /\ Item.host
  \/ Sampling /\ \E i \in Metrics : Plan[i].host
  \/ stage = "close_ssh" /\ ssh = "open"
  \/ stage = "exiting" /\ adapter = "close_failed"

--------------------------------------------------------------------------------
(* Properties.                                                              *)

Written(t) == json[PathOf[t]] = t /\ html[PathOf[t]] = t

\* Exit status 0 is truthful: every target has a complete report of its own on
\* disk and no item of it failed or is incomplete (README, exit status).
ExitZeroIsComplete ==
  exit = 0 => \A t \in Targets :
    /\ Written(t)
    /\ completion[t] = "succeeded"
    /\ \A i \in Items : status[t][i] \in Collected \cup {"omitted"} /\ ~incomplete[t][i]

\* A collection that ran to its end and exits with 1 has written the report
\* of every target, at least one of them with a visible failure or gap.
PartialRunIsWritten ==
  exit = 1 /\ error = "none" =>
    /\ \A t \in Targets : Written(t)
    /\ \E t \in Targets, i \in Items :
         status[t][i] \in FailedStatuses \/ (status[t][i] # "omitted" /\ incomplete[t][i])

\* Whatever fails, and wherever Ctrl-C strikes, both resources have had their
\* close before the process exits (_close_collection_resources).
ResourcesClosed == exit # Running => ssh # "open" /\ adapter # "open"

\* No file ever shows a target with an undecided item, and with fail_fast none
\* shows a failed one.
ReportsAreDecided ==
  \A p \in Paths : \A t \in {json[p], html[p]} \ {0} : \A i \in Items :
    /\ status[t][i] # Pending
    /\ status[t][i] # "unsupported"
    /\ failFast => status[t][i] \notin FailedStatuses

\* The HTML of a path is never ahead of its JSON.
HtmlFollowsJson == [][\A p \in Paths : html'[p] # html[p] => html'[p] = json[p]]_vars

\* "timeout, permission_denied, unexpected item errors ... prevent a false
\* successful exit" (README): status 0 means that no source of an item failed
\* without its fallback delivering.
NoFailureHidden ==
  exit = 0 => \A t \in Targets, i \in Items :
    primary[t][i] \in FailedStatuses => status[t][i] \in Collected

================================================================================
