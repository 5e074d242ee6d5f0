------------------------------- MODULE ReportFiles -------------------------------
(***************************************************************************)
(* The report files in an output directory: write_text_secure and           *)
(* write_json in src/ch_diag/artifact.py, called by the runs that share the *)
(* directory (the end of _collect_target in src/ch_diag/collector.py) and   *)
(* by the render command (render_from_json in src/ch_diag/render/html.py).  *)
(* Every call may fail at every step, a process may be killed, and the      *)
(* machine may lose power.                                                  *)
(*                                                                          *)
(* The file system is external: a name is bound to an inode, whose content  *)
(* is safe from a power loss once it is synchronised. A bound name may fall *)
(* back to what it was bound to before, as no directory is synchronised.    *)
(***************************************************************************)
EXTENDS Naturals

CONSTANTS
  Collectors,  \* runs, or targets of a run, with the same output paths
  Renderers,   \* render commands, from this JSON file to this HTML file
  Old,         \* the report of an earlier run
  NoFile, NoReport,
  MaxLosses    \* bound: power losses

Processes == Collectors \cup Renderers

ASSUME FilesAssumption ==
  /\ Collectors \cap Renderers = {}
  /\ Old \notin Processes
  /\ NoReport \notin Collectors \cup {Old}
  /\ NoFile \notin (Processes \cup {Old}) \X {"json", "html"}
  /\ MaxLosses \in Nat

Files == {"json", "html"}
Reports == Collectors \cup {Old}

\* One inode for every call of write_text_secure: its process and destination.
Inodes == (Processes \cup {Old}) \X Files

VARIABLES
  name,     \* the inode that every destination is bound to
  durable,  \* the bindings that a power loss may leave behind
  data,     \* content of every inode
  synced,   \* inodes whose content is safe
  temp,     \* inodes with a temporary name
  pc,       \* where every process is
  file,     \* the destination it is about to write
  report,   \* the report it writes
  losses,
  stray,    \* temporary names left by a kill, a power loss, a failed unlink, or
            \* Ctrl-C before the clean-up is in force
  known     \* reports that readers have found as JSON

disk == <<name, durable, data, synced, temp>>
ghosts == <<stray, known>>
vars == <<disk, pc, file, report, losses, ghosts>>

Contents == {"none", "empty", "part", "whole"}
\* Inside the try, whose handler removes the temporary file.
Writing == {"created", "written", "synced", "replaced"}
Calling == {"called", "made"} \cup Writing

TypeOK ==
  /\ name \in [Files -> Inodes \cup {NoFile}]
  /\ durable \in [Files -> SUBSET (Inodes \cup {NoFile})]
  /\ data \in [Inodes -> Contents]
  /\ synced \in SUBSET Inodes /\ temp \in SUBSET Inodes
  /\ pc \in [Processes -> Calling \cup {"idle", "ended", "raised", "killed"}]
  /\ file \in [Processes -> Files]
  /\ report \in [Processes \cup {Old} -> Reports \cup {NoReport}]
  /\ \A p \in Processes : pc[p] \in Calling \cup {"ended"} => report[p] # NoReport
  /\ losses \in 0..MaxLosses
  /\ stray \subseteq Inodes /\ known \subseteq Reports

\* Mutant: a run does not write its JSON first.
HtmlOnly(p) == "html"

FirstFile(p) == IF p \in Collectors THEN "json" ELSE "html"

Init ==
  /\ \E found \in {NoFile, Old} :
       /\ name = [f \in Files |-> IF found = Old THEN <<Old, f>> ELSE NoFile]
       /\ known = IF found = Old THEN {Old} ELSE {}
  /\ durable = [f \in Files |-> {name[f]}]
  /\ data = [i \in Inodes |-> IF i[1] = Old THEN "whole" ELSE "none"]
  /\ synced = {Old} \X Files
  /\ temp = {} /\ stray = {}
  /\ pc = [p \in Processes |-> "idle"]
  /\ file = [p \in Processes |-> FirstFile(p)]
  /\ report = [p \in Processes \cup {Old} |-> IF p \in Renderers THEN NoReport ELSE p]
  /\ losses = 0

\* The temporary file of the call that the process is in.
Own(p) == <<p, file[p]>>

Goto(p, label) == pc' = [pc EXCEPT ![p] = label]

--------------------------------------------------------------------------------
(* The callers.                                                             *)

\* A run has collected its report and calls write_json.
Collect(p) ==
  /\ p \in Collectors /\ pc[p] = "idle"
  /\ Goto(p, "called")
  /\ UNCHANGED <<disk, file, report, losses, ghosts>>

\* The render command reads the JSON file; one that is torn or missing is an error.
Load(p) ==
  /\ p \in Renderers /\ pc[p] = "idle"
  /\ IF name["json"] # NoFile /\ data[name["json"]] = "whole"
     THEN report' = [report EXCEPT ![p] = report[name["json"][1]]] /\ Goto(p, "called")
     ELSE report' = report /\ Goto(p, "raised")
  /\ UNCHANGED <<disk, file, losses, ghosts>>

\* The call has returned: a run goes on to its HTML file.
Return(p) ==
  /\ pc[p] = "replaced"
  /\ \/ file[p] = "json" /\ Goto(p, "called") /\ file' = [file EXCEPT ![p] = "html"]
     \/ file[p] = "html" /\ Goto(p, "ended") /\ file' = file

FinalChmod(p) == Return(p) /\ UNCHANGED <<disk, report, losses, ghosts>>

--------------------------------------------------------------------------------
(* write_text_secure                                                        *)

\* tempfile.mkstemp next to the destination. The call is not in its try yet.
Create(p) ==
  /\ pc[p] = "called"
  /\ data' = [data EXCEPT ![Own(p)] = "empty"]
  /\ temp' = temp \cup {Own(p)}
  /\ Goto(p, "made")
  /\ UNCHANGED <<name, durable, synced, file, report, losses, ghosts>>

\* The text is too long, or the directory or the temporary file cannot be made.
Refuse(p) ==
  /\ pc[p] = "called"
  /\ Goto(p, "raised")
  /\ UNCHANGED <<disk, file, report, losses, ghosts>>

\* try:
EnterTry(p) ==
  /\ pc[p] = "made"
  /\ Goto(p, "created")
  /\ UNCHANGED <<disk, file, report, losses, ghosts>>

\* Ctrl-C after mkstemp has made the file and before the try: nothing removes it.
Slip(p) ==
  /\ pc[p] = "made"
  /\ Goto(p, "raised")
  /\ stray' = stray \cup {Own(p)}
  /\ UNCHANGED <<disk, file, report, losses, known>>

\* fchmod, then write and flush, which may get only a part of the text out at
\* first.
Write(p) ==
  /\ pc[p] = "created"
  /\ \/ data[Own(p)] = "empty" /\ data' = [data EXCEPT ![Own(p)] = "part"] /\ pc' = pc
     \/ data' = [data EXCEPT ![Own(p)] = "whole"] /\ Goto(p, "written")
  /\ UNCHANGED <<name, durable, synced, temp, file, report, losses, ghosts>>

\* os.fsync and close
Sync(p) ==
  /\ pc[p] = "written"
  /\ synced' = synced \cup {Own(p)}
  /\ Goto(p, "synced")
  /\ UNCHANGED <<name, durable, data, temp, file, report, losses, ghosts>>

\* Mutant: the file is not synchronised before it replaces the destination.
Unsynced(p) == pc[p] \in {"written", "synced"}

Replaceable(p) == pc[p] = "synced"

\* os.replace
Replace(p) ==
  /\ Replaceable(p)
  /\ name' = [name EXCEPT ![file[p]] = Own(p)]
  /\ durable' = [durable EXCEPT ![file[p]] = @ \cup {Own(p)}]
  /\ temp' = temp \ {Own(p)}
  /\ known' = IF file[p] = "json" THEN known \cup {report[p]} ELSE known
  /\ Goto(p, "replaced")
  /\ UNCHANGED <<data, synced, file, report, losses, stray>>

\* Mutant: a KeyboardInterrupt passes by the clean-up.
UnlinkAfterError(p) ==
  /\ \E interrupted \in BOOLEAN : temp' = IF interrupted THEN temp ELSE temp \ {Own(p)}
  /\ stray' = stray

\* temporary.unlink(missing_ok=True), whose failure is ignored. Another Ctrl-C may
\* come before it.
Unlink(p) ==
  \/ temp' = temp \ {Own(p)} /\ stray' = stray
  \/ temp' = temp /\ stray' = stray \cup {Own(p)}

\* except BaseException: a step inside the try fails, or Ctrl-C arrives there. The
\* last step is the chmod after the replacement.
Raise(p) ==
  /\ pc[p] \in Writing
  /\ Unlink(p)
  /\ Goto(p, "raised")
  /\ UNCHANGED <<name, durable, data, synced, file, report, losses, known>>

--------------------------------------------------------------------------------
(* The environment.                                                         *)

Kill(p) ==
  /\ pc[p] \in Calling
  /\ Goto(p, "killed")
  /\ stray' = stray \cup (temp \cap {Own(p)})
  /\ UNCHANGED <<disk, file, report, losses, known>>

\* Every running process is gone. A name is bound to something it was bound to,
\* and content that was not synchronised may be lost in part. Temporary names stay.
PowerLoss ==
  /\ losses < MaxLosses
  /\ losses' = losses + 1
  /\ pc' = [p \in Processes |-> IF pc[p] \in Calling THEN "killed" ELSE pc[p]]
  /\ name' \in [Files -> Inodes \cup {NoFile}]
  /\ \A f \in Files : name'[f] \in durable[f]
  /\ durable' = [f \in Files |-> {name'[f]}]
  /\ \E survived \in BOOLEAN :
       data' = [i \in Inodes |-> IF survived \/ i \in synced \/ data[i] = "none"
                                  THEN data[i] ELSE "part"]
  /\ stray' = temp
  /\ UNCHANGED <<synced, temp, file, report, known>>

Next ==
  \/ \E p \in Processes :
       \/ Collect(p) \/ Load(p) \/ Create(p) \/ Refuse(p) \/ EnterTry(p) \/ Slip(p)
       \/ Write(p) \/ Sync(p) \/ Replace(p) \/ FinalChmod(p) \/ Raise(p) \/ Kill(p)
  \/ PowerLoss

Spec == Init /\ [][Next]_vars

--------------------------------------------------------------------------------
(* Properties.                                                              *)

\* What a reader of an inode finds: a torn file is no report at all.
Shown(i) == IF i = NoFile THEN NoReport ELSE IF data[i] = "whole" THEN report[i[1]] ELSE "torn"

Store == INSTANCE ReportStore WITH
  visible <- [f \in Files |-> Shown(name[f])],
  versions <- [f \in Files |-> {Shown(i) : i \in durable[f]}]

\* "JSON and HTML are written atomically" (README): through failures, kills, power
\* losses and concurrent runs, a reader of either file finds a whole report or, if
\* there was none, no file, and only a replacement or a power loss changes which.
ImplementsStore == Store!Spec

\* An HTML file shows a report that readers could find as JSON before, whichever
\* run or render command wrote it and wherever the others were stopped.
HtmlHasItsJson ==
  name["html"] # NoFile => report[name["html"][1]] \in known

\* A write that fails, or that Ctrl-C interrupts inside the try of write_text_secure,
\* leaves no temporary file behind: every temporary name belongs to a call that has
\* made it and still runs. The exceptions are the ones the code cannot clean up after:
\* a kill, a power loss, an unlink that fails, and Ctrl-C between mkstemp and the try.
TemporariesAreRemoved ==
  \A i \in temp \ stray :
    i[1] \in Processes /\ pc[i[1]] \in Calling \ {"called", "replaced"} /\ i = Own(i[1])
================================================================================
