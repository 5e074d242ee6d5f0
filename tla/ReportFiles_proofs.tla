---------------------------- MODULE ReportFiles_proofs ----------------------------
(***************************************************************************)
(* Proofs about ReportFiles for any number of runs, render commands and     *)
(* power losses. The argument: an inode is only written by the one call     *)
(* that made it, it is whole and synchronised before it gets its name, and  *)
(* never written again. So whatever binding a power loss leaves, the file   *)
(* is a whole report.                                                       *)
(***************************************************************************)
EXTENDS ReportFiles, TLAPS

\* Everything a destination may be bound to is whole, safe and known as JSON.
BoundInv ==
  \A f \in Files :
    /\ name[f] \in durable[f]
    /\ \A i \in durable[f] : i # NoFile =>
         /\ i \in synced /\ data[i] = "whole"
         /\ report[i[1]] \in known
         /\ i[1] \in Processes => pc[i[1]] # "idle"

\* How far the call of a process has brought its inode.
CallOf(p) ==
  /\ p \in Collectors => report[p] = p
  /\ pc[p] = "idle" => file[p] = FirstFile(p)
  /\ p \in Renderers => file[p] = "html"
  /\ file[p] = "html" /\ pc[p] \in Calling => report[p] \in known
  /\ pc[p] = "replaced" => report[p] \in known
  /\ pc[p] \in {"idle", "called", "made", "created", "written"} => Own(p) \notin synced
  /\ file[p] = "json" => <<p, "html">> \notin synced
  /\ pc[p] \in {"written", "synced"} => data[Own(p)] = "whole"
  /\ pc[p] = "synced" => Own(p) \in synced

CallInv == \A p \in Processes : CallOf(p)

IInv == TypeOK /\ BoundInv /\ CallInv

LEMMA OwnInode == ASSUME TypeOK, NEW p \in Processes PROVE Own(p) \in Inodes
BY DEF TypeOK, Own, Inodes

LEMMA InitInv == Init => IInv
<1>. SUFFICES ASSUME Init PROVE IInv
  OBVIOUS
<1>. USE FilesAssumption DEF Init, Processes
<1>1. PICK found \in {NoFile, Old} :
        /\ name = [f \in Files |-> IF found = Old THEN <<Old, f>> ELSE NoFile]
        /\ known = IF found = Old THEN {Old} ELSE {}
  OBVIOUS
<1>2. TypeOK
  <2>1. name \in [Files -> Inodes \cup {NoFile}] /\ known \subseteq Reports
    BY <1>1 DEF Inodes, Reports
  <2>2. durable \in [Files -> SUBSET (Inodes \cup {NoFile})]
    BY <2>1
  <2>3. data \in [Inodes -> Contents] /\ synced \in SUBSET Inodes /\ temp \in SUBSET Inodes
    BY DEF Contents, Inodes
  <2>4. pc \in [Processes -> Calling \cup {"idle", "ended", "raised", "killed"}]
    BY DEF Processes
  <2>5. file \in [Processes -> Files] /\ losses \in 0..MaxLosses
    BY DEF FirstFile, Files
  <2>6. report \in [Processes \cup {Old} -> Reports \cup {NoReport}]
    BY DEF Reports
  <2>7. \A p \in Processes : pc[p] = "idle"
    OBVIOUS
  <2>. QED  BY <2>1, <2>2, <2>3, <2>4, <2>5, <2>6, <2>7 DEF TypeOK, Writing, Calling
<1>3. BoundInv
  <2>. SUFFICES ASSUME NEW f \in Files, NEW i \in durable[f], i # NoFile
                PROVE  i \in synced /\ data[i] = "whole" /\ report[i[1]] \in known
                       /\ (i[1] \in Processes => pc[i[1]] # "idle")
    BY DEF BoundInv
  <2>1. found = Old /\ i = <<Old, f>>
    BY <1>1
  <2>. QED  BY <1>1, <2>1 DEF Inodes
<1>4. CallInv
  BY DEF CallInv, CallOf, Own, FirstFile, Writing, Calling, Files
<1>. QED  BY <1>2, <1>3, <1>4 DEF IInv

LEMMA TypeStep == TypeOK /\ BoundInv /\ CallInv /\ [Next]_vars => TypeOK'
<1>. SUFFICES ASSUME TypeOK, BoundInv, CallInv, [Next]_vars PROVE TypeOK'
  OBVIOUS
<1>. USE FilesAssumption, OwnInode DEF TypeOK, Goto, disk, ghosts, Writing, Calling
<1>1. ASSUME NEW p \in Processes, Collect(p) PROVE TypeOK'
  <2>1. report[p] # NoReport
    <3>1. p \in Collectors
      BY <1>1 DEF Collect
    <3>2. report[p] = p
      BY <3>1 DEF CallInv, CallOf
    <3>. QED  BY <3>1, <3>2
  <2>2. UNCHANGED <<disk, file, report, losses, ghosts>>
    BY <1>1 DEF Collect
  <2>3. pc' = [pc EXCEPT ![p] = "called"]
    BY <1>1 DEF Collect
  <2>. QED  BY <2>1, <2>2, <2>3
<1>2. ASSUME NEW p \in Processes, Load(p) PROVE TypeOK'
  <2>1. name["json"] # NoFile => report[name["json"][1]] \in Reports
    BY DEF BoundInv, Files
  <2>. QED  BY <1>2, <2>1 DEF Load, Reports
<1>3. ASSUME NEW p \in Processes, Create(p) PROVE TypeOK'
  BY <1>3 DEF Create, Contents
<1>4. ASSUME NEW p \in Processes, Refuse(p) PROVE TypeOK'
  BY <1>4 DEF Refuse
<1>5. ASSUME NEW p \in Processes, Write(p) PROVE TypeOK'
  BY <1>5 DEF Write, Contents
<1>6. ASSUME NEW p \in Processes, Sync(p) PROVE TypeOK'
  BY <1>6 DEF Sync
<1>7. ASSUME NEW p \in Processes, Replace(p) PROVE TypeOK'
  <2>1. report[p] \in Reports
    BY <1>7 DEF Replace, Replaceable
  <2>. QED  BY <1>7, <2>1 DEF Replace, Replaceable
<1>8. ASSUME NEW p \in Processes, FinalChmod(p) PROVE TypeOK'
  BY <1>8 DEF FinalChmod, Return, Files
<1>9. ASSUME NEW p \in Processes, Raise(p) PROVE TypeOK'
  BY <1>9 DEF Raise, Unlink
<1>10. ASSUME NEW p \in Processes, Kill(p) PROVE TypeOK'
  BY <1>10 DEF Kill
<1>11. CASE PowerLoss
  <2>1. data' \in [Inodes -> Contents]
    BY <1>11 DEF PowerLoss, Contents
  <2>2. pc' \in [Processes -> Calling \cup {"idle", "ended", "raised", "killed"}]
    BY <1>11 DEF PowerLoss
  <2>3. durable' \in [Files -> SUBSET (Inodes \cup {NoFile})]
    BY <1>11 DEF PowerLoss
  <2>. QED  BY <1>11, <2>1, <2>2, <2>3 DEF PowerLoss
<1>12. CASE UNCHANGED vars
  BY <1>12 DEF vars
<1>13. ASSUME NEW p \in Processes, EnterTry(p) PROVE TypeOK'
  BY <1>13 DEF EnterTry
<1>14. ASSUME NEW p \in Processes, Slip(p) PROVE TypeOK'
  BY <1>14 DEF Slip
<1>. QED  BY <1>1, <1>2, <1>3, <1>4, <1>5, <1>6, <1>7, <1>8, <1>9, <1>10, <1>11, <1>12,
  <1>13, <1>14 DEF Next

LEMMA BoundStep == IInv /\ TypeOK' /\ [Next]_vars => BoundInv'
<1>. SUFFICES ASSUME IInv, TypeOK', [Next]_vars, NEW f \in Files
              PROVE  /\ name'[f] \in durable'[f]
                     /\ \A i \in durable'[f] : i # NoFile =>
                          /\ i \in synced' /\ data'[i] = "whole"
                          /\ report'[i[1]] \in known'
                          /\ i[1] \in Processes => pc'[i[1]] # "idle"
  BY DEF BoundInv
<1>. USE FilesAssumption, OwnInode DEF IInv, TypeOK, BoundInv, CallInv, CallOf, Goto,
  disk, ghosts, Writing, Calling
<1>1. ASSUME NEW p \in Processes,
             \/ Collect(p) \/ Refuse(p) \/ EnterTry(p) \/ Slip(p)
             \/ FinalChmod(p) \/ Raise(p) \/ Kill(p)
      PROVE  BoundInv'
  <2>1. /\ UNCHANGED <<name, durable, data, synced, report, known>>
        /\ pc'[p] # "idle" /\ \A q \in Processes \ {p} : pc'[q] = pc[q]
    BY <1>1 DEF Collect, Refuse, EnterTry, Slip, FinalChmod, Return, Raise, Kill
  <2>. QED  BY <2>1
<1>2. ASSUME NEW p \in Processes, Load(p) PROVE BoundInv'
  <2>1. /\ UNCHANGED <<name, durable, data, synced, known>> /\ pc[p] = "idle"
        /\ pc'[p] # "idle" /\ \A q \in Processes \ {p} : pc'[q] = pc[q]
        /\ \A q \in Processes \cup {Old} : q # p => report'[q] = report[q]
    BY <1>2 DEF Load
  <2>. QED  BY <2>1 DEF Inodes
<1>3. ASSUME NEW p \in Processes, Create(p) \/ Write(p) \/ Sync(p) PROVE BoundInv'
  <2>1. /\ UNCHANGED <<name, durable, report, known>> /\ synced \subseteq synced'
        /\ pc'[p] # "idle" /\ \A q \in Processes \ {p} : pc'[q] = pc[q]
        /\ \A i \in Inodes \ {Own(p)} : data'[i] = data[i]
    BY <1>3 DEF Create, Write, Sync
  <2>2. Own(p) \notin synced
    BY <1>3 DEF Create, Write, Sync
  <2>. QED  BY <2>1, <2>2
<1>4. ASSUME NEW p \in Processes, Replace(p) PROVE BoundInv'
  <2>1. /\ UNCHANGED <<data, synced, report>> /\ known \subseteq known'
        /\ pc'[p] # "idle" /\ \A q \in Processes \ {p} : pc'[q] = pc[q]
    BY <1>4 DEF Replace
  <2>2. Own(p) \in synced /\ data[Own(p)] = "whole"
    BY <1>4 DEF Replace, Replaceable
  <2>3. Own(p)[1] = p
    BY DEF Own
  <2>4. report[p] \in known'
    BY <1>4 DEF Replace, Replaceable, Files
  <2>5. \A g \in Files : /\ durable'[g] \subseteq durable[g] \cup {Own(p)}
                         /\ name'[g] \in durable'[g]
    BY <1>4 DEF Replace
  <2>. QED  BY <2>1, <2>2, <2>3, <2>4, <2>5
<1>5. CASE PowerLoss
  <2>1. \A g \in Files : name'[g] \in durable[g] /\ durable'[g] = {name'[g]}
    BY <1>5 DEF PowerLoss
  <2>2. \A i \in synced : data'[i] = data[i]
    BY <1>5 DEF PowerLoss
  <2>3. UNCHANGED <<synced, report, known>> /\ \A q \in Processes : pc[q] # "idle" => pc'[q] # "idle"
    BY <1>5 DEF PowerLoss
  <2>. QED  BY <2>1, <2>2, <2>3
<1>6. CASE UNCHANGED vars
  BY <1>6 DEF vars
<1>. QED  BY <1>1, <1>2, <1>3, <1>4, <1>5, <1>6 DEF Next

\* A step that leaves a process and its inodes alone.
LEMMA Frame ==
  ASSUME NEW q \in Processes, CallOf(q), pc'[q] = pc[q], file'[q] = file[q],
         report'[q] = report[q], known \subseteq known',
         \A f \in Files : /\ <<q, f>> \in synced' <=> <<q, f>> \in synced
                         /\ data'[<<q, f>>] = data[<<q, f>>],
         file[q] \in Files
  PROVE  CallOf(q)'
BY DEF CallOf, Own, FirstFile, Files

LEMMA CallStep == IInv /\ TypeOK' /\ [Next]_vars => CallInv'
<1>. SUFFICES ASSUME IInv, TypeOK', [Next]_vars PROVE CallInv'
  OBVIOUS
<1>. USE DEF IInv, disk, ghosts
<1>0. \A q \in Processes : CallOf(q) /\ file[q] \in Files
  BY DEF CallInv, TypeOK
<1>1. ASSUME NEW p \in Processes,
             \/ Collect(p) \/ Load(p) \/ Create(p) \/ Refuse(p) \/ Write(p)
             \/ EnterTry(p) \/ Slip(p) \/ Sync(p) \/ Replace(p) \/ FinalChmod(p)
             \/ Raise(p) \/ Kill(p)
      PROVE  CallInv'
  <2>1. ASSUME NEW q \in Processes, q # p PROVE CallOf(q)'
    <3>1. \A f \in Files : <<q, f>> # Own(p) /\ <<q, f>> \in Inodes
      BY <2>1 DEF Own, Inodes
    <3>2. pc'[q] = pc[q] /\ file'[q] = file[q] /\ report'[q] = report[q]
      BY <1>1, <2>1 DEF Collect, Load, Create, Refuse, EnterTry, Slip, Write, Sync, Replace, FinalChmod,
        Return, Raise, Kill, Goto, TypeOK
    <3>3. known \subseteq known'
      BY <1>1 DEF Collect, Load, Create, Refuse, EnterTry, Slip, Write, Sync, Replace, FinalChmod, Raise, Kill
    <3>4. synced' \in {synced, synced \cup {Own(p)}}
      BY <1>1 DEF Collect, Load, Create, Refuse, EnterTry, Slip, Write, Sync, Replace, FinalChmod, Raise, Kill
    <3>5. \A i \in Inodes : i # Own(p) => data'[i] = data[i]
      BY <1>1 DEF Collect, Load, Create, Refuse, EnterTry, Slip, Write, Sync, Replace, FinalChmod, Raise, Kill,
        TypeOK
    <3>. QED  BY <1>0, <3>1, <3>2, <3>3, <3>4, <3>5, Frame
  <2>2. CallOf(p)'
    <3>. USE FilesAssumption, <1>0 DEF CallOf, Goto, TypeOK, Writing, Calling
    <3>1. CASE Collect(p)
      BY <3>1 DEF Collect, Own, FirstFile
    <3>2. CASE Load(p)
      <4>1. name["json"] # NoFile => report[name["json"][1]] \in known
        BY DEF BoundInv, Files
      <4>. QED  BY <3>2, <4>1 DEF Load, Own, FirstFile
    <3>3. CASE Create(p)
      <4>1. UNCHANGED <<synced, file, report, known>> /\ pc[p] = "called" /\ pc'[p] = "made"
        BY <3>3 DEF Create
      <4>. QED  BY <4>1 DEF Own
    <3>4. CASE Refuse(p)
      <4>1. UNCHANGED <<data, synced, file, report, known>> /\ pc'[p] = "raised"
        BY <3>4 DEF Refuse
      <4>. QED  BY <4>1 DEF Own
    <3>5. CASE Write(p)
      <4>1. /\ UNCHANGED <<synced, file, report, known>> /\ pc[p] = "created"
            /\ \/ pc'[p] = "created"
               \/ pc'[p] = "written" /\ data'[Own(p)] = "whole"
        BY <3>5, OwnInode DEF Write
      <4>. QED  BY <4>1 DEF Own
    <3>6. CASE Sync(p)
      BY <3>6 DEF Sync, Own, FirstFile
    <3>7. CASE Replace(p)
      BY <3>7 DEF Replace, Replaceable, Own, FirstFile, Files
    <3>8. CASE FinalChmod(p)
      <4>1. UNCHANGED <<data, synced, report, known>> /\ pc[p] = "replaced"
        BY <3>8 DEF FinalChmod, Return
      <4>2. CASE file[p] = "json"
        <5>1. file'[p] = "html" /\ pc'[p] = "called"
          BY <3>8, <4>2 DEF FinalChmod, Return
        <5>. QED  BY <4>1, <4>2, <5>1 DEF Own
      <4>3. CASE file[p] = "html"
        <5>1. file'[p] = "html" /\ pc'[p] = "ended"
          BY <3>8, <4>3 DEF FinalChmod, Return
        <5>. QED  BY <4>1, <4>3, <5>1 DEF Own
      <4>. QED  BY <4>2, <4>3 DEF Files
    <3>9. CASE Raise(p)
      <4>1. UNCHANGED <<data, synced, file, report, known>> /\ pc'[p] = "raised"
        BY <3>9 DEF Raise
      <4>. QED  BY <4>1 DEF Own
    <3>10. CASE Kill(p)
      <4>1. UNCHANGED <<data, synced, file, report, known>> /\ pc'[p] = "killed"
        BY <3>10 DEF Kill
      <4>. QED  BY <4>1 DEF Own
    <3>11. CASE EnterTry(p)
      <4>1. /\ UNCHANGED <<data, synced, file, report, known>>
            /\ pc[p] = "made" /\ pc'[p] = "created"
        BY <3>11 DEF EnterTry
      <4>. QED  BY <4>1 DEF Own
    <3>12. CASE Slip(p)
      <4>1. UNCHANGED <<data, synced, file, report, known>> /\ pc'[p] = "raised"
        BY <3>12 DEF Slip
      <4>. QED  BY <4>1 DEF Own
    <3>. QED  BY <1>1, <3>1, <3>2, <3>3, <3>4, <3>5, <3>6, <3>7, <3>8, <3>9, <3>10, <3>11, <3>12
  <2>. QED  BY <2>1, <2>2 DEF CallInv
<1>2. CASE PowerLoss
  <2>. SUFFICES ASSUME NEW q \in Processes PROVE CallOf(q)'
    BY DEF CallInv
  <2>1. UNCHANGED <<synced, file, report, known>>
    BY <1>2 DEF PowerLoss
  <2>2. pc'[q] = pc[q] \/ pc'[q] = "killed"
    BY <1>2 DEF PowerLoss
  <2>3. pc'[q] \notin Calling
    BY <1>2 DEF PowerLoss, Writing, Calling
  <2>. QED  BY <1>0, <2>1, <2>2, <2>3 DEF CallOf, Own, FirstFile, Writing, Calling
<1>3. CASE UNCHANGED vars
  BY <1>0, <1>3 DEF vars, CallInv, CallOf, Own, FirstFile
<1>. QED  BY <1>1, <1>2, <1>3 DEF Next

THEOREM Inductive == Spec => []IInv
<1>1. IInv /\ [Next]_vars => IInv'
  BY TypeStep, BoundStep, CallStep DEF IInv
<1>. QED  BY InitInv, <1>1, PTL DEF Spec

--------------------------------------------------------------------------------

\* The state stays well formed, and a call always has a report to write.
THEOREM TypeCorrect == Spec => []TypeOK
<1>1. IInv => TypeOK
  BY DEF IInv
<1>. QED  BY Inductive, <1>1, PTL

\* An HTML file shows a report that readers could find as JSON before, for any
\* number of runs and render commands on one directory.
THEOREM JsonComesFirst == Spec => []HtmlHasItsJson
<1>1. IInv => HtmlHasItsJson
  BY DEF IInv, BoundInv, HtmlHasItsJson, Files
<1>. QED  BY Inductive, <1>1, PTL

\* A write that fails or is interrupted inside its try leaves no temporary file, for
\* any number of runs and render commands. What a kill, a power loss, a failed unlink
\* or Ctrl-C before the try leaves is excepted.
THEOREM CleanUp == Spec => []TemporariesAreRemoved
<1>1. Init => TemporariesAreRemoved
  BY DEF Init, TemporariesAreRemoved
<1>2. IInv /\ TemporariesAreRemoved /\ [Next]_vars => TemporariesAreRemoved'
  <2>. SUFFICES ASSUME IInv, TemporariesAreRemoved, [Next]_vars,
                       NEW i \in temp', i \notin stray'
                PROVE  /\ i[1] \in Processes
                       /\ pc'[i[1]] \in Calling \ {"called", "replaced"} /\ i = Own(i[1])'
    BY DEF TemporariesAreRemoved
  <2>. USE DEF disk, ghosts, Goto, Calling, Writing
  <2>1. file \in [Processes -> Files] /\ pc \in [Processes -> Calling \cup {"idle", "ended", "raised", "killed"}]
    BY DEF IInv, TypeOK
  <2>2. ASSUME NEW p \in Processes, Create(p)
        PROVE  i[1] \in Processes /\ pc'[i[1]] \in Calling \ {"called", "replaced"} /\ i = Own(i[1])'
    <3>1. stray' = stray /\ file' = file /\ temp' = temp \cup {Own(p)} /\ pc' = [pc EXCEPT ![p] = "made"]
      BY <2>2 DEF Create
    <3>2. CASE i = Own(p)
      BY <2>1, <3>1, <3>2 DEF Own
    <3>3. CASE i # Own(p)
      BY <2>1, <3>1, <3>3 DEF TemporariesAreRemoved, Own
    <3>. QED  BY <3>2, <3>3
  <2>3. ASSUME NEW p \in Processes,
               Collect(p) \/ Load(p) \/ Refuse(p) \/ EnterTry(p) \/ Write(p) \/ Sync(p) \/ FinalChmod(p)
        PROVE  i[1] \in Processes /\ pc'[i[1]] \in Calling \ {"called", "replaced"} /\ i = Own(i[1])'
    <3>1. stray' = stray /\ temp' = temp
      BY <2>3 DEF Collect, Load, Refuse, EnterTry, Write, Sync, FinalChmod
    <3>2. /\ i[1] \in Processes /\ i = Own(i[1])
          /\ pc[i[1]] \in Calling \ {"called", "replaced"}
      BY <3>1 DEF TemporariesAreRemoved
    <3>3. CASE i[1] # p
      <4>1. pc'[i[1]] = pc[i[1]] /\ file'[i[1]] = file[i[1]]
        BY <2>1, <2>3, <3>2, <3>3 DEF Collect, Load, Refuse, EnterTry, Write, Sync, FinalChmod, Return
      <4>. QED  BY <3>2, <4>1 DEF Own
    <3>4. CASE i[1] = p
      <4>1. EnterTry(p) \/ Write(p) \/ Sync(p)
        BY <2>3, <3>2, <3>4 DEF Collect, Load, Refuse, FinalChmod, Return
      <4>2. pc'[p] \in Calling \ {"called", "replaced"} /\ file' = file
        BY <2>1, <4>1 DEF EnterTry, Write, Sync
      <4>. QED  BY <3>2, <3>4, <4>2 DEF Own
    <3>. QED  BY <3>3, <3>4
  <2>4. ASSUME NEW p \in Processes, Slip(p) \/ Replace(p) \/ Raise(p) \/ Kill(p)
        PROVE  i[1] \in Processes /\ pc'[i[1]] \in Calling \ {"called", "replaced"} /\ i = Own(i[1])'
    <3>1. /\ i \in temp \ stray /\ i # Own(p) /\ file' = file
          /\ \A q \in Processes \ {p} : pc'[q] = pc[q]
      BY <2>1, <2>4 DEF Slip, Replace, Raise, Unlink, Kill
    <3>2. i[1] # p
      BY <3>1 DEF TemporariesAreRemoved
    <3>. QED  BY <3>1, <3>2 DEF TemporariesAreRemoved, Own
  <2>5. CASE PowerLoss
    BY <2>5 DEF PowerLoss
  <2>6. CASE UNCHANGED vars
    BY <2>6 DEF vars, TemporariesAreRemoved, Own
  <2>. QED  BY <2>2, <2>3, <2>4, <2>5, <2>6 DEF Next
<1>. QED  BY Inductive, <1>1, <1>2, PTL DEF Spec

--------------------------------------------------------------------------------
(* The files implement the store.                                           *)

Of(i) == IF i = NoFile THEN NoReport ELSE report[i[1]]

\* Whatever a power loss may leave, a reader finds a whole report or no file.
Intact ==
  \A f \in Files : \A i \in durable[f] :
    Shown(i) = Of(i) /\ Of(i) \in Reports \cup {NoReport}

LEMMA NeverTorn == IInv => Intact
<1>. SUFFICES ASSUME IInv, NEW f \in Files, NEW i \in durable[f]
              PROVE  Shown(i) = Of(i) /\ Of(i) \in Reports \cup {NoReport}
  BY DEF Intact
<1>1. i # NoFile => data[i] = "whole" /\ report[i[1]] \in known
  BY DEF IInv, BoundInv
<1>2. known \subseteq Reports
  BY DEF IInv, TypeOK
<1>. QED  BY <1>1, <1>2 DEF Shown, Of

\* A step that leaves the bindings alone, and the reports of what is bound.
LEMMA Stutter ==
  ASSUME IInv, Intact, Intact', UNCHANGED <<name, durable>>,
         \A f \in Files : \A i \in durable[f] : Of(i)' = Of(i)
  PROVE  UNCHANGED Store!vars
<1>1. \A f \in Files : \A i \in durable[f] : Shown(i)' = Shown(i)
  BY DEF Intact
<1>2. \A f \in Files : name[f] \in durable[f]
  BY DEF IInv, BoundInv
<1>3. [f \in Files |-> Shown(name[f])]' = [f \in Files |-> Shown(name[f])]
  BY <1>1, <1>2
<1>4. ASSUME NEW f \in Files
      PROVE  {Shown(i) : i \in durable[f]}' = {Shown(i) : i \in durable[f]}
  BY <1>1
<1>5. [f \in Files |-> {Shown(i) : i \in durable[f]}]' = [f \in Files |-> {Shown(i) : i \in durable[f]}]
  BY <1>4
<1>. QED  BY <1>3, <1>5 DEF Store!vars

\* Through failures, kills, power losses and concurrent runs, each file shows a whole
\* report or does not exist, and only a replacement or a power loss changes which.
THEOREM FilesImplementStore == Spec => ImplementsStore
<1>1. Init => Store!Init
  <2>. SUFFICES ASSUME Init PROVE Store!Init
    OBVIOUS
  <2>1. IInv
    BY InitInv
  <2>2. \A f \in Files : durable[f] = {name[f]}
    BY DEF Init
  <2>3. \A f \in Files : Shown(name[f]) \in Reports \cup {NoReport}
    BY <2>1, <2>2, NeverTorn DEF Intact
  <2>4. \A f \in Files : {Shown(i) : i \in durable[f]} = {Shown(name[f])}
    BY <2>2
  <2>. QED  BY <2>3, <2>4 DEF Store!Init
<1>2. IInv /\ Intact /\ Intact' /\ [Next]_vars => [Store!Next]_(Store!vars)
  <2>. SUFFICES ASSUME IInv, Intact, Intact', [Next]_vars PROVE [Store!Next]_(Store!vars)
    OBVIOUS
  <2>. USE DEF disk, ghosts
  <2>1. ASSUME NEW p \in Processes,
               \/ Collect(p) \/ Create(p) \/ Refuse(p) \/ EnterTry(p) \/ Slip(p)
               \/ Write(p) \/ Sync(p) \/ FinalChmod(p) \/ Raise(p) \/ Kill(p)
        PROVE  UNCHANGED Store!vars
    <3>1. UNCHANGED <<name, durable, report>>
      BY <2>1 DEF Collect, Create, Refuse, EnterTry, Slip, Write, Sync, FinalChmod, Raise, Kill
    <3>. QED  BY <3>1, Stutter DEF Of
  <2>2. ASSUME NEW p \in Processes, Load(p) PROVE UNCHANGED Store!vars
    <3>1. /\ UNCHANGED <<name, durable>> /\ pc[p] = "idle"
          /\ \A q \in Processes \cup {Old} : q # p => report'[q] = report[q]
      BY <2>2 DEF Load, IInv, TypeOK
    <3>2. \A f \in Files : \A i \in durable[f] : i # NoFile =>
            i \in Inodes /\ (i[1] \in Processes => pc[i[1]] # "idle")
      BY DEF IInv, BoundInv, TypeOK
    <3>3. \A f \in Files : \A i \in durable[f] : Of(i)' = Of(i)
      BY <3>1, <3>2 DEF Of, Inodes
    <3>. QED  BY <3>1, <3>3, Stutter
  <2>3. ASSUME NEW p \in Processes, Replace(p) PROVE Store!Next
    <3>1. /\ name' = [name EXCEPT ![file[p]] = Own(p)]
          /\ durable' = [durable EXCEPT ![file[p]] = @ \cup {Own(p)}]
          /\ UNCHANGED <<data, report>> /\ data[Own(p)] = "whole"
      BY <2>3 DEF Replace, Replaceable, IInv, CallInv, CallOf
    <3>2. file[p] \in Files /\ report[p] \in Reports
      BY <2>3 DEF Replace, Replaceable, IInv, TypeOK, Writing, Calling
    <3>3. Own(p) # NoFile /\ Own(p)[1] = p
      BY <3>2, FilesAssumption DEF Own, Files
    <3>4. \A i : Shown(i)' = Shown(i)
      BY <3>1 DEF Shown
    <3>5. Shown(Own(p)) = report[p]
      BY <3>1, <3>3 DEF Shown
    <3>6. name \in [Files -> Inodes \cup {NoFile}] /\ durable \in [Files -> SUBSET (Inodes \cup {NoFile})]
      BY DEF IInv, TypeOK
    <3>7. [f \in Files |-> Shown(name[f])]' = [[f \in Files |-> Shown(name[f])] EXCEPT ![file[p]] = report[p]]
      BY <3>1, <3>2, <3>4, <3>5, <3>6
    <3>8. ASSUME NEW f \in Files
          PROVE  {Shown(i) : i \in durable[f]}'
                   = IF f = file[p] THEN {Shown(i) : i \in durable[f]} \cup {report[p]}
                     ELSE {Shown(i) : i \in durable[f]}
      BY <3>1, <3>2, <3>4, <3>5, <3>6
    <3>9. [f \in Files |-> {Shown(i) : i \in durable[f]}]'
            = [[f \in Files |-> {Shown(i) : i \in durable[f]}] EXCEPT ![file[p]] = @ \cup {report[p]}]
      BY <3>2, <3>8
    <3>. QED  BY <3>2, <3>7, <3>9 DEF Store!Next, Store!Publish
  <2>4. ASSUME PowerLoss PROVE Store!Revert
    <3>1. /\ \A f \in Files : name'[f] \in durable[f] /\ durable'[f] = {name'[f]}
          /\ report' = report
      BY <2>4 DEF PowerLoss
    <3>2. \A f \in Files : /\ Shown(name[f])' = Of(name'[f]) /\ Shown(name'[f]) = Of(name'[f])
                           /\ Of(name'[f]) \in Reports \cup {NoReport}
      <4>. SUFFICES ASSUME NEW f \in Files
                    PROVE  /\ Shown(name[f])' = Of(name'[f]) /\ Shown(name'[f]) = Of(name'[f])
                           /\ Of(name'[f]) \in Reports \cup {NoReport}
        OBVIOUS
      <4>1. Shown(name'[f]) = Of(name'[f]) /\ Of(name'[f]) \in Reports \cup {NoReport}
        BY <3>1 DEF Intact
      <4>2. (Shown(name[f]) = Of(name[f]))'
        BY <3>1 DEF Intact
      <4>3. (Of(name[f]))' = Of(name'[f])
        BY <3>1 DEF Of
      <4>. QED  BY <4>1, <4>2, <4>3
    <3>3. \A f \in Files : {Shown(i) : i \in durable[f]}' = {Shown(name[f])'}
      BY <3>1
    <3>. QED  BY <3>1, <3>2, <3>3 DEF Store!Revert
  <2>5. CASE UNCHANGED vars
    BY <2>5, Stutter DEF vars, Of
  <2>. QED  BY <2>1, <2>2, <2>3, <2>4, <2>5 DEF Next, Store!Next
<1>. QED  BY Inductive, NeverTorn, <1>1, <1>2, PTL DEF Spec, ImplementsStore, Store!Spec
================================================================================
