------------------------- MODULE AcquisitionRunProofs -------------------------
(***************************************************************************)
(* What AcquisitionRun guarantees for any number of commands, datasets,    *)
(* preflight attempts and epochs, wherever a parent or a child dies.       *)
(***************************************************************************)
EXTENDS AcquisitionRun, TLAPS

After == {"wait", "hash_adapter", "hash_coverage", "write_run_manifest"}
Opened == {"write_config", "spawn"} \cup After

(* Where a process is tells what it has: a job once it has started, a run  *)
(* once it has opened one, a child once it has spawned one.                *)
ShapeInv ==
  \A p \in Procs :
    /\ pc[p] # "idle" <=> job[p] # None
    /\ child[p] # "none" => pc[p] \in After \cup Ended
    /\ name[p] # None => /\ pc[p] \in Opened \cup Ended
                         /\ job[p].cmd # "preflight"
    /\ pc[p] \in Opened /\ job[p].cmd # "preflight" => name[p] # None
    /\ pc[p] \in {"spawn", "wait"} => job[p].cmd # "dry_run"
    /\ pc[p] \in {"hash_report", "hash_adapter", "hash_coverage"} =>
         job[p].cmd = "execute"
    /\ pc[p] \in {"open", "write_run_manifest"} => job[p].cmd # "preflight"
    /\ child[p] # "none" => job[p].cmd # "dry_run"
    /\ child[p] # "none" /\ job[p].cmd = "execute" => name[p] # None
    /\ child[p] \in {"covered", "training"} => job[p].cmd = "execute"
    /\ child[p] = "reported" => job[p].cmd = "preflight"

(* The name of a run leads back to the dataset it is a run of.             *)
CompileInv ==
  /\ \A d \in Data : manifest[d] # None =>
       job[manifest[d]] # None /\ job[manifest[d]].data = d
  /\ \A p \in Procs :
       pc[p] \in {"compiled", "hash_report", "open"} =>
         manifest[Views(p)] # None
  /\ \A p \in Procs : name[p] # None =>
       job[name[p]] # None /\ job[name[p]].data = Views(p)

(* The child that made the adapter directory is the only one to write the  *)
(* weights: they are its own, of the epochs it has done.                   *)
TrainingInv ==
  \A p \in Procs :
    /\ child[p] \in {"none", "started", "validated", "covered"} => epoch[p] = 0
    /\ job[p] # None /\ job[p].cmd = "execute"
         /\ child[p] \in {"training", "exited"} =>
       /\ adapterDir[name[p]] = p
       /\ epoch[p] > 0 => weights[name[p]] = [by |-> p, epoch |-> epoch[p]]
       /\ child[p] = "exited" => epoch[p] = Epochs

(* w is the last checkpoint of a training of run s that exited.            *)
Result(s, w) ==
  /\ w # None
  /\ w.epoch = Epochs
  /\ job[w.by] # None
  /\ job[w.by].cmd = "execute"
  /\ name[w.by] = s
  /\ child[w.by] = "exited"

(* r is a report written for attempt a.                                    *)
OfAttempt(r, a) ==
  /\ job[r.by] # None
  /\ job[r.by].cmd = "preflight"
  /\ job[r.by].attempt = a

PreInv ==
  /\ \A p \in Procs : job[p] # None /\ job[p].cmd = "preflight" =>
       /\ pc[p] \in {"spawn"} \cup After => preConfig[job[p].attempt] # None
       /\ child[p] = "started" => preConfig[job[p].attempt] # None
       /\ child[p] = "validated" => exercised[p] # None
  /\ \A a \in Attempts : report[a] # None =>
       GotThrough(report[a], report[a].data) /\ OfAttempt(report[a], a)

(* Execution p was let through by a report of its own dataset, and names   *)
(* that one or another report of the same attempt.                         *)
LetThrough(p, d) ==
  /\ GotThrough(found[p].report, d)
  /\ OfAttempt(found[p].report, found[p].attempt)

Names(p, r) ==
  /\ GotThrough(r, r.data)
  /\ OfAttempt(r, found[p].attempt)

(* What a parent has gathered for its run manifest is true of its run.     *)
EvidenceOf(p) ==
  /\ pc[p] = "hash_report" =>
       LetThrough(p, Views(p)) /\ HasReport(found[p].attempt)
  /\ pc[p] \in {"open"} \cup Opened =>
       LetThrough(p, Views(p)) /\ Names(p, evidence[p].preflight)
  /\ pc[p] = "hash_adapter" => child[p] = "exited"
  /\ pc[p] \in {"hash_coverage", "write_run_manifest"} =>
       Result(name[p], evidence[p].adapter) /\ evidence[p].adapter.by = p

EvidenceInv ==
  \A p \in Procs :
    job[p] # None /\ job[p].cmd = "execute" => EvidenceOf(p)

ManifestInv ==
  \A s \in Procs : Trained(s) =>
    LET w == runManifest[s].evidence.adapter
    IN  /\ job[s] # None
        /\ Result(s, w)
        /\ LetThrough(w.by, job[s].data)
        /\ Names(w.by, runManifest[s].evidence.preflight)

IInv == /\ TypeOK /\ ShapeInv /\ CompileInv /\ TrainingInv
        /\ PreInv /\ EvidenceInv /\ ManifestInv
-------------------------------------------------------------------------------

(* A process that has started has one of the three jobs.                   *)
LEMMA JobType ==
  ASSUME TypeOK
  PROVE  \A p \in Procs : job[p] # None =>
           /\ job[p] \in Jobs
           /\ job[p].cmd \in {"dry_run", "execute", "preflight"}
           /\ job[p].data \in Data
           /\ job[p].cmd = "preflight" => job[p].attempt \in Attempts
BY DEF TypeOK, Jobs

LEMMA InitInv == Init => IInv
PROOF
<1> SUFFICES ASSUME Init PROVE IInv
  OBVIOUS
<1> USE AcquisitionConstants DEF Init
<1>1. TypeOK
  BY DEF TypeOK, Found, Evidence, NoEvidence, Active, Ended, Live
<1>2. ShapeInv /\ CompileInv
  BY DEF ShapeInv, CompileInv, After, Opened, Ended
<1>3. TrainingInv /\ PreInv
  BY DEF TrainingInv, PreInv, After
<1>4. EvidenceInv /\ ManifestInv
  BY DEF EvidenceInv, EvidenceOf, ManifestInv, Opened, After, Trained
<1>5. QED
  BY <1>1, <1>2, <1>3, <1>4 DEF IInv

(* A training child that exited has left its last checkpoint.              *)
LEMMA ExitedResult ==
  ASSUME TypeOK, TrainingInv, NEW p \in Procs,
         job[p] # None, job[p].cmd = "execute", child[p] = "exited"
  PROVE  /\ weights[name[p]] = [by |-> p, epoch |-> Epochs]
         /\ weights[name[p]] # None
PROOF
<1>1. epoch[p] = Epochs
  BY DEF TrainingInv
<1>2. epoch[p] > 0
  BY <1>1, AcquisitionConstants
<1>3. weights[name[p]] = [by |-> p, epoch |-> Epochs]
  BY <1>1, <1>2 DEF TrainingInv
<1>4. [by |-> p, epoch |-> Epochs] \in Weights
  BY AcquisitionConstants DEF Weights
<1>5. QED
  BY <1>3, <1>4, AcquisitionConstants

LEMMA WaitEnds ==
  ASSUME TypeOK, NEW p \in Procs, Wait(p)
  PROVE  /\ child[p] = "failed" => pc'[p] = "stopped"
         /\ child[p] = "exited" /\ job[p].cmd = "execute" =>
              pc'[p] = "hash_adapter"
PROOF
<1>1. CASE child[p] = "failed"
  <2>1. pc' = [pc EXCEPT ![p] = "stopped"]
    BY <1>1 DEF Wait
  <2>2. QED
    BY <1>1, <2>1 DEF TypeOK
<1>2. CASE child[p] = "exited" /\ job[p].cmd = "execute"
  <2>1. pc' = [pc EXCEPT ![p] = "hash_adapter"]
    BY <1>2 DEF Wait
  <2>2. QED
    BY <1>2, <2>1 DEF TypeOK
<1>3. QED
  BY <1>1, <1>2


(* What is settled of a process stays: its job, the run it opened, the end of
   its child and what that child loaded. *)
LEMMA Kept ==
  ASSUME IInv, NEW p \in Procs, Step(p)
  PROVE  \A q \in Procs :
            /\ job[q] # None => job'[q] = job[q]
            /\ name[q] # None => name'[q] = name[q] /\ found'[q] = found[q]
            /\ child[q] = "exited" => child'[q] = "exited"
            /\ child[q] \in PastReport => child'[q] \in PastReport
            /\ child[q] \in PastReport => exercised'[q] = exercised[q]
PROOF
<1> USE DEF IInv, TypeOK, ShapeInv, PastReport, Live, After, Opened,
            Ended
<1>1. CASE Start(p)
  BY <1>1
  DEF Start, Goto
<1>2. CASE Compiling(p)
  BY <1>2
  DEF Compiling, Compile, WriteTrain, WriteAudit, WriteManifest, Goto
<1>3. CASE Preflight(p)
  BY <1>3
  DEF Preflight, OpenPreflight, WritePreConfig, PreValidate, PreReport, Goto
<1>4. CASE RequirePreflight(p)
  <2>1. CASE SkipAttempt(p)
    BY <2>1
    DEF SkipAttempt, Goto
  <2>2. CASE CheckReport(p)
    BY <2>2
    DEF CheckReport, HasReport, Matches, Goto
  <2>3. CASE HashReport(p)
    BY <2>3
    DEF HashReport, Goto
  <2>4. QED
    BY <1>4, <2>1, <2>2, <2>3 DEF RequirePreflight
<1>5. CASE SkipPreflight(p)
  BY <1>5
  DEF SkipPreflight, Goto
<1>6. CASE Open(p)
  BY <1>6
  DEF Open, Goto
<1>7. CASE WriteConfig(p)
  BY <1>7
  DEF WriteConfig, Goto
<1>8. CASE Spawn(p)
  BY <1>8
  DEF Spawn, Goto
<1>9. CASE Wait(p)
  BY <1>9
  DEF Wait, Goto
<1>10. CASE HashAdapter(p)
  BY <1>10
  DEF HashAdapter, Goto
<1>11. CASE HashCoverage(p)
  BY <1>11
  DEF HashCoverage, Goto
<1>12. CASE WriteRunManifest(p)
  BY <1>12
  DEF WriteRunManifest, Goto
<1>13. CASE Training(p)
  BY <1>13
  DEF Training, Validate, Cover, MakeAdapterDir, Train, Exit, Goto
<1>14. CASE Stop(p)
  BY <1>14
  DEF Stop, Goto
<1>15. CASE ChildStop(p)
  BY <1>15
  DEF ChildStop, Goto
<1>16. QED
  BY <1>1, <1>2, <1>3, <1>4, <1>5, <1>6, <1>7, <1>8, <1>9, <1>10,
     <1>11, <1>12, <1>13, <1>14, <1>15 DEF Step, Compiling, Preflight, Acquire,
      Training

LEMMA TypeStep ==
  ASSUME IInv, NEW p \in Procs, Step(p)
  PROVE  TypeOK'
PROOF
<1> USE JobType, AcquisitionConstants
        DEF IInv, TypeOK, ShapeInv, CompileInv, PreInv, Active, Ended, Live,
            Opened, After
<1>1. CASE Start(p)
  BY <1>1
  DEF Start, Goto, Views, files, compileFiles, runFiles, preFiles
<1>2. CASE Compile(p)
  BY <1>2
  DEF Compile, Goto, Views, files, compileFiles, runFiles, preFiles
<1>3. CASE WriteTrain(p)
  BY <1>3
  DEF WriteTrain, Goto, Views, files, compileFiles, runFiles, preFiles
<1>4. CASE WriteAudit(p)
  BY <1>4
  DEF WriteAudit, Goto, Views, files, compileFiles, runFiles, preFiles
<1>5. CASE WriteManifest(p)
  BY <1>5
  DEF WriteManifest, Goto, Views, files, compileFiles, runFiles, preFiles
<1>6. CASE OpenPreflight(p)
  BY <1>6
  DEF OpenPreflight, Goto, Views, files, compileFiles, runFiles, preFiles
<1>7. CASE WritePreConfig(p)
  BY <1>7
  DEF WritePreConfig, Goto, Views, files, compileFiles, runFiles, preFiles
<1>8. CASE PreValidate(p)
  BY <1>8
  DEF PreValidate, Goto, Views, files, compileFiles, runFiles, preFiles
<1>9. CASE PreReport(p)
  BY <1>9
  DEF PreReport, Goto, Reports, Views, files, compileFiles, runFiles, preFiles
<1>10. CASE RequirePreflight(p)
  <2> DEFINE a == found[p].attempt
  <2>1. /\ found[p] \in Found
        /\ a \in 0 .. Newest /\ found[p].report \in Reports \cup {None}
        /\ evidence[p] \in Evidence
    BY DEF Found
  <2>2. CASE SkipAttempt(p)
    <3>1. a - 1 \in 0 .. Newest
      BY <2>1, <2>2 DEF SkipAttempt
    <3>2. [found[p] EXCEPT !.attempt = a - 1] \in Found
      BY <2>1, <3>1 DEF Found
    <3>3. QED
      BY <2>2, <3>2 DEF SkipAttempt, files, compileFiles, runFiles, preFiles
  <2>3. CASE CheckReport(p)
    <3>1. HasReport(a) => [found[p] EXCEPT !.report = report[a]] \in Found
      BY <2>1 DEF Found, HasReport
    <3>2. /\ UNCHANGED <<job, name, evidence, child, exercised, epoch, files>>
          /\ \/ /\ HasReport(a)
                /\ found' = [found EXCEPT ![p].report = report[a]]
                /\ pc' = [pc EXCEPT ![p] = "hash_report"]
             \/ pc' = [pc EXCEPT ![p] = "refused"] /\ found' = found
      BY <2>3 DEF CheckReport
    <3>3. found' \in [Procs -> Found]
      BY <3>1, <3>2
    <3>4. pc' \in [Procs -> {"idle"} \cup Active \cup Ended]
      BY <3>2
    <3>5. QED
      BY <3>2, <3>3, <3>4 DEF files, compileFiles, runFiles, preFiles
  <2>4. CASE HashReport(p)
    <3>1. HasReport(a)
      BY <2>4 DEF HashReport, Goto, EvidenceInv, EvidenceOf
    <3>2. [evidence[p] EXCEPT !.preflight = report[a]] \in Evidence
      BY <2>1, <3>1 DEF Evidence, HasReport
    <3>3. QED
      BY <2>4, <3>2
      DEF HashReport, Goto, files, compileFiles, runFiles, preFiles
  <2>5. QED
    BY <1>10, <2>2, <2>3, <2>4 DEF RequirePreflight
<1>11. CASE SkipPreflight(p)
  BY <1>11
  DEF SkipPreflight, Goto, Views, files, compileFiles, runFiles, preFiles
<1>12. CASE Open(p)
  BY <1>12
  DEF Open, Goto, Views, files, compileFiles, runFiles, preFiles
<1>13. CASE WriteConfig(p)
  BY <1>13
  DEF WriteConfig, Goto, Views, files, compileFiles, runFiles, preFiles
<1>14. CASE Spawn(p)
  BY <1>14
  DEF Spawn, Goto, Views, files, compileFiles, runFiles, preFiles
<1>15. CASE Wait(p)
  BY <1>15
  DEF Wait, Goto, Views, files, compileFiles, runFiles, preFiles
<1>16. CASE HashAdapter(p)
  <2>1. [evidence[p] EXCEPT !.adapter = weights[name[p]]] \in Evidence
    <3>1. evidence[p] \in Evidence /\ name[p] \in Procs
      BY <1>16 DEF HashAdapter, Goto
    <3>2. QED
      BY <3>1 DEF Evidence
  <2>2. evidence' \in [Procs -> Evidence]
    BY <1>16, <2>1 DEF HashAdapter
  <2>3. QED
    BY <1>16, <2>2
    DEF HashAdapter, Goto, files, compileFiles, runFiles, preFiles
<1>17. CASE HashCoverage(p)
  <2>1. [evidence[p] EXCEPT !.coverage = coverage[name[p]]] \in Evidence
    <3>1. evidence[p] \in Evidence /\ name[p] \in Procs
      BY <1>17 DEF HashCoverage, Goto
    <3>2. QED
      BY <3>1 DEF Evidence
  <2>2. evidence' \in [Procs -> Evidence]
    BY <1>17, <2>1 DEF HashCoverage
  <2>3. QED
    BY <1>17, <2>2
    DEF HashCoverage, Goto, files, compileFiles, runFiles, preFiles
<1>18. CASE WriteRunManifest(p)
  BY <1>18
  DEF WriteRunManifest, Goto, Manifests, Views, files, compileFiles, runFiles,
      preFiles
<1>19. CASE Validate(p)
  BY <1>19
  DEF Validate, Goto, Views, files, compileFiles, runFiles, preFiles
<1>20. CASE Cover(p)
  BY <1>20
  DEF Cover, Goto, Views, files, compileFiles, runFiles, preFiles
<1>21. CASE MakeAdapterDir(p)
  <2>1. /\ \/ /\ adapterDir' = [adapterDir EXCEPT ![name[p]] = p]
              /\ child' = [child EXCEPT ![p] = "training"]
           \/ /\ adapterDir' = adapterDir
              /\ child' = [child EXCEPT ![p] = "failed"]
        /\ UNCHANGED <<pc, job, name, found, evidence, exercised, epoch>>
        /\ UNCHANGED <<compileFiles, preFiles>>
        /\ UNCHANGED <<config, weights, coverage, log, runManifest>>
    BY <1>21 DEF MakeAdapterDir
  <2>2. adapterDir' \in [Procs -> Procs \cup {None}]
    BY <2>1
  <2>3. child' \in [Procs -> {"none", "exited", "failed"} \cup Live]
    BY <2>1
  <2>4. QED
    BY <2>1, <2>2, <2>3 DEF compileFiles, preFiles
<1>22. CASE Train(p)
  BY <1>22
  DEF Train, Goto, Weights, Views, files, compileFiles, runFiles, preFiles
<1>23. CASE Exit(p)
  BY <1>23
  DEF Exit, Goto, Views, files, compileFiles, runFiles, preFiles
<1>24. CASE Stop(p)
  BY <1>24
  DEF Stop, Goto, Views, files, compileFiles, runFiles, preFiles
<1>25. CASE ChildStop(p)
  BY <1>25
  DEF ChildStop, Goto, Views, files, compileFiles, runFiles, preFiles
<1>26. QED
  BY <1>1, <1>2, <1>3, <1>4, <1>5, <1>6, <1>7, <1>8, <1>9, <1>10,
     <1>11, <1>12, <1>13, <1>14, <1>15, <1>16, <1>17, <1>18, <1>19, <1>20,
     <1>21, <1>22, <1>23, <1>24, <1>25 DEF Step, Compiling, Preflight, Acquire,
      Training

LEMMA ShapeStep ==
  ASSUME IInv, NEW p \in Procs, Step(p)
  PROVE  ShapeInv'
PROOF
<1> USE JobType, AcquisitionConstants
        DEF IInv, TypeOK, ShapeInv, CompileInv, After, Opened, Ended, Live,
            Active
<1>1. CASE Start(p)
  BY <1>1
  DEF Start, Goto, Views, files, compileFiles, runFiles, preFiles
<1>2. CASE Compile(p)
  BY <1>2
  DEF Compile, Goto, Views, files, compileFiles, runFiles, preFiles
<1>3. CASE WriteTrain(p)
  BY <1>3
  DEF WriteTrain, Goto, Views, files, compileFiles, runFiles, preFiles
<1>4. CASE WriteAudit(p)
  BY <1>4
  DEF WriteAudit, Goto, Views, files, compileFiles, runFiles, preFiles
<1>5. CASE WriteManifest(p)
  BY <1>5
  DEF WriteManifest, Goto, Views, files, compileFiles, runFiles, preFiles
<1>6. CASE OpenPreflight(p)
  BY <1>6
  DEF OpenPreflight, Goto, Views, files, compileFiles, runFiles, preFiles
<1>7. CASE WritePreConfig(p)
  BY <1>7
  DEF WritePreConfig, Goto, Views, files, compileFiles, runFiles, preFiles
<1>8. CASE PreValidate(p)
  BY <1>8
  DEF PreValidate, Goto, Views, files, compileFiles, runFiles, preFiles
<1>9. CASE PreReport(p)
  BY <1>9
  DEF PreReport, Goto, Views, files, compileFiles, runFiles, preFiles
<1>10. CASE RequirePreflight(p)
  <2>1. CASE SkipAttempt(p)
    BY <2>1
    DEF SkipAttempt, Goto, Views, files, compileFiles, runFiles, preFiles
  <2>2. CASE CheckReport(p)
    BY <2>2
    DEF CheckReport, HasReport, Matches, Goto, Views, files, compileFiles,
        runFiles, preFiles
  <2>3. CASE HashReport(p)
    BY <2>3
    DEF HashReport, Goto, Views, files, compileFiles, runFiles, preFiles
  <2>4. QED
    BY <1>10, <2>1, <2>2, <2>3 DEF RequirePreflight
<1>11. CASE SkipPreflight(p)
  BY <1>11
  DEF SkipPreflight, Goto, Views, files, compileFiles, runFiles, preFiles
<1>12. CASE Open(p)
  BY <1>12
  DEF Open, Goto, Views, files, compileFiles, runFiles, preFiles
<1>13. CASE WriteConfig(p)
  BY <1>13
  DEF WriteConfig, Goto, Views, files, compileFiles, runFiles, preFiles
<1>14. CASE Spawn(p)
  BY <1>14
  DEF Spawn, Goto, Views, files, compileFiles, runFiles, preFiles
<1>15. CASE Wait(p)
  BY <1>15
  DEF Wait, Goto, Views, files, compileFiles, runFiles, preFiles
<1>16. CASE HashAdapter(p)
  BY <1>16
  DEF HashAdapter, Goto, Views, files, compileFiles, runFiles, preFiles
<1>17. CASE HashCoverage(p)
  BY <1>17
  DEF HashCoverage, Goto, Views, files, compileFiles, runFiles, preFiles
<1>18. CASE WriteRunManifest(p)
  BY <1>18
  DEF WriteRunManifest, Goto, Views, files, compileFiles, runFiles, preFiles
<1>19. CASE Validate(p)
  BY <1>19
  DEF Validate, Goto, Views, files, compileFiles, runFiles, preFiles
<1>20. CASE Cover(p)
  BY <1>20
  DEF Cover, Goto, Views, files, compileFiles, runFiles, preFiles
<1>21. CASE MakeAdapterDir(p)
  BY <1>21
  DEF MakeAdapterDir, Goto, Views, files, compileFiles, runFiles, preFiles
<1>22. CASE Train(p)
  BY <1>22
  DEF Train, Goto, Views, files, compileFiles, runFiles, preFiles
<1>23. CASE Exit(p)
  BY <1>23
  DEF Exit, Goto, Views, files, compileFiles, runFiles, preFiles
<1>24. CASE Stop(p)
  BY <1>24
  DEF Stop, Goto, Views, files, compileFiles, runFiles, preFiles
<1>25. CASE ChildStop(p)
  BY <1>25
  DEF ChildStop, Goto, Views, files, compileFiles, runFiles, preFiles
<1>26. QED
  BY <1>1, <1>2, <1>3, <1>4, <1>5, <1>6, <1>7, <1>8, <1>9, <1>10,
     <1>11, <1>12, <1>13, <1>14, <1>15, <1>16, <1>17, <1>18, <1>19, <1>20,
     <1>21, <1>22, <1>23, <1>24, <1>25 DEF Step, Compiling, Preflight, Acquire,
      Training

LEMMA CompileStep ==
  ASSUME IInv, NEW p \in Procs, Step(p)
  PROVE  CompileInv'
PROOF
<1> USE JobType, AcquisitionConstants
        DEF IInv, TypeOK, ShapeInv, CompileInv, Compiled
<1>1. CASE Start(p)
  BY <1>1
  DEF Start, Goto, Views, After, Opened, Ended, files, compileFiles, runFiles,
      preFiles
<1>2. CASE Compile(p)
  BY <1>2
  DEF Compile, Goto, Views, After, Opened, Ended, files, compileFiles,
      runFiles, preFiles
<1>3. CASE WriteTrain(p)
  BY <1>3
  DEF WriteTrain, Goto, Views, After, Opened, Ended, files, compileFiles,
      runFiles, preFiles
<1>4. CASE WriteAudit(p)
  BY <1>4
  DEF WriteAudit, Goto, Views, After, Opened, Ended, files, compileFiles,
      runFiles, preFiles
<1>5. CASE WriteManifest(p)
  BY <1>5
  DEF WriteManifest, Goto, Views, After, Opened, Ended, files, compileFiles,
      runFiles, preFiles
<1>6. CASE Preflight(p)
  BY <1>6
  DEF Preflight, OpenPreflight, WritePreConfig, PreValidate, PreReport, Goto,
      Views, After, Opened, Ended, files, compileFiles, runFiles, preFiles
<1>7. CASE RequirePreflight(p)
  <2>1. CASE SkipAttempt(p)
    BY <2>1
    DEF SkipAttempt, Goto, Views, After, Opened, Ended, files, compileFiles,
        runFiles, preFiles
  <2>2. CASE CheckReport(p)
    BY <2>2
    DEF CheckReport, HasReport, Matches, Goto, Views, After, Opened, Ended,
        files, compileFiles, runFiles, preFiles
  <2>3. CASE HashReport(p)
    BY <2>3
    DEF HashReport, Goto, Views, After, Opened, Ended, files, compileFiles,
        runFiles, preFiles
  <2>4. QED
    BY <1>7, <2>1, <2>2, <2>3 DEF RequirePreflight
<1>8. CASE SkipPreflight(p)
  BY <1>8
  DEF SkipPreflight, Goto, Views, After, Opened, Ended, files, compileFiles,
      runFiles, preFiles
<1>9. CASE Open(p)
  BY <1>9
  DEF Open, Goto, Views, After, Opened, Ended, files, compileFiles, runFiles,
      preFiles
<1>10. CASE WriteConfig(p)
  BY <1>10
  DEF WriteConfig, Goto, Views, After, Opened, Ended, files, compileFiles,
      runFiles, preFiles
<1>11. CASE Spawn(p)
  BY <1>11
  DEF Spawn, Goto, Views, After, Opened, Ended, files, compileFiles, runFiles,
      preFiles
<1>12. CASE Wait(p)
  BY <1>12
  DEF Wait, Goto, Views, After, Opened, Ended, files, compileFiles, runFiles,
      preFiles
<1>13. CASE HashAdapter(p)
  BY <1>13
  DEF HashAdapter, Goto, Views, After, Opened, Ended, files, compileFiles,
      runFiles, preFiles
<1>14. CASE HashCoverage(p)
  BY <1>14
  DEF HashCoverage, Goto, Views, After, Opened, Ended, files, compileFiles,
      runFiles, preFiles
<1>15. CASE WriteRunManifest(p)
  BY <1>15
  DEF WriteRunManifest, Goto, Views, After, Opened, Ended, files,
      compileFiles, runFiles, preFiles
<1>16. CASE Training(p)
  BY <1>16
  DEF Training, Validate, Cover, MakeAdapterDir, Train, Exit, Goto, Views,
      After, Opened, Ended, files, compileFiles, runFiles, preFiles
<1>17. CASE Stop(p)
  BY <1>17
  DEF Stop, Goto, Views, After, Opened, Ended, files, compileFiles, runFiles,
      preFiles
<1>18. CASE ChildStop(p)
  BY <1>18
  DEF ChildStop, Goto, Views, After, Opened, Ended, files, compileFiles,
      runFiles, preFiles
<1>19. QED
  BY <1>1, <1>2, <1>3, <1>4, <1>5, <1>6, <1>7, <1>8, <1>9, <1>10,
     <1>11, <1>12, <1>13, <1>14, <1>15, <1>16, <1>17, <1>18
  DEF Step, Compiling, Preflight, Acquire,
      Training

LEMMA TrainingStep ==
  ASSUME IInv, NEW p \in Procs, Step(p)
  PROVE  TrainingInv'
PROOF
<1> USE JobType, AcquisitionConstants
        DEF IInv, TypeOK, ShapeInv, TrainingInv, After, Opened, Ended
<1>1. CASE Start(p)
  BY <1>1
  DEF Start, Goto, Live, files, compileFiles, runFiles, preFiles
<1>2. CASE Compile(p)
  BY <1>2
  DEF Compile, Goto, Live, files, compileFiles, runFiles, preFiles
<1>3. CASE WriteTrain(p)
  BY <1>3
  DEF WriteTrain, Goto, Live, files, compileFiles, runFiles, preFiles
<1>4. CASE WriteAudit(p)
  BY <1>4
  DEF WriteAudit, Goto, Live, files, compileFiles, runFiles, preFiles
<1>5. CASE WriteManifest(p)
  BY <1>5
  DEF WriteManifest, Goto, Live, files, compileFiles, runFiles, preFiles
<1>6. CASE OpenPreflight(p)
  BY <1>6
  DEF OpenPreflight, Goto, Live, files, compileFiles, runFiles, preFiles
<1>7. CASE WritePreConfig(p)
  BY <1>7
  DEF WritePreConfig, Goto, Live, files, compileFiles, runFiles, preFiles
<1>8. CASE PreValidate(p)
  BY <1>8
  DEF PreValidate, Goto, Live, files, compileFiles, runFiles, preFiles
<1>9. CASE PreReport(p)
  BY <1>9
  DEF PreReport, Goto, Live, files, compileFiles, runFiles, preFiles
<1>10. CASE RequirePreflight(p)
  <2>1. CASE SkipAttempt(p)
    BY <2>1
    DEF SkipAttempt, Goto, Live, files, compileFiles, runFiles, preFiles
  <2>2. CASE CheckReport(p)
    BY <2>2
    DEF CheckReport, HasReport, Matches, Goto, Live, files, compileFiles,
        runFiles, preFiles
  <2>3. CASE HashReport(p)
    BY <2>3
    DEF HashReport, Goto, Live, files, compileFiles, runFiles, preFiles
  <2>4. QED
    BY <1>10, <2>1, <2>2, <2>3 DEF RequirePreflight
<1>11. CASE SkipPreflight(p)
  BY <1>11
  DEF SkipPreflight, Goto, Live, files, compileFiles, runFiles, preFiles
<1>12. CASE Open(p)
  BY <1>12
  DEF Open, Goto, Live, files, compileFiles, runFiles, preFiles
<1>13. CASE WriteConfig(p)
  BY <1>13
  DEF WriteConfig, Goto, Live, files, compileFiles, runFiles, preFiles
<1>14. CASE Spawn(p)
  BY <1>14
  DEF Spawn, Goto, Live, files, compileFiles, runFiles, preFiles
<1>15. CASE Wait(p)
  BY <1>15
  DEF Wait, Goto, Live, files, compileFiles, runFiles, preFiles
<1>16. CASE HashAdapter(p)
  BY <1>16
  DEF HashAdapter, Goto, Live, files, compileFiles, runFiles, preFiles
<1>17. CASE HashCoverage(p)
  BY <1>17
  DEF HashCoverage, Goto, Live, files, compileFiles, runFiles, preFiles
<1>18. CASE WriteRunManifest(p)
  BY <1>18
  DEF WriteRunManifest, Goto, Live, files, compileFiles, runFiles, preFiles
<1>19. CASE Validate(p)
  BY <1>19
  DEF Validate, Goto, Live, files, compileFiles, runFiles, preFiles
<1>20. CASE Cover(p)
  BY <1>20
  DEF Cover, Goto, Live, files, compileFiles, runFiles, preFiles
<1>21. CASE MakeAdapterDir(p)
  BY <1>21
  DEF MakeAdapterDir, Goto, Live, files, compileFiles, runFiles, preFiles
<1>22. CASE Train(p)
  <2>1. /\ child[p] = "training" /\ epoch[p] < Epochs
        /\ epoch' = [epoch EXCEPT ![p] = epoch[p] + 1]
        /\ weights' = [weights EXCEPT ![name[p]] =
                         [by |-> p, epoch |-> epoch[p] + 1]]
        /\ UNCHANGED <<job, name, child, adapterDir>>
    BY <1>22 DEF Train
  <2>2. /\ job[p] # None /\ job[p].cmd = "execute"
        /\ name[p] \in Procs /\ adapterDir[name[p]] = p
    <3>1. pc[p] \in After \cup Ended /\ job[p].cmd = "execute"
      BY <2>1
    <3>2. pc[p] # "idle"
      BY <3>1
    <3>3. job[p] # None
      BY <3>2
    <3>4. name[p] \in Procs
      BY <2>1, <3>1
    <3>5. QED
      BY <2>1, <3>1, <3>3, <3>4
  <2>3. ASSUME NEW q \in Procs, job[q] # None, job[q].cmd = "execute",
               child[q] \in {"training", "exited"}
        PROVE  /\ epoch'[q] > 0 =>
                    weights'[name[q]] = [by |-> q, epoch |-> epoch'[q]]
               /\ child[q] = "exited" => epoch'[q] = Epochs
    <3>1. CASE q = p
      BY <2>1, <2>2, <3>1
    <3>2. CASE q # p
      BY <2>1, <2>2, <2>3, <3>2
    <3>3. QED
      BY <3>1, <3>2
  <2>4. \A q \in Procs :
          child[q] \in {"none", "started", "validated", "covered"} =>
            epoch'[q] = 0
    <3>1. \A q \in Procs \ {p} : epoch'[q] = epoch[q]
      BY <2>1
    <3>2. QED
      BY <2>1, <3>1
  <2>5. \A q \in Procs : job[q] # None /\ job[q].cmd = "execute"
                            /\ child[q] \in {"training", "exited"} =>
          adapterDir[name[q]] = q
    OBVIOUS
  <2>6. QED
    BY <2>1, <2>3, <2>4, <2>5 DEF TrainingInv
<1>23. CASE Exit(p)
  BY <1>23
  DEF Exit, Goto, Live, files, compileFiles, runFiles, preFiles
<1>24. CASE Stop(p)
  BY <1>24
  DEF Stop, Goto, Live, files, compileFiles, runFiles, preFiles
<1>25. CASE ChildStop(p)
  BY <1>25
  DEF ChildStop, Goto, Live, files, compileFiles, runFiles, preFiles
<1>26. QED
  BY <1>1, <1>2, <1>3, <1>4, <1>5, <1>6, <1>7, <1>8, <1>9, <1>10,
     <1>11, <1>12, <1>13, <1>14, <1>15, <1>16, <1>17, <1>18, <1>19, <1>20,
     <1>21, <1>22, <1>23, <1>24, <1>25 DEF Step, Compiling, Preflight, Acquire,
      Training

LEMMA PreStep ==
  ASSUME IInv, NEW p \in Procs, Step(p)
  PROVE  PreInv'
PROOF
<1> USE JobType, Kept
        DEF GotThrough, OfAttempt, Reports, IInv, TypeOK, ShapeInv, PreInv,
            PastReport,
            After, Opened, Ended
<1>1. CASE Start(p)
  BY <1>1
  DEF Start, Goto, Views, Live, files, compileFiles, runFiles, preFiles
<1>2. CASE Compile(p)
  BY <1>2
  DEF Compile, Goto, Views, Live, files, compileFiles, runFiles, preFiles
<1>3. CASE WriteTrain(p)
  BY <1>3
  DEF WriteTrain, Goto, Views, Live, files, compileFiles, runFiles, preFiles
<1>4. CASE WriteAudit(p)
  BY <1>4
  DEF WriteAudit, Goto, Views, Live, files, compileFiles, runFiles, preFiles
<1>5. CASE WriteManifest(p)
  BY <1>5
  DEF WriteManifest, Goto, Views, Live, files, compileFiles, runFiles,
      preFiles
<1>6. CASE OpenPreflight(p)
  BY <1>6
  DEF OpenPreflight, Goto, Views, Live, files, compileFiles, runFiles,
      preFiles
<1>7. CASE WritePreConfig(p)
  <2>1. /\ Views(p) # None
        /\ pc[p] = "write_config" /\ job[p].cmd = "preflight"
        /\ pc' = [pc EXCEPT ![p] = "spawn"]
        /\ preConfig' = [preConfig EXCEPT ![job[p].attempt] = Views(p)]
        /\ UNCHANGED <<job, child, exercised, report>>
    BY <1>7, AcquisitionConstants DEF WritePreConfig, Goto, Views
  <2>2. /\ job[p].attempt \in Attempts
        /\ preConfig'[job[p].attempt] # None
        /\ \A a \in Attempts : preConfig[a] # None => preConfig'[a] # None
    BY <2>1
  <2>3. \A q \in Procs \ {p} : pc'[q] = pc[q]
    BY <2>1
  <2>4. QED
    BY <2>1, <2>2, <2>3
<1>8. CASE PreValidate(p)
  BY <1>8
  DEF PreValidate, Goto, Views, Live, files, compileFiles, runFiles, preFiles
<1>9. CASE PreReport(p)
  <2> DEFINE a == job[p].attempt
             r == [by |-> p, data |-> exercised[p]]
  <2>1. /\ child[p] = "validated" /\ job[p] # None /\ job[p].cmd = "preflight"
        /\ report' = [report EXCEPT ![a] = r]
        /\ child' = [child EXCEPT ![p] = "reported"]
        /\ UNCHANGED <<pc, job, exercised, preConfig>>
    BY <1>9 DEF PreReport
  <2>2. a \in Attempts
    BY <2>1
  <2>3. ASSUME NEW b \in Attempts, report'[b] # None
        PROVE  /\ GotThrough(report[b], report[b].data)'
               /\ OfAttempt(report[b], b)'
    <3>1. CASE b = a
      <4>1. report'[b] = r /\ r.by = p /\ r.data = exercised[p]
        BY <2>1, <2>2, <3>1
      <4>2. child'[p] \in PastReport /\ exercised'[p] = exercised[p]
        BY <2>1
      <4>3. GotThrough(report[b], report[b].data)'
        BY <2>3, <4>1, <4>2
      <4>4. OfAttempt(report[b], b)'
        BY <2>1, <3>1, <4>1
      <4>5. QED
        BY <4>3, <4>4
    <3>2. CASE b # a
      BY <2>1, <2>2, <2>3, <3>2
    <3>3. QED
      BY <3>1, <3>2
  <2>4. \A q \in Procs : child'[q] \in {"started", "validated"} =>
                           child'[q] = child[q]
    BY <2>1
  <2>5. QED
    BY <2>1, <2>3, <2>4
<1>10. CASE RequirePreflight(p)
  <2>1. CASE SkipAttempt(p)
    BY <2>1
    DEF SkipAttempt, Goto, Views, Live, files, compileFiles, runFiles,
        preFiles
  <2>2. CASE CheckReport(p)
    BY <2>2
    DEF CheckReport, HasReport, Matches, Goto, Views, Live, files,
        compileFiles, runFiles, preFiles
  <2>3. CASE HashReport(p)
    BY <2>3
    DEF HashReport, Goto, Views, Live, files, compileFiles, runFiles,
        preFiles
  <2>4. QED
    BY <1>10, <2>1, <2>2, <2>3 DEF RequirePreflight
<1>11. CASE SkipPreflight(p)
  BY <1>11
  DEF SkipPreflight, Goto, Views, Live, files, compileFiles, runFiles,
      preFiles
<1>12. CASE Open(p)
  BY <1>12
  DEF Open, Goto, Views, Live, files, compileFiles, runFiles, preFiles
<1>13. CASE WriteConfig(p)
  BY <1>13
  DEF WriteConfig, Goto, Views, Live, files, compileFiles, runFiles, preFiles
<1>14. CASE Spawn(p)
  BY <1>14
  DEF Spawn, Goto, Views, Live, files, compileFiles, runFiles, preFiles
<1>15. CASE Wait(p)
  BY <1>15
  DEF Wait, Goto, Views, Live, files, compileFiles, runFiles, preFiles
<1>16. CASE HashAdapter(p)
  BY <1>16
  DEF HashAdapter, Goto, Views, Live, files, compileFiles, runFiles, preFiles
<1>17. CASE HashCoverage(p)
  BY <1>17
  DEF HashCoverage, Goto, Views, Live, files, compileFiles, runFiles, preFiles
<1>18. CASE WriteRunManifest(p)
  BY <1>18
  DEF WriteRunManifest, Goto, Views, Live, files, compileFiles, runFiles,
      preFiles
<1>19. CASE Validate(p)
  BY <1>19
  DEF Validate, Goto, Views, Live, files, compileFiles, runFiles, preFiles
<1>20. CASE Cover(p)
  BY <1>20
  DEF Cover, Goto, Views, Live, files, compileFiles, runFiles, preFiles
<1>21. CASE MakeAdapterDir(p)
  BY <1>21
  DEF MakeAdapterDir, Goto, Views, Live, files, compileFiles, runFiles,
      preFiles
<1>22. CASE Train(p)
  BY <1>22
  DEF Train, Goto, Views, Live, files, compileFiles, runFiles, preFiles
<1>23. CASE Exit(p)
  BY <1>23
  DEF Exit, Goto, Views, Live, files, compileFiles, runFiles, preFiles
<1>24. CASE Stop(p)
  BY <1>24
  DEF Stop, Goto, Views, Live, files, compileFiles, runFiles, preFiles
<1>25. CASE ChildStop(p)
  BY <1>25
  DEF ChildStop, Goto, Views, Live, files, compileFiles, runFiles, preFiles
<1>26. QED
  BY <1>1, <1>2, <1>3, <1>4, <1>5, <1>6, <1>7, <1>8, <1>9, <1>10,
     <1>11, <1>12, <1>13, <1>14, <1>15, <1>16, <1>17, <1>18, <1>19, <1>20,
     <1>21, <1>22, <1>23, <1>24, <1>25 DEF Step, Compiling, Preflight, Acquire,
      Training

(* A step of one command leaves where the others are and what they have    *)
(* gathered.                                                               *)
LEMMA Others ==
  ASSUME IInv, NEW p \in Procs, Step(p)
  PROVE  \A q \in Procs \ {p} :
           /\ pc'[q] = pc[q] /\ job'[q] = job[q] /\ name'[q] = name[q]
           /\ found'[q] = found[q] /\ evidence'[q] = evidence[q]
           /\ child'[q] = child[q]
PROOF
<1> USE DEF IInv, TypeOK, Goto
<1>1. CASE Start(p)
  BY <1>1 DEF Start
<1>2. CASE Compiling(p)
  BY <1>2 DEF Compiling, Compile, WriteTrain, WriteAudit, WriteManifest
<1>3. CASE Preflight(p)
  BY <1>3 DEF Preflight, OpenPreflight, WritePreConfig, PreValidate, PreReport
<1>4. CASE RequirePreflight(p)
  BY <1>4 DEF RequirePreflight, SkipAttempt, CheckReport, HashReport
<1>5. CASE SkipPreflight(p) \/ Open(p) \/ WriteConfig(p) \/ Spawn(p)
  BY <1>5 DEF SkipPreflight, Open, WriteConfig, Spawn
<1>6. CASE Wait(p)
  BY <1>6 DEF Wait
<1>7. CASE HashAdapter(p) \/ HashCoverage(p) \/ WriteRunManifest(p)
  BY <1>7 DEF HashAdapter, HashCoverage, WriteRunManifest
<1>8. CASE Training(p)
  BY <1>8 DEF Training, Validate, Cover, MakeAdapterDir, Train, Exit
<1>9. CASE Stop(p) \/ ChildStop(p)
  BY <1>9 DEF Stop, ChildStop
<1>10. QED
  BY <1>1, <1>2, <1>3, <1>4, <1>5, <1>6, <1>7, <1>8, <1>9
  DEF Step, Acquire

(* A report that is there is replaced, never taken away.                   *)
LEMMA ReportsStay ==
  ASSUME IInv, NEW p \in Procs, Step(p)
  PROVE  \A a : HasReport(a) => HasReport(a)'
PROOF
<1> USE DEF HasReport, IInv, TypeOK, files, preFiles
<1>1. CASE PreReport(p)
  <2>1. [by |-> p, data |-> exercised[p]] # None
    <3>1. exercised[p] # None
      BY <1>1 DEF PreReport, PreInv, ShapeInv, After, Ended
    <3>2. [by |-> p, data |-> exercised[p]] \in Reports
      BY <3>1 DEF Reports
    <3>3. QED
      BY <3>2, AcquisitionConstants
  <2>2. QED
    BY <1>1, <2>1 DEF PreReport
<1>2. CASE report' = report
  BY <1>2
<1>3. PreReport(p) \/ report' = report
  BY DEF Step, Start, Compiling, Compile, WriteTrain, WriteAudit,
         WriteManifest, Preflight, OpenPreflight, WritePreConfig, PreValidate,
         Acquire, RequirePreflight, SkipAttempt, CheckReport, HashReport,
         SkipPreflight, Open, WriteConfig, Spawn, Wait, HashAdapter,
         HashCoverage, WriteRunManifest, Training, Validate, Cover,
         MakeAdapterDir, Train, Exit, Stop, ChildStop
<1>4. QED
  BY <1>1, <1>2, <1>3

(* What a command has gathered stays true while it gathers nothing more.   *)
LEMMA StillTrue ==
  ASSUME IInv, NEW p \in Procs, Step(p), NEW q \in Procs,
         job[q] # None, job'[q] = job[q], found'[q] = found[q]
  PROVE  /\ LetThrough(q, Views(q)) => LetThrough(q, Views(q))'
         /\ evidence'[q].preflight = evidence[q].preflight =>
              (Names(q, evidence[q].preflight) =>
                 Names(q, evidence[q].preflight)')
         /\ HasReport(found[q].attempt) => HasReport(found[q].attempt)'
         /\ evidence'[q] = evidence[q] /\ name'[q] = name[q] =>
              (Result(name[q], evidence[q].adapter) =>
                 Result(name[q], evidence[q].adapter)')
PROOF
<1>1. /\ found[q].report \in Reports \cup {None}
      /\ evidence[q].preflight \in Reports \cup {None}
      /\ evidence[q].adapter \in Weights \cup {None}
  BY DEF IInv, TypeOK, Found, Evidence
<1>2. LetThrough(q, Views(q)) => LetThrough(q, Views(q))'
  <2> SUFFICES ASSUME LetThrough(q, Views(q))
               PROVE  LetThrough(q, Views(q))'
    OBVIOUS
  <2>1. found[q].report.by \in Procs
    BY <1>1 DEF LetThrough, GotThrough, Reports
  <2> DEFINE r == found[q].report
  <2>2. /\ exercised'[r.by] = exercised[r.by] /\ child'[r.by] \in PastReport
        /\ job'[r.by] = job[r.by]
    BY <2>1, Kept DEF LetThrough, GotThrough, OfAttempt
  <2>3. QED
    BY <2>2 DEF LetThrough, GotThrough, OfAttempt, Views
<1>3. ASSUME evidence'[q].preflight = evidence[q].preflight,
             Names(q, evidence[q].preflight)
      PROVE  Names(q, evidence[q].preflight)'
  <2>1. evidence[q].preflight.by \in Procs
    BY <1>1, <1>3 DEF Names, GotThrough, Reports
  <2> DEFINE r == evidence[q].preflight
  <2>2. /\ exercised'[r.by] = exercised[r.by] /\ child'[r.by] \in PastReport
        /\ job'[r.by] = job[r.by]
    BY <1>3, <2>1, Kept DEF Names, GotThrough, OfAttempt
  <2>3. QED
    BY <1>3, <2>2 DEF Names, GotThrough, OfAttempt
<1>4. HasReport(found[q].attempt) => HasReport(found[q].attempt)'
  BY ReportsStay DEF HasReport
<1>5. ASSUME evidence'[q] = evidence[q], name'[q] = name[q],
             Result(name[q], evidence[q].adapter)
      PROVE  Result(name[q], evidence[q].adapter)'
  <2>1. evidence[q].adapter.by \in Procs
    BY <1>1, <1>5 DEF Result, Weights
  <2>2. name[evidence[q].adapter.by] = name[q] /\ name[q] \in Procs \cup {None}
    BY <1>5 DEF Result, IInv, TypeOK
  <2>3. name'[evidence[q].adapter.by] = name'[q]
    <3>1. CASE evidence[q].adapter.by = q
      BY <3>1
    <3>2. CASE evidence[q].adapter.by # q /\ name[q] # None
      BY <1>5, <2>1, <2>2, <3>2, Kept
    <3>3. name[q] # None
      BY <1>5, <2>1, <2>2 DEF Result, IInv, ShapeInv
    <3>4. QED
      BY <3>1, <3>2, <3>3
  <2>4. QED
    BY <1>5, <2>1, <2>3, Kept DEF Result
<1>6. QED
  BY <1>2, <1>3, <1>4, <1>5

LEMMA EvidenceStep ==
  ASSUME IInv, NEW p \in Procs, Step(p)
  PROVE  EvidenceInv'
PROOF
<1> SUFFICES ASSUME NEW q \in Procs, job'[q] # None, job'[q].cmd = "execute"
             PROVE  EvidenceOf(q)'
  BY DEF EvidenceInv
<1> DEFINE Settled == {"hash_report", "open"} \cup Opened
           Same == /\ job[q] # None /\ job'[q] = job[q]
                   /\ found'[q] = found[q] /\ evidence'[q] = evidence[q]
<1>1. IInv /\ TypeOK /\ ShapeInv /\ EvidenceInv
  BY DEF IInv
\* A command that is elsewhere has gathered nothing yet, or has ended.
<1>2. ASSUME pc'[q] \notin Settled
      PROVE  EvidenceOf(q)'
  BY <1>2 DEF EvidenceOf, Opened, After
<1>3. ASSUME Same PROVE EvidenceOf(q)
  BY <1>1, <1>3 DEF EvidenceInv
\* A command that stays where it is.
<1>4. ASSUME Same, pc'[q] = pc[q], name'[q] = name[q]
      PROVE  EvidenceOf(q)'
  <2>1. child[q] = "exited" => child'[q] = "exited"
    BY Kept
  <2>2. QED
    BY <1>3, <1>4, <2>1, StillTrue DEF EvidenceOf
\* A command that goes on with what it has.
<1>5. ASSUME Same, pc[q] \in {"open"} \cup Opened,
             pc'[q] \in {"open", "write_config", "spawn", "wait"}
      PROVE  EvidenceOf(q)'
  BY <1>3, <1>5, StillTrue DEF EvidenceOf
<1>6. CASE q # p
  <2>1. /\ pc'[q] = pc[q] /\ job'[q] = job[q] /\ name'[q] = name[q]
        /\ found'[q] = found[q] /\ evidence'[q] = evidence[q]
    BY <1>6, Others
  <2>2. QED
    BY <1>4, <2>1
<1> USE <1>1 DEF TypeOK, Goto, Opened, After
<1>7. CASE q = p /\ (Start(p) \/ Compiling(p) \/ SkipPreflight(p))
  BY <1>2, <1>7
  DEF Start, Compiling, Compile, WriteTrain, WriteAudit, WriteManifest,
      SkipPreflight
<1>8. CASE q = p /\ Preflight(p)
  BY <1>8
  DEF Preflight, OpenPreflight, WritePreConfig, PreValidate, PreReport
<1>9. CASE q = p /\ SkipAttempt(p)
  BY <1>2, <1>9 DEF SkipAttempt
<1>10. CASE q = p /\ CheckReport(p)
  <2> DEFINE a == found[p].attempt
  <2>1. CASE pc' = [pc EXCEPT ![p] = "refused"]
    BY <1>2, <1>10, <2>1
  <2>2. CASE /\ HasReport(a) /\ Matches(p, report[a])
             /\ found' = [found EXCEPT ![p].report = report[a]]
             /\ pc' = [pc EXCEPT ![p] = "hash_report"]
    <3>1. /\ found'[p].report = report[a] /\ found'[p].attempt = a
          /\ pc'[p] = "hash_report"
      BY <2>2 DEF Found
    <3>2. UNCHANGED <<job, exercised, child, report>>
      BY <1>10 DEF CheckReport, files, preFiles
    <3>3. GotThrough(report[a], Views(p)) /\ OfAttempt(report[a], a)
      BY <2>2 DEF IInv, PreInv, HasReport, Matches
    <3>4. LetThrough(p, Views(p))'
      BY <3>1, <3>2, <3>3 DEF LetThrough, GotThrough, OfAttempt, Views
    <3>5. HasReport(found[p].attempt)'
      BY <2>2, <3>1, <3>2 DEF HasReport
    <3>6. QED
      BY <1>10, <3>1, <3>4, <3>5 DEF EvidenceOf
  <2>3. QED
    BY <1>10, <2>1, <2>2 DEF CheckReport
<1>11. CASE q = p /\ HashReport(p)
  <2> DEFINE r == report[found[p].attempt]
  <2>1. /\ pc[p] = "hash_report" /\ pc'[p] = "open"
        /\ evidence'[p].preflight = r
        /\ UNCHANGED <<job, name, found, child, exercised, report>>
    BY <1>11 DEF HashReport, files, preFiles, Evidence
  <2>2. LetThrough(p, Views(p)) /\ HasReport(found[p].attempt)
    BY <1>11, <2>1 DEF EvidenceInv, EvidenceOf
  <2>3. GotThrough(r, r.data) /\ OfAttempt(r, found[p].attempt)
    BY <2>2 DEF IInv, PreInv, HasReport
  <2>4. Names(p, evidence[p].preflight)'
    BY <2>1, <2>3 DEF Names, GotThrough, OfAttempt
  <2>5. LetThrough(p, Views(p))'
    BY <2>1, <2>2 DEF LetThrough, GotThrough, OfAttempt, Views
  <2>6. QED
    BY <1>11, <2>1, <2>4, <2>5 DEF EvidenceOf
<1>12. CASE q = p /\ (Open(p) \/ Spawn(p))
  BY <1>2, <1>5, <1>12 DEF Open, Spawn, ShapeInv
<1>13. CASE q = p /\ WriteConfig(p)
  BY <1>5, <1>13 DEF WriteConfig, ShapeInv
<1>14. CASE q = p /\ Wait(p)
  <2>1. /\ Same /\ pc[p] = "wait" /\ child'[p] = child[p]
        /\ child[p] \in {"exited", "failed"}
    BY <1>14 DEF Wait, ShapeInv
  <2>2. CASE child[p] = "failed"
    BY <1>2, <1>14, <2>2, WaitEnds
  <2>3. CASE child[p] = "exited"
    <3>1. pc'[p] = "hash_adapter"
      BY <1>14, <2>1, <2>3, WaitEnds
    <3>2. QED
      BY <1>3, <1>14, <2>1, <2>3, <3>1, StillTrue DEF EvidenceOf
  <2>4. QED
    BY <2>1, <2>2, <2>3
<1>15. CASE q = p /\ HashAdapter(p)
  <2>1. /\ pc[p] = "hash_adapter" /\ pc'[p] = "hash_coverage"
        /\ evidence'[p].adapter = weights[name[p]]
        /\ evidence'[p].preflight = evidence[p].preflight
        /\ UNCHANGED <<job, name, found, child>>
    BY <1>15 DEF HashAdapter, Evidence
  <2>2. EvidenceOf(p) /\ job[p] # None /\ job[p].cmd = "execute"
    BY <1>15, <2>1 DEF EvidenceInv
  <2>3. child[p] = "exited"
    BY <2>1, <2>2 DEF EvidenceOf
  <2>4. /\ weights[name[p]] = [by |-> p, epoch |-> Epochs]
        /\ weights[name[p]] # None
    BY <2>2, <2>3, ExitedResult DEF IInv
  <2>5. Result(name[p], evidence[p].adapter)' /\ evidence'[p].adapter.by = p
    BY <2>1, <2>2, <2>3, <2>4 DEF Result
  <2>6. LetThrough(p, Views(p))' /\ Names(p, evidence[p].preflight)'
    BY <2>1, <2>2, StillTrue DEF EvidenceOf
  <2>7. QED
    BY <1>15, <2>1, <2>5, <2>6 DEF EvidenceOf
<1>16. CASE q = p /\ HashCoverage(p)
  <2>1. /\ pc[p] = "hash_coverage" /\ pc'[p] = "write_run_manifest"
        /\ evidence'[p].adapter = evidence[p].adapter
        /\ evidence'[p].preflight = evidence[p].preflight
        /\ UNCHANGED <<job, name, found, child>>
    BY <1>16 DEF HashCoverage, Evidence
  <2>2. EvidenceOf(p) /\ job[p] # None
    BY <1>16, <2>1 DEF EvidenceInv
  <2>3. Result(name[p], evidence[p].adapter)' /\ evidence'[p].adapter.by = p
    BY <2>1, <2>2 DEF Result, EvidenceOf
  <2>4. LetThrough(p, Views(p))' /\ Names(p, evidence[p].preflight)'
    BY <2>1, <2>2, StillTrue DEF EvidenceOf
  <2>5. QED
    BY <1>16, <2>1, <2>3, <2>4 DEF EvidenceOf
<1>17. CASE q = p /\ (WriteRunManifest(p) \/ Stop(p))
  BY <1>2, <1>17 DEF WriteRunManifest, Stop
<1>18. CASE q = p /\ (Training(p) \/ ChildStop(p))
  BY <1>4, <1>18
  DEF ShapeInv, Training, Validate, Cover, MakeAdapterDir, Train, Exit,
      ChildStop, Live
<1>19. QED
  BY <1>6, <1>7, <1>8, <1>9, <1>10, <1>11, <1>12, <1>13, <1>14, <1>15, <1>16,
     <1>17, <1>18
  DEF Step, Acquire, RequirePreflight

(* Only WriteRunManifest changes a manifest, and it writes what its writer *)
(* has gathered.                                                           *)
LEMMA ManifestStep ==
  ASSUME IInv, NEW p \in Procs, Step(p)
  PROVE  ManifestInv'
PROOF
<1> DEFINE Good(s) ==
             LET w == runManifest[s].evidence.adapter
             IN  /\ job[s] # None
                 /\ Result(s, w)
                 /\ LetThrough(w.by, job[s].data)
                 /\ Names(w.by, runManifest[s].evidence.preflight)
<1>1. ASSUME NEW s \in Procs, Trained(s), runManifest'[s] = runManifest[s]
      PROVE  Good(s)'
  <2> DEFINE e == runManifest[s].evidence
  <2>1. Good(s)
    BY <1>1 DEF IInv, ManifestInv
  <2>2. e \in Evidence
    BY <1>1 DEF IInv, TypeOK, Trained, Manifests
  <2>3. e.adapter \in Weights /\ e.adapter.by \in Procs
    BY <2>1, <2>2 DEF Evidence, Result, Weights
  <2>4. e.preflight \in Reports /\ e.preflight.by \in Procs
    BY <2>1, <2>2 DEF Evidence, Names, GotThrough, Reports
  <2>5. found[e.adapter.by].report.by \in Procs
    BY <2>1, <2>3
    DEF LetThrough, GotThrough, IInv, TypeOK, Found, Reports
  <2>6. /\ name[e.adapter.by] = s /\ s # None
        /\ job'[s] = job[s]
        /\ name'[e.adapter.by] = s
        /\ found'[e.adapter.by] = found[e.adapter.by]
    BY <1>1, <2>1, <2>3, Kept, AcquisitionConstants DEF Result
  <2>7. Result(s, e.adapter)'
    BY <1>1, <2>1, <2>3, <2>6, Kept DEF Result
  <2>8. LetThrough(e.adapter.by, job[s].data)'
    <3> DEFINE r == found[e.adapter.by].report
    <3>1. /\ GotThrough(r, job[s].data)
          /\ OfAttempt(r, found[e.adapter.by].attempt)
      BY <2>1 DEF LetThrough
    <3>2. /\ exercised'[r.by] = exercised[r.by] /\ child'[r.by] \in PastReport
          /\ job'[r.by] = job[r.by]
      BY <2>5, <3>1, Kept DEF GotThrough, OfAttempt
    <3>3. e' = e /\ r' = r
      BY <1>1, <2>6
    <3>4. /\ GotThrough(r, job[s].data)'
          /\ OfAttempt(r, found[e.adapter.by].attempt)'
      BY <2>6, <3>1, <3>2, <3>3 DEF GotThrough, OfAttempt
    <3>5. QED
      BY <3>4 DEF LetThrough
  <2>9. Names(e.adapter.by, e.preflight)'
    <3> DEFINE r == e.preflight
    <3>1. GotThrough(r, r.data) /\ OfAttempt(r, found[e.adapter.by].attempt)
      BY <2>1 DEF Names
    <3>2. /\ exercised'[r.by] = exercised[r.by] /\ child'[r.by] \in PastReport
          /\ job'[r.by] = job[r.by]
      BY <2>4, <3>1, Kept DEF GotThrough, OfAttempt
    <3>3. e' = e /\ r' = r
      BY <1>1
    <3>4. GotThrough(r, r.data)' /\ OfAttempt(r, found[e.adapter.by].attempt)'
      BY <2>6, <3>1, <3>2, <3>3 DEF GotThrough, OfAttempt
    <3>5. QED
      BY <3>4 DEF Names
  <2>10. QED
    BY <1>1, <2>1, <2>6, <2>7, <2>8, <2>9
<1>2. CASE WriteRunManifest(p)
  <2>1. /\ pc[p] = "write_run_manifest"
        /\ runManifest' = [runManifest EXCEPT ![name[p]] =
             [status |-> IF job[p].cmd = "execute" THEN "trained"
                                                   ELSE "dry_run",
              evidence |-> evidence[p]]]
        /\ UNCHANGED <<job, name, found, child, exercised>>
    BY <1>2 DEF WriteRunManifest, Goto
  <2>2. name[p] \in Procs
    BY <2>1 DEF IInv, TypeOK, ShapeInv, Opened, After
  <2>3. ASSUME NEW s \in Procs, Trained(s)', s # name[p]
        PROVE  Good(s)'
    <3>1. runManifest'[s] = runManifest[s]
      BY <2>1, <2>2, <2>3 DEF IInv, TypeOK
    <3>2. QED
      BY <1>1, <2>3, <3>1 DEF Trained
  <2>4. ASSUME NEW s \in Procs, Trained(s)', s = name[p]
        PROVE  Good(s)'
    <3>1. /\ runManifest'[s].evidence = evidence[p]
          /\ runManifest'[s].status =
               IF job[p].cmd = "execute" THEN "trained" ELSE "dry_run"
      BY <2>1, <2>2, <2>4 DEF IInv, TypeOK
    <3>2. job[p].cmd = "execute"
      BY <2>1, <2>4, <3>1 DEF Trained
    <3>3. job[p] # None /\ EvidenceOf(p)
      BY <2>1, <3>2 DEF IInv, ShapeInv, EvidenceInv
    <3>4. /\ LetThrough(p, Views(p)) /\ Names(p, evidence[p].preflight)
          /\ Result(s, evidence[p].adapter)
          /\ evidence[p].adapter.by = p
      BY <2>1, <2>4, <3>3 DEF EvidenceOf, Opened, After
    <3>5. job[s] # None /\ job[s].data = Views(p)
      BY <2>2, <2>4, AcquisitionConstants DEF IInv, CompileInv
    <3>6. QED
      BY <2>1, <3>1, <3>4, <3>5
      DEF LetThrough, Names, GotThrough, OfAttempt, Result
  <2>5. QED
    BY <2>3, <2>4 DEF ManifestInv
<1>3. CASE runManifest' = runManifest
  BY <1>1, <1>3 DEF ManifestInv, Trained
<1>4. WriteRunManifest(p) \/ runManifest' = runManifest
  BY DEF Step, Start, Compiling, Compile, WriteTrain, WriteAudit,
         WriteManifest, Preflight, OpenPreflight, WritePreConfig, PreValidate,
         PreReport, Acquire, RequirePreflight, SkipAttempt, CheckReport,
         HashReport, SkipPreflight, Open, WriteConfig, Spawn, Wait,
         HashAdapter, HashCoverage, Training, Validate, Cover,
         MakeAdapterDir, Train, Exit, Stop, ChildStop, files, runFiles
<1>5. QED
  BY <1>2, <1>3, <1>4

LEMMA InvStep == IInv /\ [Next]_vars => IInv'
PROOF
<1> SUFFICES ASSUME IInv, [Next]_vars PROVE IInv'
  OBVIOUS
<1>1. CASE Next
  <2>1. PICK p \in Procs : Step(p)
    BY <1>1 DEF Next
  <2>2. QED
    BY <2>1, TypeStep, ShapeStep, CompileStep, TrainingStep, PreStep,
       EvidenceStep, ManifestStep DEF IInv
<1>2. CASE UNCHANGED vars
  <2> USE <1>2 DEF vars, files, compileFiles, runFiles, preFiles, IInv
  <2>1. TypeOK' /\ ShapeInv'
    BY DEF TypeOK, ShapeInv
  <2>2. CompileInv' /\ TrainingInv'
    BY DEF CompileInv, TrainingInv, Views
  <2>3. PreInv'
    BY DEF PreInv, GotThrough, OfAttempt
  <2>4. EvidenceInv'
    BY DEF EvidenceInv, EvidenceOf, LetThrough, Names, GotThrough, OfAttempt,
           HasReport, Result, Views
  <2>5. ManifestInv'
    BY DEF ManifestInv, LetThrough, Names, GotThrough, OfAttempt, Result,
           Trained
  <2>6. QED
    BY <2>1, <2>2, <2>3, <2>4, <2>5
<1>3. QED
  BY <1>1, <1>2

LEMMA InvHolds == Spec => []IInv
BY InitInv, InvStep, PTL DEF Spec
-------------------------------------------------------------------------------
(* Every variable keeps its type.                                          *)
THEOREM TypeCorrect == Spec => []TypeOK
PROOF
<1>1. IInv => TypeOK
  BY DEF IInv
<1>2. QED
  BY <1>1, InvHolds, PTL

(* What load_verified_acquisition_adapter accepts is the last checkpoint   *)
(* of one training that exited, however many commands raced for its run.   *)
THEOREM VerifiedMeansTrainedHolds == Spec => []VerifiedMeansTrained
PROOF
<1>1. IInv => VerifiedMeansTrained
  <2> SUFFICES ASSUME IInv, NEW s \in Procs, Verified(s)
               PROVE  \E p \in Procs :
                        /\ job[p].cmd = "execute"
                        /\ name[p] = s
                        /\ child[p] = "exited"
                        /\ weights[s] = [by |-> p, epoch |-> Epochs]
    BY DEF VerifiedMeansTrained
  <2>1. Result(s, weights[s])
    BY DEF IInv, ManifestInv, Verified
  <2>2. weights[s] \in Weights
    BY <2>1 DEF IInv, TypeOK, Result
  <2>3. weights[s].by \in Procs
        /\ weights[s] = [by |-> weights[s].by, epoch |-> Epochs]
    BY <2>1, <2>2 DEF Weights, Result
  <2>4. QED
    BY <2>1, <2>3 DEF Result
<1>2. QED
  BY <1>1, InvHolds, PTL

(* A run that says trained was let through by a preflight that got through *)
(* on the run's dataset, and names that one or another of the same         *)
(* attempt, whichever attempts and datasets there are.                     *)
THEOREM PreflightBeforeTrainingHolds == Spec => []PreflightBeforeTraining
PROOF
<1>1. ASSUME IInv, NEW s \in Procs, Trained(s)
      PROVE  LET read  == found[runManifest[s].evidence.adapter.by].report
                 named == runManifest[s].evidence.preflight
             IN  /\ GotThrough(read, job[s].data)
                 /\ named # None /\ GotThrough(named, named.data)
                 /\ \/ named = read
                    \/ /\ named.by # read.by
                       /\ job[named.by].attempt = job[read.by].attempt
  <2> DEFINE e     == runManifest[s].evidence
             read  == found[e.adapter.by].report
             named == e.preflight
  <2>1. /\ Result(s, e.adapter)
        /\ LetThrough(e.adapter.by, job[s].data)
        /\ Names(e.adapter.by, named)
    BY <1>1 DEF IInv, ManifestInv
  <2>2. e \in Evidence
    BY <1>1 DEF IInv, TypeOK, Trained, Manifests
  <2>3. e.adapter.by \in Procs
    BY <2>1, <2>2 DEF Evidence, Result, Weights
  <2>4. read \in Reports /\ named \in Reports
    BY <1>1, <2>1, <2>2, <2>3
    DEF IInv, TypeOK, Found, Evidence, LetThrough, Names, GotThrough
  <2>5. named.by = read.by => named = read
    <3>1. /\ read = [by |-> read.by, data |-> exercised[read.by]]
          /\ named = [by |-> named.by, data |-> exercised[named.by]]
      BY <2>1, <2>4 DEF LetThrough, Names, GotThrough, Reports
    <3>2. QED
      BY <3>1
  <2>6. job[named.by].attempt = job[read.by].attempt
    BY <2>1 DEF LetThrough, Names, OfAttempt
  <2>7. QED
    BY <2>1, <2>5, <2>6 DEF LetThrough, Names, GotThrough
<1>2. IInv => PreflightBeforeTraining
  BY <1>1 DEF PreflightBeforeTraining
<1>3. QED
  BY <1>2, InvHolds, PTL

(* No later command reopens a verified run that is at rest: opening it is  *)
(* the only way to a process that holds it, and Open finds its manifest.   *)
LEMMA NotReopened ==
  ASSUME IInv, NEW p \in Procs, Step(p), NEW s \in Procs, Verified(s),
         \A q \in Procs : ~Holds(q, s)
  PROVE  \A q \in Procs : ~Holds(q, s)'
PROOF
<1> USE DEF Active, Live, Goto
<1>1. TypeOK /\ ShapeInv
  BY DEF IInv
<1>2. ASSUME NEW q \in Procs \ {p} PROVE ~Holds(q, s)'
  BY Others DEF Holds
<1>3. pc[p] \in {"idle"} \cup Active \/ child[p] \in Live
  BY DEF Step, Start, Compiling, Compile, WriteTrain, WriteAudit,
         WriteManifest, Preflight, OpenPreflight, WritePreConfig, PreValidate,
         PreReport, Acquire, RequirePreflight, SkipAttempt, CheckReport,
         HashReport, SkipPreflight, Open, WriteConfig, Spawn, Wait,
         HashAdapter, HashCoverage, WriteRunManifest, Training, Validate,
         Cover, MakeAdapterDir, Train, Exit, Stop, ChildStop
<1>4. name[p] # s
  <2> SUFFICES ASSUME name[p] = s PROVE FALSE
    OBVIOUS
  <2>1. pc[p] \notin Active /\ child[p] \notin Live
    BY DEF Holds
  <2>2. s # None
    BY AcquisitionConstants
  <2>3. pc[p] # "idle"
    BY <1>1, <2>2 DEF ShapeInv, Opened, After, Ended
  <2>4. QED
    BY <1>3, <2>1, <2>3
<1>5. CASE Open(p)
  <2>1. Collides(s)
    BY <1>1 DEF Verified, Trained, Collides
  <2>2. name'[p] = s => pc'[p] = "collision"
    BY <1>1, <1>5, <2>1 DEF Open, TypeOK
  <2>3. child'[p] = child[p] /\ child[p] \notin Live
    BY <1>1, <1>5 DEF Open, TypeOK, ShapeInv, After, Ended
  <2>4. ~Holds(p, s)'
    BY <2>2, <2>3 DEF Holds
  <2>5. QED
    BY <1>2, <2>4
<1>6. CASE name' = name
  BY <1>2, <1>4, <1>6 DEF Holds
<1>7. Open(p) \/ name' = name
  BY DEF Step, Start, Compiling, Compile, WriteTrain, WriteAudit,
         WriteManifest, Preflight, OpenPreflight, WritePreConfig, PreValidate,
         PreReport, Acquire, RequirePreflight, SkipAttempt, CheckReport,
         HashReport, SkipPreflight, WriteConfig, Spawn, Wait, HashAdapter,
         HashCoverage, WriteRunManifest, Training, Validate, Cover,
         MakeAdapterDir, Train, Exit, Stop, ChildStop
<1>8. QED
  BY <1>5, <1>6, <1>7

(* Its files are only written by processes that hold it.                   *)
LEMMA NotRewritten ==
  ASSUME IInv, NEW p \in Procs, Step(p), NEW s \in Procs,
         \A q \in Procs : ~Holds(q, s)
  PROVE  /\ weights'[s] = weights[s]
         /\ coverage'[s] = coverage[s]
         /\ runManifest'[s] = runManifest[s]
PROOF
<1> USE DEF IInv, TypeOK, Holds, Active, Live
<1>1. CASE Start(p)
  BY <1>1
  DEF Start, Goto, files, compileFiles, runFiles, preFiles
<1>2. CASE Compiling(p)
  BY <1>2
  DEF Compiling, Compile, WriteTrain, WriteAudit, WriteManifest, Goto, files,
      compileFiles, runFiles, preFiles
<1>3. CASE Preflight(p)
  BY <1>3
  DEF Preflight, OpenPreflight, WritePreConfig, PreValidate, PreReport, Goto,
      files, compileFiles, runFiles, preFiles
<1>4. CASE Acquire(p)
  BY <1>4
  DEF Acquire, RequirePreflight, SkipAttempt, CheckReport, HashReport,
      SkipPreflight, Open, WriteConfig, Spawn,
      Wait, HashAdapter, HashCoverage, WriteRunManifest, Goto, files,
      compileFiles, runFiles, preFiles
<1>5. CASE Training(p)
  BY <1>5
  DEF Training, Validate, Cover, MakeAdapterDir, Train, Exit, Goto, files,
      compileFiles, runFiles, preFiles
<1>6. CASE Stop(p)
  BY <1>6
  DEF Stop, Goto, files, compileFiles, runFiles, preFiles
<1>7. CASE ChildStop(p)
  BY <1>7
  DEF ChildStop, Goto, files, compileFiles, runFiles, preFiles
<1>8. QED
  BY <1>1, <1>2, <1>3, <1>4, <1>5, <1>6, <1>7
  DEF Step, Compiling, Preflight, Acquire,
      Training

(* A verified run at rest stays as it is, whatever is started later.       *)
THEOREM RestIsFinalHolds == Spec => RestIsFinal
PROOF
<1>1. ASSUME IInv, [Next]_vars, NEW s \in Procs, AtRest(s)
      PROVE  AtRest(s)' /\ weights'[s] = weights[s]
  <2>1. CASE Next
    <3>1. PICK p \in Procs : Step(p)
      BY <2>1 DEF Next
    <3>2. Verified(s) /\ \A q \in Procs : ~Holds(q, s)
      BY <1>1 DEF AtRest
    <3>3. \A q \in Procs : ~Holds(q, s)'
      BY <1>1, <3>1, <3>2, NotReopened
    <3>4. /\ weights'[s] = weights[s]
          /\ coverage'[s] = coverage[s]
          /\ runManifest'[s] = runManifest[s]
      BY <1>1, <3>1, <3>2, NotRewritten
    <3>5. Verified(s)'
      BY <3>2, <3>4 DEF Verified, Trained
    <3>6. QED
      BY <3>3, <3>4, <3>5 DEF AtRest
  <2>2. CASE UNCHANGED vars
    BY <1>1, <2>2 DEF vars, files, runFiles, AtRest, Verified, Trained, Holds
  <2>3. QED
    BY <1>1, <2>1, <2>2
<1>2. IInv /\ [Next]_vars =>
        [\A s \in Procs :
           AtRest(s) => AtRest(s)' /\ weights'[s] = weights[s]]_vars
  BY <1>1
<1>3. QED
  BY <1>2, InvHolds, PTL DEF Spec, RestIsFinal
===============================================================================
