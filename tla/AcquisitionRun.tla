---------------------------- MODULE AcquisitionRun ----------------------------
(***************************************************************************)
(* The model-upgrade acquisition path: acquisition_compiler compiles the   *)
(* dataset, acquisition_runtime exercises it in a disposable preflight and *)
(* trains on it, acquisition_training writes the run manifest and          *)
(* load_verified_acquisition_adapter later decides whether a run counts.   *)
(*                                                                         *)
(* Every command is a process of its own and any number of them share the  *)
(* artifacts directory without a lock: `acquire' without and with          *)
(* --execute, and `model-upgrade preflight'.  The last two spawn a child.  *)
(* A parent or a child may raise or be killed at any step; an exception    *)
(* changes no file, so both are the same step here.  Files are replaced    *)
(* atomically.  A child whose parent was killed goes on until it prints.   *)
(*                                                                         *)
(* One model and the frozen configuration are fixed, so a dataset is known *)
(* by the study views it was compiled from, and a run by the hash of its   *)
(* dataset manifest: the manifest holds created_at, so that hash is the    *)
(* process that wrote it.  A digest is what it is taken of; of the audit   *)
(* and the log, which no command reads back, there is only whether they    *)
(* exist.                                                                  *)
(***************************************************************************)
EXTENDS Naturals

CONSTANTS Procs,     \* commands started, each a process
          Data,      \* study views a command may be pointed to
          Attempts,  \* values of --attempt
          Newest,    \* _require_model_upgrade_preflight looks at 1..Newest
          Epochs,    \* checkpoints of a training, the last one its result
          None

Jobs == [cmd : {"dry_run", "execute"}, data : Data, attempt : {0}]
          \cup [cmd : {"preflight"}, data : Data, attempt : Attempts]
Weights == [by : Procs, epoch : 1 .. Epochs]
Reports == [by : Procs, data : Data]

ASSUME AcquisitionConstants ==
  /\ Attempts \subseteq Nat \ {0}
  /\ Newest \in Nat
  /\ Epochs \in Nat \ {0}
  /\ None \notin Procs \cup Data \cup Jobs \cup Weights \cup Reports

Found == [attempt : 0 .. Newest, report : Reports \cup {None}]
Evidence == [preflight : Reports \cup {None},
             adapter   : Weights \cup {None},
             coverage  : Procs \cup {None}]
NoEvidence == [preflight |-> None, adapter |-> None, coverage |-> None]
Manifests == [status : {"dry_run", "trained"}, evidence : Evidence]

VARIABLES
  \* the processes
  pc, job,
  name,         \* the run a process opened: the dataset manifest it read
  found,        \* the attempt an execution looks at, the report it checked
  evidence,     \* what the parent has read for its run manifest
  child,        \* its child
  exercised,    \* the dataset a preflight child loaded
  epoch,        \* epochs a training child has done
  \* the compilation of each dataset
  trainFile, audit, manifest,
  \* the files of each run
  config,       \* its model path: "id", or the "snapshot" of an execution
  adapterDir,   \* the child that created it
  weights, coverage, log, runManifest,
  \* the files of each preflight attempt
  preConfig, report

compileFiles == <<trainFile, audit, manifest>>
runFiles == <<config, adapterDir, weights, coverage, log, runManifest>>
preFiles == <<preConfig, report>>
files == <<compileFiles, runFiles, preFiles>>
vars == <<pc, job, name, found, evidence, child, exercised, epoch, files>>

Active == {"compile", "write_train", "write_audit", "write_manifest",
           "compiled", "hash_report", "open", "write_config", "spawn", "wait",
           "hash_adapter", "hash_coverage", "write_run_manifest"}
Ended == {"done", "refused", "collision", "stopped"}
Live == {"started", "validated", "covered", "training", "reported"}

Init ==
  /\ pc = [p \in Procs |-> "idle"]
  /\ job = [p \in Procs |-> None]
  /\ name = [p \in Procs |-> None]
  /\ found = [p \in Procs |-> [attempt |-> Newest, report |-> None]]
  /\ evidence = [p \in Procs |-> NoEvidence]
  /\ child = [p \in Procs |-> "none"]
  /\ exercised = [p \in Procs |-> None]
  /\ epoch = [p \in Procs |-> 0]
  /\ trainFile = [d \in Data |-> FALSE]
  /\ audit = [d \in Data |-> FALSE]
  /\ manifest = [d \in Data |-> None]
  /\ config = [s \in Procs |-> None]
  /\ adapterDir = [s \in Procs |-> None]
  /\ weights = [s \in Procs |-> None]
  /\ coverage = [s \in Procs |-> None]
  /\ log = [s \in Procs |-> FALSE]
  /\ runManifest = [s \in Procs |-> None]
  /\ preConfig = [a \in Attempts |-> None]
  /\ report = [a \in Attempts |-> None]

Goto(p, here, there) == pc[p] = here /\ pc' = [pc EXCEPT ![p] = there]
Views(p) == job[p].data

Start(p) ==
  /\ Goto(p, "idle", "compile")
  /\ \E j \in Jobs : job' = [job EXCEPT ![p] = j]
  /\ UNCHANGED <<name, found, evidence, child, exercised, epoch, files>>

(***************************************************************************)
(* compile_acquisition_dataset.                                            *)
(***************************************************************************)
Compiled(d) == <<trainFile[d], audit[d], manifest[d] # None>>

\* The contract, the leakage scans and the schedule pass or raise, which is
\* Stop.  An existing compilation is taken only as a whole.
Compile(p) ==
  /\ pc[p] = "compile"
  /\ pc' = [pc EXCEPT ![p] =
       CASE Compiled(Views(p)) = <<FALSE, FALSE, FALSE>> -> "write_train"
         [] Compiled(Views(p)) = <<TRUE, TRUE, TRUE>>    -> "compiled"
         [] OTHER                                        -> "refused"]
  /\ UNCHANGED <<job, name, found, evidence, child, exercised, epoch, files>>

WriteTrain(p) ==
  /\ Goto(p, "write_train", "write_audit")
  /\ trainFile' = [trainFile EXCEPT ![Views(p)] = TRUE]
  /\ UNCHANGED <<job, name, found, evidence, child, exercised, epoch, audit,
                 manifest, runFiles, preFiles>>

WriteAudit(p) ==
  /\ Goto(p, "write_audit", "write_manifest")
  /\ audit' = [audit EXCEPT ![Views(p)] = TRUE]
  /\ UNCHANGED <<job, name, found, evidence, child, exercised, epoch,
                 trainFile, manifest, runFiles, preFiles>>

WriteManifest(p) ==
  /\ Goto(p, "write_manifest", "compiled")
  /\ manifest' = [manifest EXCEPT ![Views(p)] = p]
  /\ UNCHANGED <<job, name, found, evidence, child, exercised, epoch,
                 trainFile, audit, runFiles, preFiles>>

(***************************************************************************)
(* cli._model_upgrade_preflight, with its child run_preflight.             *)
(***************************************************************************)
OpenPreflight(p) ==
  /\ pc[p] = "compiled"
  /\ job[p].cmd = "preflight"
  /\ pc' = [pc EXCEPT ![p] = IF preConfig[job[p].attempt] = None
                               THEN "write_config" ELSE "refused"]
  /\ UNCHANGED <<job, name, found, evidence, child, exercised, epoch, files>>

WritePreConfig(p) ==
  /\ Goto(p, "write_config", "spawn")
  /\ job[p].cmd = "preflight"
  /\ preConfig' = [preConfig EXCEPT ![job[p].attempt] = Views(p)]
  /\ UNCHANGED <<job, name, found, evidence, child, exercised, epoch,
                 compileFiles, runFiles, report>>

\* The child reads the config that is there now.
PreValidate(p) ==
  /\ child[p] = "started"
  /\ job[p].cmd = "preflight"
  /\ exercised' = [exercised EXCEPT ![p] = preConfig[job[p].attempt]]
  /\ child' = [child EXCEPT ![p] = "validated"]
  /\ UNCHANGED <<pc, job, name, found, evidence, epoch, files>>

\* The backward pass, the reload and the generation passed, or it has died.
PreReport(p) ==
  /\ child[p] = "validated"
  /\ job[p].cmd = "preflight"
  /\ report' = [report EXCEPT ![job[p].attempt] =
                  [by |-> p, data |-> exercised[p]]]
  /\ child' = [child EXCEPT ![p] = "reported"]
  /\ UNCHANGED <<pc, job, name, found, evidence, exercised, epoch,
                 compileFiles, runFiles, preConfig>>

(***************************************************************************)
(* cli._acquire and run_acquisition.                                       *)
(***************************************************************************)

\* _require_model_upgrade_preflight: the attempts are looked at one by one
\* from the highest, and the first report there is read and checked.
HasReport(a) == a \in Attempts /\ report[a] # None

SkipAttempt(p) ==
  /\ pc[p] = "compiled"
  /\ job[p].cmd = "execute"
  /\ found[p].attempt > 0
  /\ ~HasReport(found[p].attempt)
  /\ found' = [found EXCEPT ![p].attempt = @ - 1]
  /\ UNCHANGED <<pc, job, name, evidence, child, exercised, epoch, files>>

MatchesRows(p, r) == r # None

Matches(p, r) == r.data = Views(p)

CheckReport(p) ==
  /\ pc[p] = "compiled"
  /\ job[p].cmd = "execute"
  /\ LET a == found[p].attempt
     IN  \/ /\ HasReport(a)
            /\ Matches(p, report[a])
            /\ found' = [found EXCEPT ![p].report = report[a]]
            /\ pc' = [pc EXCEPT ![p] = "hash_report"]
         \/ /\ IF HasReport(a) THEN ~Matches(p, report[a]) ELSE a = 0
            /\ pc' = [pc EXCEPT ![p] = "refused"]
            /\ UNCHANGED found
  /\ UNCHANGED <<job, name, evidence, child, exercised, epoch, files>>

\* The file is read again for its hash: it may be another's report by now.
HashReport(p) ==
  /\ Goto(p, "hash_report", "open")
  /\ evidence' = [evidence EXCEPT ![p].preflight = report[found[p].attempt]]
  /\ UNCHANGED <<job, name, found, child, exercised, epoch, files>>

RequirePreflight(p) == SkipAttempt(p) \/ CheckReport(p) \/ HashReport(p)

SkipPreflight(p) ==
  /\ Goto(p, "compiled", "open")
  /\ job[p].cmd = "dry_run"
  /\ UNCHANGED <<job, name, found, evidence, child, exercised, epoch, files>>

Collides(s) ==
  \/ adapterDir[s] # None
  \/ config[s] # None
  \/ runManifest[s] # None
  \/ log[s]
  \/ coverage[s] # None

OpenUnlessExecuting(p) ==
  /\ pc[p] = "open"
  /\ name' = [name EXCEPT ![p] = manifest[Views(p)]]
  /\ pc' = [pc EXCEPT ![p] =
       IF job[p].cmd = "execute" /\ Collides(manifest[Views(p)])
         THEN "collision" ELSE "write_config"]
  /\ UNCHANGED <<job, found, evidence, child, exercised, epoch, files>>

Open(p) ==
  /\ pc[p] = "open"
  /\ name' = [name EXCEPT ![p] = manifest[Views(p)]]
  /\ pc' = [pc EXCEPT ![p] = IF Collides(manifest[Views(p)])
                               THEN "collision" ELSE "write_config"]
  /\ UNCHANGED <<job, found, evidence, child, exercised, epoch, files>>

\* Only an execution materializes the snapshot its child will load.
WriteConfig(p) ==
  /\ pc[p] = "write_config"
  /\ job[p].cmd # "preflight"
  /\ config' = [config EXCEPT ![name[p]] =
       IF job[p].cmd = "execute" THEN "snapshot" ELSE "id"]
  /\ pc' = [pc EXCEPT ![p] = IF job[p].cmd = "execute"
                               THEN "spawn" ELSE "write_run_manifest"]
  /\ UNCHANGED <<job, name, found, evidence, child, exercised, epoch,
                 compileFiles, adapterDir, weights, coverage, log,
                 runManifest, preFiles>>

\* execute_training_command, for either child.
Spawn(p) ==
  /\ Goto(p, "spawn", "wait")
  /\ child' = [child EXCEPT ![p] = "started"]
  /\ UNCHANGED <<job, name, found, evidence, exercised, epoch, files>>

\* The log is written before the return code is looked at; the log of a
\* preflight is read by no one.
Wait(p) ==
  /\ pc[p] = "wait"
  /\ child[p] \in {"exited", "failed"}
  /\ IF job[p].cmd = "execute"
       THEN log' = [log EXCEPT ![name[p]] = TRUE]
       ELSE UNCHANGED log
  /\ pc' = [pc EXCEPT ![p] =
       CASE child[p] = "failed"                               -> "stopped"
         [] child[p] = "exited" /\ job[p].cmd = "execute"   -> "hash_adapter"
         [] child[p] = "exited" /\ job[p].cmd = "preflight" -> "done"]
  /\ UNCHANGED <<job, name, found, evidence, child, exercised, epoch,
                 compileFiles, config, adapterDir, weights, coverage,
                 runManifest, preFiles>>

HashAdapter(p) ==
  /\ Goto(p, "hash_adapter", "hash_coverage")
  /\ evidence' = [evidence EXCEPT ![p].adapter = weights[name[p]]]
  /\ UNCHANGED <<job, name, found, child, exercised, epoch, files>>

HashCoverage(p) ==
  /\ Goto(p, "hash_coverage", "write_run_manifest")
  /\ evidence' = [evidence EXCEPT ![p].coverage = coverage[name[p]]]
  /\ UNCHANGED <<job, name, found, child, exercised, epoch, files>>

WriteRunManifest(p) ==
  /\ Goto(p, "write_run_manifest", "done")
  /\ runManifest' = [runManifest EXCEPT ![name[p]] =
       [status |-> IF job[p].cmd = "execute" THEN "trained" ELSE "dry_run",
        evidence |-> evidence[p]]]
  /\ UNCHANGED <<job, name, found, evidence, child, exercised, epoch,
                 compileFiles, config, adapterDir, weights, coverage, log,
                 preFiles>>

(***************************************************************************)
(* acquisition_runtime.run_training.                                       *)
(***************************************************************************)
Validate(p) ==
  /\ child[p] = "started"
  /\ job[p].cmd = "execute"
  /\ child' = [child EXCEPT ![p] =
       IF config[name[p]] = "snapshot" /\ adapterDir[name[p]] = None
         THEN "validated" ELSE "failed"]
  /\ UNCHANGED <<pc, job, name, found, evidence, exercised, epoch, files>>

Cover(p) ==
  /\ child[p] = "validated"
  /\ job[p].cmd = "execute"
  /\ coverage' = [coverage EXCEPT ![name[p]] = p]
  /\ child' = [child EXCEPT ![p] = "covered"]
  /\ UNCHANGED <<pc, job, name, found, evidence, exercised, epoch,
                 compileFiles, config, adapterDir, weights, log,
                 runManifest, preFiles>>

MakeAdapterDirExistOk(p) ==
  /\ child[p] = "covered"
  /\ adapterDir' = [adapterDir EXCEPT ![name[p]] = p]
  /\ child' = [child EXCEPT ![p] = "training"]
  /\ UNCHANGED <<pc, job, name, found, evidence, exercised, epoch,
                 compileFiles, config, weights, coverage, log, runManifest,
                 preFiles>>

\* mkdir(exist_ok=False): the one step that only one child can take.
MakeAdapterDir(p) ==
  /\ child[p] = "covered"
  /\ IF adapterDir[name[p]] = None
       THEN /\ adapterDir' = [adapterDir EXCEPT ![name[p]] = p]
            /\ child' = [child EXCEPT ![p] = "training"]
       ELSE /\ child' = [child EXCEPT ![p] = "failed"]
            /\ UNCHANGED adapterDir
  /\ UNCHANGED <<pc, job, name, found, evidence, exercised, epoch,
                 compileFiles, config, weights, coverage, log, runManifest,
                 preFiles>>

TrainOneMore(p) ==
  /\ child[p] = "training"
  /\ epoch[p] <= Epochs
  /\ epoch' = [epoch EXCEPT ![p] = @ + 1]
  /\ weights' = [weights EXCEPT ![name[p]] =
                   [by |-> p, epoch |-> epoch[p] + 1]]
  /\ UNCHANGED <<pc, job, name, found, evidence, child, exercised,
                 compileFiles, config, adapterDir, coverage, log,
                 runManifest, preFiles>>

\* Each checkpoint replaces adapters.safetensors.
Train(p) ==
  /\ child[p] = "training"
  /\ epoch[p] < Epochs
  /\ epoch' = [epoch EXCEPT ![p] = @ + 1]
  /\ weights' = [weights EXCEPT ![name[p]] =
                   [by |-> p, epoch |-> epoch[p] + 1]]
  /\ UNCHANGED <<pc, job, name, found, evidence, child, exercised,
                 compileFiles, config, adapterDir, coverage, log,
                 runManifest, preFiles>>

Exit(p) ==
  /\ \/ child[p] = "training" /\ epoch[p] = Epochs
     \/ child[p] = "reported"
  /\ child' = [child EXCEPT ![p] = "exited"]
  /\ UNCHANGED <<pc, job, name, found, evidence, exercised, epoch, files>>

(***************************************************************************)
(* Exceptions and kills.                                                   *)
(***************************************************************************)
Stop(p) ==
  /\ pc[p] \in Active
  /\ pc' = [pc EXCEPT ![p] = "stopped"]
  /\ UNCHANGED <<job, name, found, evidence, child, exercised, epoch, files>>

ChildStop(p) ==
  /\ child[p] \in Live
  /\ child' = [child EXCEPT ![p] = "failed"]
  /\ UNCHANGED <<pc, job, name, found, evidence, exercised, epoch, files>>

Compiling(p) ==
  Compile(p) \/ WriteTrain(p) \/ WriteAudit(p) \/ WriteManifest(p)
Preflight(p) ==
  OpenPreflight(p) \/ WritePreConfig(p) \/ PreValidate(p) \/ PreReport(p)
Acquire(p) ==
  \/ RequirePreflight(p) \/ SkipPreflight(p) \/ Open(p) \/ WriteConfig(p)
  \/ Spawn(p) \/ Wait(p) \/ HashAdapter(p) \/ HashCoverage(p)
  \/ WriteRunManifest(p)
Training(p) ==
  Validate(p) \/ Cover(p) \/ MakeAdapterDir(p) \/ Train(p) \/ Exit(p)

Step(p) ==
  \/ Start(p) \/ Compiling(p) \/ Preflight(p) \/ Acquire(p) \/ Training(p)
  \/ Stop(p) \/ ChildStop(p)

Next == \E p \in Procs : Step(p)

Spec == Init /\ [][Next]_vars

(***************************************************************************)
(* Properties.                                                             *)
(***************************************************************************)
TypeOK ==
  /\ pc \in [Procs -> {"idle"} \cup Active \cup Ended]
  /\ job \in [Procs -> Jobs \cup {None}]
  /\ name \in [Procs -> Procs \cup {None}]
  /\ found \in [Procs -> Found]
  /\ evidence \in [Procs -> Evidence]
  /\ child \in [Procs -> {"none", "exited", "failed"} \cup Live]
  /\ exercised \in [Procs -> Data \cup {None}]
  /\ epoch \in [Procs -> 0 .. Epochs]
  /\ trainFile \in [Data -> BOOLEAN]
  /\ audit \in [Data -> BOOLEAN]
  /\ manifest \in [Data -> Procs \cup {None}]
  /\ config \in [Procs -> {"id", "snapshot", None}]
  /\ adapterDir \in [Procs -> Procs \cup {None}]
  /\ weights \in [Procs -> Weights \cup {None}]
  /\ coverage \in [Procs -> Procs \cup {None}]
  /\ log \in [Procs -> BOOLEAN]
  /\ runManifest \in [Procs -> Manifests \cup {None}]
  /\ preConfig \in [Attempts -> Data \cup {None}]
  /\ report \in [Attempts -> Reports \cup {None}]

Trained(s) == runManifest[s] # None /\ runManifest[s].status = "trained"

\* load_verified_acquisition_adapter.
Verified(s) ==
  /\ Trained(s)
  /\ weights[s] # None /\ weights[s] = runManifest[s].evidence.adapter
  /\ coverage[s] # None /\ coverage[s] = runManifest[s].evidence.coverage

\* However many commands race for a run, an adapter that is loaded as verified
\* holds the last checkpoint of one training that exited with success.
VerifiedMeansTrained ==
  \A s \in Procs : Verified(s) =>
    \E p \in Procs :
      /\ job[p].cmd = "execute" /\ name[p] = s /\ child[p] = "exited"
      /\ weights[s] = [by |-> p, epoch |-> Epochs]

PastReport == {"reported", "exited", "failed"}

\* r is the report of a child that loaded the dataset of d and got through.
GotThrough(r, d) ==
  /\ r # None
  /\ r.data = d
  /\ exercised[r.by] = d
  /\ child[r.by] \in PastReport

\* The training of a run that says trained was let through by a preflight that
\* had loaded the very dataset of the run and got through to its report.  The
\* run names a preflight that got through as well: that one, or one of another
\* command for the same attempt, which replaced the report between the check
\* and the hash, and is of whatever dataset that command was pointed to.
PreflightBeforeTraining ==
  \A s \in Procs : Trained(s) =>
    LET trainer == runManifest[s].evidence.adapter.by
        read    == found[trainer].report
        named   == runManifest[s].evidence.preflight
    IN  /\ GotThrough(read, job[s].data)
        /\ named # None /\ GotThrough(named, named.data)
        /\ \/ named = read
           \/ /\ named.by # read.by
              /\ job[named.by].attempt = job[read.by].attempt

\* A verified run that no process holds any more is never reopened: whatever
\* is started later, it stays verified with the same adapter.
Holds(p, s) ==
  /\ name[p] = s
  /\ pc[p] \in Active \/ child[p] \in Live

AtRest(s) == Verified(s) /\ \A p \in Procs : ~Holds(p, s)

RestIsFinal ==
  [][\A s \in Procs : AtRest(s) => AtRest(s)' /\ weights'[s] = weights[s]]_vars

\* A dry run tells its user to repeat the command with --execute: an
\* execution is refused for what is there only if there was an execution.
DryRunCanBeRepeated ==
  \A p \in Procs : pc[p] = "collision" /\ job[p].cmd = "execute" =>
    \E q \in Procs \ {p} : name[q] = name[p] /\ job[q].cmd = "execute"
===============================================================================
