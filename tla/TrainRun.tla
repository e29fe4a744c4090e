------------------------------- MODULE TrainRun -------------------------------
(***************************************************************************)
(* The learning-mechanics training run, learning_mechanics.run_experiment, *)
(* and what learning_mechanics_eval.verify_source_run later accepts of it. *)
(*                                                                         *)
(* One run goes through gates: an equivalence test of the optimised        *)
(* kernel, a preflight of a few updates on weights that are thrown away,   *)
(* then Epochs passes over the cases from freshly loaded weights, an       *)
(* adapter saved and read back, and an answer to every case.  A patch      *)
(* replaces the attention kernel of the whole process while the optimised  *)
(* path is in use.  Any step may raise, Ctrl-C may arrive, and the process *)
(* may be killed; JSON files are replaced atomically, the adapter is not.  *)
(*                                                                         *)
(* Weights are the seed they were loaded with and the number of optimiser  *)
(* updates applied since; a digest is what it is taken of.  Cases are      *)
(* numbered in the order of an epoch (epoch_order shuffles them once).     *)
(* What is computed from the losses and outputs is left out.               *)
(***************************************************************************)
EXTENDS Naturals

CONSTANTS N,          \* training cases
          Epochs,     \* FROZEN_SETTINGS["epochs"]
          Preflights, \* length of PREFLIGHT_CASE_ORDER
          None,
          Torn        \* a file that was not written to its end

Cases == 1 .. N
Total == Epochs * N   \* FROZEN_SETTINGS["measured_optimizer_updates"]
Seeds == {7, 42}
Weights == [seed : Seeds, updates : Nat]
Fresh(seed) == [seed |-> seed, updates |-> 0]

Logs == [updates : Nat, exposures : [Cases -> 0 .. Epochs]]

Verdicts == {"failed_equivalence", "failed_preflight",
             "completed_40_update_run"}
Failures == {"failed", "failed_after_preflight"}

ASSUME TrainConstants ==
  /\ N \in Nat \ {0}
  /\ Epochs \in Nat \ {0}
  /\ Preflights \in Nat
  /\ None \notin {"passed", "failed"} \cup Verdicts \cup Failures
  /\ Torn # None
  /\ {None, Torn} \cap Weights = {}
  /\ None \notin Logs

VARIABLES
  \* the process
  pc,          \* its next step
  model,       \* the weights it has loaded, or None
  patched,     \* TrainingAttentionPatch is installed
  capped,      \* mx.set_wired_limit is the capped setter
  round,       \* adapter states compared, then preflight updates done
  report,      \* status of preflight_report
  epoch, local,
  update,      \* update_index
  exposures,
  raising,     \* an exception leaves run_experiment after its "finally"
  \* the run directory
  equivalence, \* passed of equivalence-report.json
  preflight,   \* status of preflight/preflight-report.json
  log,         \* training-log.json
  adapter,     \* adapter/adapters.safetensors
  config,      \* adapter/adapter_config.json exists
  identity,    \* the digest in adapter-identity.json
  before,      \* before/comparison.json exists
  after,       \* number of after/<case>.json
  comparison,  \* comparison.json exists
  manifest,    \* status of run-manifest.json
  failure      \* status of failure-report.json

process == <<model, patched, capped, round, report>>
loop == <<epoch, local, update, exposures>>
gates == <<equivalence, preflight>>
trained == <<log, adapter, config, identity>>
results == <<before, after, comparison>>
verdict == <<manifest, failure>>
vars == <<pc, process, loop, raising, gates, trained, results, verdict>>

Setup == {"begin", "ceiling"}
Preflight == {"load preflight", "preflight", "report preflight"}
Body == {"diagnose", "reference", "optimized", "equivalence", "refuse",
         "patch", "fail preflight", "refuse preflight", "load", "train",
         "log", "adapter", "reload", "identity", "unpatch", "before",
         "generate", "manifest"}
Ends == {"returned", "raised", "killed"}
Steps == Setup \cup Preflight \cup Body \cup {"outer", "finally"} \cup Ends

TypeOK ==
  /\ pc \in Steps
  /\ model \in Weights \cup {None}
  /\ patched \in BOOLEAN /\ capped \in BOOLEAN
  /\ round \in Nat
  /\ report \in {"passed", "failed", None}
  /\ epoch \in 0 .. Epochs /\ local \in 1 .. N
  /\ update \in 0 .. Total
  /\ exposures \in [Cases -> 0 .. Epochs]
  /\ raising \in BOOLEAN
  /\ equivalence \in {"passed", "failed", None}
  /\ preflight \in {"passed", "failed", None}
  /\ log \in Logs \cup {None}
  /\ adapter \in Weights \cup {Torn, None}
  /\ config \in BOOLEAN
  /\ identity \in Weights \cup {None}
  /\ before \in BOOLEAN
  /\ after \in 0 .. N
  /\ comparison \in BOOLEAN
  /\ manifest \in Verdicts \cup {None}
  /\ failure \in Failures \cup {None}

Init ==
  /\ pc = "begin"
  /\ model = None /\ patched = FALSE /\ capped = FALSE
  /\ round = 0 /\ report = None
  /\ epoch = 0 /\ local = 1 /\ update = 0
  /\ exposures = [c \in Cases |-> 0]
  /\ raising = FALSE
  /\ equivalence = None /\ preflight = None
  /\ log = None /\ adapter = None /\ config = FALSE /\ identity = None
  /\ before = FALSE /\ after = 0 /\ comparison = FALSE
  /\ manifest = None /\ failure = None

-----------------------------------------------------------------------------
(* Authorisations, bound pairs, a new run directory with the inputs, and   *)
(* the capped setter.  None of it is inside the "try".                     *)

Begin ==
  /\ pc = "begin"
  /\ pc' = "ceiling"
  /\ UNCHANGED <<process, loop, raising, gates, trained, results, verdict>>

InstallCeiling ==
  /\ pc = "ceiling"
  /\ capped' = TRUE
  /\ pc' = "diagnose"
  /\ UNCHANGED <<model, patched, round, report, loop, raising, gates,
                 trained, results, verdict>>

(* runtime-diagnosis.json, then a model for the equivalence test.          *)
Diagnose ==
  /\ pc = "diagnose"
  /\ model' = Fresh(7)
  /\ pc' = "reference"
  /\ UNCHANGED <<patched, capped, round, report, loop, raising, gates,
                 trained, results, verdict>>

(* run_model_equivalence compares, for two adapter states, the stock path  *)
(* with the optimised one under a patch of its own.                        *)
Reference ==
  /\ pc = "reference"
  /\ patched' = TRUE
  /\ pc' = "optimized"
  /\ UNCHANGED <<model, capped, round, report, loop, raising, gates, trained,
                 results, verdict>>

Optimized ==
  /\ pc = "optimized"
  /\ patched' = FALSE
  /\ round' = round + 1
  /\ pc' = IF round' = 2 THEN "equivalence" ELSE "reference"
  /\ UNCHANGED <<model, capped, report, loop, raising, gates, trained,
                 results, verdict>>

EquivalenceAs(outcome, next) ==
  /\ pc = "equivalence"
  /\ equivalence' = outcome
  /\ model' = None
  /\ pc' = next
  /\ UNCHANGED <<patched, capped, round, report, loop, raising, preflight,
                 trained, results, verdict>>

(* Mutant of Equivalence: a failed test is only reported.                  *)
EquivalenceReported ==
  \E outcome \in {"passed", "failed"} : EquivalenceAs(outcome, "patch")

Equivalence ==
  \/ EquivalenceAs("passed", "patch")
  \/ EquivalenceAs("failed", "refuse")

Refuse ==
  /\ pc = "refuse"
  /\ manifest' = "failed_equivalence"
  /\ pc' = "finally"
  /\ UNCHANGED <<process, loop, raising, gates, trained, results, failure>>

-----------------------------------------------------------------------------
(* The preflight, an inner "try" of its own.                               *)

InstallPatch ==
  /\ pc = "patch"
  /\ patched' = TRUE
  /\ pc' = "load preflight"
  /\ UNCHANGED <<model, capped, round, report, loop, raising, gates, trained,
                 results, verdict>>

(* The rows are validated with the tokenizer of the model just loaded.     *)
LoadPreflight ==
  /\ pc = "load preflight"
  /\ model' = Fresh(42)
  /\ round' = 0
  /\ pc' = "preflight"
  /\ UNCHANGED <<patched, capped, report, loop, raising, gates, trained,
                 results, verdict>>

PreflightStep ==
  /\ pc = "preflight"
  /\ round < Preflights
  /\ model' = [model EXCEPT !.updates = @ + 1]
  /\ round' = round + 1
  /\ UNCHANGED <<pc, patched, capped, report, loop, raising, gates, trained,
                 results, verdict>>

(* A disposable adapter is saved and read back.                            *)
PreflightPasses ==
  /\ pc = "preflight"
  /\ round = Preflights
  /\ report' = "passed"
  /\ pc' = "report preflight"
  /\ UNCHANGED <<model, patched, capped, round, loop, raising, gates,
                 trained, results, verdict>>

ReportPreflight ==
  /\ pc = "report preflight"
  /\ preflight' = "passed"
  /\ pc' = "load"
  /\ UNCHANGED <<process, loop, raising, equivalence, trained, results,
                 verdict>>

(* Mutant of PreflightRaises: a report that says passed is kept.           *)
PreflightRaisesAsIs ==
  /\ pc \in Preflight
  /\ report' = IF report = None THEN "failed" ELSE report
  /\ pc' = "fail preflight"
  /\ UNCHANGED <<model, patched, capped, round, loop, raising, gates,
                 trained, results, verdict>>

(* Anything that raises in the inner "try", the writing of a report that   *)
(* says passed included, makes a report that says failed.                  *)
PreflightRaises ==
  /\ pc \in Preflight
  /\ report' = "failed"
  /\ pc' = "fail preflight"
  /\ UNCHANGED <<model, patched, capped, round, loop, raising, gates,
                 trained, results, verdict>>

FailPreflight ==
  /\ pc = "fail preflight"
  /\ preflight' = report
  /\ pc' = "refuse preflight"
  /\ UNCHANGED <<process, loop, raising, equivalence, trained, results,
                 verdict>>

RefusePreflight ==
  /\ pc = "refuse preflight"
  /\ manifest' = "failed_preflight"
  /\ pc' = "finally"
  /\ UNCHANGED <<process, loop, raising, gates, trained, results, failure>>

-----------------------------------------------------------------------------
(* Mutant of Load: training goes on with the weights of the preflight.     *)
LoadNothing ==
  /\ pc = "load"
  /\ pc' = "train"
  /\ UNCHANGED <<process, loop, raising, gates, trained, results, verdict>>

(* The preflight's model is released; training starts from fresh weights.  *)
Load ==
  /\ pc = "load"
  /\ model' = Fresh(42)
  /\ pc' = "train"
  /\ UNCHANGED <<patched, capped, round, report, loop, raising, gates,
                 trained, results, verdict>>

(* Mutant of TrainStep: one epoch too many.                                *)
TrainStepTooMany ==
  /\ pc = "train"
  /\ epoch <= Epochs
  /\ model' = [model EXCEPT !.updates = @ + 1]
  /\ update' = update + 1
  /\ exposures' = [exposures EXCEPT ![local] = @ + 1]
  /\ local' = IF local = N THEN 1 ELSE local + 1
  /\ epoch' = IF local = N THEN epoch + 1 ELSE epoch
  /\ pc' = "log"
  /\ UNCHANGED <<patched, capped, round, report, raising, gates, trained,
                 results, verdict>>

(* One pass of the two nested loops: run_optimizer_step on the next case.  *)
TrainStep ==
  /\ pc = "train"
  /\ epoch < Epochs
  /\ model' = [model EXCEPT !.updates = @ + 1]
  /\ update' = update + 1
  /\ exposures' = [exposures EXCEPT ![local] = @ + 1]
  /\ local' = IF local = N THEN 1 ELSE local + 1
  /\ epoch' = IF local = N THEN epoch + 1 ELSE epoch
  /\ pc' = "log"
  /\ UNCHANGED <<patched, capped, round, report, raising, gates, trained,
                 results, verdict>>

Logged == [updates |-> update, exposures |-> exposures]

(* Mutant of WriteLog: the log is written after whole epochs only.         *)
WriteLogPerEpoch ==
  /\ pc = "log"
  /\ log' = IF local = 1 THEN Logged ELSE log
  /\ pc' = "train"
  /\ UNCHANGED <<process, loop, raising, gates, adapter, config, identity,
                 results, verdict>>

WriteLog ==
  /\ pc = "log"
  /\ log' = Logged
  /\ pc' = "train"
  /\ UNCHANGED <<process, loop, raising, gates, adapter, config, identity,
                 results, verdict>>

(* "Measured optimizer updates ... != 40", "Uneven per-case exposures"     *)
CheckCounts ==
  /\ pc = "train"
  /\ epoch = Epochs
  /\ update = Total
  /\ \A c \in Cases : exposures[c] = Epochs
  /\ pc' = "adapter"
  /\ UNCHANGED <<process, loop, raising, gates, trained, results, verdict>>

(* save_adapter writes in place: what fails on the way stays torn.         *)
SaveAdapter ==
  /\ pc = "adapter"
  /\ \/ adapter' = model /\ pc' = "reload"
     \/ adapter' = Torn /\ pc' = "outer"
  /\ UNCHANGED <<process, loop, raising, gates, log, config, identity,
                 results, verdict>>

(* reload_adapter_check empties the weights and reads them back.           *)
ReloadAdapter ==
  /\ pc = "reload"
  /\ config' = TRUE
  /\ pc' = "identity"
  /\ UNCHANGED <<process, loop, raising, gates, log, adapter, identity,
                 results, verdict>>

(* The final log says what the last one said; the identity may then fail.  *)
Identify ==
  /\ pc = "identity"
  /\ log' = Logged
  /\ \/ identity' = adapter /\ pc' = "unpatch"
     \/ identity' = identity /\ pc' = "outer"
  /\ UNCHANGED <<process, loop, raising, gates, adapter, config, results,
                 verdict>>

(* Mutant of Unpatch: the patch is left to the "finally".                  *)
UnpatchLater ==
  /\ pc = "unpatch"
  /\ model' = None
  /\ pc' = "before"
  /\ UNCHANGED <<patched, capped, round, report, loop, raising, gates,
                 trained, results, verdict>>

Unpatch ==
  /\ pc = "unpatch"
  /\ model' = None
  /\ patched' = FALSE
  /\ pc' = "before"
  /\ UNCHANGED <<capped, round, report, loop, raising, gates, trained,
                 results, verdict>>

-----------------------------------------------------------------------------
(* The sealed outputs of the base model, then those of the adapter.        *)

Before ==
  /\ pc = "before"
  /\ before' = TRUE
  /\ pc' = "generate"
  /\ UNCHANGED <<process, loop, raising, gates, trained, after, comparison,
                 verdict>>

Generate ==
  /\ pc = "generate"
  /\ after < N
  /\ after' = after + 1
  /\ UNCHANGED <<pc, process, loop, raising, gates, trained, before,
                 comparison, verdict>>

Compare ==
  /\ pc = "generate"
  /\ after = N
  /\ comparison' = TRUE
  /\ pc' = "manifest"
  /\ UNCHANGED <<process, loop, raising, gates, trained, before, after,
                 verdict>>

Manifest ==
  /\ pc = "manifest"
  /\ manifest' = "completed_40_update_run"
  /\ pc' = "finally"
  /\ UNCHANGED <<process, loop, raising, gates, trained, results, failure>>

-----------------------------------------------------------------------------
(* An exception: in front of the "try" it leaves the function, inside it   *)
(* goes to the outer handler.  run_model_equivalence has a "finally" that  *)
(* takes its own patch out.                                                *)
OwnPatchOut == patched' = (patched /\ pc # "optimized")

Raise ==
  /\ pc \in Setup \cup Body
  /\ pc' = IF pc \in Setup THEN "raised" ELSE "outer"
  /\ OwnPatchOut
  /\ UNCHANGED <<model, capped, round, report, loop, raising, gates, trained,
                 results, verdict>>

(* Ctrl-C is no Exception and goes straight to the "finally".              *)
Interrupt ==
  /\ pc \in Body \cup Preflight \cup {"outer"}
  /\ pc' = "finally"
  /\ raising' = TRUE
  /\ OwnPatchOut
  /\ UNCHANGED <<model, capped, round, report, loop, gates, trained, results,
                 verdict>>

Outer ==
  /\ pc = "outer"
  /\ \/ /\ failure' = IF report = "passed" THEN "failed_after_preflight"
                      ELSE "failed"
        /\ raising' = raising
     \/ failure' = failure /\ raising' = TRUE
  /\ pc' = "finally"
  /\ UNCHANGED <<process, loop, gates, trained, results, manifest>>

Finally ==
  /\ pc = "finally"
  /\ patched' = FALSE
  /\ capped' = FALSE
  /\ model' = None
  /\ pc' = IF raising THEN "raised" ELSE "returned"
  /\ UNCHANGED <<round, report, loop, raising, gates, trained, results,
                 verdict>>

Kill ==
  /\ pc \notin Ends
  /\ pc' = "killed"
  /\ UNCHANGED <<process, loop, raising, gates, trained, results, verdict>>

-----------------------------------------------------------------------------
Gate ==
  \/ Begin \/ InstallCeiling \/ Diagnose
  \/ Reference \/ Optimized \/ Equivalence \/ Refuse
  \/ InstallPatch \/ LoadPreflight \/ PreflightStep \/ PreflightPasses
  \/ ReportPreflight \/ PreflightRaises \/ FailPreflight \/ RefusePreflight

Train ==
  \/ Load \/ TrainStep \/ WriteLog \/ CheckCounts
  \/ SaveAdapter \/ ReloadAdapter \/ Identify \/ Unpatch
  \/ Before \/ Generate \/ Compare \/ Manifest

Leave == Raise \/ Interrupt \/ Outer \/ Finally \/ Kill

Next == Gate \/ Train \/ Leave

Spec == Init /\ [][Next]_vars

-----------------------------------------------------------------------------
(* verify_source_run: what an evaluation accepts as a finished training    *)
(* whose outputs are still missing, from the files alone.  The digest it   *)
(* expects by name and the settings and sealed inputs, which no step after *)
(* Begin writes, are left out: the model accepts no less than the code.    *)
Accepts ==
  /\ after = 0 /\ ~comparison
  /\ identity # None /\ adapter = identity
  /\ config
  /\ log # None
  /\ log.updates = Total
  /\ \A c \in Cases : log.exposures[c] = Epochs
  /\ before

(* A run that the evaluation accepts holds the weights of exactly the      *)
(* bound number of updates from fresh weights - none of the preflight's -  *)
(* and passed both gates, wherever the run was interrupted or killed.      *)
AcceptedMeansTrained ==
  Accepts =>
    /\ adapter = [seed |-> 42, updates |-> Total]
    /\ equivalence = "passed"
    /\ preflight = "passed"

(* The log on disk never tells of an update that was not made, and lacks   *)
(* at most the last one; no case is ahead of another by more than one.     *)
LogKeepsUp ==
  update > 0 =>
    /\ \/ log = None /\ update = 1
       \/ log # None /\ log.updates \in {update - 1, update}
    /\ \A c, d \in Cases : exposures[c] <= exposures[d] + 1

(* No update of the training proper without both gates passed on disk.     *)
GatesBeforeTraining ==
  update > 0 => equivalence = "passed" /\ preflight = "passed"

(* "Replace Qwen3 training SDPA only. Generation keeps the stock kernel":  *)
(* updates run under the patch, the reference of the equivalence test and  *)
(* the answers do not, and the process is left with the stock kernel and   *)
(* the native setter.                                                      *)
KernelOfPhase ==
  /\ pc \in {"optimized", "preflight", "train"} => patched
  /\ pc \in {"reference", "before", "generate"} => ~patched
  /\ pc \in {"returned", "raised"} => ~patched /\ ~capped

(* A run that returns leaves a manifest or a failure report, and no run    *)
(* leaves both; a completed one has everything it tells of; a failure      *)
(* report says whether the preflight had passed.                           *)
VerdictFitsFiles ==
  /\ manifest = None \/ failure = None
  /\ pc = "returned" => manifest # None \/ failure # None
  /\ manifest = "completed_40_update_run" =>
       /\ identity = [seed |-> 42, updates |-> Total]
       /\ adapter = identity
       /\ before /\ after = N /\ comparison
  /\ failure # None =>
       (failure = "failed_after_preflight" <=> preflight = "passed")
=============================================================================
