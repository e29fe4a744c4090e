# Verification of enterprise-memory-mlx

TLA+ models of the parts of `enterprise-memory-mlx` whose correctness depends
on the order in which things happen, the TLC runs that check them, and TLAPS
proofs of their main properties for every value of the constants.

Paths below are relative to the package, `src/enterprise_memory_mlx/`.

Contents: [the system](#1-the-system),
[modules](#2-modules-and-how-they-correspond-to-the-code), [runs](#3-runs),
[fairness](#4-fairness), [proofs](#5-proofs),
[findings](#6-where-the-code-and-its-documents-disagree), [what is not
modelled](#7-what-is-not-modelled), [plan](#8-plan).

To repeat the checks, inside this directory:

    tlc -workers 2 -config review_one.cfg MCReviewStore
    tlapm ReviewStoreProofs.tla

`PROJECT.json` lists every run with its module, and for every definition the
source lines it models.

## 1. The system

The package prepares records of enterprise knowledge, trains small adapters on
them, measures models with and without the adapters, has people and models
judge the answers, and decides whether a result counts. It is a set of commands
over a directory of artifacts. Almost every guarantee it gives is therefore
about *files*: which program may write one, what must be true before it does,
what a later program may conclude from finding it, and what happens when a
program dies half way or two run at once. There is no database and almost no
locking: protection comes from `os.replace`, refusals to overwrite, and hashes
that one artifact keeps of the previous one.

### Components

"Hard" names what is difficult to test; "Correct when" is what the properties
are for.

**Human review**

| Component | State | Operations | Hard | Correct when |
|---|---|---|---|---|
| Review server (`review_ui.py`) | decisions in memory, state file, overlay, manifest, one lock | start, save, export, exit; one thread per request | saves race with exports that take no lock; writes fail after memory changed; restarts; two processes on the same files | an answered decision is never lost; an overlay holds one reviewer's decisions on one packet |
| Review chain (`benchmark_review.py`) | packet, mapping, report | prepare, report | a second preparation while a server runs or a report is built | a report scores one complete export, and its hashes name what was reviewed |
| Governed score (`benchmark_review.py`, `grading.py`) | none: functions of artifacts | score a row, aggregate, paired lift, decision | boundaries of the thresholds, missing or partial labels | deterministic failures are not overruled by advisory labels |
| Strict grading, provenance grading (`strict_grading.py`, `provenance_grading.py`) | none | grade an answer | text forms; a declaration and its normal form; partial dates and times | what is left to the judges says what each slot expects and nothing certainly wrong |

**Learning mechanics**

| Component | State | Operations | Hard | Correct when |
|---|---|---|---|---|
| Training (`learning_mechanics.py`, `learning_mechanics_exact.py`) | the process's attention kernel and wired limit, model, log, adapter, identity, reports, manifest | equivalence gate, preflight, training loop, save and reload, answers | any step may raise or be interrupted; the preflight updates real weights; the adapter is not written atomically | what is later accepted is the adapter of exactly the bound updates from fresh weights, behind both gates |
| Evaluation (`learning_mechanics_eval.py`) | per-case files, comparison, reports, watchdog flags, wired limit | attempt a case, sample the machine, publish | the watchdog's flag races with the loop; failing while recording a failure | the comparison tells what happened, case by case |
| Scoring (`learning_mechanics_scoring.py`) | none | compare a review with a pair | - | - |

**Acquisition and the model upgrade**

| Component | State | Operations | Hard | Correct when |
|---|---|---|---|---|
| Compiler (`acquisition_compiler.py`) | dataset, audit and manifest files | compile, reuse | a compile killed between files, two at once | a dataset is used as a whole or not at all |
| Training and runtime (`acquisition_training.py`, `acquisition_runtime.py`) | run config, adapter directory, weights, coverage, log, run manifest | dry run, preflight, execute, child processes, verify | commands race on one immutable name; a parent or child dies without the other | a verified adapter is one finished training, let through by a preflight on the same data |
| Study views, profiles, comparison (`model_upgrade_*.py`, `curriculum_authoring.py`, `experiment_profiles.py`) | frozen views | freeze, bind, compare | - | compared runs differ only in what the study varies |

**Judging and measurement**

| Component | State | Operations | Hard | Correct when |
|---|---|---|---|---|
| Semantic judging (`semantic_judging.py`) | the table of loaded judges; calibration certificate | acquire, judge, verify, release, calibrate, grade | a release or a judgement that fails half way; rates over few families, invalid output | two judges are never loaded together; no certificate without human labels and both judges |
| Gemma backend and advisory (`mlx_judge_backend.py`, `gemma_advisory.py`) | host lock, environment variables, advisory and preflight files | acquire, release, preflight, advisory | loading that fails with weights in memory; the existence check is outside the lock | one Gemma per host, offline while loaded; a call leaves nothing behind |
| Gates (`gates.py`) | none | bounds, decision | boundaries of exact counts; which rows a gate observes | zero failures in too few units do not pass; what a gate tolerates none of fails it |
| Benchmark runner (`benchmark.py`, `context_baselines.py`) | rows, artifact | answer-blind plan, generate, write once | a case that fails in a batch | every planned case has one row |
| BM25 (`bm25.py`, `research_bm25.py`) | index | score, choose an operating point | ties | the chosen point meets its constraint |
| Split contract, leakage, neighbours (`split_contract.py`, `leakage.py`, `semantic_neighbors.py`) | frozen suites | validate, freeze, verify | - | test cases are not in the training data |
| Compiler and schemas (`compiler.py`, `schemas.py`) | - | validate records | - | - |

**Specialization**

| Component | State | Operations | Hard | Correct when |
|---|---|---|---|---|
| Pilot (`task_specialization.py`, `specialization_evaluator.py`, `specialization_audit.py`, `specialization_real_work.py`) | the pilot's directory, audit packet and overlay | generate, grade, repair, qualify a teacher, audit | hours between looking for a directory and making it; one reply of many that fails | a repair is accepted from a qualified teacher only |
| Studies (`specialization_qualification.py`, `_remedy_experiment.py`, `_fact_state_experiment.py`, `remedy_logic.py`) | directories of comparisons, packets and decisions, named after hashes; the reviewer's advisory | compare, correct grades, prepare a review, score, run a regression | several of each lie around while assets and advisory change; ties and partial failures in the gates | labels are counted for the answers they were given to; a decision is earned by them |
| Structured inference (`structured_inference*.py`) | one file per output | measure arms, review | partial runs | every output is written once |

**Rest**: adapter registry and router, the legacy pipeline behind
`legacy_guard`, hardware detection, the command line, the packaging script.

### How they interact

    split contract --> acquisition compiler --> training child --> run manifest
                                 ^  preflight report --^               |
                                 |                                     v
        study views -------------+              load_verified_acquisition_adapter

    training run --> identity, log, adapter --> verify_source_run --> evaluation

    benchmark --> prepare --> packet + mapping --> review server --> overlay +
    manifest --> report --> continuation decision

Arrows are files. A consumer trusts a file because of a status field and a
hash, so the question in each chain is the same: can the state that makes the
consumer accept arise in another way than the one it stands for?

## 2. Modules and how they correspond to the code

| Module | Models | Extends |
|---|---|---|
| `DurableReview` | abstract: what the review server promises | - |
| `ReviewStore` | the review server | - |
| `ReviewChain` | preparation and report around it | `ReviewStore` |
| `EvalRun` | the learning-mechanics evaluation, its watchdog, the wired-limit guard | - |
| `TrainRun` | the learning-mechanics training and what the evaluation accepts | - |
| `AcquisitionRun` | compile, preflight, dry run, execution, verification | - |
| `StudyAttempts` | one generated answer: how the call ended, its parse and its grade | - |
| `StudyRules` | gates, paired comparisons and decisions of the four studies | `StudyAttempts` |
| `SpecializationStudy` | the commands of a study, their directories and files | `StudyRules` |
| `AnswerGrading` | strict and provenance grading of an answer, the promotion gates of a report | - |
| `JudgeRules` | calibration data, metrics, thresholds, certificate, the score of a row | `AnswerGrading` |
| `Judging` | Gemma's lock and lifecycle, two judges in turn, calibration, grading, advisory, preflight | `JudgeRules` |
| `MCReviewStore`, `MCReviewChain`, `MCAcquisitionRun`, `MCSpecializationStudy`, `MCJudging` | instances, inputs, bounds and symmetry for TLC | the module named |
| `ReviewStoreProofs`, `EvalRunProofs`, `TrainRunProofs`, `AcquisitionRunProofs`, `SpecializationStudyProofs`, `JudgingProofs` | proofs | the module named |
| `ReviewChainProofs` | proofs | `ReviewChain`, `ReviewStoreProofs` |

In all of them an action is a stretch of code between two points at which
another actor may see a difference, at which the process may die, or at which
an exception takes another way out. A few definitions stand beside an action
and are not used by `Next` (`SaveCommitUnlocked`, `TrainOneMore`,
`OpenUnlessExecuting`, ...): each is the action with a plausible mistake in it.
Putting it in the place of the action breaks the property it is listed with in
`PROJECT.json`, which shows that the property depends on that code.

### ReviewStore

`serve_review_ui` loads packet, mapping and saved decisions
(`LoadPacket`, `LoadMapping`, `LoadState`), then binds the port (`Bind`). Only
*after* that is a second process on the same port turned away, and different
ports never collide; `Servers`, `Port` and `Reviewer` say which processes are
around. Each request has a thread: a save takes the lock and updates the
dictionary (`SaveCommit`), replaces the state file (`SaveReplace`) or fails to
(`SaveFail`), and answers (`Respond`, `RespondLost`). An export reads the
dictionary row by row without the lock (`ExportRead`), replaces the overlay
(`ExportOverlay`), hashes packet and mapping from disk (`ExportHashPacket`,
`ExportHashMapping`) and replaces the manifest (`ExportManifest`). `Exit` stops
a process at any point, with everything its threads were doing.

A decision is its reviewer, the packet its review ID belongs to and the number
of the save that made it. Rejected requests and GET pages change nothing and
are left out. `acked` is a history variable: what the reviewer was told.

### DurableReview

Two variables: what is saved and what was acknowledged. Saves move forward,
and only what is saved is acknowledged. `ReviewStore!KeepsPromise` maps the
state file to `saved`.

### ReviewChain

Adds `prepare_benchmark_review` (mapping first, then packet, under a new
salt) and `write_benchmark_review_report`, which reads packet, mapping, overlay
and manifest, hashes packet and mapping again, and refuses what does not
match. Hashes are the contents they are taken of. `disturbed` is history: a
preparation wrote while the report was being built.

### EvalRun

`pc` is the main thread of `run_evaluation`: `Install` (wired limit), `Load`,
then for each case `Check` (the watchdog's flags), `Start`, `Generate`,
`Score`, `Announce`; a failing case goes `Failure`, `Record`, `Rest` (the
remaining cases are written off), an exception outside a case goes `Outer`,
and everything goes through `StopSet`, `Join`, `Close`, `Uninstall`, `Pad`,
`Publish`. The watchdog waits and samples (`WatchWait`, `WatchSample`), sets
`breach` or `monitor`, or hangs in a program it runs. Each write may fail,
`Interrupt` is Ctrl-C and `Kill` ends the process. A case is its position in
`EVAL_CASE_ORDER`, a score its status.

### TrainRun

`pc` goes through `run_experiment`: gates (`Diagnose`, `Reference`,
`Optimized`, `Equivalence`, on weights of seed 7), patch, a preflight that
updates weights of seed 42 and throws them away (`LoadPreflight`,
`PreflightStep`, `ReportPreflight`), `Load` of fresh weights of seed 42,
`TrainStep`/`WriteLog` for every case of every epoch,
`CheckCounts`, `SaveAdapter`, `ReloadAdapter`, `Identify`, `Unpatch`, answers
(`Before`, `Generate`, `Compare`), `Manifest`. `Raise` is an exception of the
step at hand, `Interrupt` Ctrl-C, `Outer` and `Finally` the handlers, `Kill`
the end of the process, which may tear the adapter file. Weights are a seed
and the number of updates since loading, which is what the properties tell
apart; losses and outputs are left out. `Accepts` is `verify_source_run`.

### AcquisitionRun

Every command is a process in `Procs` with a parent (`pc`) and, for an
execution or a preflight, a child (`child`) that goes on when its parent is
killed. `Compile` ... `WriteManifest` compile or reuse a dataset;
`OpenPreflight` ... `PreReport` are the preflight. `RequirePreflight` is three
steps: `SkipAttempt` looks from attempt `Newest` downwards for a report,
`CheckReport` reads the first one there and compares its dataset, `HashReport`
reads the file again for the hash that the run manifest names. `found` is the
attempt and the report a command has checked, and stays as history;
`Open` refuses a run name of which any of five artifacts exists;
`WriteConfig`, `Spawn`, `Wait`, `HashAdapter`, `HashCoverage` and
`WriteRunManifest` are the parent of an execution, `Validate`, `Cover`,
`MakeAdapterDir` (the only exclusive step), `Train` and `Exit` its child.
`Stop` and `ChildStop` are an exception or a kill, which are the same here:
neither changes a file. `Verified` is `load_verified_acquisition_adapter`.

One model and its frozen configuration are fixed, so a dataset is known by its
study views and a run by the hash of its dataset manifest, which holds
`created_at` and so stands for the process that wrote it. Audit and log are
not read back; there is only whether they exist. Looking for a report and its
first read are one step, since no report is ever taken away. Only the
model-upgrade profile is modelled: the smoke profile overwrites its files by
design and promises nothing about them.

### StudyAttempts, StudyRules, SpecializationStudy

The four studies share one structure, so one module has the commands of all:
`RunPilot` and `PrepareAudit`, `ValidateOverlay` for the pilot;
`RunQualificationComparison`, `RunRemedyComparison`, `RunFactStateComparison`,
`CorrectGrades`, the three `Prepare...Review`, the three `Score...` and
`RunRegression` for the others. A behaviour is one study (`study`). A command
reads what others wrote when it starts (`job`), may be at work for as long as
it likes, makes its directory (`MakeDirectory`, refused when there is one of
that name), writes its files one by one (`Write`), and may stop at any point
(`Stop`, `GiveUp`). Hashes are the numbers of the commands whose files they are
taken of; a time stamp or a random id in each file makes that exact.
`ReplaceAssets` and `Review` are the people: the frozen files may change or
disagree at any time, and the reviewer may write the advisory while it is
being scored, which reads it and hashes it in two steps (`sheet`, `bound`).

An answer is what parsers and graders tell apart (raised, truncated, malformed,
wrong items, a foreign or a repeated record, sound); a label is an outcome,
whether unsafe claims are listed, and the judgments of the form. `StudyRules`
computes the verdicts from them as the code does: per arm over the rows of the
sheet (`QualifiedArm`, `PassesRemedyGate`, `PassesFactStateGate`), and case by
case between two arms (`Wins`, `Losses`, `FactWins`, ...). The properties state
what a verdict must rest on by the answers and labels themselves, not by these
counts.

### AnswerGrading, JudgeRules and Judging

`Judging` has processes that make calls: `RunGemmaAdvisory`,
`RunGemmaPreflight`, `CalibrateJudges`, `JudgeBenchmark`. A call takes its
judges in turn: acquire (`Lock` with the environment, `Load` or `LoadFails`,
`Refused`), judge a batch (`HaveJudged`, `JudgeRaises`), release in the order of
the code (`Drop`, `RestoreEnvironment`, `Unlock`, `Released`), and goes on to
the next judge, the next row, its result or its files (`GoesOn`,
`CheckAdvisory`, `WriteJson`, `WriteMarkdown`, `WritePreflight`). `registered`
is `_INVOCATION.loaded`, which refuses a second judge in one process and which
advisory and preflight do not use; `lock` is the lock file, which refuses a
second Gemma on one machine. `Exit` is the end of a process at any point,
Ctrl-C included: `acquire` releases on `Exception` only, and a command that is
interrupted ends. The repository has one backend, Gemma; `Other` stands for
the second judge that calibration and grading ask for.

`JudgeRules` has what decides about a certificate: the acceptance of the
labelled data set, rates over case families rather than cases, Cohen's kappa
with quadratic weights, the rates of each error category, and both judges
passing. Scores are in halves, rates are compared as integer fractions.
It also gives a benchmark row its final score (`DualScore`, `AdvisoryScore`,
`Attempted`).

`AnswerGrading` is deterministic grading. A question has slots, each with a
text it expects and texts it forbids; `NormalForm` is what `_normalize_declared`
makes of a text. An answer is what the extractors find in it: values of each
slot type in normal form, dates without year or day, times without zone,
citations (an empty one is `None`), modal words and whether it claims to have
looked something up. `GradeSlot` and `StrictStatus` are strict grading,
`Hallucinated` and `ProvenanceHardFail` provenance grading, `GradeRow` the two
together. `Gates` are the promotion gates over the rows of each arm:
`Observed` and `Passed` are `_gate_observations`, `GateStatus` is
`evaluate_gate`, where `UnitsNeeded` is a table for the exact binomial bound.
A malformed number slot next to another raises out of grading (`Gradable`), and
no command gets further with such an artifact (`CanGrade`).

## 3. Runs

All runs that say "pass" finish with no error. State counts are of distinct
states.

| Run | Instance | States | What it shows |
|---|---|---|---|
| `review_one` | 1 process, 2 threads, 2 cases, 3 saves | 90 360 | Through failing writes, exits and restarts the server implements `DurableReview`: what was answered stays saved (`AckedDurable`, `KeepsPromise`). Saves exclude each other, exports are not stale, and every request ends. |
| `review_two_lost` | 2 processes of one reviewer on one port | - | *Violation* of `AckedDurable`: see section 6. |
| `review_chain` | 2 processes with own ports and reviewers of one slug, 2 threads, 1 case, 2 packets, 2 saves | 2 438 109 | Whatever two processes do to shared files, an overlay is never a mixture; with a second preparation and a report at any moment, memory holds decisions on the loaded packet only, a report scores one export, its hashes agree. |
| `review_chain_stale` | 1 process, 2 threads, 1 case, 2 packets, 2 saves | - | *Violation* of `ReportNamesReviewedPacket`: see section 6. |
| `eval_run` | 3 cases | 37 044 | Rows follow cases and are backed by files, completed means all, a started case is not called not attempted without a report, at most one attempt after the flag, the limit restored, and the run ends. |
| `train_run` | 5 cases, 8 epochs, 3 preflight updates | 1 036 | Acceptance means trained, the log keeps up, gates come first, the kernel fits the phase, verdict and files agree. |
| `acquisition_run` | 3 commands, 2 datasets, attempts 1 and 2, 2 epochs | 1 321 991 | Verified means trained, let through by a preflight of its dataset, and a verified run at rest stays as it is. |
| `acquisition_dry_run` | 3 commands, 1 dataset | - | *Violation* of `DryRunCanBeRepeated`: see section 6. |
| `specialization` | each study with 2 cases; 3 commands, 4 in the fact-state study | 398 051 | No directory has two writers; labels are counted for the answers they were given to; passes, selections, regressions and accepted repairs are earned. |
| `sole_regression` | the fact-state study, 1 case, 6 commands, 2 advisories, 2 labels, files never replaced | - | *Violation* of `SoleRegression`: see section 6. |
| `judging` | 2 processes, 2 calls, 5 cases in 4 families, 9 rows of 2 arms | 501 340 | One judge at a time, a call leaves nothing behind, certificates and scores are earned. |
| `stale_gate` | the same, 1 call | - | *Violation* of `StaleAnswersFailTheirGate`: see section 6. |

### Why the bounds are enough

- **Review.** `MaxSaves` is the only bound that is not in the code. Three saves
  on two cases give an older and a newer decision on one case while another
  case is saved, which is the smallest situation in which a save can write
  away another; two threads give save against save and save against export.
  Threads and cases are interchangeable and declared symmetric, except in
  `review_one`, which checks liveness, for which symmetry is not sound.
  The safety properties are proved
  for any number of everything.
- **Chain.** A report distinguishes the packet it found from another; two
  packets are enough for that, and one case is enough because a decision
  carries its packet. An overlay that mixes reviewers has a row of another than
  its own, which one case shows. `AtOnce` lets both processes be up together
  only while no packet has been prepared again and nothing is being reported:
  the second part needs one process, the first neither preparation nor report.
  Its safety properties are proved without these bounds.
- **Evaluation.** Three cases have a first, a last and one with a case on
  either side. The theorems are for any number.
- **Training.** The instance is the real one: `FROZEN_SETTINGS` of the code has
  five cases, eight epochs and forty updates. Every loop runs its full length.
- **Acquisition.** Three commands are needed for an execution to be verified at
  all while another races with it (a preflight, then two executions). Two
  datasets and two attempts give a newest report of the wrong dataset, and two
  preflights of one attempt around an execution replace the report between its
  check and its hash: manifests that name a preflight of the other dataset are
  among the states. Two
  epochs tell a checkpoint from a result. `Newest` is 10 in the code; an
  attempt above it is accepted and its report is never read, which the instance
  does not contain.

- **Specialization.** A decision needs three commands (comparison, review,
  score) and a regression a fourth, so `MaxCommands` is 3, or 4 in the
  fact-state study; commands may be at work together in the pilot (`MaxRunning`
  2), whose directories have the same life in every study. Two cases let one
  case hide behind the other in a rate (`MinPercent` 50). `MaxFaults` replies
  that are not in order: one, and two in the pilot, where a repair needs a
  student that failed first. `MaxFlaws` labels with an objection: one, and two
  in the remedy study, whose paired rules weigh two labels against each other;
  none in the pilot, whose human audit decides nothing. `MaxAdvisories` is 1:
  the reviewer's file is written once, before or after any command. The faults
  and labels are those that differ in some rule. `sole_regression` has room for
  two scorings of one comparison, which takes a second advisory, and leaves out
  what plays no part in it: replaced files, faults and other labels. The theorems
  are for any number of cases, commands, faults, objections and advisories.
- **Judging.** Two processes are needed to compete for the lock; one makes
  every kind of call, the other the two that need only Gemma (`MCMakes`), which
  use the same `acquire` and `release`. Two calls in one process let the second
  meet what the first left behind. `MaxFlaws` is 1: in a calibration one verdict
  of one judge is not the human's, which is enough to fail any threshold of the
  instance or to pass it. One family has two variants, and one case is in the
  audit stratum. The benchmark has nine rows in two arms: two that are in place,
  one of them with a time whose zone is left open, and one for each way to fail
  (cut off, the superseded amount alone and beside the current one, another day,
  a made-up and an empty citation, a claimed look-up). Of a row that should not
  reach a judge the judge says full marks. The theorems are for any processes,
  calls, cases, rows, thresholds and verdicts.
- **Gates.** The code asks for 299 clean units or more; the instance's
  `UnitsNeeded` asks for one, so that a gate passes at all.

`CHECK_DEADLOCK FALSE` is set where a run of the program ends: evaluation,
training, the acquisition and study commands, and the judges' calls. The review
server never stops for good, and its runs check for deadlock.

### Properties

| Property | In words |
|---|---|
| `AckedDurable` | What was answered is on disk, or a later decision of that case is. |
| `WriteSection` | Between a save's update and its file no other save commits. |
| `OverlayNotStale` | An export has for each case a decision no older than at its request. |
| `OverlayProvenance` | An overlay is one reviewer's, on one packet. |
| `DecisionsOfLoadedPacket` | Memory holds decisions of its reviewer on its packet. |
| `KeepsPromise` | The server implements `DurableReview`. |
| `RequestsEnd` | Each request ends. |
| `ReportScoresOneExport`, `ReportChainConsistent` | A report scores one export, and undisturbed its hashes name one preparation. |
| `RowsFollowCases`, `RowsBacked`, `CompletedMeansAll`, `NotAttemptedExplained` | What the comparison of an evaluation says is so. |
| `OneLateAttempt` | The watchdog's flag is late for one attempt at most. |
| `LimitRestored` | A returning evaluation restored the limit or reports why not. |
| `RunEnds` | An evaluation ends even if a sample hangs. |
| `AcceptedMeansTrained` | An accepted training made every update, on fresh weights, behind both gates. |
| `LogKeepsUp`, `GatesBeforeTraining`, `KernelOfPhase`, `VerdictFitsFiles` | The files and the process state of a training tell the truth at every moment. |
| `VerifiedMeansTrained` | A verified adapter is the last checkpoint of one training that exited well. |
| `PreflightBeforeTraining` | A trained run was let through by a preflight that exercised its own dataset; it names that one, or one that raced with it for the same attempt. |
| `RestIsFinal` | A verified run that no process holds is never touched again. |
| `OneWriter` | No two commands write into one directory of a study. |
| `ScoredAsReviewed` | A decision counts one label for every arm and case, given to the answer of the comparison it binds, generated from the frozen files it is scored under. |
| `PassesAreEarned` | No arm passes on an answer that failed or a label that objects. |
| `SelectionIsEarned` | The remedy study's challenger is selected only if it is worse on no case and better on some. |
| `RegressionIsAuthorized` | A regression rests on a finished decision of the same frozen files, whose candidate passes, is better than the control somewhere and gives up nothing the control kept. |
| `RepairsAreEarned` | A repair is accepted only for a case the student failed, from a teacher that answered everything and with nothing against the repair. |
| `OneJudge` | One judge in a process, one Gemma on a machine, and only offline. |
| `NothingLeft` | A call that ended, well or not, left no judge, lock or environment behind. |
| `ResultsAreEarned` | A certificate rests on approved labels and both judges' verdicts, a score on an answer without a certain failure and on what was said of it. |

## 4. Fairness

Safety needs none. Two specifications have it:

- `ReviewStore!FairSpec`: weak fairness of `Answer(t)` for each request thread.
  The operating system runs a thread that can run, and a thread waiting for the
  lock can take it when it is free. Nothing is assumed of people: processes
  need not start, requests need not come. Weak fairness is enough because
  `MaxSaves` bounds how often the lock can be taken by others; Python's lock
  promises no order, so with unbounded contention a thread could starve, and the
  run does not claim otherwise. A failing write is a step like any other.
- `EvalRun!FairSpec`: weak fairness of the main thread, whose calls return
  (generation has no timeout in the code, so a hanging model would break it),
  and of the watchdog's `wait`, which has a timeout. A sample is *not* fair:
  it may hang in a program it started, which is the case `RunEnds` is about.

The other modules state no liveness property: a command may be killed at every
step, no code restarts it, and none waits for another.

## 5. Proofs

Each proof module has 0 unproved leaves. Every safety and action property of
the passing runs is a theorem, listed under `theorems` in `PROJECT.json`. All
are for every value of the constants under the named assumptions of the modules
(`ConstantsAssumption`, `NoneAssumption`, `EvalConstants`, `NoneIsNoStatus`,
`TrainConstants`, `AcquisitionConstants`, `StudyConstants`, `RuleConstants`,
`NoneIsNoAnswer`, `NoneIsApart`, `GradingConstants`, `CaseConstants`,
`NoneIsNoVerdict`, `JudgingConstants`), which say no more than that counts are
natural numbers, where necessary positive, that sets of cases are finite, that
tables have an entry for each key, that `None` and `Torn` are no ordinary
values, and that the two judges differ. TLC evaluates them in the runs.

**ReviewStoreProofs.** The inductive invariant grows in three layers. `HomeInv`
adds to types that a busy thread belongs to a running process. `ProvenanceInv`
adds what an export has gathered so far, which `OverlayProvenance` says nothing
of until it is on disk. `FreshInv` adds that save numbers only grow
(`NumbersUsed`) and that memory does not go back during an export
(`FloorInMemory`). These make `StoreInv`, which holds for any number of
processes: theorems `TypeCorrect`, `WriteSectionHolds`, `ProvenanceHolds`,
`MemoryIsOwnWork`, `OverlayNotStaleHolds`. Durability is false for two processes
(section 6), so `AckedDurableHolds` and `KeepsPromiseHolds` assume `OneServer`;
`DurableInv` strengthens `AckedDurable` by the three facts that carry a decision
from memory through the file to the answer: memory covers the file, the file is
of the loaded packet, and what is about to be answered is on disk. The
refinement is proved step by step: `SaveReplace` is `Save`, `Respond` is `Ack`,
all else stutters.

**ReviewChainProofs.** `ChainInv` is `StoreInv`, the types of the report and
what a report at work has read so far (`ReportInv`): an overlay that passed its
checks is complete and of one reviewer and packet (`OverlayRead`), the manifest
is of that overlay and not of another export (`ManifestRead`), and what has been
compared is still on disk unless a preparation wrote in between (`StillOnDisk`).
The last is what makes `ReportChainConsistent` inductive: the report reads each
file once and hashes packet and mapping in a second pass, and only the history
variable `disturbed` tells whether the two readings are of one file.
`StoreInvAnyPacket` carries the server's proof over: none of its invariants
depends on which packet lies on disk, so a preparation is a step it does not
notice. `ChainKeepsPromise`, like `KeepsPromiseHolds`, is for one server.

**EvalRunProofs.** `EvalInv` ties the position in the loop to the rows
(`RowsInv`), the rows to the files (`FilesInv`), the status to the rows
(`StatusInv`), a started case to a row, the attempt in progress or a failure
report on its way (`StartInv`), the flag to the one attempt that may be late
(`LateInv`), and the limit to the guard (`LimitInv`). `StartInv` is the part a
reader would miss: `NotAttemptedExplained` is about a finished comparison, and
is only kept because every way to lose the row of a started case leads through
a handler that reports.

**TrainRunProofs.** `TrainInv` has the arithmetic of two nested loops
(`CountInv`: `update = epoch * N + local - 1`, and the exposures that follow),
what is true once past the gates (`GateInv`), that the model in training has
exactly the counted updates (`ModelInv`), the log (`LogInv`), that whatever was
saved whole was saved after the last update (`AdapterInv`), and the reports,
verdicts and kernel (`ReportInv`, `VerdictInv`, `KernelInv`).

**AcquisitionRunProofs.** `IInv` has, besides types and shape, that a run's
name leads to its dataset (`CompileInv`), that only the child which made the
adapter directory writes weights (`TrainingInv`), that a report on disk is of a
child that got through and of its attempt (`PreInv`), and that what a parent
has gathered, and what a run manifest says, is true (`EvidenceInv`,
`ManifestInv`): the report it checked is of its dataset (`LetThrough`), the
one it hashed is of the same attempt (`Names`). The lemmas `Kept` and
`StillTrue` carry the argument: what is settled of a process (its job, its run
name, the report it checked, a child that has exited) stays, so evidence that
was true when gathered is true when written. For
`PreflightBeforeTrainingHolds` it is enough that two reports of one child are
equal: if the report named is not the report checked, another command for the
same attempt has written it. `RestIsFinalHolds` is an action property, proved from
`IInv` and the exists checks of `Open`.

**SpecializationStudyProofs.** Between looking for a directory and making it a
command works for hours, on files it has read before; other commands start,
finish and die meanwhile. `IInv` therefore says of each command what it rests on
(`JobInv`, by `Known`): the comparison, packet and decision it has read are of
commands whose directories are made, and such a command never changes again. Of
each directory that is made `MadeInv` says what `Concluded` says of its command:
the answers are those of its study, and verdict and repairs are earned by them
and by the labels read (`EarnedVerdict`, `RepairsOf`). `OneWriter` is part of
the invariant, since "never changes again" is only true if no second command can
make the same directory. `AdvisoryInv` says that the reviewer's file labels the
rows of one packet that is made, `FlawInv` that all commands together have no
more faults than their bound. The definitions a command's job is described by
take jobs, directories and files as arguments, so that one lemma (`KnownStays`,
`ConcludedStays`) says for all of them that what was true stays true as these
grow.

Below that lies the arithmetic of the rules. `LabelOfSlot` reads a label off a
sheet; `GateEarns` says what the counts of a gate mean for the single answer and
label: a rate of all is every one, and none of a kind is none. `SelectionEarned`
is the paired rule of the remedy study, by `JudgmentRanks` and `WinsAre`,
`AuthorizationEarned` that of the fact-state study by `MorePointsIsBetter`,
`RepairsEarned` the selection of repairs under their bound. They hold for
all labels that the reviewer's form lets through.

**JudgingProofs.** `IInv` says that where a call is determines what its process
has (`ProcInv`): it holds the lock exactly from `Lock` to `Unlock`, when its
judge is Gemma; its memory and its table have at most that judge, and only while
it judges or drops; the environment is changed exactly while the lock is held,
but for the step between restoring it and unlocking. `OneJudge` and
`NothingLeft` follow at once; neither is inductive, since nothing in them says
which judge is dropped or whose environment was saved. `CallInv` adds that a
call is at one of its judges, of which `GoesOnIsCall` is the only step to need
proof. `OwnKeeps` carries the argument from one process to all: a step takes
only a free lock and gives back only its own. `ReviewedMeansInPlace` is about
grading: a row with the status "review" is `InPlace`, for all questions, normal
forms and answers. `InPlace` says it by what the answer contains, grading by the
best relation of each slot; the lemma `SlotInPlace` relates the two, slot by
slot. `InPlaceMeansReviewed` is the converse: what is in place is left to the
judges, unless a slot of the question is malformed or forbids a citation (and
thereby all). `PassedGatesAreClean` is about the promotion gates that tolerate
no failure: if one passes, not even one row among those it observes fails,
though it counts units and not rows.

A second layer, `ResultsInv`, is about what is concluded. `WorkInv` says of a
call which judges have spoken in it (`Judged`) and that what each said is a
verdict on each case or row it was asked about (`SeenInv`), and which results a
call of its kind may have already (`KindInv`). `MovedKeeps` is the frame: a
call that only goes on to another place keeps all this. The steps that count are
the last answer of the last judge. There `CertificateEarned` turns the
thresholds into statements on families of cases (`PassesMeans`), and
`DualScoresEarned` and `AdvisoryScoresEarned` the score of each row into what
judges and deterministic grading said of it. `ResultsAreEarned` is for any
thresholds; that every family must have agreed follows only when the least
agreement asked for is positive, and the property says so.

### Only model-checked

The liveness properties `RequestsEnd` and `RunEnds`, since fairness is out of the
prover's reach, and the five violations, which are facts about instances.

### What the proofs changed in the model

- Sums over a set were folds. What a fold computes for every set takes
  induction over data, which the provers cannot do here, so scores that count
  (`FactScore`, `AllAttempted`) are cardinalities of the set of points or halves
  that are counted. The value is the same.
- A label could be any record; `Assessments` now says which answers the
  reviewer's form lets through, without which a paired comparison compares
  nothing.
- `ReplaceAssets` named the versions 1 and 2 of the frozen files; it goes to any
  other version.
- The certificate was said to rest on every family of cases. With a least
  agreement of zero, which the caller of the code may choose, it does not.

## 6. Where the code and its documents disagree

1. **A second review server can lose an answered decision**
   (`review_two_lost`). `review_ui.py:527` loads the saved decisions before
   `:534` binds the port. A second process for the same reviewer may load, wait
   while the first saves and exits, bind, and write back what it loaded. The
   program says "Progress is saved after every decision."
2. **An export can claim a packet that was not reviewed**
   (`review_chain_stale`). `review_ui.py:263` hashes packet and mapping from
   disk at export time, not what the server loaded. After a new preparation,
   old decisions are exported under the new hashes, and the check "overlay
   belongs to another review packet" (`benchmark_review.py:1024`) passes.
3. **A dry run cannot be followed by the execution it advises**
   (`acquisition_dry_run`). It writes its config and manifest under the
   immutable name of the run; the same command with `--execute` then refuses
   (`acquisition_training.py:269`), although the dry run ends with "Repeat with
   --execute only after the required disposable preflight has passed."
4. **The sole regression can be run twice** (`sole_regression`).
   `specialization_fact_state_experiment.py:711` looks for a regression of the
   same decision *file*. Scoring the comparison again with a revised advisory, or
   under another output root, writes another authorizing decision, and a second
   regression is run, although `cli.py:581` and the protocol of the study
   (`conditional_v3_regression_passes: 1`) allow one.
5. **The gates on superseded values observe nothing** (`stale_gate`).
   `grading.py:593` looks for the superseded value, as written ("£500"), among
   the forbidden values of a slot's result, which are normal forms ("GBP 500").
   On the frozen scenarios `stale_current_answer` and `old_new_conflation` are
   `insufficient_data` whatever the answers say, although "A superseded value
   presented as current is a critical failure." (`gates.py:249`). The answer
   itself is still a hard failure.

## 7. What is not modelled

- *In the modelled components*: page rendering and read-only pages of the
  review server; the score of a report (its inputs are modelled); verification
  of the source run before an evaluation and the scores themselves; the
  numerical content of kernels, losses and outputs; the smoke profile and the
  diagnostics report of the acquisition. The exposure schedule and the checks
  of study views count as "passes or raises".
- *Failures below the process*: `os.replace` is atomic and survives the exit of
  the process; loss of power and a lying disk are not modelled.
- *Studies*: prompts, renderings and templates, the evaluation of policy trees,
  the comparison with the historical evaluator, the diagnosis of disagreements
  and the seed of real work.
- *Judging*: confidence intervals and domain slices, which decide nothing; prompts
  and their hashes; costs in the report of an advisory; finding values in
  the text of an answer and normalising declarations, which are tables; citation
  completeness and refusals, which decide nothing. Ctrl-C inside `acquire` of a
  process that goes on.
- *Components without a module*: the benchmark runner and structured inference
  write once and in sequence; operating point, split contract and leakage are
  pure functions; see the plan.
- *Not planned*: the legacy pipeline (blocked by `legacy_guard`), hardware
  detection, argument parsing and the packaging script have nothing to
  interleave; embeddings, grammars and the mlx library are external; text
  extraction by regular expressions and floating-point bounds are not TLC's
  subject.

Some things are known and left aside because no document promises anything
about them: a breach of the watchdog in the last case of an evaluation shows in its
samples only; the training restores the setter of the wired limit and not the
limit; an execution that loses the race for the adapter directory has replaced
the coverage report before, so a finished training may be refused for good;
a preflight that raced for the same attempt may replace the report between its
check (`cli.py:1725`) and its hash (`cli.py:1751`), so a trained run may name a
preflight of another dataset than its own, though one of its own let it through;
a command killed between making a directory and its report blocks its own
repetition; two advisories of one benchmark may leave the JSON of one next to
the Markdown of the other, since the lock is released before the files are
looked for. Two more come from grading, by its normal forms and its inputs: the
unknown-scope questions forbid "[record:", whose normal form is the word
"record", so only provenance grading sees what they cite; and grading is given
no superseded records, so a citation of one as current is not found.

## 8. Plan

In order of how much of the system's trust rests on the part; the abstract
specification worth stating and the theorem worth proving are named.

1. `ReviewStore`, `DurableReview` - done, proved.
2. `ReviewChain` - done, proved.
3. `EvalRun` - done, proved.
4. `TrainRun` - done, proved.
5. `AcquisitionRun` - done, proved.
6. `SpecializationStudy` with `StudyAttempts` and `StudyRules` - done, proved.
7. `Judging` with `JudgeRules` and `AnswerGrading` - done, proved.
8. `BenchmarkRun`, `StructuredRun`: plan, rows and the artifact written once.
   Theorem: one row per planned case.
9. The rest of the governed score, operating point, `SplitContract`,
   exposure schedule: pure operators, each checked against a reference
   definition over bounded inputs; the folds are written without recursive
   operators so that they can be proved about.
