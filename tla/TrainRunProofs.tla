---------------------------- MODULE TrainRunProofs ----------------------------
(***************************************************************************)
(* What TrainRun guarantees for every number of cases, epochs and          *)
(* preflight updates, wherever a run raises, is interrupted or is killed.  *)
(***************************************************************************)
EXTENDS TrainRun, TLAPS

Trained == [seed |-> 42, updates |-> Total]

(* Where a run is: groups of steps.                                        *)
BeforeGate == Setup \cup {"diagnose", "reference", "optimized", "equivalence",
                          "refuse"}
BeforeTraining == BeforeGate \cup Preflight \cup
  {"patch", "fail preflight", "refuse preflight", "load"}
Updating == {"train", "log", "adapter"}
Saving == {"reload", "identity"}
Saved == {"unpatch", "before", "generate", "manifest"}
Running == Setup \cup Preflight \cup Body \cup {"outer"}

(* The counters of the two loops agree.                                    *)
CountInv ==
  /\ update = epoch * N + (local - 1)
  /\ epoch = Epochs => local = 1
  /\ \A c \in Cases : exposures[c] = IF c < local THEN epoch + 1 ELSE epoch
  /\ pc \in BeforeTraining => update = 0

(* Training has passed both gates.                                         *)
GateInv ==
  /\ pc \in {"patch", "load"} \cup Preflight => equivalence = "passed"
  /\ pc = "load" \/ pc \in Updating => preflight = "passed"
  /\ pc \in Updating \cup {"load"} => equivalence = "passed"
  /\ update > 0 => equivalence = "passed" /\ preflight = "passed"

(* The weights loaded: a model is there when a step updates or saves it,   *)
(* and during training it has had exactly the counted updates.             *)
ModelInv ==
  /\ pc = "preflight" => model # None
  /\ pc \in Updating => model = [seed |-> 42, updates |-> update]
  /\ pc = "adapter" => update = Total

LogInv ==
  /\ update > 0 =>
       \/ log = None /\ update = 1
       \/ log # None /\ log.updates \in {update - 1, update}
  /\ update = 0 => log = None
  /\ pc = "log" => update > 0
  /\ pc = "train" /\ update > 0 => log # None /\ log.updates = update

(* What is saved, and what the identity names, are the trained weights.    *)
AdapterInv ==
  /\ pc \in BeforeTraining \cup Updating \cup Saving => identity = None
  /\ pc \in BeforeTraining \cup Updating => adapter = None
  /\ pc \in Saving \cup Saved => adapter = Trained
  /\ pc \in Saved => identity = Trained
  /\ identity # None => adapter = Trained /\ identity = Trained
  /\ adapter \notin {None, Torn} => adapter = Trained
  /\ adapter # None => update = Total

ReportInv ==
  /\ pc \in BeforeGate \cup {"patch"} => report = None
  /\ pc \in BeforeGate \cup Preflight \cup {"patch", "fail preflight"}
       => preflight = None
  /\ pc = "report preflight" => report = "passed"
  /\ pc = "fail preflight" => report = "failed"
  /\ pc \in Body \cup {"outer"} => (report = "passed" <=> preflight = "passed")

VerdictInv ==
  /\ pc \in Running => manifest = None /\ failure = None
  /\ manifest = None \/ failure = None
  /\ (pc = "finally" /\ ~raising) \/ pc = "returned" =>
       manifest # None \/ failure # None
  /\ failure # None =>
       (failure = "failed_after_preflight" <=> preflight = "passed")
  /\ manifest = "completed_40_update_run" =>
       /\ adapter = Trained /\ identity = Trained
       /\ before /\ after = N /\ comparison
  /\ pc \in {"generate", "manifest"} => before
  /\ pc = "manifest" => after = N /\ comparison

KernelInv ==
  /\ pc \in {"optimized", "fail preflight", "refuse preflight", "load",
             "unpatch"} \cup Preflight \cup Updating \cup Saving => patched
  /\ pc \in Setup \cup {"diagnose", "reference", "equivalence", "refuse",
             "patch", "before", "generate", "manifest"} => ~patched
  /\ pc \in Setup => ~capped
  /\ pc \in {"returned", "raised"} => ~patched /\ ~capped

TrainInv ==
  /\ TypeOK /\ CountInv /\ GateInv /\ ModelInv /\ LogInv /\ AdapterInv
  /\ ReportInv /\ VerdictInv /\ KernelInv

-----------------------------------------------------------------------------
(* The loops stay within the bound on updates.                             *)
LEMMA LoopBound ==
  ASSUME NEW n \in Nat \ {0}, NEW last \in Nat, NEW e \in 0 .. last,
         NEW l \in 1 .. n, e < last
  PROVE  /\ e * n + l <= last * n
         /\ (e + 1) * n = e * n + n
         /\ e * n + l \in Nat
<1>1. (e + 1) * n = e * n + n
  OBVIOUS
<1>2. (e + 1) * n <= last * n
  <2>1. PICK d \in Nat : last = e + 1 + d
    <3>1. last - (e + 1) \in Nat
      OBVIOUS
    <3>. QED BY <3>1
  <2>2. last * n = (e + 1) * n + d * n
    BY <2>1
  <2>3. d * n \in Nat /\ (e + 1) * n \in Nat
    OBVIOUS
  <2>. QED BY <2>2, <2>3
<1>3. e * n \in Nat /\ last * n \in Nat
  OBVIOUS
<1>. QED BY <1>1, <1>2, <1>3

(* The bound on updates is a positive number.                              *)
LEMMA TotalPositive == Total \in Nat /\ Total > 0
BY TrainConstants DEF Total

(* None is none of the statuses and no weights.                            *)
LEMMA NoneApart ==
  /\ None \notin {"passed", "failed", "failed_after_preflight",
                  "failed_equivalence", "failed_preflight",
                  "completed_40_update_run"}
  /\ \A w \in Weights : w # None /\ w # Torn
  /\ \A entry \in Logs : entry # None
BY TrainConstants DEF Verdicts, Failures

(* What is logged is a log.                                                *)
LEMMA LoggedIsLog ==
  ASSUME TypeOK
  PROVE  Logged \in Logs /\ Logged # None /\ Logged.updates = update
<1>1. update \in Nat
  BY TotalPositive DEF TypeOK
<1>2. Logged \in Logs
  BY <1>1 DEF TypeOK, Logged, Logs
<1>. QED
  BY <1>2, NoneApart DEF Logged

(* The initial state satisfies every part of the invariant.                *)
LEMMA InitInv == Init => TrainInv
<1> SUFFICES ASSUME Init PROVE TrainInv
  OBVIOUS
<1> USE TrainConstants, TotalPositive DEF Init
<1>1. TypeOK
  <2>1. /\ epoch \in 0 .. Epochs /\ local \in 1 .. N
        /\ update \in 0 .. Total
        /\ exposures \in [Cases -> 0 .. Epochs]
    OBVIOUS
  <2>2. pc \in Steps /\ round \in Nat /\ after \in 0 .. N
    BY DEF Steps, Setup
  <2>. QED
    BY <2>1, <2>2 DEF TypeOK
<1>2. CountInv
  <2>1. update = epoch * N + (local - 1)
    OBVIOUS
  <2>2. \A c \in Cases : c \in 1 .. N
    BY DEF Cases
  <2>. QED
    BY <2>1, <2>2 DEF CountInv
<1>3. GateInv
  BY NoneApart DEF GateInv, Preflight, Updating
<1>4. ModelInv
  BY NoneApart DEF ModelInv, Updating
<1>5. LogInv
  BY NoneApart DEF LogInv
<1>6. AdapterInv
  BY NoneApart
  DEF AdapterInv, BeforeTraining, Updating, Saving, Saved, Trained,
      BeforeGate, Preflight, Setup
<1>7. ReportInv
  BY NoneApart DEF ReportInv, BeforeGate, Preflight, Body, Setup
<1>8. VerdictInv
  BY NoneApart DEF VerdictInv, Running, Trained, Setup, Preflight, Body
<1>9. KernelInv
  BY NoneApart DEF KernelInv, Preflight, Updating, Saving, Setup
<1>. QED
  BY <1>1, <1>2, <1>3, <1>4, <1>5, <1>6, <1>7, <1>8, <1>9 DEF TrainInv

(* An update keeps the counters of the loops in step.                      *)
LEMMA TrainStepCounts ==
  ASSUME TypeOK, CountInv, TrainStep
  PROVE  CountInv'
<1>1. /\ epoch \in 0 .. Epochs - 1 /\ local \in 1 .. N /\ N \in Nat \ {0}
      /\ Epochs \in Nat
  BY TrainConstants DEF TypeOK, TrainStep
<1>2. (epoch + 1) * N = epoch * N + N /\ epoch * N \in Nat
  BY <1>1
<1>3. update' = epoch' * N + (local' - 1)
  <2>1. CASE local = N
    BY <1>1, <1>2, <2>1 DEF CountInv, TrainStep
  <2>2. CASE local # N
    BY <1>1, <1>2, <2>2 DEF CountInv, TrainStep
  <2>. QED
    BY <2>1, <2>2
<1>4. epoch' = Epochs => local' = 1
  BY <1>1 DEF TrainStep
<1>5. ASSUME NEW c \in Cases
      PROVE  exposures'[c] = IF c < local' THEN epoch' + 1 ELSE epoch'
  <2>1. c \in 1 .. N
    BY DEF Cases
  <2>2. exposures'[c] = IF c = local THEN exposures[c] + 1 ELSE exposures[c]
    BY DEF TypeOK, TrainStep
  <2>3. exposures[c] = IF c < local THEN epoch + 1 ELSE epoch
    BY DEF CountInv
  <2>4. CASE local = N
    BY <1>1, <2>1, <2>2, <2>3, <2>4 DEF TrainStep
  <2>5. CASE local # N
    BY <1>1, <2>1, <2>2, <2>3, <2>5 DEF TrainStep
  <2>. QED
    BY <2>4, <2>5
<1>6. pc' \notin BeforeTraining
  BY DEF TrainStep, BeforeTraining, BeforeGate, Setup, Preflight
<1>. QED
  BY <1>3, <1>4, <1>5, <1>6 DEF CountInv

(* Every variable keeps its type.                                          *)
LEMMA TypeOKStep ==
  ASSUME TrainInv, [Next]_vars
  PROVE  TypeOK'
<1>. TypeOK /\ CountInv /\ ModelInv /\ AdapterInv
  BY DEF TrainInv
<1>1. CASE Begin
  <2>1. pc' \in Steps
    BY <1>1 DEF TypeOK, Begin, Steps, Setup, Preflight, Body, Ends
  <2>2. /\ epoch' \in 0 .. Epochs /\ local' \in 1 .. N
         /\ update' \in 0 .. Total
         /\ exposures' \in [Cases -> 0 .. Epochs]
    BY <1>1 DEF TypeOK, Begin, loop
  <2>3. UNCHANGED <<model, patched, capped, round, report, raising,
                    equivalence, preflight, log, adapter, config,
                    identity, before, after, comparison, manifest,
                    failure>>
    BY <1>1 DEF Begin, process, gates, trained, results, verdict
  <2>. QED
    BY <2>1, <2>2, <2>3 DEF TypeOK
<1>2. CASE InstallCeiling
  <2>1. pc' \in Steps
    BY <1>2 DEF TypeOK, InstallCeiling, Steps, Setup, Preflight, Body, Ends
  <2>2. /\ epoch' \in 0 .. Epochs /\ local' \in 1 .. N
         /\ update' \in 0 .. Total
         /\ exposures' \in [Cases -> 0 .. Epochs]
    BY <1>2 DEF TypeOK, InstallCeiling, loop
  <2>3. UNCHANGED <<model, patched, round, report, raising, equivalence,
                    preflight, log, adapter, config, identity,
                    before, after, comparison, manifest, failure>>
    BY <1>2 DEF InstallCeiling, process, gates, trained, results, verdict
  <2>4. capped' \in BOOLEAN
    BY <1>2 DEF InstallCeiling, TypeOK
  <2>. QED
    BY <2>1, <2>2, <2>3, <2>4 DEF TypeOK
<1>3. CASE Diagnose
  <2>1. pc' \in Steps
    BY <1>3 DEF TypeOK, Diagnose, Fresh, Steps, Setup, Preflight, Body, Ends
  <2>2. model' \in Weights \cup {None}
    BY <1>3 DEF TypeOK, Diagnose, Fresh, Weights, Seeds
  <2>3. /\ epoch' \in 0 .. Epochs /\ local' \in 1 .. N
         /\ update' \in 0 .. Total
         /\ exposures' \in [Cases -> 0 .. Epochs]
    BY <1>3 DEF TypeOK, Diagnose, Fresh, loop
  <2>4. UNCHANGED <<patched, capped, round, report, raising, equivalence,
                    preflight, log, adapter, config, identity,
                    before, after, comparison, manifest, failure>>
    BY <1>3 DEF Diagnose, Fresh, process, gates, trained, results, verdict
  <2>. QED
    BY <2>1, <2>2, <2>3, <2>4 DEF TypeOK
<1>4. CASE Reference
  <2>1. pc' \in Steps
    BY <1>4 DEF TypeOK, Reference, Steps, Setup, Preflight, Body, Ends
  <2>2. /\ epoch' \in 0 .. Epochs /\ local' \in 1 .. N
         /\ update' \in 0 .. Total
         /\ exposures' \in [Cases -> 0 .. Epochs]
    BY <1>4 DEF TypeOK, Reference, loop
  <2>3. UNCHANGED <<model, capped, round, report, raising, equivalence,
                    preflight, log, adapter, config, identity,
                    before, after, comparison, manifest, failure>>
    BY <1>4 DEF Reference, process, gates, trained, results, verdict
  <2>4. patched' \in BOOLEAN
    BY <1>4 DEF Reference, TypeOK
  <2>. QED
    BY <2>1, <2>2, <2>3, <2>4 DEF TypeOK
<1>5. CASE Optimized
  <2>1. pc' \in Steps
    BY <1>5 DEF TypeOK, Optimized, Steps, Setup, Preflight, Body, Ends
  <2>2. round' \in Nat
    BY <1>5, TrainConstants DEF TypeOK, Optimized
  <2>3. /\ epoch' \in 0 .. Epochs /\ local' \in 1 .. N
         /\ update' \in 0 .. Total
         /\ exposures' \in [Cases -> 0 .. Epochs]
    BY <1>5 DEF TypeOK, Optimized, loop
  <2>4. UNCHANGED <<model, capped, report, raising, equivalence,
                    preflight, log, adapter, config, identity,
                    before, after, comparison, manifest, failure>>
    BY <1>5 DEF Optimized, process, gates, trained, results, verdict
  <2>5. patched' \in BOOLEAN
    BY <1>5 DEF Optimized, TypeOK
  <2>. QED
    BY <2>1, <2>2, <2>3, <2>4, <2>5 DEF TypeOK
<1>6. CASE Equivalence
  <2>1. pc' \in Steps
    BY <1>6
    DEF TypeOK, Equivalence, EquivalenceAs, Steps, Setup, Preflight, Body,
        Ends
  <2>2. equivalence' \in {"passed", "failed", None}
    BY <1>6 DEF TypeOK, Equivalence, EquivalenceAs
  <2>3. model' \in Weights \cup {None}
    BY <1>6 DEF TypeOK, Equivalence, EquivalenceAs, Weights, Seeds
  <2>4. /\ epoch' \in 0 .. Epochs /\ local' \in 1 .. N
         /\ update' \in 0 .. Total
         /\ exposures' \in [Cases -> 0 .. Epochs]
    BY <1>6 DEF TypeOK, Equivalence, EquivalenceAs, loop
  <2>5. UNCHANGED <<patched, capped, round, report, raising, preflight,
                    log, adapter, config, identity, before, after,
                    comparison, manifest, failure>>
    BY <1>6
    DEF Equivalence, EquivalenceAs, process, gates, trained, results,
        verdict
  <2>. QED
    BY <2>1, <2>2, <2>3, <2>4, <2>5 DEF TypeOK
<1>7. CASE Refuse
  <2>1. pc' \in Steps
    BY <1>7 DEF TypeOK, Refuse, Steps, Setup, Preflight, Body, Ends
  <2>2. manifest' \in Verdicts \cup {None}
    BY <1>7 DEF TypeOK, Refuse, Verdicts
  <2>3. /\ epoch' \in 0 .. Epochs /\ local' \in 1 .. N
         /\ update' \in 0 .. Total
         /\ exposures' \in [Cases -> 0 .. Epochs]
    BY <1>7 DEF TypeOK, Refuse, loop
  <2>4. UNCHANGED <<model, patched, capped, round, report, raising,
                    equivalence, preflight, log, adapter, config,
                    identity, before, after, comparison, failure>>
    BY <1>7 DEF Refuse, process, gates, trained, results, verdict
  <2>. QED
    BY <2>1, <2>2, <2>3, <2>4 DEF TypeOK
<1>8. CASE InstallPatch
  <2>1. pc' \in Steps
    BY <1>8 DEF TypeOK, InstallPatch, Steps, Setup, Preflight, Body, Ends
  <2>2. /\ epoch' \in 0 .. Epochs /\ local' \in 1 .. N
         /\ update' \in 0 .. Total
         /\ exposures' \in [Cases -> 0 .. Epochs]
    BY <1>8 DEF TypeOK, InstallPatch, loop
  <2>3. UNCHANGED <<model, capped, round, report, raising, equivalence,
                    preflight, log, adapter, config, identity,
                    before, after, comparison, manifest, failure>>
    BY <1>8 DEF InstallPatch, process, gates, trained, results, verdict
  <2>4. patched' \in BOOLEAN
    BY <1>8 DEF InstallPatch, TypeOK
  <2>. QED
    BY <2>1, <2>2, <2>3, <2>4 DEF TypeOK
<1>9. CASE LoadPreflight
  <2>1. pc' \in Steps
    BY <1>9
    DEF TypeOK, LoadPreflight, Fresh, Steps, Setup, Preflight, Body, Ends
  <2>2. model' \in Weights \cup {None}
    BY <1>9 DEF TypeOK, LoadPreflight, Fresh, Weights, Seeds
  <2>3. round' \in Nat
    BY <1>9, TrainConstants DEF TypeOK, LoadPreflight, Fresh
  <2>4. /\ epoch' \in 0 .. Epochs /\ local' \in 1 .. N
         /\ update' \in 0 .. Total
         /\ exposures' \in [Cases -> 0 .. Epochs]
    BY <1>9 DEF TypeOK, LoadPreflight, Fresh, loop
  <2>5. UNCHANGED <<patched, capped, report, raising, equivalence,
                    preflight, log, adapter, config, identity,
                    before, after, comparison, manifest, failure>>
    BY <1>9
    DEF LoadPreflight, Fresh, process, gates, trained, results, verdict
  <2>. QED
    BY <2>1, <2>2, <2>3, <2>4, <2>5 DEF TypeOK
<1>10. CASE PreflightStep
  <2>1. pc' \in Steps
    BY <1>10 DEF TypeOK, PreflightStep, Steps, Setup, Preflight, Body, Ends
  <2>2. model' \in Weights \cup {None}
    BY <1>10 DEF TypeOK, PreflightStep, Weights, Seeds, ModelInv, Updating
  <2>3. round' \in Nat
    BY <1>10, TrainConstants DEF TypeOK, PreflightStep, ModelInv, Updating
  <2>4. /\ epoch' \in 0 .. Epochs /\ local' \in 1 .. N
         /\ update' \in 0 .. Total
         /\ exposures' \in [Cases -> 0 .. Epochs]
    BY <1>10 DEF TypeOK, PreflightStep, loop
  <2>5. UNCHANGED <<patched, capped, report, raising, equivalence,
                    preflight, log, adapter, config, identity,
                    before, after, comparison, manifest, failure>>
    BY <1>10 DEF PreflightStep, process, gates, trained, results, verdict
  <2>. QED
    BY <2>1, <2>2, <2>3, <2>4, <2>5 DEF TypeOK
<1>11. CASE PreflightPasses
  <2>1. pc' \in Steps
    BY <1>11
    DEF TypeOK, PreflightPasses, Steps, Setup, Preflight, Body, Ends
  <2>2. report' \in {"passed", "failed", None}
    BY <1>11 DEF TypeOK, PreflightPasses
  <2>3. /\ epoch' \in 0 .. Epochs /\ local' \in 1 .. N
         /\ update' \in 0 .. Total
         /\ exposures' \in [Cases -> 0 .. Epochs]
    BY <1>11 DEF TypeOK, PreflightPasses, loop
  <2>4. UNCHANGED <<model, patched, capped, round, raising, equivalence,
                    preflight, log, adapter, config, identity,
                    before, after, comparison, manifest, failure>>
    BY <1>11 DEF PreflightPasses, process, gates, trained, results, verdict
  <2>. QED
    BY <2>1, <2>2, <2>3, <2>4 DEF TypeOK
<1>12. CASE ReportPreflight
  <2>1. pc' \in Steps
    BY <1>12
    DEF TypeOK, ReportPreflight, Steps, Setup, Preflight, Body, Ends
  <2>2. preflight' \in {"passed", "failed", None}
    BY <1>12 DEF TypeOK, ReportPreflight
  <2>3. /\ epoch' \in 0 .. Epochs /\ local' \in 1 .. N
         /\ update' \in 0 .. Total
         /\ exposures' \in [Cases -> 0 .. Epochs]
    BY <1>12 DEF TypeOK, ReportPreflight, loop
  <2>4. UNCHANGED <<model, patched, capped, round, report, raising,
                    equivalence, log, adapter, config, identity,
                    before, after, comparison, manifest, failure>>
    BY <1>12 DEF ReportPreflight, process, gates, trained, results, verdict
  <2>. QED
    BY <2>1, <2>2, <2>3, <2>4 DEF TypeOK
<1>13. CASE PreflightRaises
  <2>1. pc' \in Steps
    BY <1>13
    DEF TypeOK, PreflightRaises, Steps, Setup, Preflight, Body, Ends
  <2>2. report' \in {"passed", "failed", None}
    BY <1>13 DEF TypeOK, PreflightRaises
  <2>3. /\ epoch' \in 0 .. Epochs /\ local' \in 1 .. N
         /\ update' \in 0 .. Total
         /\ exposures' \in [Cases -> 0 .. Epochs]
    BY <1>13 DEF TypeOK, PreflightRaises, loop
  <2>4. UNCHANGED <<model, patched, capped, round, raising, equivalence,
                    preflight, log, adapter, config, identity,
                    before, after, comparison, manifest, failure>>
    BY <1>13 DEF PreflightRaises, process, gates, trained, results, verdict
  <2>. QED
    BY <2>1, <2>2, <2>3, <2>4 DEF TypeOK
<1>14. CASE FailPreflight
  <2>1. pc' \in Steps
    BY <1>14 DEF TypeOK, FailPreflight, Steps, Setup, Preflight, Body, Ends
  <2>2. preflight' \in {"passed", "failed", None}
    BY <1>14 DEF TypeOK, FailPreflight
  <2>3. /\ epoch' \in 0 .. Epochs /\ local' \in 1 .. N
         /\ update' \in 0 .. Total
         /\ exposures' \in [Cases -> 0 .. Epochs]
    BY <1>14 DEF TypeOK, FailPreflight, loop
  <2>4. UNCHANGED <<model, patched, capped, round, report, raising,
                    equivalence, log, adapter, config, identity,
                    before, after, comparison, manifest, failure>>
    BY <1>14 DEF FailPreflight, process, gates, trained, results, verdict
  <2>. QED
    BY <2>1, <2>2, <2>3, <2>4 DEF TypeOK
<1>15. CASE RefusePreflight
  <2>1. pc' \in Steps
    BY <1>15
    DEF TypeOK, RefusePreflight, Steps, Setup, Preflight, Body, Ends
  <2>2. manifest' \in Verdicts \cup {None}
    BY <1>15 DEF TypeOK, RefusePreflight, Verdicts
  <2>3. /\ epoch' \in 0 .. Epochs /\ local' \in 1 .. N
         /\ update' \in 0 .. Total
         /\ exposures' \in [Cases -> 0 .. Epochs]
    BY <1>15 DEF TypeOK, RefusePreflight, loop
  <2>4. UNCHANGED <<model, patched, capped, round, report, raising,
                    equivalence, preflight, log, adapter, config,
                    identity, before, after, comparison, failure>>
    BY <1>15 DEF RefusePreflight, process, gates, trained, results, verdict
  <2>. QED
    BY <2>1, <2>2, <2>3, <2>4 DEF TypeOK
<1>16. CASE Load
  <2>1. pc' \in Steps
    BY <1>16 DEF TypeOK, Load, Fresh, Steps, Setup, Preflight, Body, Ends
  <2>2. model' \in Weights \cup {None}
    BY <1>16 DEF TypeOK, Load, Fresh, Weights, Seeds
  <2>3. /\ epoch' \in 0 .. Epochs /\ local' \in 1 .. N
         /\ update' \in 0 .. Total
         /\ exposures' \in [Cases -> 0 .. Epochs]
    BY <1>16 DEF TypeOK, Load, Fresh, loop
  <2>4. UNCHANGED <<patched, capped, round, report, raising, equivalence,
                    preflight, log, adapter, config, identity,
                    before, after, comparison, manifest, failure>>
    BY <1>16 DEF Load, Fresh, process, gates, trained, results, verdict
  <2>. QED
    BY <2>1, <2>2, <2>3, <2>4 DEF TypeOK
<1>17. CASE TrainStep
  <2>1. update + 1 = epoch * N + local
    BY TrainConstants DEF TypeOK, CountInv
  <2>2. epoch * N + local <= Total /\ epoch * N + local \in Nat
    BY <1>17, LoopBound, TrainConstants DEF TypeOK, TrainStep, Total
  <2>3. update' \in 0 .. Total
    BY <1>17, <2>1, <2>2, TotalPositive DEF TypeOK, TrainStep
  <2>4. /\ epoch' \in 0 .. Epochs
        /\ local' \in 1 .. N
    BY <1>17, TrainConstants DEF TypeOK, TrainStep
  <2>5. exposures' \in [Cases -> 0 .. Epochs]
    <3>1. exposures[local] = epoch
      BY TrainConstants DEF TypeOK, CountInv, Cases
    <3>2. exposures[local] + 1 \in 0 .. Epochs
      BY <1>17, <3>1, TrainConstants DEF TypeOK, TrainStep
    <3>3. exposures' = [exposures EXCEPT ![local] = exposures[local] + 1]
      BY <1>17 DEF TrainStep
    <3>. QED
      BY <3>2, <3>3 DEF TypeOK, Cases
  <2>6. model' \in Weights \cup {None}
    BY <1>17 DEF TypeOK, TrainStep, ModelInv, Updating, Weights, Seeds
  <2>7. pc' \in Steps
    BY <1>17 DEF TrainStep, Steps, Body
  <2>. QED
    BY <1>17, <2>3, <2>4, <2>5, <2>6, <2>7
    DEF TypeOK, TrainStep, gates, trained, results, verdict
<1>18. CASE WriteLog
  <2>1. pc' \in Steps
    BY <1>18
    DEF TypeOK, WriteLog, Logged, Steps, Setup, Preflight, Body, Ends
  <2>2. log' \in Logs \cup {None}
    BY <1>18, TrainConstants, TotalPositive
    DEF TypeOK, WriteLog, Logged, Logs
  <2>3. /\ epoch' \in 0 .. Epochs /\ local' \in 1 .. N
         /\ update' \in 0 .. Total
         /\ exposures' \in [Cases -> 0 .. Epochs]
    BY <1>18 DEF TypeOK, WriteLog, Logged, loop
  <2>4. UNCHANGED <<model, patched, capped, round, report, raising,
                    equivalence, preflight, adapter, config,
                    identity, before, after, comparison, manifest,
                    failure>>
    BY <1>18 DEF WriteLog, Logged, process, gates, trained, results, verdict
  <2>. QED
    BY <2>1, <2>2, <2>3, <2>4 DEF TypeOK
<1>19. CASE CheckCounts
  <2>1. pc' \in Steps
    BY <1>19 DEF TypeOK, CheckCounts, Steps, Setup, Preflight, Body, Ends
  <2>2. /\ epoch' \in 0 .. Epochs /\ local' \in 1 .. N
         /\ update' \in 0 .. Total
         /\ exposures' \in [Cases -> 0 .. Epochs]
    BY <1>19 DEF TypeOK, CheckCounts, loop
  <2>3. UNCHANGED <<model, patched, capped, round, report, raising,
                    equivalence, preflight, log, adapter, config,
                    identity, before, after, comparison, manifest,
                    failure>>
    BY <1>19 DEF CheckCounts, process, gates, trained, results, verdict
  <2>. QED
    BY <2>1, <2>2, <2>3 DEF TypeOK
<1>20. CASE SaveAdapter
  <2>1. pc' \in Steps
    BY <1>20 DEF TypeOK, SaveAdapter, Steps, Setup, Preflight, Body, Ends
  <2>2. adapter' \in Weights \cup {Torn, None}
    BY <1>20 DEF TypeOK, SaveAdapter, Weights, Seeds, ModelInv, Updating
  <2>3. /\ epoch' \in 0 .. Epochs /\ local' \in 1 .. N
         /\ update' \in 0 .. Total
         /\ exposures' \in [Cases -> 0 .. Epochs]
    BY <1>20 DEF TypeOK, SaveAdapter, loop
  <2>4. UNCHANGED <<model, patched, capped, round, report, raising,
                    equivalence, preflight, log, config, identity,
                    before, after, comparison, manifest, failure>>
    BY <1>20 DEF SaveAdapter, process, gates, trained, results, verdict
  <2>. QED
    BY <2>1, <2>2, <2>3, <2>4 DEF TypeOK
<1>21. CASE ReloadAdapter
  <2>1. pc' \in Steps
    BY <1>21 DEF TypeOK, ReloadAdapter, Steps, Setup, Preflight, Body, Ends
  <2>2. /\ epoch' \in 0 .. Epochs /\ local' \in 1 .. N
         /\ update' \in 0 .. Total
         /\ exposures' \in [Cases -> 0 .. Epochs]
    BY <1>21 DEF TypeOK, ReloadAdapter, loop
  <2>3. UNCHANGED <<model, patched, capped, round, report, raising,
                    equivalence, preflight, log, adapter,
                    identity, before, after, comparison, manifest,
                    failure>>
    BY <1>21 DEF ReloadAdapter, process, gates, trained, results, verdict
  <2>4. config' \in BOOLEAN
    BY <1>21 DEF ReloadAdapter, TypeOK
  <2>. QED
    BY <2>1, <2>2, <2>3, <2>4 DEF TypeOK
<1>22. CASE Identify
  <2>1. pc' \in Steps
    BY <1>22
    DEF TypeOK, Identify, Logged, Steps, Setup, Preflight, Body, Ends
  <2>2. log' \in Logs \cup {None}
    BY <1>22, TrainConstants, TotalPositive
    DEF TypeOK, Identify, Logged, Logs
  <2>3. identity' \in Weights \cup {None}
    BY <1>22
    DEF TypeOK, Identify, Logged, Weights, Seeds, AdapterInv, Saving,
        Trained
  <2>4. /\ epoch' \in 0 .. Epochs /\ local' \in 1 .. N
         /\ update' \in 0 .. Total
         /\ exposures' \in [Cases -> 0 .. Epochs]
    BY <1>22 DEF TypeOK, Identify, Logged, loop
  <2>5. UNCHANGED <<model, patched, capped, round, report, raising,
                    equivalence, preflight, adapter, config,
                    before, after, comparison, manifest, failure>>
    BY <1>22 DEF Identify, Logged, process, gates, trained, results, verdict
  <2>. QED
    BY <2>1, <2>2, <2>3, <2>4, <2>5 DEF TypeOK
<1>23. CASE Unpatch
  <2>1. pc' \in Steps
    BY <1>23 DEF TypeOK, Unpatch, Steps, Setup, Preflight, Body, Ends
  <2>2. model' \in Weights \cup {None}
    BY <1>23 DEF TypeOK, Unpatch, Weights, Seeds
  <2>3. /\ epoch' \in 0 .. Epochs /\ local' \in 1 .. N
         /\ update' \in 0 .. Total
         /\ exposures' \in [Cases -> 0 .. Epochs]
    BY <1>23 DEF TypeOK, Unpatch, loop
  <2>4. UNCHANGED <<capped, round, report, raising, equivalence,
                    preflight, log, adapter, config, identity,
                    before, after, comparison, manifest, failure>>
    BY <1>23 DEF Unpatch, process, gates, trained, results, verdict
  <2>5. patched' \in BOOLEAN
    BY <1>23 DEF Unpatch, TypeOK
  <2>. QED
    BY <2>1, <2>2, <2>3, <2>4, <2>5 DEF TypeOK
<1>24. CASE Before
  <2>1. pc' \in Steps
    BY <1>24 DEF TypeOK, Before, Steps, Setup, Preflight, Body, Ends
  <2>2. /\ epoch' \in 0 .. Epochs /\ local' \in 1 .. N
         /\ update' \in 0 .. Total
         /\ exposures' \in [Cases -> 0 .. Epochs]
    BY <1>24 DEF TypeOK, Before, loop
  <2>3. UNCHANGED <<model, patched, capped, round, report, raising,
                    equivalence, preflight, log, adapter, config,
                    identity, after, comparison, manifest,
                    failure>>
    BY <1>24 DEF Before, process, gates, trained, results, verdict
  <2>4. before' \in BOOLEAN
    BY <1>24 DEF Before, TypeOK
  <2>. QED
    BY <2>1, <2>2, <2>3, <2>4 DEF TypeOK
<1>25. CASE Generate
  <2>1. pc' \in Steps
    BY <1>25 DEF TypeOK, Generate, Steps, Setup, Preflight, Body, Ends
  <2>2. after' \in 0 .. N
    BY <1>25, TrainConstants DEF TypeOK, Generate
  <2>3. /\ epoch' \in 0 .. Epochs /\ local' \in 1 .. N
         /\ update' \in 0 .. Total
         /\ exposures' \in [Cases -> 0 .. Epochs]
    BY <1>25 DEF TypeOK, Generate, loop
  <2>4. UNCHANGED <<model, patched, capped, round, report, raising,
                    equivalence, preflight, log, adapter, config,
                    identity, before, comparison, manifest,
                    failure>>
    BY <1>25 DEF Generate, process, gates, trained, results, verdict
  <2>. QED
    BY <2>1, <2>2, <2>3, <2>4 DEF TypeOK
<1>26. CASE Compare
  <2>1. pc' \in Steps
    BY <1>26 DEF TypeOK, Compare, Steps, Setup, Preflight, Body, Ends
  <2>2. /\ epoch' \in 0 .. Epochs /\ local' \in 1 .. N
         /\ update' \in 0 .. Total
         /\ exposures' \in [Cases -> 0 .. Epochs]
    BY <1>26 DEF TypeOK, Compare, loop
  <2>3. UNCHANGED <<model, patched, capped, round, report, raising,
                    equivalence, preflight, log, adapter, config,
                    identity, before, after, manifest, failure>>
    BY <1>26 DEF Compare, process, gates, trained, results, verdict
  <2>4. comparison' \in BOOLEAN
    BY <1>26 DEF Compare, TypeOK
  <2>. QED
    BY <2>1, <2>2, <2>3, <2>4 DEF TypeOK
<1>27. CASE Manifest
  <2>1. pc' \in Steps
    BY <1>27 DEF TypeOK, Manifest, Steps, Setup, Preflight, Body, Ends
  <2>2. manifest' \in Verdicts \cup {None}
    BY <1>27 DEF TypeOK, Manifest, Verdicts
  <2>3. /\ epoch' \in 0 .. Epochs /\ local' \in 1 .. N
         /\ update' \in 0 .. Total
         /\ exposures' \in [Cases -> 0 .. Epochs]
    BY <1>27 DEF TypeOK, Manifest, loop
  <2>4. UNCHANGED <<model, patched, capped, round, report, raising,
                    equivalence, preflight, log, adapter, config,
                    identity, before, after, comparison, failure>>
    BY <1>27 DEF Manifest, process, gates, trained, results, verdict
  <2>. QED
    BY <2>1, <2>2, <2>3, <2>4 DEF TypeOK
<1>28. CASE Raise
  <2>1. pc' \in Steps
    BY <1>28
    DEF TypeOK, Raise, OwnPatchOut, Steps, Setup, Preflight, Body, Ends
  <2>2. /\ epoch' \in 0 .. Epochs /\ local' \in 1 .. N
         /\ update' \in 0 .. Total
         /\ exposures' \in [Cases -> 0 .. Epochs]
    BY <1>28 DEF TypeOK, Raise, OwnPatchOut, loop
  <2>3. UNCHANGED <<model, capped, round, report, raising, equivalence,
                    preflight, log, adapter, config, identity,
                    before, after, comparison, manifest, failure>>
    BY <1>28
    DEF Raise, OwnPatchOut, process, gates, trained, results, verdict
  <2>4. patched' \in BOOLEAN
    BY <1>28 DEF Raise, OwnPatchOut, TypeOK
  <2>. QED
    BY <2>1, <2>2, <2>3, <2>4 DEF TypeOK
<1>29. CASE Interrupt
  <2>1. pc' \in Steps
    BY <1>29
    DEF TypeOK, Interrupt, OwnPatchOut, Steps, Setup, Preflight, Body, Ends
  <2>2. /\ epoch' \in 0 .. Epochs /\ local' \in 1 .. N
         /\ update' \in 0 .. Total
         /\ exposures' \in [Cases -> 0 .. Epochs]
    BY <1>29 DEF TypeOK, Interrupt, OwnPatchOut, loop
  <2>3. UNCHANGED <<model, capped, round, report, equivalence, preflight,
                    log, adapter, config, identity, before, after,
                    comparison, manifest, failure>>
    BY <1>29
    DEF Interrupt, OwnPatchOut, process, gates, trained, results, verdict
  <2>4. patched' \in BOOLEAN /\ raising' \in BOOLEAN
    BY <1>29 DEF Interrupt, OwnPatchOut, TypeOK
  <2>. QED
    BY <2>1, <2>2, <2>3, <2>4 DEF TypeOK
<1>30. CASE Outer
  <2>1. pc' \in Steps
    BY <1>30 DEF TypeOK, Outer, Steps, Setup, Preflight, Body, Ends
  <2>2. failure' \in Failures \cup {None}
    BY <1>30 DEF TypeOK, Outer, Failures
  <2>3. /\ epoch' \in 0 .. Epochs /\ local' \in 1 .. N
         /\ update' \in 0 .. Total
         /\ exposures' \in [Cases -> 0 .. Epochs]
    BY <1>30 DEF TypeOK, Outer, loop
  <2>4. UNCHANGED <<model, patched, capped, round, report, equivalence,
                    preflight, log, adapter, config, identity,
                    before, after, comparison, manifest>>
    BY <1>30 DEF Outer, process, gates, trained, results, verdict
  <2>5. raising' \in BOOLEAN
    BY <1>30 DEF Outer, TypeOK
  <2>. QED
    BY <2>1, <2>2, <2>3, <2>4, <2>5 DEF TypeOK
<1>31. CASE Finally
  <2>1. pc' \in Steps
    BY <1>31 DEF TypeOK, Finally, Steps, Setup, Preflight, Body, Ends
  <2>2. model' \in Weights \cup {None}
    BY <1>31 DEF TypeOK, Finally, Weights, Seeds
  <2>3. /\ epoch' \in 0 .. Epochs /\ local' \in 1 .. N
         /\ update' \in 0 .. Total
         /\ exposures' \in [Cases -> 0 .. Epochs]
    BY <1>31 DEF TypeOK, Finally, loop
  <2>4. UNCHANGED <<round, report, raising, equivalence, preflight, log,
                    adapter, config, identity, before, after,
                    comparison, manifest, failure>>
    BY <1>31 DEF Finally, process, gates, trained, results, verdict
  <2>5. patched' \in BOOLEAN /\ capped' \in BOOLEAN
    BY <1>31 DEF Finally, TypeOK
  <2>. QED
    BY <2>1, <2>2, <2>3, <2>4, <2>5 DEF TypeOK
<1>32. CASE Kill
  <2>1. pc' \in Steps
    BY <1>32 DEF TypeOK, Kill, Steps, Setup, Preflight, Body, Ends
  <2>2. /\ epoch' \in 0 .. Epochs /\ local' \in 1 .. N
         /\ update' \in 0 .. Total
         /\ exposures' \in [Cases -> 0 .. Epochs]
    BY <1>32 DEF TypeOK, Kill, loop
  <2>3. UNCHANGED <<model, patched, capped, round, report, raising,
                    equivalence, preflight, log, adapter, config,
                    identity, before, after, comparison, manifest,
                    failure>>
    BY <1>32 DEF Kill, process, gates, trained, results, verdict
  <2>. QED
    BY <2>1, <2>2, <2>3 DEF TypeOK
<1>33. CASE UNCHANGED vars
  BY <1>33 DEF vars, TypeOK, process, loop, gates, trained, results,
             verdict
<1>. QED
  BY <1>1, <1>2, <1>3, <1>4, <1>5, <1>6, <1>7, <1>8, <1>9, <1>10, <1>11,
     <1>12, <1>13, <1>14, <1>15, <1>16, <1>17, <1>18, <1>19, <1>20, <1>21,
     <1>22,
     <1>23, <1>24, <1>25, <1>26, <1>27, <1>28, <1>29, <1>30, <1>31, <1>32,
     <1>33
  DEF Next, Gate, Train, Leave

(* The counters of the loops stay in step.                                 *)
LEMMA CountInvStep ==
  ASSUME TrainInv, [Next]_vars
  PROVE  CountInv'
<1>. TypeOK /\ CountInv
  BY DEF TrainInv
<1> USE NoneApart DEF CountInv, BeforeTraining, BeforeGate, Setup,
        Preflight, loop
<1>1. CASE Begin
  BY <1>1 DEF Begin
<1>2. CASE InstallCeiling
  BY <1>2 DEF InstallCeiling
<1>3. CASE Diagnose
  BY <1>3 DEF Diagnose, Fresh
<1>4. CASE Reference
  BY <1>4 DEF Reference
<1>5. CASE Optimized
  BY <1>5 DEF Optimized
<1>6. CASE Equivalence
  BY <1>6 DEF Equivalence, EquivalenceAs
<1>7. CASE Refuse
  BY <1>7 DEF Refuse
<1>8. CASE InstallPatch
  BY <1>8 DEF InstallPatch
<1>9. CASE LoadPreflight
  BY <1>9 DEF LoadPreflight, Fresh
<1>10. CASE PreflightStep
  BY <1>10 DEF PreflightStep
<1>11. CASE PreflightPasses
  BY <1>11 DEF PreflightPasses
<1>12. CASE ReportPreflight
  BY <1>12 DEF ReportPreflight
<1>13. CASE PreflightRaises
  BY <1>13 DEF PreflightRaises
<1>14. CASE FailPreflight
  BY <1>14 DEF FailPreflight
<1>15. CASE RefusePreflight
  BY <1>15 DEF RefusePreflight
<1>16. CASE Load
  BY <1>16 DEF Load, Fresh
<1>17. CASE TrainStep
  BY <1>17, TrainStepCounts
<1>18. CASE WriteLog
  BY <1>18 DEF WriteLog, Logged
<1>19. CASE CheckCounts
  BY <1>19 DEF CheckCounts
<1>20. CASE SaveAdapter
  BY <1>20 DEF SaveAdapter
<1>21. CASE ReloadAdapter
  BY <1>21 DEF ReloadAdapter
<1>22. CASE Identify
  BY <1>22 DEF Identify, Logged
<1>23. CASE Unpatch
  BY <1>23 DEF Unpatch
<1>24. CASE Before
  BY <1>24 DEF Before
<1>25. CASE Generate
  BY <1>25 DEF Generate
<1>26. CASE Compare
  BY <1>26 DEF Compare
<1>27. CASE Manifest
  BY <1>27 DEF Manifest
<1>28. CASE Raise
  BY <1>28 DEF Raise, OwnPatchOut
<1>29. CASE Interrupt
  BY <1>29 DEF Interrupt, OwnPatchOut
<1>30. CASE Outer
  BY <1>30 DEF Outer
<1>31. CASE Finally
  BY <1>31 DEF Finally
<1>32. CASE Kill
  BY <1>32 DEF Kill
<1>33. CASE UNCHANGED vars
  BY <1>33 DEF vars
<1>. QED
  BY <1>1, <1>2, <1>3, <1>4, <1>5, <1>6, <1>7, <1>8, <1>9, <1>10, <1>11,
     <1>12, <1>13, <1>14, <1>15, <1>16, <1>17, <1>18, <1>19, <1>20, <1>21,
     <1>22,
     <1>23, <1>24, <1>25, <1>26, <1>27, <1>28, <1>29, <1>30, <1>31, <1>32,
     <1>33
  DEF Next, Gate, Train, Leave

(* Training stays behind both gates.                                       *)
LEMMA GateInvStep ==
  ASSUME TrainInv, [Next]_vars
  PROVE  GateInv'
<1>. TypeOK /\ GateInv /\ CountInv
  BY DEF TrainInv
<1>a. update' = 0 => ~(update' > 0)
  OBVIOUS
<1> USE NoneApart DEF GateInv, Preflight, Updating, loop, gates
<1>1. CASE Begin
  BY <1>1 DEF Begin
<1>2. CASE InstallCeiling
  BY <1>2 DEF InstallCeiling
<1>3. CASE Diagnose
  BY <1>3 DEF Diagnose, Fresh
<1>4. CASE Reference
  BY <1>4 DEF Reference
<1>5. CASE Optimized
  BY <1>5 DEF Optimized
<1>6. CASE Equivalence
  <2>1. update' = 0
    BY <1>6 DEF Equivalence, EquivalenceAs, CountInv, BeforeTraining,
              BeforeGate
  <2>2. \/ pc' = "patch" /\ equivalence' = "passed"
        \/ pc' = "refuse"
    BY <1>6 DEF Equivalence, EquivalenceAs
  <2>3. ~(update' > 0)
    BY <1>a, <2>1
  <2>. QED
    BY <2>2, <2>3
<1>7. CASE Refuse
  BY <1>7 DEF Refuse
<1>8. CASE InstallPatch
  BY <1>8 DEF InstallPatch
<1>9. CASE LoadPreflight
  BY <1>9 DEF LoadPreflight, Fresh
<1>10. CASE PreflightStep
  BY <1>10 DEF PreflightStep
<1>11. CASE PreflightPasses
  BY <1>11 DEF PreflightPasses
<1>12. CASE ReportPreflight
  BY <1>12 DEF ReportPreflight
<1>13. CASE PreflightRaises
  BY <1>13 DEF PreflightRaises
<1>14. CASE FailPreflight
  <2>1. update' = 0
    BY <1>14 DEF FailPreflight, CountInv, BeforeTraining
  <2>2. pc' = "refuse preflight"
    BY <1>14 DEF FailPreflight
  <2>3. ~(update' > 0)
    BY <1>a, <2>1
  <2>. QED
    BY <2>2, <2>3
<1>15. CASE RefusePreflight
  BY <1>15 DEF RefusePreflight
<1>16. CASE Load
  BY <1>16 DEF Load, Fresh
<1>17. CASE TrainStep
  BY <1>17 DEF TrainStep
<1>18. CASE WriteLog
  BY <1>18 DEF WriteLog, Logged
<1>19. CASE CheckCounts
  BY <1>19 DEF CheckCounts
<1>20. CASE SaveAdapter
  BY <1>20 DEF SaveAdapter
<1>21. CASE ReloadAdapter
  BY <1>21 DEF ReloadAdapter
<1>22. CASE Identify
  BY <1>22 DEF Identify, Logged
<1>23. CASE Unpatch
  BY <1>23 DEF Unpatch
<1>24. CASE Before
  BY <1>24 DEF Before
<1>25. CASE Generate
  BY <1>25 DEF Generate
<1>26. CASE Compare
  BY <1>26 DEF Compare
<1>27. CASE Manifest
  BY <1>27 DEF Manifest
<1>28. CASE Raise
  BY <1>28 DEF Raise, OwnPatchOut
<1>29. CASE Interrupt
  BY <1>29 DEF Interrupt, OwnPatchOut
<1>30. CASE Outer
  BY <1>30 DEF Outer
<1>31. CASE Finally
  BY <1>31 DEF Finally
<1>32. CASE Kill
  BY <1>32 DEF Kill
<1>33. CASE UNCHANGED vars
  BY <1>33 DEF vars
<1>. QED
  BY <1>1, <1>2, <1>3, <1>4, <1>5, <1>6, <1>7, <1>8, <1>9, <1>10, <1>11,
     <1>12, <1>13, <1>14, <1>15, <1>16, <1>17, <1>18, <1>19, <1>20, <1>21,
     <1>22,
     <1>23, <1>24, <1>25, <1>26, <1>27, <1>28, <1>29, <1>30, <1>31, <1>32,
     <1>33
  DEF Next, Gate, Train, Leave

(* The model is fresh when training starts and counted from then on.       *)
LEMMA ModelInvStep ==
  ASSUME TrainInv, [Next]_vars
  PROVE  ModelInv'
<1>. TypeOK /\ ModelInv /\ CountInv
  BY DEF TrainInv
<1> USE NoneApart DEF ModelInv, Updating, process, loop
<1>1. CASE Begin
  BY <1>1 DEF Begin
<1>2. CASE InstallCeiling
  BY <1>2 DEF InstallCeiling
<1>3. CASE Diagnose
  BY <1>3 DEF Diagnose, Fresh
<1>4. CASE Reference
  BY <1>4 DEF Reference
<1>5. CASE Optimized
  BY <1>5 DEF Optimized
<1>6. CASE Equivalence
  BY <1>6 DEF Equivalence, EquivalenceAs
<1>7. CASE Refuse
  BY <1>7 DEF Refuse
<1>8. CASE InstallPatch
  BY <1>8 DEF InstallPatch
<1>9. CASE LoadPreflight
  <2>1. model' # None
    BY <1>9, NoneApart DEF LoadPreflight, Fresh, Weights, Seeds
  <2>2. pc' = "preflight"
    BY <1>9 DEF LoadPreflight
  <2>. QED
    BY <2>1, <2>2 DEF ModelInv, Updating
<1>10. CASE PreflightStep
  <2>1. model \in Weights
    BY <1>10 DEF PreflightStep, ModelInv, TypeOK
  <2>2. model' \in Weights
    BY <1>10, <2>1 DEF PreflightStep, Weights
  <2>3. pc' = "preflight"
    BY <1>10 DEF PreflightStep
  <2>. QED
    BY <2>2, <2>3, NoneApart DEF ModelInv, Updating
<1>11. CASE PreflightPasses
  BY <1>11 DEF PreflightPasses
<1>12. CASE ReportPreflight
  BY <1>12 DEF ReportPreflight
<1>13. CASE PreflightRaises
  BY <1>13 DEF PreflightRaises
<1>14. CASE FailPreflight
  BY <1>14 DEF FailPreflight
<1>15. CASE RefusePreflight
  BY <1>15 DEF RefusePreflight
<1>16. CASE Load
  <2>1. update' = 0
    BY <1>16 DEF Load, CountInv, BeforeTraining, loop
  <2>. QED
    BY <1>16, <2>1 DEF Load, Fresh, TypeOK
<1>17. CASE TrainStep
  BY <1>17 DEF TrainStep
<1>18. CASE WriteLog
  BY <1>18 DEF WriteLog, Logged
<1>19. CASE CheckCounts
  BY <1>19 DEF CheckCounts
<1>20. CASE SaveAdapter
  BY <1>20 DEF SaveAdapter
<1>21. CASE ReloadAdapter
  BY <1>21 DEF ReloadAdapter
<1>22. CASE Identify
  BY <1>22 DEF Identify, Logged
<1>23. CASE Unpatch
  BY <1>23 DEF Unpatch
<1>24. CASE Before
  BY <1>24 DEF Before
<1>25. CASE Generate
  BY <1>25 DEF Generate
<1>26. CASE Compare
  BY <1>26 DEF Compare
<1>27. CASE Manifest
  BY <1>27 DEF Manifest
<1>28. CASE Raise
  BY <1>28 DEF Raise, OwnPatchOut
<1>29. CASE Interrupt
  BY <1>29 DEF Interrupt, OwnPatchOut
<1>30. CASE Outer
  BY <1>30 DEF Outer
<1>31. CASE Finally
  BY <1>31 DEF Finally
<1>32. CASE Kill
  BY <1>32 DEF Kill
<1>33. CASE UNCHANGED vars
  BY <1>33 DEF vars
<1>. QED
  BY <1>1, <1>2, <1>3, <1>4, <1>5, <1>6, <1>7, <1>8, <1>9, <1>10, <1>11,
     <1>12, <1>13, <1>14, <1>15, <1>16, <1>17, <1>18, <1>19, <1>20, <1>21,
     <1>22,
     <1>23, <1>24, <1>25, <1>26, <1>27, <1>28, <1>29, <1>30, <1>31, <1>32,
     <1>33
  DEF Next, Gate, Train, Leave

(* The log keeps up with the updates.                                      *)
LEMMA LogInvStep ==
  ASSUME TrainInv, [Next]_vars
  PROVE  LogInv'
<1>. TypeOK /\ LogInv /\ CountInv /\ AdapterInv
  BY DEF TrainInv
<1> USE NoneApart DEF LogInv, AdapterInv, loop, trained
<1>1. CASE Begin
  BY <1>1 DEF Begin
<1>2. CASE InstallCeiling
  BY <1>2 DEF InstallCeiling
<1>3. CASE Diagnose
  BY <1>3 DEF Diagnose, Fresh
<1>4. CASE Reference
  BY <1>4 DEF Reference
<1>5. CASE Optimized
  BY <1>5 DEF Optimized
<1>6. CASE Equivalence
  BY <1>6 DEF Equivalence, EquivalenceAs
<1>7. CASE Refuse
  BY <1>7 DEF Refuse
<1>8. CASE InstallPatch
  BY <1>8 DEF InstallPatch
<1>9. CASE LoadPreflight
  BY <1>9 DEF LoadPreflight, Fresh
<1>10. CASE PreflightStep
  BY <1>10 DEF PreflightStep
<1>11. CASE PreflightPasses
  BY <1>11 DEF PreflightPasses
<1>12. CASE ReportPreflight
  BY <1>12 DEF ReportPreflight
<1>13. CASE PreflightRaises
  BY <1>13 DEF PreflightRaises
<1>14. CASE FailPreflight
  BY <1>14 DEF FailPreflight
<1>15. CASE RefusePreflight
  BY <1>15 DEF RefusePreflight
<1>16. CASE Load
  <2>1. update' = 0
    BY <1>16 DEF Load, CountInv, BeforeTraining, loop
  <2>. QED
    BY <1>16, <2>1 DEF Load, Fresh, TypeOK
<1>17. CASE TrainStep
  <2>1. /\ pc = "train" /\ pc' = "log" /\ update' = update + 1
        /\ log' = log /\ update \in Nat
    BY <1>17, TotalPositive DEF TrainStep, trained, TypeOK
  <2>. QED
    BY <2>1 DEF LogInv
<1>18. CASE WriteLog
  <2>1. /\ log' # None /\ log'.updates = update /\ update' = update
        /\ pc = "log" /\ pc' = "train" /\ update \in Nat
    BY <1>18, LoggedIsLog, TotalPositive DEF WriteLog, loop, TypeOK
  <2>. QED
    BY <2>1 DEF LogInv
<1>19. CASE CheckCounts
  BY <1>19 DEF CheckCounts
<1>20. CASE SaveAdapter
  BY <1>20 DEF SaveAdapter
<1>21. CASE ReloadAdapter
  BY <1>21 DEF ReloadAdapter
<1>22. CASE Identify
  <2>1. /\ log' # None /\ log'.updates = update /\ update' = update
        /\ update = Total /\ update \in Nat /\ pc' \in {"unpatch", "outer"}
    BY <1>22, LoggedIsLog, TotalPositive, NoneApart
    DEF Identify, loop, TypeOK, AdapterInv, Saving, Trained, Weights, Seeds
  <2>. QED
    BY <2>1, TotalPositive DEF LogInv
<1>23. CASE Unpatch
  BY <1>23 DEF Unpatch
<1>24. CASE Before
  BY <1>24 DEF Before
<1>25. CASE Generate
  BY <1>25 DEF Generate
<1>26. CASE Compare
  BY <1>26 DEF Compare
<1>27. CASE Manifest
  BY <1>27 DEF Manifest
<1>28. CASE Raise
  BY <1>28 DEF Raise, OwnPatchOut
<1>29. CASE Interrupt
  BY <1>29 DEF Interrupt, OwnPatchOut
<1>30. CASE Outer
  BY <1>30 DEF Outer
<1>31. CASE Finally
  BY <1>31 DEF Finally
<1>32. CASE Kill
  BY <1>32 DEF Kill
<1>33. CASE UNCHANGED vars
  BY <1>33 DEF vars
<1>. QED
  BY <1>1, <1>2, <1>3, <1>4, <1>5, <1>6, <1>7, <1>8, <1>9, <1>10, <1>11,
     <1>12, <1>13, <1>14, <1>15, <1>16, <1>17, <1>18, <1>19, <1>20, <1>21,
     <1>22,
     <1>23, <1>24, <1>25, <1>26, <1>27, <1>28, <1>29, <1>30, <1>31, <1>32,
     <1>33
  DEF Next, Gate, Train, Leave

(* Only trained weights are saved and named.                               *)
LEMMA AdapterInvStep ==
  ASSUME TrainInv, [Next]_vars
  PROVE  AdapterInv'
<1>. TypeOK /\ AdapterInv /\ CountInv /\ ModelInv
  BY DEF TrainInv
<1> USE NoneApart DEF AdapterInv, CountInv, ModelInv, Trained,
        BeforeTraining, BeforeGate, Setup, Preflight, Body, Updating,
        Saving, Saved, loop, trained
<1>1. CASE Begin
  BY <1>1 DEF Begin
<1>2. CASE InstallCeiling
  BY <1>2 DEF InstallCeiling
<1>3. CASE Diagnose
  BY <1>3 DEF Diagnose, Fresh
<1>4. CASE Reference
  BY <1>4 DEF Reference
<1>5. CASE Optimized
  BY <1>5 DEF Optimized
<1>6. CASE Equivalence
  BY <1>6 DEF Equivalence, EquivalenceAs
<1>7. CASE Refuse
  BY <1>7 DEF Refuse
<1>8. CASE InstallPatch
  BY <1>8 DEF InstallPatch
<1>9. CASE LoadPreflight
  BY <1>9 DEF LoadPreflight, Fresh
<1>10. CASE PreflightStep
  BY <1>10 DEF PreflightStep
<1>11. CASE PreflightPasses
  BY <1>11 DEF PreflightPasses
<1>12. CASE ReportPreflight
  BY <1>12 DEF ReportPreflight
<1>13. CASE PreflightRaises
  BY <1>13 DEF PreflightRaises
<1>14. CASE FailPreflight
  BY <1>14 DEF FailPreflight
<1>15. CASE RefusePreflight
  BY <1>15 DEF RefusePreflight
<1>16. CASE Load
  BY <1>16 DEF Load, Fresh
<1>17. CASE TrainStep
  BY <1>17 DEF TrainStep
<1>18. CASE WriteLog
  BY <1>18 DEF WriteLog, Logged
<1>19. CASE CheckCounts
  BY <1>19 DEF CheckCounts
<1>20. CASE SaveAdapter
  BY <1>20 DEF SaveAdapter
<1>21. CASE ReloadAdapter
  BY <1>21 DEF ReloadAdapter
<1>22. CASE Identify
  BY <1>22 DEF Identify, Logged
<1>23. CASE Unpatch
  BY <1>23 DEF Unpatch
<1>24. CASE Before
  BY <1>24 DEF Before
<1>25. CASE Generate
  BY <1>25 DEF Generate
<1>26. CASE Compare
  BY <1>26 DEF Compare
<1>27. CASE Manifest
  BY <1>27 DEF Manifest
<1>28. CASE Raise
  BY <1>28 DEF Raise, OwnPatchOut
<1>29. CASE Interrupt
  BY <1>29 DEF Interrupt, OwnPatchOut
<1>30. CASE Outer
  BY <1>30 DEF Outer
<1>31. CASE Finally
  BY <1>31 DEF Finally
<1>32. CASE Kill
  BY <1>32 DEF Kill
<1>33. CASE UNCHANGED vars
  BY <1>33 DEF vars
<1>. QED
  BY <1>1, <1>2, <1>3, <1>4, <1>5, <1>6, <1>7, <1>8, <1>9, <1>10, <1>11,
     <1>12, <1>13, <1>14, <1>15, <1>16, <1>17, <1>18, <1>19, <1>20, <1>21,
     <1>22,
     <1>23, <1>24, <1>25, <1>26, <1>27, <1>28, <1>29, <1>30, <1>31, <1>32,
     <1>33
  DEF Next, Gate, Train, Leave

(* The report in memory and the one on disk agree when it matters.         *)
LEMMA ReportInvStep ==
  ASSUME TrainInv, [Next]_vars
  PROVE  ReportInv'
<1>. TypeOK /\ ReportInv /\ GateInv
  BY DEF TrainInv
<1> USE NoneApart DEF ReportInv, GateInv, BeforeGate, Setup, Preflight,
        Body, process, gates
<1>1. CASE Begin
  BY <1>1 DEF Begin
<1>2. CASE InstallCeiling
  BY <1>2 DEF InstallCeiling
<1>3. CASE Diagnose
  BY <1>3 DEF Diagnose, Fresh
<1>4. CASE Reference
  BY <1>4 DEF Reference
<1>5. CASE Optimized
  BY <1>5 DEF Optimized
<1>6. CASE Equivalence
  BY <1>6 DEF Equivalence, EquivalenceAs
<1>7. CASE Refuse
  BY <1>7 DEF Refuse
<1>8. CASE InstallPatch
  BY <1>8 DEF InstallPatch
<1>9. CASE LoadPreflight
  BY <1>9 DEF LoadPreflight, Fresh
<1>10. CASE PreflightStep
  BY <1>10 DEF PreflightStep
<1>11. CASE PreflightPasses
  BY <1>11 DEF PreflightPasses
<1>12. CASE ReportPreflight
  BY <1>12 DEF ReportPreflight
<1>13. CASE PreflightRaises
  BY <1>13 DEF PreflightRaises
<1>14. CASE FailPreflight
  BY <1>14 DEF FailPreflight
<1>15. CASE RefusePreflight
  BY <1>15 DEF RefusePreflight
<1>16. CASE Load
  BY <1>16 DEF Load, Fresh
<1>17. CASE TrainStep
  BY <1>17 DEF TrainStep
<1>18. CASE WriteLog
  BY <1>18 DEF WriteLog, Logged
<1>19. CASE CheckCounts
  BY <1>19 DEF CheckCounts
<1>20. CASE SaveAdapter
  BY <1>20 DEF SaveAdapter
<1>21. CASE ReloadAdapter
  BY <1>21 DEF ReloadAdapter
<1>22. CASE Identify
  BY <1>22 DEF Identify, Logged
<1>23. CASE Unpatch
  BY <1>23 DEF Unpatch
<1>24. CASE Before
  BY <1>24 DEF Before
<1>25. CASE Generate
  BY <1>25 DEF Generate
<1>26. CASE Compare
  BY <1>26 DEF Compare
<1>27. CASE Manifest
  BY <1>27 DEF Manifest
<1>28. CASE Raise
  BY <1>28 DEF Raise, OwnPatchOut
<1>29. CASE Interrupt
  BY <1>29 DEF Interrupt, OwnPatchOut
<1>30. CASE Outer
  BY <1>30 DEF Outer
<1>31. CASE Finally
  BY <1>31 DEF Finally
<1>32. CASE Kill
  BY <1>32 DEF Kill
<1>33. CASE UNCHANGED vars
  BY <1>33 DEF vars
<1>. QED
  BY <1>1, <1>2, <1>3, <1>4, <1>5, <1>6, <1>7, <1>8, <1>9, <1>10, <1>11,
     <1>12, <1>13, <1>14, <1>15, <1>16, <1>17, <1>18, <1>19, <1>20, <1>21,
     <1>22,
     <1>23, <1>24, <1>25, <1>26, <1>27, <1>28, <1>29, <1>30, <1>31, <1>32,
     <1>33
  DEF Next, Gate, Train, Leave

(* One verdict, and it fits the files.                                     *)
LEMMA VerdictInvStep ==
  ASSUME TrainInv, [Next]_vars
  PROVE  VerdictInv'
<1>. TypeOK /\ VerdictInv /\ AdapterInv /\ ReportInv
  BY DEF TrainInv
<1> USE NoneApart DEF VerdictInv, AdapterInv, ReportInv, Trained, Saved,
        Running, Setup, Preflight, Body, process, gates, trained, results,
        verdict
<1>1. CASE Begin
  BY <1>1 DEF Begin
<1>2. CASE InstallCeiling
  BY <1>2 DEF InstallCeiling
<1>3. CASE Diagnose
  BY <1>3 DEF Diagnose, Fresh
<1>4. CASE Reference
  BY <1>4 DEF Reference
<1>5. CASE Optimized
  BY <1>5 DEF Optimized
<1>6. CASE Equivalence
  BY <1>6 DEF Equivalence, EquivalenceAs
<1>7. CASE Refuse
  BY <1>7 DEF Refuse
<1>8. CASE InstallPatch
  BY <1>8 DEF InstallPatch
<1>9. CASE LoadPreflight
  BY <1>9 DEF LoadPreflight, Fresh
<1>10. CASE PreflightStep
  BY <1>10 DEF PreflightStep
<1>11. CASE PreflightPasses
  BY <1>11 DEF PreflightPasses
<1>12. CASE ReportPreflight
  BY <1>12 DEF ReportPreflight
<1>13. CASE PreflightRaises
  BY <1>13 DEF PreflightRaises
<1>14. CASE FailPreflight
  BY <1>14 DEF FailPreflight
<1>15. CASE RefusePreflight
  BY <1>15 DEF RefusePreflight
<1>16. CASE Load
  BY <1>16 DEF Load, Fresh
<1>17. CASE TrainStep
  BY <1>17 DEF TrainStep
<1>18. CASE WriteLog
  BY <1>18 DEF WriteLog, Logged
<1>19. CASE CheckCounts
  BY <1>19 DEF CheckCounts
<1>20. CASE SaveAdapter
  BY <1>20 DEF SaveAdapter
<1>21. CASE ReloadAdapter
  BY <1>21 DEF ReloadAdapter
<1>22. CASE Identify
  BY <1>22 DEF Identify, Logged
<1>23. CASE Unpatch
  BY <1>23 DEF Unpatch
<1>24. CASE Before
  BY <1>24 DEF Before
<1>25. CASE Generate
  BY <1>25 DEF Generate
<1>26. CASE Compare
  BY <1>26 DEF Compare
<1>27. CASE Manifest
  BY <1>27 DEF Manifest
<1>28. CASE Raise
  BY <1>28 DEF Raise, OwnPatchOut
<1>29. CASE Interrupt
  BY <1>29 DEF Interrupt, OwnPatchOut
<1>30. CASE Outer
  BY <1>30 DEF Outer
<1>31. CASE Finally
  BY <1>31 DEF Finally
<1>32. CASE Kill
  BY <1>32 DEF Kill
<1>33. CASE UNCHANGED vars
  BY <1>33 DEF vars
<1>. QED
  BY <1>1, <1>2, <1>3, <1>4, <1>5, <1>6, <1>7, <1>8, <1>9, <1>10, <1>11,
     <1>12, <1>13, <1>14, <1>15, <1>16, <1>17, <1>18, <1>19, <1>20, <1>21,
     <1>22,
     <1>23, <1>24, <1>25, <1>26, <1>27, <1>28, <1>29, <1>30, <1>31, <1>32,
     <1>33
  DEF Next, Gate, Train, Leave

(* The patch is in for the optimised path only.                            *)
LEMMA KernelInvStep ==
  ASSUME TrainInv, [Next]_vars
  PROVE  KernelInv'
<1>. TypeOK /\ KernelInv
  BY DEF TrainInv
<1> USE NoneApart DEF KernelInv, TypeOK, Setup, Preflight, Body, Updating,
        Saving, process
<1>1. CASE Begin
  BY <1>1 DEF Begin
<1>2. CASE InstallCeiling
  BY <1>2 DEF InstallCeiling
<1>3. CASE Diagnose
  BY <1>3 DEF Diagnose, Fresh
<1>4. CASE Reference
  BY <1>4 DEF Reference
<1>5. CASE Optimized
  BY <1>5 DEF Optimized
<1>6. CASE Equivalence
  <2>1. ~patched /\ patched' = patched
    BY <1>6 DEF Equivalence, EquivalenceAs, KernelInv
  <2>2. pc' \in {"patch", "refuse"}
    BY <1>6 DEF Equivalence, EquivalenceAs
  <2>. QED
    BY <2>1, <2>2 DEF KernelInv, Setup, Preflight, Updating, Saving
<1>7. CASE Refuse
  BY <1>7 DEF Refuse
<1>8. CASE InstallPatch
  BY <1>8 DEF InstallPatch
<1>9. CASE LoadPreflight
  BY <1>9 DEF LoadPreflight, Fresh
<1>10. CASE PreflightStep
  BY <1>10 DEF PreflightStep
<1>11. CASE PreflightPasses
  BY <1>11 DEF PreflightPasses
<1>12. CASE ReportPreflight
  BY <1>12 DEF ReportPreflight
<1>13. CASE PreflightRaises
  BY <1>13 DEF PreflightRaises
<1>14. CASE FailPreflight
  BY <1>14 DEF FailPreflight
<1>15. CASE RefusePreflight
  BY <1>15 DEF RefusePreflight
<1>16. CASE Load
  BY <1>16 DEF Load, Fresh
<1>17. CASE TrainStep
  BY <1>17 DEF TrainStep
<1>18. CASE WriteLog
  BY <1>18 DEF WriteLog, Logged
<1>19. CASE CheckCounts
  BY <1>19 DEF CheckCounts
<1>20. CASE SaveAdapter
  BY <1>20 DEF SaveAdapter
<1>21. CASE ReloadAdapter
  BY <1>21 DEF ReloadAdapter
<1>22. CASE Identify
  BY <1>22 DEF Identify, Logged
<1>23. CASE Unpatch
  BY <1>23 DEF Unpatch
<1>24. CASE Before
  BY <1>24 DEF Before
<1>25. CASE Generate
  BY <1>25 DEF Generate
<1>26. CASE Compare
  BY <1>26 DEF Compare
<1>27. CASE Manifest
  BY <1>27 DEF Manifest
<1>28. CASE Raise
  BY <1>28 DEF Raise, OwnPatchOut
<1>29. CASE Interrupt
  BY <1>29 DEF Interrupt, OwnPatchOut
<1>30. CASE Outer
  BY <1>30 DEF Outer
<1>31. CASE Finally
  BY <1>31 DEF Finally
<1>32. CASE Kill
  BY <1>32 DEF Kill
<1>33. CASE UNCHANGED vars
  BY <1>33 DEF vars
<1>. QED
  BY <1>1, <1>2, <1>3, <1>4, <1>5, <1>6, <1>7, <1>8, <1>9, <1>10, <1>11,
     <1>12, <1>13, <1>14, <1>15, <1>16, <1>17, <1>18, <1>19, <1>20, <1>21,
     <1>22,
     <1>23, <1>24, <1>25, <1>26, <1>27, <1>28, <1>29, <1>30, <1>31, <1>32,
     <1>33
  DEF Next, Gate, Train, Leave

-----------------------------------------------------------------------------
(* Every reachable state satisfies the invariant.                          *)
LEMMA TrainInvariant == Spec => []TrainInv
<1>1. TrainInv /\ [Next]_vars => TrainInv'
  BY TypeOKStep, CountInvStep, GateInvStep, ModelInvStep, LogInvStep,
     AdapterInvStep, ReportInvStep, VerdictInvStep, KernelInvStep
  DEF TrainInv
<1>. QED
  BY InitInv, <1>1, PTL DEF Spec

(* No reachable state has a variable outside its type.                     *)
THEOREM TypeCorrect == Spec => []TypeOK
<1>1. TrainInv => TypeOK
  BY DEF TrainInv
<1>. QED
  BY TrainInvariant, <1>1, PTL

(* What verify_source_run accepts was trained by exactly the bound number  *)
(* of updates from fresh weights, behind both gates: an adapter that the   *)
(* identity names is the trained one, and a log of so many updates exists  *)
(* only once they were made.                                               *)
THEOREM AcceptedMeansTrainedHolds == Spec => []AcceptedMeansTrained
<1>1. TrainInv => AcceptedMeansTrained
  <2> SUFFICES ASSUME TrainInv, Accepts
               PROVE  /\ adapter = Trained
                      /\ equivalence = "passed" /\ preflight = "passed"
    BY DEF AcceptedMeansTrained, Trained
  <2>. AdapterInv /\ GateInv
    BY DEF TrainInv
  <2>1. adapter = Trained /\ adapter # None
    BY NoneApart DEF Accepts, AdapterInv
  <2>2. update = Total
    BY <2>1 DEF AdapterInv
  <2>3. update > 0
    BY <2>2, TotalPositive
  <2>. QED
    BY <2>1, <2>3 DEF GateInv
<1>. QED
  BY TrainInvariant, <1>1, PTL

(* The log lags by at most the update being made, and every case has been  *)
(* used equally often up to one.                                           *)
THEOREM LogKeepsUpHolds == Spec => []LogKeepsUp
<1>1. TrainInv => LogKeepsUp
  <2> SUFFICES ASSUME TrainInv PROVE LogKeepsUp
    OBVIOUS
  <2>. TypeOK /\ CountInv /\ LogInv
    BY DEF TrainInv
  <2>1. ASSUME NEW c \in Cases, NEW d \in Cases
        PROVE  exposures[c] <= exposures[d] + 1
    <3>1. epoch \in Nat
      BY TrainConstants DEF TypeOK
    <3>2. /\ exposures[c] \in {epoch, epoch + 1}
          /\ exposures[d] \in {epoch, epoch + 1}
      BY DEF CountInv
    <3>. QED
      BY <3>1, <3>2
  <2>2. update > 0 => \/ log = None /\ update = 1
                      \/ log # None /\ log.updates \in {update - 1, update}
    BY DEF LogInv
  <2>. QED
    BY <2>1, <2>2 DEF LogKeepsUp
<1>. QED
  BY TrainInvariant, <1>1, PTL

(* No update of the training proper happens unless both gates say passed   *)
(* on disk.                                                                *)
THEOREM GatesBeforeTrainingHolds == Spec => []GatesBeforeTraining
<1>1. TrainInv => GatesBeforeTraining
  BY DEF TrainInv, GateInv, GatesBeforeTraining
<1>. QED
  BY TrainInvariant, <1>1, PTL

(* The optimised kernel is in for training alone, and a run that returns   *)
(* or raises leaves the stock kernel and the native setter behind.         *)
THEOREM KernelOfPhaseHolds == Spec => []KernelOfPhase
<1>1. TrainInv => KernelOfPhase
  <2> SUFFICES ASSUME TrainInv PROVE KernelOfPhase
    OBVIOUS
  <2>. KernelInv
    BY DEF TrainInv
  <2>. QED
    BY Zenon
    DEF KernelInv, KernelOfPhase, Setup, Preflight, Updating, Saving
<1>. QED
  BY TrainInvariant, <1>1, PTL

(* A run that returns has one verdict, and the verdict fits the files.     *)
THEOREM VerdictFitsFilesHolds == Spec => []VerdictFitsFiles
<1>1. TrainInv => VerdictFitsFiles
  BY DEF TrainInv, VerdictInv, VerdictFitsFiles, Trained
<1>. QED
  BY TrainInvariant, <1>1, PTL
=============================================================================
