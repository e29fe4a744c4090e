------------------------------- MODULE EvalRun -------------------------------
(***************************************************************************)
(* The inference-only evaluation of learning_mechanics_eval.py: the main   *)
(* thread attempts the bound cases one after the other and leaves for each *)
(* a start file, a raw output, a score file and a row of the comparison,   *)
(* while a watchdog thread samples the machine and raises a flag that the  *)
(* loop looks at between two cases.                                        *)
(*                                                                         *)
(* Every write may fail, every computation may raise, and the process may  *)
(* be killed.  Verification of the source run comes first, changes nothing *)
(* and is left out; so are the contents of outputs and scores (a score is  *)
(* its status).  A case is its position in EVAL_CASE_ORDER, which          *)
(* verify_source_run requires the verified pairs to follow.                *)
(***************************************************************************)
EXTENDS Naturals, Sequences

CONSTANTS N,     \* number of cases in EVAL_CASE_ORDER
          None

ASSUME EvalConstants == N \in Nat \ {0}

Cases == 1 .. N
Statuses == {"completed_output", "failed_output", "failed", "not_attempted"}
RunStatuses == {"evaluation_completed", "evaluation_partially_failed"}
ASSUME NoneIsNoStatus == None \notin Statuses \cup RunStatuses

VARIABLES
  \* the main thread
  pc,        \* its next step
  item,      \* the case the loop is at
  rows,      \* public_rows, as the cases and statuses they name
  status,    \* evaluation_status so far
  raising,   \* an exception is on its way out of run_evaluation
  wired,     \* mx.set_wired_limit and the numeric limit of the process
  guarded,   \* WiredLimitGuard._installed
  backend,   \* the model is loaded
  \* the watchdog
  wd,        \* its thread
  breach,    \* watchdog.breach is set
  monitor,   \* watchdog.monitor_failed is set
  stop,      \* its stop event
  \* files of the evaluation directory
  start,     \* cases with attempts/<case>.start.json
  raw,       \* cases with after/<case>.json
  score,     \* after/<case>.score.json of each case, or None
  reports,   \* failure-report, cleanup-failure, wired-limit-restore-failure
  manifest,  \* evaluation_status in evaluation-completion-manifest.json
  \* history
  late       \* attempts started when the watchdog had raised its flag

main == <<item, rows, status, raising>>
limits == <<wired, guarded, backend>>
watch == <<wd, breach, monitor, stop>>
outputs == <<start, raw, score, reports, manifest>>
vars == <<pc, main, limits, watch, outputs, late>>

Loop == {"install", "load", "check", "skip", "start", "generate", "score",
         "announce", "failure", "record", "rest", "outer"}
Steps == Loop \cup {"stop", "close", "uninstall", "pad", "publish"}
Ends == {"returned", "raised", "killed"}

TypeOK ==
  /\ pc \in Steps \cup Ends
  /\ item \in 1 .. N + 1
  /\ rows \in Seq([case : Cases, status : Statuses])
  /\ status \in RunStatuses
  /\ raising \in BOOLEAN
  /\ wired \in [setter : {"native", "capped"}, limit : {"entry", "selected"}]
  /\ guarded \in BOOLEAN /\ backend \in BOOLEAN
  /\ wd \in {"new", "waiting", "sampling", "ended"}
  /\ breach \in BOOLEAN /\ monitor \in BOOLEAN /\ stop \in BOOLEAN
  /\ start \subseteq Cases /\ raw \subseteq Cases
  /\ score \in [Cases -> Statuses \cup {None}]
  /\ reports \subseteq {"failure", "cleanup", "restore"}
  /\ manifest \in RunStatuses \cup {None}
  /\ late \in Nat

Init ==
  /\ pc = "install"
  /\ item = 1
  /\ rows = <<>>
  /\ status = "evaluation_completed"
  /\ raising = FALSE
  /\ wired = [setter |-> "native", limit |-> "entry"]
  /\ guarded = FALSE /\ backend = FALSE
  /\ wd = "new"
  /\ breach = FALSE /\ monitor = FALSE /\ stop = FALSE
  /\ start = {} /\ raw = {}
  /\ score = [c \in Cases |-> None]
  /\ reports = {}
  /\ manifest = None
  /\ late = 0

-----------------------------------------------------------------------------
(* ResourceWatchdog._run.                                                  *)

Flagged == breach \/ monitor

(* "while not self._stop.wait(...)"                                        *)
WatchWait ==
  /\ wd = "waiting"
  /\ wd' = IF stop THEN "ended" ELSE "sampling"
  /\ UNCHANGED <<pc, main, limits, breach, monitor, stop, outputs, late>>

WatchSample(outcome) ==
  /\ wd = "sampling"
  /\ wd' = IF outcome = "fine" THEN "waiting" ELSE "ended"
  /\ breach' = (breach \/ outcome = "breach")
  /\ monitor' = (monitor \/ outcome = "raises")
  /\ UNCHANGED <<pc, main, limits, stop, outputs, late>>

Watchdog ==
  \/ WatchWait
  \/ \E outcome \in {"fine", "breach", "raises"} : WatchSample(outcome)

-----------------------------------------------------------------------------
(* A step that only moves on.                                              *)
Goes(to) == pc' = to /\ UNCHANGED <<main, limits, watch, outputs, late>>

(* WiredLimitGuard.install: the native setter takes effect before its      *)
(* return value is looked at.                                              *)
Install ==
  /\ pc = "install"
  /\ \/ /\ wired' = [setter |-> "capped", limit |-> "selected"]
        /\ guarded' = TRUE
        /\ pc' = "load"
     \/ /\ wired' \in {wired, [wired EXCEPT !.limit = "selected"]}
        /\ guarded' = FALSE
        /\ pc' = "outer"
  /\ UNCHANGED <<main, backend, watch, outputs, late>>

(* The watchdog starts, then the model is loaded and the adapter's digest  *)
(* compared.                                                               *)
Load ==
  /\ pc = "load"
  /\ wd' = "waiting"
  /\ backend' \in BOOLEAN
  /\ pc' \in IF backend' THEN {"check", "outer"} ELSE {"outer"}
  /\ UNCHANGED <<main, wired, guarded, breach, monitor, stop, outputs, late>>

(* Mutant of Check: the flag is not looked at.                             *)
CheckUnwatched == pc = "check" /\ Goes(IF item > N THEN "stop" ELSE "start")

(* The head of the loop over the verified pairs.                           *)
Check ==
  /\ pc = "check"
  /\ IF item > N THEN Goes("stop")
     ELSE IF Flagged THEN Goes("skip") ELSE Goes("start")

(* persist_private_output refuses to overwrite.                            *)
CanWrite(c) == score[c] = None

(* A raised flag: this case is recorded as not attempted, and the loop     *)
(* goes on with the next.                                                  *)
Skip ==
  /\ pc = "skip"
  /\ status' = "evaluation_partially_failed"
  /\ \/ /\ CanWrite(item)
        /\ score' = [score EXCEPT ![item] = "not_attempted"]
        /\ rows' = Append(rows, [case |-> item, status |-> "not_attempted"])
        /\ item' = item + 1
        /\ pc' = "check"
     \/ /\ pc' = "outer"
        /\ UNCHANGED <<item, rows, score>>
  /\ UNCHANGED <<raising, limits, watch, start, raw, reports, manifest, late>>

(* generate_one_case.  The start file, and the line printed after it, are  *)
(* outside its "try": their failure leaves no failure file.                *)
Start ==
  /\ pc = "start"
  /\ \/ start' = start \cup {item} /\ pc' \in {"generate", "record"}
     \/ start' = start /\ pc' = "record"
  /\ late' = IF Flagged /\ start' # start THEN late + 1 ELSE late
  /\ UNCHANGED <<main, limits, watch, raw, score, reports, manifest>>

(* Rendering, generation, synchronisation and the private output.          *)
Generate ==
  /\ pc = "generate"
  /\ \/ raw' = raw \cup {item} /\ pc' = "score"
     \/ raw' = raw /\ pc' = "failure"
  /\ UNCHANGED <<main, limits, watch, start, score, reports, manifest, late>>

(* Scoring and the public score file.                                      *)
Score ==
  /\ pc = "score"
  /\ \/ /\ CanWrite(item)
        /\ \E s \in {"completed_output", "failed_output"} :
             score' = [score EXCEPT ![item] = s]
        /\ pc' = "announce"
     \/ score' = score /\ pc' = "failure"
  /\ UNCHANGED <<main, limits, watch, start, raw, reports, manifest, late>>

(* Mutant of Announce: every output that was scored counts as completed.   *)
AnnounceCompleted ==
  /\ pc = "announce"
  /\ rows' = Append(rows, [case |-> item, status |-> "completed_output"])
  /\ item' = item + 1
  /\ pc' = "check"
  /\ UNCHANGED <<status, raising, limits, watch, outputs, late>>

(* The closing line may not be printable, which fails an attempt that is   *)
(* scored on disk; else the row joins public_rows.                         *)
Announce ==
  /\ pc = "announce"
  /\ \/ /\ rows' = Append(rows, [case |-> item, status |-> score[item]])
        /\ item' = item + 1
        /\ pc' = "check"
     \/ /\ pc' = "failure"
        /\ UNCHANGED <<item, rows>>
  /\ UNCHANGED <<status, raising, limits, watch, outputs, late>>

(* The failure file is written or not: the exception goes on in any case.  *)
Failure == pc = "failure" /\ Goes("record")

(* Mutant of Record: the status of the run is left as it is.               *)
RecordOnly ==
  /\ pc = "record"
  /\ score' = IF CanWrite(item)
              THEN [score EXCEPT ![item] = "failed"] ELSE score
  /\ rows' = Append(rows, [case |-> item, status |-> "failed"])
  /\ item' = item + 1
  /\ pc' = "rest"
  /\ UNCHANGED <<status, raising, limits, watch, start, raw, reports, manifest,
                 late>>

(* run_evaluation's handler: a score file that is there already stays, and *)
(* the row says failed.                                                    *)
Record ==
  /\ pc = "record"
  /\ status' = "evaluation_partially_failed"
  /\ \/ /\ score' = IF CanWrite(item)
                    THEN [score EXCEPT ![item] = "failed"] ELSE score
        /\ rows' = Append(rows, [case |-> item, status |-> "failed"])
        /\ item' = item + 1
        /\ pc' = "rest"
     \/ /\ CanWrite(item)
        /\ pc' = "outer"
        /\ UNCHANGED <<item, rows, score>>
  /\ UNCHANGED <<raising, limits, watch, start, raw, reports, manifest, late>>

(* Mutant of Rest: it goes one case too far.                               *)
RestAndOneMore ==
  /\ pc = "rest"
  /\ rows' = Append(rows, [case |-> item, status |-> "not_attempted"])
  /\ item' = item + 1
  /\ pc' = IF item > N THEN "stop" ELSE "rest"
  /\ UNCHANGED <<status, raising, limits, watch, outputs, late>>

(* The cases after a failed one are not attempted.                         *)
Rest ==
  /\ pc = "rest"
  /\ \/ /\ item > N
        /\ pc' = "stop"
        /\ UNCHANGED <<item, rows, score>>
     \/ /\ item <= N
        /\ CanWrite(item)
        /\ score' = [score EXCEPT ![item] = "not_attempted"]
        /\ rows' = Append(rows, [case |-> item, status |-> "not_attempted"])
        /\ item' = item + 1
        /\ pc' = "rest"
     \/ /\ item <= N
        /\ pc' = "outer"
        /\ UNCHANGED <<item, rows, score>>
  /\ UNCHANGED <<status, raising, limits, watch, start, raw, reports,
                 manifest, late>>

(* Mutant of Outer: it does not report.                                    *)
OuterSilent ==
  /\ pc = "outer"
  /\ status' = "evaluation_partially_failed"
  /\ pc' = "stop"
  /\ UNCHANGED <<item, rows, raising, limits, watch, outputs, late>>

(* The outer handlers: failure-report.json, whose own failure leaves the   *)
(* function after the "finally".                                           *)
Outer ==
  /\ pc = "outer"
  /\ status' = "evaluation_partially_failed"
  /\ \/ reports' = reports \cup {"failure"} /\ raising' = raising
     \/ reports' = reports /\ raising' = TRUE
  /\ pc' = "stop"
  /\ UNCHANGED <<item, rows, limits, watch, start, raw, score, manifest, late>>

-----------------------------------------------------------------------------
(* The "finally" clause.                                                   *)

(* watchdog.stop(): the event is set, which ends a thread that waits; five *)
(* seconds later a thread that still samples counts as a failed monitor.   *)
StopSet ==
  /\ pc = "stop"
  /\ ~stop
  /\ stop' = TRUE
  /\ UNCHANGED <<pc, main, limits, wd, breach, monitor, outputs, late>>

(* Mutant of Join: it waits as long as the thread lives.                   *)
JoinForever ==
  /\ pc = "stop"
  /\ stop
  /\ wd \in {"new", "ended"}
  /\ pc' = "close"
  /\ UNCHANGED <<main, limits, watch, outputs, late>>

Join ==
  /\ pc = "stop"
  /\ stop
  /\ wd # "waiting"
  /\ monitor' = (monitor \/ wd = "sampling")
  /\ pc' = "close"
  /\ UNCHANGED <<main, limits, wd, breach, stop, outputs, late>>

(* backend.close() may raise, and then cleanup-failure.json may not be     *)
(* writable: the guard stays installed and the exception leaves.           *)
Close ==
  /\ pc = "close"
  /\ backend' = FALSE
  /\ \/ pc' = "uninstall" /\ UNCHANGED reports
     \/ backend /\ pc' = "uninstall" /\ reports' = reports \cup {"cleanup"}
     \/ backend /\ pc' = "raised" /\ UNCHANGED reports
  /\ UNCHANGED <<main, wired, guarded, watch, start, raw, score, manifest,
                 late>>

Leaves == IF raising THEN "raised" ELSE "pad"

(* Mutant of Uninstall: only the setter is put back.                       *)
UninstallSetter ==
  /\ pc = "uninstall"
  /\ guarded' = FALSE
  /\ wired' = [wired EXCEPT !.setter = "native"]
  /\ pc' = Leaves
  /\ UNCHANGED <<main, backend, watch, outputs, late>>

(* WiredLimitGuard.uninstall, restore_memory_ceiling: the setter first,    *)
(* then the number it had on entry.                                        *)
Uninstall ==
  /\ pc = "uninstall"
  /\ guarded' = FALSE
  /\ \/ /\ wired' = IF guarded THEN [setter |-> "native", limit |-> "entry"]
                    ELSE wired
        /\ pc' = Leaves
        /\ UNCHANGED reports
     \/ /\ guarded
        /\ wired' = [wired EXCEPT !.setter = "native"]
        /\ \/ reports' = reports \cup {"restore"} /\ pc' = Leaves
           \/ UNCHANGED reports /\ pc' = "raised"
  /\ UNCHANGED <<main, backend, watch, start, raw, score, manifest, late>>

-----------------------------------------------------------------------------
(* Mutant of Missing: the positions are counted from the first case.       *)
MissingFromFirst == [i \in 1 .. N - Len(rows) |->
                       [case |-> i, status |-> "not_attempted"]]

(* Rows that are missing are filled in by position.                        *)
Missing == [i \in 1 .. N - Len(rows) |->
              [case |-> Len(rows) + i, status |-> "not_attempted"]]

Pad ==
  /\ pc = "pad"
  /\ rows' = rows \o Missing
  /\ status' = IF Len(rows) # N THEN "evaluation_partially_failed" ELSE status
  /\ pc' = "publish"
  /\ UNCHANGED <<item, raising, limits, watch, outputs, late>>

(* The comparison, the watchdog's samples and, if the adapter still has    *)
(* its digest, the completion manifest.                                    *)
Publish ==
  /\ pc = "publish"
  /\ \/ manifest' = status /\ pc' = "returned"
     \/ UNCHANGED manifest /\ pc' = "raised"
  /\ UNCHANGED <<main, limits, watch, start, raw, score, reports, late>>

(* Ctrl-C is no Exception: it passes every handler but the "finally".      *)
Interrupt ==
  /\ pc \in Loop
  /\ pc' = "stop"
  /\ raising' = TRUE
  /\ UNCHANGED <<item, rows, status, limits, watch, outputs, late>>

(* The process may be killed; its watchdog is a daemon and ends with it.   *)
Kill ==
  /\ pc \in Steps
  /\ pc' = "killed"
  /\ wd' = "ended"
  /\ UNCHANGED <<main, limits, breach, monitor, stop, outputs, late>>

Attempt == Start \/ Generate \/ Score \/ Announce \/ Failure \/ Record \/ Rest
Finally == StopSet \/ Join \/ Close \/ Uninstall
Main ==
  \/ Install \/ Load \/ Check \/ Skip \/ Attempt \/ Outer \/ Finally
  \/ Pad \/ Publish

Next == Main \/ Watchdog \/ Interrupt \/ Kill

Spec == Init /\ [][Next]_vars

(* The main thread is scheduled and what it calls returns (generation has  *)
(* no timeout).  The watchdog's wait returns; a sample may hang for ever,  *)
(* in a program it runs.                                                   *)
FairSpec == Spec /\ WF_vars(Main) /\ WF_vars(WatchWait)

-----------------------------------------------------------------------------
(* The comparison has one row per case, in the order of the contract, even *)
(* when a failure left rows out and they are filled in by position.        *)
RowsFollowCases ==
  /\ Len(rows) <= N
  /\ \A i \in 1 .. Len(rows) : rows[i].case = i
  /\ manifest # None => Len(rows) = N

(* A row that reports an output is backed by the attempt's files, and the  *)
(* score file says what the row says.                                      *)
RowsBacked ==
  \A i \in 1 .. Len(rows) :
    rows[i].status \in {"completed_output", "failed_output"} =>
      /\ score[i] = rows[i].status
      /\ i \in start
      /\ i \in raw

(* A manifest that says completed means that all cases were generated and  *)
(* scored, and that nothing failed on the way.                             *)
CompletedMeansAll ==
  manifest = "evaluation_completed" =>
    /\ raw = Cases
    /\ \A c \in Cases : score[c] \in {"completed_output", "failed_output"}
    /\ "failure" \notin reports

(* A case that the finished comparison calls not attempted was not started *)
(* - unless a report could not be written, which the failure report tells. *)
NotAttemptedExplained ==
  manifest # None =>
    \A c \in Cases : rows[c].status = "not_attempted" =>
      c \notin start \/ "failure" \in reports

(* The flag is read between two cases, so it is too late for one attempt   *)
(* at most.                                                                *)
OneLateAttempt == late <= 1

(* When run_evaluation returns, the setter and the numeric limit are those *)
(* of the entry ("Scoped wired-limit wrapper that restores callable and    *)
(* numeric setting"), or a report says what went wrong.                    *)
LimitRestored ==
  pc = "returned" =>
    \/ wired = [setter |-> "native", limit |-> "entry"]
    \/ reports \cap {"failure", "restore"} # {}

(* The run comes to an end even if a sample of the watchdog never does.    *)
RunEnds == <>(pc \in Ends)
=============================================================================
