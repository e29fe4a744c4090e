---------------------------- MODULE EvalRunProofs ----------------------------
(***************************************************************************)
(* What EvalRun guarantees for every number of cases, whatever fails.      *)
(***************************************************************************)
EXTENDS EvalRun, SequenceTheorems, TLAPS

OutputStatuses == {"completed_output", "failed_output"}
Attempting == {"start", "generate", "score", "announce", "failure", "record"}
InFinally == {"stop", "close", "uninstall"}
AfterFinally == {"pad", "publish", "returned"}

(* The rows are the cases before the one the loop is at.                   *)
RowsInv ==
  /\ \A i \in 1 .. Len(rows) : rows[i].case = i
  /\ pc \in Loop \cup InFinally \cup {"pad"} => Len(rows) = item - 1
  /\ pc \in Attempting \cup {"skip"} => item <= N
  /\ pc \in {"publish", "returned"} => Len(rows) = N
  /\ Len(rows) <= N
  /\ manifest # None => pc = "returned" /\ manifest = status

(* An attempt leaves its files in order, and no file of a case that has a  *)
(* row is touched again.                                                   *)
FilesInv ==
  /\ RowsBacked
  /\ pc \in {"generate", "score", "announce"} => item \in start
  /\ pc \in {"score", "announce"} => item \in raw
  /\ pc = "announce" => score[item] \in OutputStatuses

(* The status is downgraded before anything but an output gets a row.      *)
StatusInv ==
  /\ pc = "rest" => status = "evaluation_partially_failed"
  /\ status = "evaluation_completed" =>
       /\ \A i \in 1 .. Len(rows) : rows[i].status \in OutputStatuses
       /\ "failure" \notin reports

(* A case that was started has a row of its own, or is being attempted, or *)
(* a failure of the batch is on its way to be reported.                    *)
StartInv ==
  /\ \A c \in start : c <= Len(rows) =>
       rows[c].status # "not_attempted" \/ "failure" \in reports
  /\ \A c \in start : c > Len(rows) =>
       \/ c = item /\ pc \in Attempting
       \/ pc = "outer"
       \/ raising
       \/ "failure" \in reports
       \/ pc \in {"raised", "killed"}
  /\ pc \in Loop \cup AfterFinally => ~raising

(* Once the flag is up only the attempt already chosen goes ahead.         *)
LateInv ==
  /\ late <= 1
  /\ late > 0 => Flagged
  /\ pc = "start" => late = 0

(* The limit is out of place only under the guard, or on a recorded way.   *)
LimitInv ==
  /\ pc \in AfterFinally => ~guarded
  /\ \/ wired = [setter |-> "native", limit |-> "entry"]
     \/ guarded
     \/ raising
     \/ reports \cap {"failure", "restore"} # {}
     \/ pc \in {"outer", "raised", "killed"}

EvalInv ==
  /\ TypeOK
  /\ RowsInv
  /\ FilesInv
  /\ StatusInv
  /\ StartInv
  /\ LateInv
  /\ LimitInv

-----------------------------------------------------------------------------
Row == [case : Cases, status : Statuses]

(* What it means for the case the loop is at to get a row.                 *)
RowAdded(s) ==
  /\ rows' \in Seq(Row)
  /\ Len(rows) = item - 1
  /\ Len(rows') = item
  /\ rows'[item] = [case |-> item, status |-> s]
  /\ \A i \in 1 .. item - 1 : rows'[i] = rows[i]

LEMMA Appended ==
  ASSUME TypeOK, RowsInv, pc \in Loop, item <= N, NEW s \in Statuses,
         rows' = Append(rows, [case |-> item, status |-> s])
  PROVE  RowAdded(s)
<1> DEFINE r == [case |-> item, status |-> s]
<1>1. rows \in Seq(Row) /\ r \in Row /\ item \in Nat /\ Len(rows) = item - 1
  BY EvalConstants DEF TypeOK, Row, Cases, RowsInv
<1>2. /\ Append(rows, r) \in Seq(Row)
      /\ Len(Append(rows, r)) = Len(rows) + 1
      /\ Append(rows, r)[Len(rows) + 1] = r
      /\ \A i \in 1 .. Len(rows) : Append(rows, r)[i] = rows[i]
  BY <1>1
<1>3. Len(rows) + 1 = item
  BY <1>1
<1>. QED
  BY <1>1, <1>2, <1>3 DEF RowAdded

(* A case that gets a row keeps the three invariants about rows and files. *)
LEMMA AddedKeepsFiles ==
  ASSUME TypeOK, RowsBacked, NEW s \in Statuses, RowAdded(s),
         UNCHANGED <<start, raw>>,
         \A c \in Cases : c # item => score'[c] = score[c],
         item <= N,
         s \in OutputStatuses =>
           score'[item] = s /\ item \in start /\ item \in raw
  PROVE  RowsBacked'
<1> SUFFICES ASSUME NEW i \in 1 .. Len(rows'),
                    rows'[i].status \in OutputStatuses
             PROVE  score'[i] = rows'[i].status /\ i \in start /\ i \in raw
  BY DEF RowsBacked, OutputStatuses
<1>1. item \in 1 .. N /\ i \in 1 .. item
  BY EvalConstants DEF TypeOK, RowAdded
<1>2. CASE i = item
  BY <1>2 DEF RowAdded
<1>3. CASE i # item
  <2>1. i \in 1 .. Len(rows) /\ i \in Cases /\ rows'[i] = rows[i]
    BY <1>1, <1>3, EvalConstants DEF RowAdded, Cases
  <2>. QED
    BY <1>3, <2>1 DEF RowsBacked, OutputStatuses
<1>. QED
  BY <1>2, <1>3

LEMMA AddedKeepsStarts ==
  ASSUME TypeOK, StartInv, pc \in Loop \ {"outer"}, NEW s \in Statuses,
         RowAdded(s), start' = start, reports' = reports, raising' = raising,
         pc' \in {"check", "rest"},
         s = "not_attempted" => pc \notin Attempting
  PROVE  StartInv'
<1>1. item \in Nat /\ start \subseteq Nat
  BY EvalConstants DEF TypeOK, Cases
<1>2. ~raising /\ pc \notin {"outer", "raised", "killed"}
  BY DEF StartInv, Loop
<1>3. ASSUME NEW c \in start, c <= Len(rows')
      PROVE  rows'[c].status # "not_attempted" \/ "failure" \in reports
  <2>0. c \in Cases
    BY DEF TypeOK
  <2>1. CASE c = item
    BY <1>1, <1>2, <2>1 DEF StartInv, RowAdded
  <2>2. CASE c # item
    <3>1. c \in 1 .. item - 1
      BY <1>1, <1>3, <2>0, <2>2, EvalConstants DEF RowAdded, Cases
    <3>. QED
      BY <1>1, <3>1 DEF StartInv, RowAdded
  <2>. QED
    BY <2>1, <2>2
<1>4. ASSUME NEW c \in start, c > Len(rows')
      PROVE  "failure" \in reports
  BY <1>1, <1>2, <1>4 DEF StartInv, RowAdded
<1>. QED
  BY <1>2, <1>3, <1>4 DEF StartInv

(* The rows filled in by position end where the contract ends.             *)
RowsPadded ==
  /\ rows' \in Seq(Row)
  /\ Len(rows') = N
  /\ \A i \in 1 .. Len(rows) : rows'[i] = rows[i]
  /\ \A i \in 1 .. N : i > Len(rows) =>
       rows'[i] = [case |-> i, status |-> "not_attempted"]

LEMMA Padded ==
  ASSUME TypeOK, RowsInv, rows' = rows \o Missing
  PROVE  RowsPadded
<1>1. rows \in Seq(Row) /\ Len(rows) \in Nat /\ Len(rows) <= N /\ N \in Nat
  BY EvalConstants DEF TypeOK, RowsInv, Row
<1>2. Missing \in Seq(Row) /\ Len(Missing) = N - Len(rows)
  <2>1. \A i \in 1 .. N - Len(rows) :
          [case |-> Len(rows) + i, status |-> "not_attempted"] \in Row
    BY <1>1 DEF Row, Cases, Statuses
  <2>. QED
    BY <1>1, <2>1 DEF Missing
<1>3. \A i \in 1 .. N - Len(rows) :
        Missing[i] = [case |-> Len(rows) + i, status |-> "not_attempted"]
  BY DEF Missing
<1>4. /\ rows' \in Seq(Row) /\ Len(rows') = N
      /\ \A i \in 1 .. N : rows'[i] = IF i <= Len(rows) THEN rows[i]
                                     ELSE Missing[i - Len(rows)]
  BY <1>1, <1>2, ConcatProperties
<1>5. ASSUME NEW i \in 1 .. N, i > Len(rows)
      PROVE  rows'[i] = [case |-> i, status |-> "not_attempted"]
  <2>1. i - Len(rows) \in 1 .. N - Len(rows) /\ Len(rows) + (i - Len(rows)) = i
    BY <1>1, <1>5
  <2>. QED
    BY <1>3, <1>4, <1>5, <2>1
<1>6. \A i \in 1 .. Len(rows) : rows'[i] = rows[i]
  BY <1>1, <1>4
<1>. QED
  BY <1>4, <1>5, <1>6 DEF RowsPadded

-----------------------------------------------------------------------------
LEMMA InitInv == Init => EvalInv
<1> SUFFICES ASSUME Init PROVE EvalInv
  OBVIOUS
<1> USE EvalConstants, NoneIsNoStatus DEF RunStatuses
<1>1. TypeOK
  <2>1. rows \in Seq([case : Cases, status : Statuses])
    BY DEF Init
  <2>2. item \in 1 .. N + 1
    BY DEF Init
  <2>3. start \subseteq Cases /\ raw \subseteq Cases
        /\ score \in [Cases -> Statuses \cup {None}]
    BY DEF Init
  <2>. QED
    BY <2>1, <2>2, <2>3 DEF Init, TypeOK, Steps, Loop, Ends
<1>2. RowsInv
  BY DEF Init, RowsInv, Loop, InFinally, Attempting, Steps
<1>3. FilesInv
  BY DEF Init, FilesInv, RowsBacked
<1>4. StatusInv
  BY DEF Init, StatusInv
<1>5. StartInv
  BY DEF Init, StartInv, Loop, AfterFinally, Attempting
<1>6. LateInv
  BY DEF Init, LateInv, Flagged
<1>7. LimitInv
  BY DEF Init, LimitInv, AfterFinally
<1>. QED
  BY <1>1, <1>2, <1>3, <1>4, <1>5, <1>6, <1>7 DEF EvalInv

LEMMA InstallStep ==
  ASSUME EvalInv, Install
  PROVE  EvalInv'
<1> USE EvalConstants, NoneIsNoStatus
    DEF EvalInv, RunStatuses, main, limits, watch, outputs
<1>1. TypeOK'
  <2>1. rows' \in Seq([case : Cases, status : Statuses])
    BY DEF Install, TypeOK
  <2>2. item' \in 1 .. N + 1 /\ late' \in Nat
    BY DEF Install, TypeOK, RowsInv, Attempting
  <2>3. /\ start' \subseteq Cases /\ raw' \subseteq Cases
        /\ score' \in [Cases -> Statuses \cup {None}]
    BY DEF Install, TypeOK, Cases, Statuses, RowsInv, Attempting
  <2>4. pc' \in Steps \cup Ends
    BY DEF Install, Steps, Loop, Ends, TypeOK
  <2>5. wired' \in [setter : {"native", "capped"},
                     limit : {"entry", "selected"}]
    BY DEF Install, TypeOK
  <2>. QED
    BY <2>1, <2>2, <2>3, <2>4, <2>5 DEF Install, TypeOK
<1>2. RowsInv'
  BY DEF Install, RowsInv, Loop, InFinally, Attempting, Steps, TypeOK
<1>3. FilesInv'
  BY DEF Install, FilesInv, RowsBacked, TypeOK
<1>4. StatusInv'
  BY DEF Install, StatusInv, TypeOK
<1>5. StartInv'
  BY DEF Install, StartInv, Loop, AfterFinally, Attempting, TypeOK
<1>6. LateInv'
  BY DEF Install, LateInv, Flagged, TypeOK
<1>7. LimitInv'
  BY DEF Install, LimitInv, AfterFinally, TypeOK
<1>. QED
  BY <1>1, <1>2, <1>3, <1>4, <1>5, <1>6, <1>7

LEMMA LoadStep ==
  ASSUME EvalInv, Load
  PROVE  EvalInv'
<1> USE EvalConstants, NoneIsNoStatus
    DEF EvalInv, RunStatuses, main, limits, watch, outputs
<1>1. TypeOK'
  BY DEF Load, TypeOK, Steps, Loop, Ends
<1>2. RowsInv'
  BY DEF Load, RowsInv, Loop, InFinally, Attempting, Steps, TypeOK
<1>3. FilesInv'
  BY DEF Load, FilesInv, RowsBacked, TypeOK
<1>4. StatusInv'
  BY DEF Load, StatusInv, TypeOK
<1>5. StartInv'
  BY DEF Load, StartInv, Loop, AfterFinally, Attempting, TypeOK
<1>6. LateInv'
  BY DEF Load, LateInv, Flagged, TypeOK
<1>7. LimitInv'
  BY DEF Load, LimitInv, AfterFinally, TypeOK
<1>. QED
  BY <1>1, <1>2, <1>3, <1>4, <1>5, <1>6, <1>7

LEMMA CheckStep ==
  ASSUME EvalInv, Check
  PROVE  EvalInv'
<1> USE EvalConstants, NoneIsNoStatus
    DEF EvalInv, RunStatuses, main, limits, watch, outputs
<1>1. TypeOK'
  <2>1. rows' \in Seq([case : Cases, status : Statuses])
    BY DEF Check, Goes, Flagged, TypeOK
  <2>2. item' \in 1 .. N + 1 /\ late' \in Nat
    BY DEF Check, Goes, Flagged, TypeOK, RowsInv, Attempting
  <2>3. /\ start' \subseteq Cases /\ raw' \subseteq Cases
        /\ score' \in [Cases -> Statuses \cup {None}]
    BY DEF Check, Goes, Flagged, TypeOK, Cases, Statuses, RowsInv, Attempting
  <2>4. pc' \in Steps \cup Ends
    BY DEF Check, Goes, Flagged, Steps, Loop, Ends, TypeOK
  <2>5. wired' \in [setter : {"native", "capped"},
                     limit : {"entry", "selected"}]
    BY DEF Check, Goes, Flagged, TypeOK
  <2>6. UNCHANGED <<main, limits, watch, outputs, late>>
    BY DEF Check, Goes
  <2>. QED
    BY <2>1, <2>2, <2>3, <2>4, <2>5, <2>6 DEF TypeOK
<1>2. RowsInv'
  BY DEF Check, Goes, Flagged, RowsInv, Loop, InFinally, Attempting, Steps,
         TypeOK
<1>3. FilesInv'
  BY DEF Check, Goes, Flagged, FilesInv, RowsBacked, TypeOK
<1>4. StatusInv'
  BY DEF Check, Goes, Flagged, StatusInv, TypeOK
<1>5. StartInv'
  BY DEF Check, Goes, Flagged, StartInv, Loop, AfterFinally, Attempting, TypeOK
<1>6. LateInv'
  BY DEF Check, Goes, Flagged, LateInv, TypeOK
<1>7. LimitInv'
  BY DEF Check, Goes, Flagged, LimitInv, AfterFinally, TypeOK
<1>. QED
  BY <1>1, <1>2, <1>3, <1>4, <1>5, <1>6, <1>7

LEMMA SkipStep ==
  ASSUME EvalInv, Skip
  PROVE  EvalInv'
<1> USE EvalConstants, NoneIsNoStatus
    DEF EvalInv, RunStatuses, main, limits, watch, outputs
<1>0. \/ UNCHANGED rows
      \/ "not_attempted" \in Statuses /\ RowAdded("not_attempted")
  BY Appended
     DEF Skip, TypeOK, Statuses, RowsInv, FilesInv, OutputStatuses, Attempting,
         Loop
<1>1. TypeOK'
  <2>1. rows' \in Seq([case : Cases, status : Statuses])
    BY <1>0 DEF Skip, CanWrite, RowAdded, TypeOK, Row
  <2>2. item' \in 1 .. N + 1 /\ late' \in Nat
    BY DEF Skip, CanWrite, TypeOK, RowsInv, Attempting
  <2>3. /\ start' \subseteq Cases /\ raw' \subseteq Cases
        /\ score' \in [Cases -> Statuses \cup {None}]
    BY DEF Skip, CanWrite, TypeOK, Cases, Statuses, RowsInv, Attempting
  <2>4. pc' \in Steps \cup Ends
    BY DEF Skip, CanWrite, Steps, Loop, Ends, TypeOK
  <2>5. wired' \in [setter : {"native", "capped"},
                     limit : {"entry", "selected"}]
    BY DEF Skip, CanWrite, TypeOK
  <2>. QED
    BY <2>1, <2>2, <2>3, <2>4, <2>5 DEF Skip, CanWrite, TypeOK
<1>2. RowsInv'
  <2>1. CASE UNCHANGED rows
    BY <2>1
       DEF Skip, CanWrite, RowsInv, Loop, InFinally, Attempting, Steps, TypeOK,
           OutputStatuses
  <2>2. CASE "not_attempted" \in Statuses /\ RowAdded("not_attempted")
    <3>1. item' = item + 1 /\ item \in 1 .. N /\ manifest = None
      BY <2>2 DEF Skip, CanWrite, RowAdded, TypeOK, RowsInv, Attempting
    <3>2. \A i \in 1 .. item : rows'[i].case = i
      BY <2>2, <3>1 DEF RowAdded, RowsInv
    <3>. QED
      BY <2>2, <3>1, <3>2
         DEF Skip, CanWrite, RowAdded, RowsInv, Loop, InFinally, Attempting,
             Steps
  <2>. QED
    BY <1>0, <2>1, <2>2
<1>3. FilesInv'
  <2>1. CASE UNCHANGED rows
    BY <2>1 DEF Skip, CanWrite, FilesInv, RowsBacked, TypeOK, OutputStatuses
  <2>2. CASE "not_attempted" \in Statuses /\ RowAdded("not_attempted")
    <3>1. RowsBacked'
      <4>1. \A c \in Cases : c # item => score'[c] = score[c]
        BY DEF Skip, TypeOK
      <4>. QED
        BY <2>2, <4>1, AddedKeepsFiles
           DEF Skip, CanWrite, FilesInv, RowAdded, TypeOK, RowsInv, Attempting,
               OutputStatuses
    <3>. QED
      BY <3>1, <2>2 DEF Skip, CanWrite, FilesInv, RowAdded, TypeOK
  <2>. QED
    BY <1>0, <2>1, <2>2
<1>4. StatusInv'
  BY <1>0 DEF Skip, CanWrite, RowAdded, StatusInv, TypeOK, OutputStatuses
<1>5. StartInv'
  <2>1. CASE UNCHANGED rows
    BY <2>1
       DEF Skip, CanWrite, StartInv, Loop, AfterFinally, Attempting, TypeOK,
           OutputStatuses
  <2>2. CASE "not_attempted" \in Statuses /\ RowAdded("not_attempted")
    BY <2>2, AddedKeepsStarts
       DEF Skip, CanWrite, RowAdded, TypeOK, Loop, Attempting, Statuses
  <2>. QED
    BY <1>0, <2>1, <2>2
<1>6. LateInv'
  BY <1>0
     DEF Skip, CanWrite, RowAdded, LateInv, Flagged, TypeOK, OutputStatuses
<1>7. LimitInv'
  BY <1>0
     DEF Skip, CanWrite, RowAdded, LimitInv, AfterFinally, TypeOK,
         OutputStatuses
<1>. QED
  BY <1>1, <1>2, <1>3, <1>4, <1>5, <1>6, <1>7

LEMMA StartStep ==
  ASSUME EvalInv, Start
  PROVE  EvalInv'
<1> USE EvalConstants, NoneIsNoStatus
    DEF EvalInv, RunStatuses, main, limits, watch, outputs
<1>1. TypeOK'
  <2>1. rows' \in Seq([case : Cases, status : Statuses])
    BY DEF Start, Flagged, TypeOK
  <2>2. item' \in 1 .. N + 1 /\ late' \in Nat
    BY DEF Start, Flagged, TypeOK, RowsInv, Attempting
  <2>0. item \in Cases
    BY DEF Start, TypeOK, Cases, RowsInv, Attempting
  <2>3. /\ start' \subseteq Cases /\ raw' \subseteq Cases
        /\ score' \in [Cases -> Statuses \cup {None}]
    BY <2>0 DEF Start, Flagged, TypeOK, Statuses
  <2>4. pc' \in Steps \cup Ends
    BY DEF Start, Flagged, Steps, Loop, Ends, TypeOK
  <2>5. wired' \in [setter : {"native", "capped"},
                     limit : {"entry", "selected"}]
    BY DEF Start, Flagged, TypeOK
  <2>. QED
    BY <2>1, <2>2, <2>3, <2>4, <2>5 DEF Start, Flagged, TypeOK
<1>2. RowsInv'
  BY DEF Start, Flagged, RowsInv, Loop, InFinally, Attempting, Steps, TypeOK
<1>3. FilesInv'
  BY DEF Start, Flagged, FilesInv, RowsBacked, TypeOK
<1>4. StatusInv'
  BY DEF Start, Flagged, StatusInv, TypeOK
<1>5. StartInv'
  BY DEF Start, Flagged, StartInv, Loop, AfterFinally, Attempting, RowsInv,
         TypeOK
<1>6. LateInv'
  BY DEF Start, Flagged, LateInv, TypeOK
<1>7. LimitInv'
  BY DEF Start, Flagged, LimitInv, AfterFinally, TypeOK
<1>. QED
  BY <1>1, <1>2, <1>3, <1>4, <1>5, <1>6, <1>7

LEMMA GenerateStep ==
  ASSUME EvalInv, Generate
  PROVE  EvalInv'
<1> USE EvalConstants, NoneIsNoStatus
    DEF EvalInv, RunStatuses, main, limits, watch, outputs
<1>1. TypeOK'
  <2>1. rows' \in Seq([case : Cases, status : Statuses])
    BY DEF Generate, TypeOK
  <2>2. item' \in 1 .. N + 1 /\ late' \in Nat
    BY DEF Generate, TypeOK, RowsInv, Attempting
  <2>0. item \in Cases
    BY DEF Generate, TypeOK, Cases, RowsInv, Attempting
  <2>3. /\ start' \subseteq Cases /\ raw' \subseteq Cases
        /\ score' \in [Cases -> Statuses \cup {None}]
    BY <2>0 DEF Generate, TypeOK, Statuses
  <2>4. pc' \in Steps \cup Ends
    BY DEF Generate, Steps, Loop, Ends, TypeOK
  <2>5. wired' \in [setter : {"native", "capped"},
                     limit : {"entry", "selected"}]
    BY DEF Generate, TypeOK
  <2>. QED
    BY <2>1, <2>2, <2>3, <2>4, <2>5 DEF Generate, TypeOK
<1>2. RowsInv'
  BY DEF Generate, RowsInv, Loop, InFinally, Attempting, Steps, TypeOK
<1>3. FilesInv'
  BY DEF Generate, FilesInv, RowsBacked, TypeOK
<1>4. StatusInv'
  BY DEF Generate, StatusInv, TypeOK
<1>5. StartInv'
  BY DEF Generate, StartInv, Loop, AfterFinally, Attempting, TypeOK
<1>6. LateInv'
  BY DEF Generate, LateInv, Flagged, TypeOK
<1>7. LimitInv'
  BY DEF Generate, LimitInv, AfterFinally, TypeOK
<1>. QED
  BY <1>1, <1>2, <1>3, <1>4, <1>5, <1>6, <1>7

LEMMA ScoreStep ==
  ASSUME EvalInv, Score
  PROVE  EvalInv'
<1> USE EvalConstants, NoneIsNoStatus
    DEF EvalInv, RunStatuses, main, limits, watch, outputs
<1>1. TypeOK'
  <2>1. rows' \in Seq([case : Cases, status : Statuses])
    BY DEF Score, CanWrite, TypeOK
  <2>2. item' \in 1 .. N + 1 /\ late' \in Nat
    BY DEF Score, CanWrite, TypeOK, RowsInv, Attempting
  <2>0. item \in Cases
    BY DEF Score, TypeOK, Cases, RowsInv, Attempting
  <2>3. /\ start' \subseteq Cases /\ raw' \subseteq Cases
        /\ score' \in [Cases -> Statuses \cup {None}]
    BY <2>0 DEF Score, CanWrite, TypeOK, Statuses
  <2>4. pc' \in Steps \cup Ends
    BY DEF Score, CanWrite, Steps, Loop, Ends, TypeOK
  <2>5. wired' \in [setter : {"native", "capped"},
                     limit : {"entry", "selected"}]
    BY DEF Score, CanWrite, TypeOK
  <2>. QED
    BY <2>1, <2>2, <2>3, <2>4, <2>5 DEF Score, CanWrite, TypeOK
<1>2. RowsInv'
  BY DEF Score, CanWrite, RowsInv, Loop, InFinally, Attempting, Steps, TypeOK
<1>3. FilesInv'
  <2>1. Len(rows) = item - 1 /\ item \in 1 .. N
    BY DEF Score, RowsInv, Loop, Attempting, TypeOK
  <2>2. \A c \in Cases : c # item => score'[c] = score[c]
    BY DEF Score, TypeOK
  <2>3. RowsBacked'
    BY <2>1, <2>2 DEF Score, FilesInv, RowsBacked, Cases
  <2>4. pc' = "announce" => score'[item] \in OutputStatuses
    BY <2>1 DEF Score, OutputStatuses, TypeOK, Cases
  <2>. QED
    BY <2>3, <2>4 DEF Score, FilesInv
<1>4. StatusInv'
  BY DEF Score, CanWrite, StatusInv, TypeOK
<1>5. StartInv'
  BY DEF Score, CanWrite, StartInv, Loop, AfterFinally, Attempting, TypeOK
<1>6. LateInv'
  BY DEF Score, CanWrite, LateInv, Flagged, TypeOK
<1>7. LimitInv'
  BY DEF Score, CanWrite, LimitInv, AfterFinally, TypeOK
<1>. QED
  BY <1>1, <1>2, <1>3, <1>4, <1>5, <1>6, <1>7

LEMMA AnnounceStep ==
  ASSUME EvalInv, Announce
  PROVE  EvalInv'
<1> USE EvalConstants, NoneIsNoStatus
    DEF EvalInv, RunStatuses, main, limits, watch, outputs
<1>0. UNCHANGED rows \/ (score[item] \in Statuses /\ RowAdded(score[item]))
  BY Appended
     DEF Announce, TypeOK, Statuses, RowsInv, FilesInv, OutputStatuses,
         Attempting, Loop
<1>1. TypeOK'
  <2>1. rows' \in Seq([case : Cases, status : Statuses])
    BY <1>0 DEF Announce, RowAdded, TypeOK, Row
  <2>2. item' \in 1 .. N + 1 /\ late' \in Nat
    BY DEF Announce, TypeOK, RowsInv, Attempting
  <2>3. /\ start' \subseteq Cases /\ raw' \subseteq Cases
        /\ score' \in [Cases -> Statuses \cup {None}]
    BY DEF Announce, TypeOK, Cases, Statuses, RowsInv, Attempting
  <2>4. pc' \in Steps \cup Ends
    BY DEF Announce, Steps, Loop, Ends, TypeOK
  <2>5. wired' \in [setter : {"native", "capped"},
                     limit : {"entry", "selected"}]
    BY DEF Announce, TypeOK
  <2>. QED
    BY <2>1, <2>2, <2>3, <2>4, <2>5 DEF Announce, TypeOK
<1>2. RowsInv'
  <2>1. CASE UNCHANGED rows
    BY <2>1
       DEF Announce, RowsInv, Loop, InFinally, Attempting, Steps, TypeOK,
           OutputStatuses
  <2>2. CASE score[item] \in Statuses /\ RowAdded(score[item])
    <3>1. item' = item + 1 /\ item \in 1 .. N /\ manifest = None
      BY <2>2 DEF Announce, RowAdded, TypeOK, RowsInv, Attempting
    <3>2. \A i \in 1 .. item : rows'[i].case = i
      BY <2>2, <3>1 DEF RowAdded, RowsInv
    <3>. QED
      BY <2>2, <3>1, <3>2
         DEF Announce, RowAdded, RowsInv, Loop, InFinally, Attempting, Steps
  <2>. QED
    BY <1>0, <2>1, <2>2
<1>3. FilesInv'
  <2>1. CASE UNCHANGED rows
    BY <2>1 DEF Announce, FilesInv, RowsBacked, TypeOK, OutputStatuses
  <2>2. CASE score[item] \in Statuses /\ RowAdded(score[item])
    <3>1. RowsBacked'
      <4>1. \A c \in Cases : c # item => score'[c] = score[c]
        BY DEF Announce, TypeOK
      <4>. QED
        BY <2>2, <4>1, AddedKeepsFiles
           DEF Announce, FilesInv, RowAdded, TypeOK, RowsInv, Attempting,
               OutputStatuses
    <3>. QED
      BY <3>1, <2>2 DEF Announce, FilesInv, RowAdded, TypeOK
  <2>. QED
    BY <1>0, <2>1, <2>2
<1>4. StatusInv'
  <2>1. ASSUME status = "evaluation_completed",
               NEW i \in 1 .. Len(rows'), RowAdded(score[item])
        PROVE  rows'[i].status \in OutputStatuses
    <3>1. item \in 1 .. N /\ i \in 1 .. item
      BY <2>1 DEF RowAdded, Announce, RowsInv, Attempting, TypeOK
    <3>2. CASE i = item
      BY <2>1, <3>2 DEF RowAdded, Announce, FilesInv
    <3>3. CASE i # item
      BY <2>1, <3>1, <3>3 DEF RowAdded, StatusInv
    <3>. QED
      BY <3>2, <3>3
  <2>. QED
    BY <1>0, <2>1 DEF Announce, StatusInv
<1>5. StartInv'
  <2>1. CASE UNCHANGED rows
    BY <2>1
       DEF Announce, StartInv, Loop, AfterFinally, Attempting, TypeOK,
           OutputStatuses
  <2>2. CASE score[item] \in Statuses /\ RowAdded(score[item])
    BY <2>2, AddedKeepsStarts
       DEF Announce, RowAdded, TypeOK, Loop, Attempting, Statuses, FilesInv,
           OutputStatuses
  <2>. QED
    BY <1>0, <2>1, <2>2
<1>6. LateInv'
  BY <1>0 DEF Announce, RowAdded, LateInv, Flagged, TypeOK, OutputStatuses
<1>7. LimitInv'
  BY <1>0
     DEF Announce, RowAdded, LimitInv, AfterFinally, TypeOK, OutputStatuses
<1>. QED
  BY <1>1, <1>2, <1>3, <1>4, <1>5, <1>6, <1>7

LEMMA FailureStep ==
  ASSUME EvalInv, Failure
  PROVE  EvalInv'
<1> USE EvalConstants, NoneIsNoStatus
    DEF EvalInv, RunStatuses, main, limits, watch, outputs
<1>1. TypeOK'
  BY DEF Failure, Goes, TypeOK, Steps, Loop, Ends
<1>2. RowsInv'
  BY DEF Failure, Goes, RowsInv, Loop, InFinally, Attempting, Steps, TypeOK
<1>3. FilesInv'
  BY DEF Failure, Goes, FilesInv, RowsBacked, TypeOK
<1>4. StatusInv'
  BY DEF Failure, Goes, StatusInv, TypeOK
<1>5. StartInv'
  BY DEF Failure, Goes, StartInv, Loop, AfterFinally, Attempting, TypeOK
<1>6. LateInv'
  BY DEF Failure, Goes, LateInv, Flagged, TypeOK
<1>7. LimitInv'
  BY DEF Failure, Goes, LimitInv, AfterFinally, TypeOK
<1>. QED
  BY <1>1, <1>2, <1>3, <1>4, <1>5, <1>6, <1>7

LEMMA RecordStep ==
  ASSUME EvalInv, Record
  PROVE  EvalInv'
<1> USE EvalConstants, NoneIsNoStatus
    DEF EvalInv, RunStatuses, main, limits, watch, outputs
<1>0. UNCHANGED rows \/ ("failed" \in Statuses /\ RowAdded("failed"))
  BY Appended
     DEF Record, TypeOK, Statuses, RowsInv, FilesInv, OutputStatuses,
         Attempting, Loop
<1>1. TypeOK'
  <2>1. rows' \in Seq([case : Cases, status : Statuses])
    BY <1>0 DEF Record, CanWrite, RowAdded, TypeOK, Row
  <2>2. item' \in 1 .. N + 1 /\ late' \in Nat
    BY DEF Record, CanWrite, TypeOK, RowsInv, Attempting
  <2>3. /\ start' \subseteq Cases /\ raw' \subseteq Cases
        /\ score' \in [Cases -> Statuses \cup {None}]
    BY DEF Record, CanWrite, TypeOK, Cases, Statuses, RowsInv, Attempting
  <2>4. pc' \in Steps \cup Ends
    BY DEF Record, CanWrite, Steps, Loop, Ends, TypeOK
  <2>5. wired' \in [setter : {"native", "capped"},
                     limit : {"entry", "selected"}]
    BY DEF Record, CanWrite, TypeOK
  <2>. QED
    BY <2>1, <2>2, <2>3, <2>4, <2>5 DEF Record, CanWrite, TypeOK
<1>2. RowsInv'
  <2>1. CASE UNCHANGED rows
    BY <2>1
       DEF Record, CanWrite, RowsInv, Loop, InFinally, Attempting, Steps,
           TypeOK, OutputStatuses
  <2>2. CASE "failed" \in Statuses /\ RowAdded("failed")
    <3>1. item' = item + 1 /\ item \in 1 .. N /\ manifest = None
      BY <2>2 DEF Record, CanWrite, RowAdded, TypeOK, RowsInv, Attempting
    <3>2. \A i \in 1 .. item : rows'[i].case = i
      BY <2>2, <3>1 DEF RowAdded, RowsInv
    <3>. QED
      BY <2>2, <3>1, <3>2
         DEF Record, CanWrite, RowAdded, RowsInv, Loop, InFinally, Attempting,
             Steps
  <2>. QED
    BY <1>0, <2>1, <2>2
<1>3. FilesInv'
  <2>1. CASE UNCHANGED rows
    BY <2>1 DEF Record, CanWrite, FilesInv, RowsBacked, TypeOK, OutputStatuses
  <2>2. CASE "failed" \in Statuses /\ RowAdded("failed")
    <3>1. RowsBacked'
      <4>1. \A c \in Cases : c # item => score'[c] = score[c]
        BY DEF Record, TypeOK
      <4>. QED
        BY <2>2, <4>1, AddedKeepsFiles
           DEF Record, CanWrite, FilesInv, RowAdded, TypeOK, RowsInv,
               Attempting, OutputStatuses
    <3>. QED
      BY <3>1, <2>2 DEF Record, CanWrite, FilesInv, RowAdded, TypeOK
  <2>. QED
    BY <1>0, <2>1, <2>2
<1>4. StatusInv'
  BY <1>0 DEF Record, CanWrite, RowAdded, StatusInv, TypeOK, OutputStatuses
<1>5. StartInv'
  <2>1. CASE UNCHANGED rows
    BY <2>1
       DEF Record, CanWrite, StartInv, Loop, AfterFinally, Attempting, TypeOK,
           OutputStatuses
  <2>2. CASE "failed" \in Statuses /\ RowAdded("failed")
    BY <2>2, AddedKeepsStarts
       DEF Record, CanWrite, RowAdded, TypeOK, Loop, Attempting, Statuses
  <2>. QED
    BY <1>0, <2>1, <2>2
<1>6. LateInv'
  BY <1>0
     DEF Record, CanWrite, RowAdded, LateInv, Flagged, TypeOK, OutputStatuses
<1>7. LimitInv'
  BY <1>0
     DEF Record, CanWrite, RowAdded, LimitInv, AfterFinally, TypeOK,
         OutputStatuses
<1>. QED
  BY <1>1, <1>2, <1>3, <1>4, <1>5, <1>6, <1>7

LEMMA RestStep ==
  ASSUME EvalInv, Rest
  PROVE  EvalInv'
<1> USE EvalConstants, NoneIsNoStatus
    DEF EvalInv, RunStatuses, main, limits, watch, outputs
<1>0. \/ UNCHANGED rows
      \/ "not_attempted" \in Statuses /\ RowAdded("not_attempted")
  BY Appended
     DEF Rest, TypeOK, Statuses, RowsInv, FilesInv, OutputStatuses, Attempting,
         Loop
<1>1. TypeOK'
  <2>1. rows' \in Seq([case : Cases, status : Statuses])
    BY <1>0 DEF Rest, CanWrite, RowAdded, TypeOK, Row
  <2>2. item' \in 1 .. N + 1 /\ late' \in Nat
    BY DEF Rest, CanWrite, TypeOK, RowsInv, Attempting
  <2>3. /\ start' \subseteq Cases /\ raw' \subseteq Cases
        /\ score' \in [Cases -> Statuses \cup {None}]
    BY DEF Rest, CanWrite, TypeOK, Cases, Statuses, RowsInv, Attempting
  <2>4. pc' \in Steps \cup Ends
    BY DEF Rest, CanWrite, Steps, Loop, Ends, TypeOK
  <2>5. wired' \in [setter : {"native", "capped"},
                     limit : {"entry", "selected"}]
    BY DEF Rest, CanWrite, TypeOK
  <2>. QED
    BY <2>1, <2>2, <2>3, <2>4, <2>5 DEF Rest, CanWrite, TypeOK
<1>2. RowsInv'
  <2>1. CASE UNCHANGED rows
    BY <2>1
       DEF Rest, CanWrite, RowsInv, Loop, InFinally, Attempting, Steps, TypeOK,
           OutputStatuses
  <2>2. CASE "not_attempted" \in Statuses /\ RowAdded("not_attempted")
    <3>1. item' = item + 1 /\ item \in 1 .. N /\ manifest = None
      BY <2>2 DEF Rest, CanWrite, RowAdded, TypeOK, RowsInv, Attempting
    <3>2. \A i \in 1 .. item : rows'[i].case = i
      BY <2>2, <3>1 DEF RowAdded, RowsInv
    <3>. QED
      BY <2>2, <3>1, <3>2
         DEF Rest, CanWrite, RowAdded, RowsInv, Loop, InFinally, Attempting,
             Steps
  <2>. QED
    BY <1>0, <2>1, <2>2
<1>3. FilesInv'
  <2>1. CASE UNCHANGED rows
    BY <2>1 DEF Rest, CanWrite, FilesInv, RowsBacked, TypeOK, OutputStatuses
  <2>2. CASE "not_attempted" \in Statuses /\ RowAdded("not_attempted")
    <3>1. RowsBacked'
      <4>1. \A c \in Cases : c # item => score'[c] = score[c]
        BY DEF Rest, TypeOK
      <4>. QED
        BY <2>2, <4>1, AddedKeepsFiles
           DEF Rest, CanWrite, FilesInv, RowAdded, TypeOK, RowsInv, Attempting,
               OutputStatuses
    <3>. QED
      BY <3>1, <2>2 DEF Rest, CanWrite, FilesInv, RowAdded, TypeOK
  <2>. QED
    BY <1>0, <2>1, <2>2
<1>4. StatusInv'
  BY <1>0 DEF Rest, CanWrite, RowAdded, StatusInv, TypeOK, OutputStatuses
<1>5. StartInv'
  <2>1. CASE UNCHANGED rows
    BY <2>1
       DEF Rest, CanWrite, StartInv, Loop, AfterFinally, Attempting, TypeOK,
           OutputStatuses
  <2>2. CASE "not_attempted" \in Statuses /\ RowAdded("not_attempted")
    BY <2>2, AddedKeepsStarts
       DEF Rest, CanWrite, RowAdded, TypeOK, Loop, Attempting, Statuses
  <2>. QED
    BY <1>0, <2>1, <2>2
<1>6. LateInv'
  BY <1>0
     DEF Rest, CanWrite, RowAdded, LateInv, Flagged, TypeOK, OutputStatuses
<1>7. LimitInv'
  BY <1>0
     DEF Rest, CanWrite, RowAdded, LimitInv, AfterFinally, TypeOK,
         OutputStatuses
<1>. QED
  BY <1>1, <1>2, <1>3, <1>4, <1>5, <1>6, <1>7

LEMMA OuterStep ==
  ASSUME EvalInv, Outer
  PROVE  EvalInv'
<1> USE EvalConstants, NoneIsNoStatus
    DEF EvalInv, RunStatuses, main, limits, watch, outputs
<1>1. TypeOK'
  <2>1. rows' \in Seq([case : Cases, status : Statuses])
    BY DEF Outer, TypeOK
  <2>2. item' \in 1 .. N + 1 /\ late' \in Nat
    BY DEF Outer, TypeOK, RowsInv, Attempting
  <2>3. /\ start' \subseteq Cases /\ raw' \subseteq Cases
        /\ score' \in [Cases -> Statuses \cup {None}]
    BY DEF Outer, TypeOK, Cases, Statuses, RowsInv, Attempting
  <2>4. pc' \in Steps \cup Ends
    BY DEF Outer, Steps, Loop, Ends, TypeOK
  <2>5. wired' \in [setter : {"native", "capped"},
                     limit : {"entry", "selected"}]
    BY DEF Outer, TypeOK
  <2>. QED
    BY <2>1, <2>2, <2>3, <2>4, <2>5 DEF Outer, TypeOK
<1>2. RowsInv'
  BY DEF Outer, RowsInv, Loop, InFinally, Attempting, Steps, TypeOK
<1>3. FilesInv'
  BY DEF Outer, FilesInv, RowsBacked, TypeOK
<1>4. StatusInv'
  BY DEF Outer, StatusInv, TypeOK
<1>5. StartInv'
  BY DEF Outer, StartInv, Loop, AfterFinally, Attempting, TypeOK
<1>6. LateInv'
  BY DEF Outer, LateInv, Flagged, TypeOK
<1>7. LimitInv'
  BY DEF Outer, LimitInv, AfterFinally, TypeOK
<1>. QED
  BY <1>1, <1>2, <1>3, <1>4, <1>5, <1>6, <1>7

LEMMA StopSetStep ==
  ASSUME EvalInv, StopSet
  PROVE  EvalInv'
<1> USE EvalConstants, NoneIsNoStatus
    DEF EvalInv, RunStatuses, main, limits, watch, outputs
<1>1. TypeOK'
  BY DEF StopSet, TypeOK, Steps, Loop, Ends
<1>2. RowsInv'
  BY DEF StopSet, RowsInv, Loop, InFinally, Attempting, Steps, TypeOK
<1>3. FilesInv'
  BY DEF StopSet, FilesInv, RowsBacked, TypeOK
<1>4. StatusInv'
  BY DEF StopSet, StatusInv, TypeOK
<1>5. StartInv'
  BY DEF StopSet, StartInv, Loop, AfterFinally, Attempting, TypeOK
<1>6. LateInv'
  BY DEF StopSet, LateInv, Flagged, TypeOK
<1>7. LimitInv'
  BY DEF StopSet, LimitInv, AfterFinally, TypeOK
<1>. QED
  BY <1>1, <1>2, <1>3, <1>4, <1>5, <1>6, <1>7

LEMMA JoinStep ==
  ASSUME EvalInv, Join
  PROVE  EvalInv'
<1> USE EvalConstants, NoneIsNoStatus
    DEF EvalInv, RunStatuses, main, limits, watch, outputs
<1>1. TypeOK'
  BY DEF Join, TypeOK, Steps, Loop, Ends
<1>2. RowsInv'
  BY DEF Join, RowsInv, Loop, InFinally, Attempting, Steps, TypeOK
<1>3. FilesInv'
  BY DEF Join, FilesInv, RowsBacked, TypeOK
<1>4. StatusInv'
  BY DEF Join, StatusInv, TypeOK
<1>5. StartInv'
  BY DEF Join, StartInv, Loop, AfterFinally, Attempting, TypeOK
<1>6. LateInv'
  BY DEF Join, LateInv, Flagged, TypeOK
<1>7. LimitInv'
  BY DEF Join, LimitInv, AfterFinally, TypeOK
<1>. QED
  BY <1>1, <1>2, <1>3, <1>4, <1>5, <1>6, <1>7

LEMMA CloseStep ==
  ASSUME EvalInv, Close
  PROVE  EvalInv'
<1> USE EvalConstants, NoneIsNoStatus
    DEF EvalInv, RunStatuses, main, limits, watch, outputs
<1>1. TypeOK'
  <2>1. rows' \in Seq([case : Cases, status : Statuses])
    BY DEF Close, TypeOK
  <2>2. item' \in 1 .. N + 1 /\ late' \in Nat
    BY DEF Close, TypeOK, RowsInv, Attempting
  <2>3. /\ start' \subseteq Cases /\ raw' \subseteq Cases
        /\ score' \in [Cases -> Statuses \cup {None}]
    BY DEF Close, TypeOK, Cases, Statuses, RowsInv, Attempting
  <2>4. pc' \in Steps \cup Ends
    BY DEF Close, Steps, Loop, Ends, TypeOK
  <2>5. wired' \in [setter : {"native", "capped"},
                     limit : {"entry", "selected"}]
    BY DEF Close, TypeOK
  <2>. QED
    BY <2>1, <2>2, <2>3, <2>4, <2>5 DEF Close, TypeOK
<1>2. RowsInv'
  BY DEF Close, RowsInv, Loop, InFinally, Attempting, Steps, TypeOK
<1>3. FilesInv'
  BY DEF Close, FilesInv, RowsBacked, TypeOK
<1>4. StatusInv'
  BY DEF Close, StatusInv, TypeOK
<1>5. StartInv'
  BY DEF Close, StartInv, Loop, AfterFinally, Attempting, TypeOK
<1>6. LateInv'
  BY DEF Close, LateInv, Flagged, TypeOK
<1>7. LimitInv'
  BY DEF Close, LimitInv, AfterFinally, TypeOK
<1>. QED
  BY <1>1, <1>2, <1>3, <1>4, <1>5, <1>6, <1>7

LEMMA UninstallStep ==
  ASSUME EvalInv, Uninstall
  PROVE  EvalInv'
<1> USE EvalConstants, NoneIsNoStatus
    DEF EvalInv, RunStatuses, main, limits, watch, outputs
<1>1. TypeOK'
  <2>1. rows' \in Seq([case : Cases, status : Statuses])
    BY DEF Uninstall, Leaves, TypeOK
  <2>2. item' \in 1 .. N + 1 /\ late' \in Nat
    BY DEF Uninstall, Leaves, TypeOK, RowsInv, Attempting
  <2>3. /\ start' \subseteq Cases /\ raw' \subseteq Cases
        /\ score' \in [Cases -> Statuses \cup {None}]
    BY DEF Uninstall, Leaves, TypeOK, Cases, Statuses, RowsInv, Attempting
  <2>4. pc' \in Steps \cup Ends
    BY DEF Uninstall, Leaves, Steps, Loop, Ends, TypeOK
  <2>5. wired' \in [setter : {"native", "capped"},
                     limit : {"entry", "selected"}]
    BY DEF Uninstall, Leaves, TypeOK
  <2>. QED
    BY <2>1, <2>2, <2>3, <2>4, <2>5 DEF Uninstall, Leaves, TypeOK
<1>2. RowsInv'
  BY DEF Uninstall, Leaves, RowsInv, Loop, InFinally, Attempting, Steps, TypeOK
<1>3. FilesInv'
  BY DEF Uninstall, Leaves, FilesInv, RowsBacked, TypeOK
<1>4. StatusInv'
  BY DEF Uninstall, Leaves, StatusInv, TypeOK
<1>5. StartInv'
  BY DEF Uninstall, Leaves, StartInv, Loop, AfterFinally, Attempting, TypeOK
<1>6. LateInv'
  BY DEF Uninstall, Leaves, LateInv, Flagged, TypeOK
<1>7. LimitInv'
  BY DEF Uninstall, Leaves, LimitInv, AfterFinally, TypeOK
<1>. QED
  BY <1>1, <1>2, <1>3, <1>4, <1>5, <1>6, <1>7

LEMMA PadStep ==
  ASSUME EvalInv, Pad
  PROVE  EvalInv'
<1> USE EvalConstants, NoneIsNoStatus
    DEF EvalInv, RunStatuses, main, limits, watch, outputs
<1>0. RowsPadded
  BY Padded DEF Pad
<1>1. TypeOK'
  <2>1. rows' \in Seq([case : Cases, status : Statuses])
    BY <1>0 DEF Pad, RowsPadded, TypeOK, Row
  <2>2. item' \in 1 .. N + 1 /\ late' \in Nat
    BY DEF Pad, TypeOK, RowsInv, Attempting
  <2>3. /\ start' \subseteq Cases /\ raw' \subseteq Cases
        /\ score' \in [Cases -> Statuses \cup {None}]
    BY DEF Pad, TypeOK, Cases, Statuses, RowsInv, Attempting
  <2>4. pc' \in Steps \cup Ends
    BY DEF Pad, Steps, Loop, Ends, TypeOK
  <2>5. wired' \in [setter : {"native", "capped"},
                     limit : {"entry", "selected"}]
    BY DEF Pad, TypeOK
  <2>. QED
    BY <2>1, <2>2, <2>3, <2>4, <2>5 DEF Pad, TypeOK
<1>2. RowsInv'
  BY <1>0
     DEF Pad, RowsPadded, RowsInv, Loop, InFinally, Attempting, Steps, TypeOK,
         OutputStatuses, Missing
<1>3. FilesInv'
  <2>1. ASSUME NEW i \in 1 .. Len(rows'), rows'[i].status \in OutputStatuses
        PROVE  i \in 1 .. Len(rows)
    BY <1>0, <2>1 DEF RowsPadded, OutputStatuses, TypeOK
  <2>. QED
    BY <1>0, <2>1 DEF Pad, RowsPadded, FilesInv, RowsBacked, OutputStatuses
<1>4. StatusInv'
  BY <1>0 DEF Pad, RowsPadded, StatusInv, TypeOK, OutputStatuses, Missing
<1>5. StartInv'
  <2>1. ~raising /\ start \subseteq 1 .. N /\ Len(rows) \in Nat
    BY DEF Pad, StartInv, AfterFinally, TypeOK, Cases
  <2>2. \A c \in start : c > Len(rows) => "failure" \in reports
    BY <2>1 DEF Pad, StartInv, Attempting
  <2>3. \A c \in start : c <= Len(rows) =>
          rows'[c].status # "not_attempted" \/ "failure" \in reports
    BY <1>0, <2>1 DEF RowsPadded, StartInv
  <2>. QED
    BY <1>0, <2>1, <2>2, <2>3 DEF Pad, RowsPadded, StartInv
<1>6. LateInv'
  BY <1>0
     DEF Pad, RowsPadded, LateInv, Flagged, TypeOK, OutputStatuses, Missing
<1>7. LimitInv'
  BY <1>0
     DEF Pad, RowsPadded, LimitInv, AfterFinally, TypeOK, OutputStatuses,
         Missing
<1>. QED
  BY <1>1, <1>2, <1>3, <1>4, <1>5, <1>6, <1>7

LEMMA PublishStep ==
  ASSUME EvalInv, Publish
  PROVE  EvalInv'
<1> USE EvalConstants, NoneIsNoStatus
    DEF EvalInv, RunStatuses, main, limits, watch, outputs
<1>1. TypeOK'
  BY DEF Publish, TypeOK, Steps, Loop, Ends
<1>2. RowsInv'
  BY DEF Publish, RowsInv, Loop, InFinally, Attempting, Steps, TypeOK
<1>3. FilesInv'
  BY DEF Publish, FilesInv, RowsBacked, TypeOK
<1>4. StatusInv'
  BY DEF Publish, StatusInv, TypeOK
<1>5. StartInv'
  BY DEF Publish, StartInv, Loop, AfterFinally, Attempting, TypeOK
<1>6. LateInv'
  BY DEF Publish, LateInv, Flagged, TypeOK
<1>7. LimitInv'
  BY DEF Publish, LimitInv, AfterFinally, TypeOK
<1>. QED
  BY <1>1, <1>2, <1>3, <1>4, <1>5, <1>6, <1>7

LEMMA WatchWaitStep ==
  ASSUME EvalInv, WatchWait
  PROVE  EvalInv'
<1> USE EvalConstants, NoneIsNoStatus
    DEF EvalInv, RunStatuses, main, limits, watch, outputs
<1>1. TypeOK'
  BY DEF WatchWait, TypeOK, Steps, Loop, Ends
<1>2. RowsInv'
  BY DEF WatchWait, RowsInv, Loop, InFinally, Attempting, Steps, TypeOK
<1>3. FilesInv'
  BY DEF WatchWait, FilesInv, RowsBacked, TypeOK
<1>4. StatusInv'
  BY DEF WatchWait, StatusInv, TypeOK
<1>5. StartInv'
  BY DEF WatchWait, StartInv, Loop, AfterFinally, Attempting, TypeOK
<1>6. LateInv'
  BY DEF WatchWait, LateInv, Flagged, TypeOK
<1>7. LimitInv'
  BY DEF WatchWait, LimitInv, AfterFinally, TypeOK
<1>. QED
  BY <1>1, <1>2, <1>3, <1>4, <1>5, <1>6, <1>7

LEMMA SampleStep ==
  ASSUME EvalInv, NEW outcome \in {"fine", "breach", "raises"},
         WatchSample(outcome)
  PROVE  EvalInv'
<1> USE EvalConstants, NoneIsNoStatus
    DEF EvalInv, RunStatuses, main, limits, watch, outputs
<1>1. TypeOK'
  BY DEF WatchSample, TypeOK, Steps, Loop, Ends
<1>2. RowsInv'
  BY DEF WatchSample, RowsInv, Loop, InFinally, Attempting, Steps, TypeOK
<1>3. FilesInv'
  BY DEF WatchSample, FilesInv, RowsBacked, TypeOK
<1>4. StatusInv'
  BY DEF WatchSample, StatusInv, TypeOK
<1>5. StartInv'
  BY DEF WatchSample, StartInv, Loop, AfterFinally, Attempting, TypeOK
<1>6. LateInv'
  BY DEF WatchSample, LateInv, Flagged, TypeOK
<1>7. LimitInv'
  BY DEF WatchSample, LimitInv, AfterFinally, TypeOK
<1>. QED
  BY <1>1, <1>2, <1>3, <1>4, <1>5, <1>6, <1>7

LEMMA InterruptStep ==
  ASSUME EvalInv, Interrupt
  PROVE  EvalInv'
<1> USE EvalConstants, NoneIsNoStatus
    DEF EvalInv, RunStatuses, main, limits, watch, outputs
<1>1. TypeOK'
  BY DEF Interrupt, TypeOK, Steps, Loop, Ends
<1>2. RowsInv'
  BY DEF Interrupt, RowsInv, Loop, InFinally, Attempting, Steps, TypeOK
<1>3. FilesInv'
  BY DEF Interrupt, FilesInv, RowsBacked, TypeOK
<1>4. StatusInv'
  BY DEF Interrupt, StatusInv, TypeOK
<1>5. StartInv'
  BY DEF Interrupt, StartInv, Loop, AfterFinally, Attempting, TypeOK
<1>6. LateInv'
  BY DEF Interrupt, LateInv, Flagged, TypeOK
<1>7. LimitInv'
  BY DEF Interrupt, LimitInv, AfterFinally, TypeOK
<1>. QED
  BY <1>1, <1>2, <1>3, <1>4, <1>5, <1>6, <1>7

LEMMA KillStep ==
  ASSUME EvalInv, Kill
  PROVE  EvalInv'
<1> USE EvalConstants, NoneIsNoStatus
    DEF EvalInv, RunStatuses, main, limits, watch, outputs
<1>1. TypeOK'
  BY DEF Kill, TypeOK, Steps, Loop, Ends
<1>2. RowsInv'
  BY DEF Kill, RowsInv, Loop, InFinally, Attempting, Steps, TypeOK
<1>3. FilesInv'
  BY DEF Kill, FilesInv, RowsBacked, TypeOK
<1>4. StatusInv'
  BY DEF Kill, StatusInv, TypeOK
<1>5. StartInv'
  BY DEF Kill, StartInv, Loop, AfterFinally, Attempting, TypeOK
<1>6. LateInv'
  BY DEF Kill, LateInv, Flagged, TypeOK
<1>7. LimitInv'
  BY DEF Kill, LimitInv, AfterFinally, TypeOK
<1>. QED
  BY <1>1, <1>2, <1>3, <1>4, <1>5, <1>6, <1>7

LEMMA NextStep == EvalInv /\ [Next]_vars => EvalInv'
<1> SUFFICES ASSUME EvalInv, [Next]_vars PROVE EvalInv'
  OBVIOUS
<1>1. CASE Main
  BY <1>1, InstallStep, LoadStep, CheckStep, SkipStep, StartStep,
     GenerateStep, ScoreStep, AnnounceStep, FailureStep, RecordStep, RestStep,
     OuterStep, StopSetStep, JoinStep, CloseStep, UninstallStep, PadStep,
     PublishStep DEF Main, Attempt, Finally
<1>2. CASE Watchdog
  BY <1>2, WatchWaitStep, SampleStep DEF Watchdog
<1>3. CASE Interrupt
  BY <1>3, InterruptStep
<1>4. CASE Kill
  BY <1>4, KillStep
<1>5. CASE UNCHANGED vars
  BY <1>5 DEF vars, main, limits, watch, outputs, EvalInv, TypeOK, RowsInv,
     FilesInv, RowsBacked, StatusInv, StartInv, LateInv, Flagged, LimitInv
<1>. QED
  BY <1>1, <1>2, <1>3, <1>4, <1>5 DEF Next

LEMMA EvalInvariant == Spec => []EvalInv
BY InitInv, NextStep, PTL DEF Spec

LEMMA Consequences ==
  EvalInv => /\ RowsFollowCases /\ RowsBacked /\ CompletedMeansAll
             /\ NotAttemptedExplained /\ OneLateAttempt /\ LimitRestored
<1> SUFFICES ASSUME EvalInv
             PROVE  /\ RowsFollowCases /\ RowsBacked /\ CompletedMeansAll
                    /\ NotAttemptedExplained /\ OneLateAttempt
                    /\ LimitRestored
  OBVIOUS
<1> USE EvalConstants, NoneIsNoStatus
<1>1. RowsFollowCases /\ RowsBacked /\ OneLateAttempt
  BY DEF EvalInv, RowsInv, RowsFollowCases, FilesInv, LateInv, OneLateAttempt
<1>2. LimitRestored
  BY DEF EvalInv, LimitInv, StartInv, AfterFinally, LimitRestored
<1>3. CompletedMeansAll
  <2> SUFFICES ASSUME manifest = "evaluation_completed"
               PROVE  /\ raw = Cases
                      /\ \A c \in Cases : score[c] \in OutputStatuses
                      /\ "failure" \notin reports
    BY DEF CompletedMeansAll, OutputStatuses
  <2>1. manifest # None
    BY DEF RunStatuses
  <2>2. status = "evaluation_completed" /\ Len(rows) = N
    BY <2>1 DEF EvalInv, RowsInv
  <2>3. \A i \in 1 .. N : rows[i].status \in OutputStatuses
    BY <2>2 DEF EvalInv, StatusInv
  <2>4. \A i \in 1 .. N : score[i] \in OutputStatuses /\ i \in raw
    BY <2>2, <2>3 DEF EvalInv, FilesInv, RowsBacked, OutputStatuses
  <2>. QED
    BY <2>2, <2>4 DEF EvalInv, StatusInv, TypeOK, Cases
<1>4. NotAttemptedExplained
  <2> SUFFICES ASSUME manifest # None, NEW c \in Cases,
                      rows[c].status = "not_attempted", c \in start
               PROVE  "failure" \in reports
    BY DEF NotAttemptedExplained
  <2>. QED
    BY DEF EvalInv, RowsInv, StartInv, Cases
<1>. QED
  BY <1>1, <1>2, <1>3, <1>4

(* The types of EvalRun's variables.                                       *)
THEOREM TypeCorrect == Spec => []TypeOK
<1>1. EvalInv => TypeOK
  BY DEF EvalInv
<1>. QED
  BY <1>1, EvalInvariant, PTL

(* The comparison's rows are the cases of the contract, in its order.      *)
THEOREM RowsFollowCasesHolds == Spec => []RowsFollowCases
BY EvalInvariant, Consequences, PTL

(* A row with an output has the start file, the output and the score file. *)
THEOREM RowsBackedHolds == Spec => []RowsBacked
BY EvalInvariant, Consequences, PTL

(* A manifest that says completed stands for outputs of all cases.         *)
THEOREM CompletedMeansAllHolds == Spec => []CompletedMeansAll
BY EvalInvariant, Consequences, PTL

(* A started case is called not attempted only next to a failure report.   *)
THEOREM NotAttemptedExplainedHolds == Spec => []NotAttemptedExplained
BY EvalInvariant, Consequences, PTL

(* The watchdog's flag is too late for one attempt at most.                *)
THEOREM OneLateAttemptHolds == Spec => []OneLateAttempt
BY EvalInvariant, Consequences, PTL

(* The wired limit is restored when the run returns, or a report tells.    *)
THEOREM LimitRestoredHolds == Spec => []LimitRestored
BY EvalInvariant, Consequences, PTL
=============================================================================
