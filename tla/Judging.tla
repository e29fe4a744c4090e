------------------------------- MODULE Judging -------------------------------
(***************************************************************************)
(* Judges in memory: the local Gemma backend with its lock, and the two    *)
(* judges of semantic_judging.py that take turns (mlx_judge_backend.py,    *)
(* gemma_advisory.py, semantic_judging.py, grading.py).                    *)
(*                                                                         *)
(* A process makes one call at a time.  A call loads a judge, has it look  *)
(* at a batch of answers, drops it, and goes on to the next judge or to    *)
(* its files.  Every step of it may fail, and the process may die between  *)
(* any two; after a failure the process may make another call.  Of several *)
(* processes only one may hold the lock of Gemma; the table of loaded      *)
(* judges is one for each process.                                         *)
(*                                                                         *)
(* The other judge stands for any second backend: the repository has none, *)
(* and asks of it that a failed acquire leaves nothing in memory.          *)
(***************************************************************************)
EXTENDS JudgeRules, Sequences

CONSTANTS Procs, Gemma, Other,
          Makes,        \* the kinds of calls each process makes
          Home,         \* the environment each process starts with
          Benchmarks,   \* benchmark artifacts
          Rows,         \* their rows, numbers
          Artifact,     \* each row of each
          Opinions,     \* bounds what a judge may say of the rows
          Datasets,     \* labelled calibration sets
          MaxCalls,     \* bound on the calls made
          MaxFlaws      \* bound on the verdicts of a calibration that are
                        \* not the human's, over both judges

ASSUME JudgingConstants ==
  /\ Gemma # Other /\ None \notin Procs
  /\ DOMAIN Makes = Procs
  /\ Home \in [Procs -> {"unset", "offline"}]
  /\ IsFiniteSet(Rows) /\ Rows \subseteq Nat \ {0} /\ Cases \cap Rows = {}
  /\ Artifact \in [Benchmarks -> [Rows -> Row]]
  /\ Opinions \subseteq [Rows \cup {0} -> Verdicts]
  /\ Datasets \subseteq Dataset
  /\ MaxCalls \in Nat /\ MaxFlaws \in Nat

VARIABLES
  call,        \* the call each process makes, or has made last
  memory,      \* the judges in the memory of each process
  registered,  \* _INVOCATION.loaded of each process
  lock,        \* who holds the lock file of Gemma
  env,         \* HF_HUB_OFFLINE and TRANSFORMERS_OFFLINE of each process
  saved,       \* what the backend will put back
  json, md,    \* the advisory files of each benchmark: the call they are of
  preflight,   \* the preflight report
  calls        \* the calls made

files == <<json, md, preflight>>
vars == <<call, memory, registered, lock, env, saved, files, calls>>

Kinds == {"advisory", "preflight", "calibration", "grading"}
Dual == {"calibration", "grading"}
Steps == {"idle", "acquire", "loading", "judging", "dropping", "restoring",
          "unlocking", "released", "checking", "writing", "half_written",
          "ended", "failed"}

\* grade_benchmark_artifact, which every advisory and grading begins with.
Status == [b \in Benchmarks |-> [r \in Rows |-> GradeRow(Artifact[b][r])]]

ReportGates ==
  [b \in Benchmarks |-> Gates({Artifact[b][r] : r \in Rows})]

\* What is judged.  The preflight judges a fixture of its own, as row 0.
Items == Cases \cup Rows \cup {0}
Unjudged == [t \in 1 .. 2 |-> [x \in Items |-> None]]

\* A call: of is its benchmark or data set, judges the judges in turn, row
\* the row a grading is at, seen the verdicts of each turn, ok whether
\* nothing has failed, says the certificate or the scores.
Fresh(id, kind, of, judges) ==
  [id |-> id, kind |-> kind, of |-> of, judges |-> judges, at |-> "acquire",
   turn |-> 1, row |-> 0, seen |-> Unjudged, ok |-> TRUE, says |-> None]

NoCall == [Fresh(0, None, None, <<>>) EXCEPT !.at = "idle"]

Free(p) == call[p].at \in {"idle", "ended", "failed"}
Judge(p) == call[p].judges[call[p].turn]

\* The rows a judge gets to see: a grading keeps hard failures from both, an
\* advisory shows Gemma all that was generated.
ReviewRows(b) == {r \in Rows : Status[b][r] = "review"}
GeneratedRows(b) == {r \in Rows : Status[b][r] # "generation_failure"}

Batch(c) ==
  CASE c.kind = "calibration" -> Cases
    [] c.kind = "grading" -> {c.row}
    [] c.kind = "advisory" -> GeneratedRows(c.of)
    [] c.kind = "preflight" -> {0}

Init ==
  /\ call = [p \in Procs |-> NoCall]
  /\ memory = [p \in Procs |-> {}]
  /\ registered = [p \in Procs |-> {}]
  /\ lock = None
  /\ env = Home
  /\ saved = [p \in Procs |-> None]
  /\ json = [b \in Benchmarks |-> None]
  /\ md = [b \in Benchmarks |-> None]
  /\ preflight = None
  /\ calls = 0

-----------------------------------------------------------------------------
(* Calls.                                                                  *)
Begin(p, c) ==
  /\ Free(p) /\ c.kind \in Makes[p] /\ calls < MaxCalls
  /\ call' = [call EXCEPT ![p] = c]
  /\ calls' = calls + 1
  /\ UNCHANGED <<memory, registered, lock, env, saved, files>>

\* The artifact can be graded at all.
CanGrade(b) ==
  \A r \in Rows : Generated(Artifact[b][r]) =>
                    Gradable(Artifact[b][r].question.slots)

RunGemmaAdvisory(p, b) ==
  /\ Begin(p, Fresh(calls + 1, "advisory", b, <<Gemma>>))
  /\ CanGrade(b)

RunGemmaPreflight(p) ==
  /\ preflight = None
  /\ Begin(p, Fresh(calls + 1, "preflight", None, <<Gemma>>))

\* Two judges of different families; neither is of the model evaluated.
JudgePairs == {<<Gemma, Other>>, <<Other, Gemma>>}

CalibrateJudges(p, data, pair) ==
  /\ Accepted(data)
  /\ Begin(p, Fresh(calls + 1, "calibration", data, pair))

\* The next row a grading has judged, after row r.
RowsAfter(b, r) == {x \in ReviewRows(b) : x > r}

JudgeBenchmark(p, b, pair) ==
  /\ RowsAfter(b, 0) # {}
  /\ Begin(p, [Fresh(calls + 1, "grading", b, pair)
                 EXCEPT !.row = Min(RowsAfter(b, 0))])
  /\ CanGrade(b)

-----------------------------------------------------------------------------
(* Acquire.                                                                *)
\* Mutant of LockFree: LOCK_SH.
LockShared == TRUE

LockFree == lock = None

MayAcquire(p) ==
  /\ call[p].kind \in Dual => registered[p] = {}
  /\ Judge(p) = Gemma => LockFree

Go(p, at) == call' = [call EXCEPT ![p].at = at]
Fail(p, at) == call' = [call EXCEPT ![p].at = at, ![p].ok = FALSE]
Registered(p) ==
  registered' = [registered EXCEPT
    ![p] = @ \cup (IF call[p].kind \in Dual THEN {Judge(p)} ELSE {})]

Refused(p) ==
  /\ call[p].at = "acquire" /\ ~MayAcquire(p)
  /\ Fail(p, "failed")
  /\ UNCHANGED <<memory, registered, lock, env, saved, files, calls>>

Lock(p) ==
  /\ call[p].at = "acquire" /\ Judge(p) = Gemma /\ MayAcquire(p)
  /\ lock' = p
  /\ saved' = [saved EXCEPT ![p] = env[p]]
  /\ env' = [env EXCEPT ![p] = "offline"]
  /\ Go(p, "loading")
  /\ UNCHANGED <<memory, registered, files, calls>>

Load(p) ==
  /\ call[p].at = "loading"
  /\ memory' = [memory EXCEPT ![p] = @ \cup {Gemma}]
  /\ Registered(p)
  /\ Go(p, "judging")
  /\ UNCHANGED <<lock, env, saved, files, calls>>

\* Mutant of LoadFails: nothing is released.
LoadFailsLocked(p) ==
  /\ call[p].at = "loading"
  /\ Fail(p, "failed")
  /\ UNCHANGED <<memory, registered, lock, env, saved, files, calls>>

\* Before the weights are in memory or, on the chat template, after: acquire
\* releases what it has.
LoadFails(p) ==
  /\ call[p].at = "loading"
  /\ \E loaded \in {{}, {Gemma}} :
       memory' = [memory EXCEPT ![p] = @ \cup loaded]
  /\ Fail(p, "dropping")
  /\ UNCHANGED <<registered, lock, env, saved, files, calls>>

LoadOther(p) ==
  /\ call[p].at = "acquire" /\ Judge(p) # Gemma /\ MayAcquire(p)
  /\ memory' = [memory EXCEPT ![p] = @ \cup {Other}]
  /\ Registered(p)
  /\ Go(p, "judging")
  /\ UNCHANGED <<lock, env, saved, files, calls>>

LoadOtherFails(p) ==
  /\ call[p].at = "acquire" /\ Judge(p) # Gemma /\ MayAcquire(p)
  /\ Fail(p, "failed")
  /\ UNCHANGED <<memory, registered, lock, env, saved, files, calls>>

-----------------------------------------------------------------------------
(* Judge a batch.  What raises half way leaves no verdict behind.          *)
Flaws(c, t) ==
  {x \in Cases : c.seen[t][x] \notin {None, c.of.labels[x].score}}

Answers(c) ==
  IF c.kind = "calibration"
  THEN UNION {{[x \in Cases |-> IF x \in D THEN g[x]
                                ELSE c.of.labels[x].score] :
                 g \in {h \in [D -> Verdicts] :
                          \A x \in D : h[x] # c.of.labels[x].score}} :
              D \in UNION {kSubset(n, Cases) :
                             n \in 0 .. MaxFlaws - Cardinality(Flaws(c, 1))}}
  ELSE {[x \in Batch(c) |-> opinion[x]] : opinion \in Opinions}

HaveJudged(p) ==
  /\ call[p].at = "judging"
  /\ \E answer \in Answers(call[p]) :
       call' = [call EXCEPT
         ![p].at = "dropping",
         ![p].seen[call[p].turn] =
           [x \in Items |-> IF x \in Batch(call[p]) THEN answer[x] ELSE @[x]]]
  /\ UNCHANGED <<memory, registered, lock, env, saved, files, calls>>

\* The backend raises, or its result is of another model, revision or prompt.
JudgeRaises(p) ==
  /\ call[p].at = "judging"
  /\ Fail(p, "dropping")
  /\ UNCHANGED <<memory, registered, lock, env, saved, files, calls>>

-----------------------------------------------------------------------------
(* Release: the model, the environment, the lock, and then the table.      *)
Drop(p) ==
  /\ call[p].at = "dropping"
  /\ memory' = [memory EXCEPT ![p] = @ \ {Judge(p)}]
  /\ Go(p, IF Judge(p) = Gemma THEN "restoring" ELSE "released")
  /\ UNCHANGED <<registered, lock, env, saved, files, calls>>

\* The other judge may complain.
DropRaises(p) ==
  /\ call[p].at = "dropping" /\ Judge(p) # Gemma
  /\ memory' = [memory EXCEPT ![p] = @ \ {Judge(p)}]
  /\ Fail(p, "released")
  /\ UNCHANGED <<registered, lock, env, saved, files, calls>>

RestoreEnvironment(p) ==
  /\ call[p].at = "restoring"
  /\ env' = [env EXCEPT ![p] = saved[p]]
  /\ saved' = [saved EXCEPT ![p] = None]
  /\ Go(p, "unlocking")
  /\ UNCHANGED <<memory, registered, lock, files, calls>>

Unlock(p) ==
  /\ call[p].at = "unlocking"
  /\ lock' = None
  /\ Go(p, "released")
  /\ UNCHANGED <<memory, registered, env, saved, files, calls>>

\* Mutant of LastTurn: one judge too many.
LastTurnLate(c) == c.turn > Len(c.judges)

LastTurn(c) == c.turn = Len(c.judges)

Scores2(c) ==
  [r \in Rows |-> DualScore(Status[c.of][r], c.seen[1][r], c.seen[2][r])]
Scores1(c) == [r \in Rows |-> AdvisoryScore(Status[c.of][r], c.seen[1][r])]

\* The sum behind all_attempted_mean, counted as the halves each row earned.
AllAttempted(scores) ==
  Cardinality({x \in Rows \X (1 .. 2) : x[2] <= Attempted(scores[x[1]])})

\* The report of an advisory is complete, or blocks, on what Gemma said of the
\* rows she was shown.
Report(c) ==
  [scores |-> Scores1(c),
   complete |-> \A r \in Rows : c.seen[1][r] # Invalid,
   attempted |-> AllAttempted(Scores1(c))]

Human(data) == [x \in Cases |-> data.labels[x].score]

\* How a call goes on when a judge is out of memory.
GoesOn(c) ==
  CASE ~c.ok -> [c EXCEPT !.at = "failed"]
    [] c.ok /\ ~LastTurn(c) -> [c EXCEPT !.at = "acquire", !.turn = @ + 1]
    [] c.ok /\ LastTurn(c) /\ c.kind = "calibration" ->
         [c EXCEPT !.at = "ended",
                   !.says = Certified(Human(c.of), c.seen[1], c.seen[2])]
    [] c.ok /\ LastTurn(c) /\ c.kind = "grading" ->
         IF RowsAfter(c.of, c.row) = {}
         THEN [c EXCEPT !.at = "ended",
                       !.says = [scores |-> Scores2(c),
                                 gates |-> ReportGates[c.of]]]
         ELSE [c EXCEPT !.at = "acquire", !.turn = 1,
                        !.row = Min(RowsAfter(c.of, c.row))]
    [] c.ok /\ LastTurn(c) /\ c.kind = "advisory" ->
         [c EXCEPT !.at = "checking", !.says = Report(c)]
    [] c.ok /\ LastTurn(c) /\ c.kind = "preflight" ->
         [c EXCEPT !.at = IF c.seen[1][0] = Invalid THEN "failed"
                          ELSE "writing"]

Released(p) ==
  /\ call[p].at = "released"
  /\ registered' = [registered EXCEPT ![p] = @ \ {Judge(p)}]
  /\ call' = [call EXCEPT ![p] = GoesOn(@)]
  /\ UNCHANGED <<memory, lock, env, saved, files, calls>>

-----------------------------------------------------------------------------
(* Files.  An advisory looks for them now, the preflight has at its start. *)
CheckAdvisory(p) ==
  /\ call[p].at = "checking"
  /\ LET b == call[p].of IN
     IF json[b] = None /\ md[b] = None THEN Go(p, "writing")
     ELSE Fail(p, "failed")
  /\ UNCHANGED <<memory, registered, lock, env, saved, files, calls>>

WriteJson(p) ==
  /\ call[p].at = "writing" /\ call[p].kind = "advisory"
  /\ json' = [json EXCEPT ![call[p].of] = call[p].id]
  /\ Go(p, "half_written")
  /\ UNCHANGED <<memory, registered, lock, env, saved, md, preflight, calls>>

WriteMarkdown(p) ==
  /\ call[p].at = "half_written"
  /\ md' = [md EXCEPT ![call[p].of] = call[p].id]
  /\ Go(p, "ended")
  /\ UNCHANGED <<memory, registered, lock, env, saved, json, preflight,
                 calls>>

WritePreflight(p) ==
  /\ call[p].at = "writing" /\ call[p].kind = "preflight"
  /\ preflight' = call[p].id
  /\ Go(p, "ended")
  /\ UNCHANGED <<memory, registered, lock, env, saved, json, md, calls>>

\* The process dies, or exits: the kernel takes memory and lock.
Exit(p) ==
  /\ call[p].at # "idle"
  /\ call' = [call EXCEPT ![p] = NoCall]
  /\ memory' = [memory EXCEPT ![p] = {}]
  /\ registered' = [registered EXCEPT ![p] = {}]
  /\ lock' = IF lock = p THEN None ELSE lock
  /\ env' = [env EXCEPT ![p] = Home[p]]
  /\ saved' = [saved EXCEPT ![p] = None]
  /\ UNCHANGED <<files, calls>>

Next ==
  \E p \in Procs :
    \/ \E b \in Benchmarks : RunGemmaAdvisory(p, b)
    \/ RunGemmaPreflight(p)
    \/ \E data \in Datasets, pair \in JudgePairs :
         CalibrateJudges(p, data, pair)
    \/ \E b \in Benchmarks, pair \in JudgePairs : JudgeBenchmark(p, b, pair)
    \/ Refused(p) \/ Lock(p) \/ Load(p) \/ LoadFails(p)
    \/ LoadOther(p) \/ LoadOtherFails(p)
    \/ HaveJudged(p) \/ JudgeRaises(p)
    \/ Drop(p) \/ DropRaises(p) \/ RestoreEnvironment(p) \/ Unlock(p)
    \/ Released(p)
    \/ CheckAdvisory(p) \/ WriteJson(p) \/ WriteMarkdown(p)
    \/ WritePreflight(p)
    \/ Exit(p)

Spec == Init /\ [][Next]_vars

-----------------------------------------------------------------------------
CallType(c) ==
  /\ c.id \in 0 .. MaxCalls /\ c.kind \in Kinds \cup {None}
  /\ c.at \in Steps /\ c.ok \in BOOLEAN
  /\ c.turn \in 1 .. 2 /\ (c.at = "idle" \/ c.turn <= Len(c.judges))
  /\ c.row \in Rows \cup {0}
  /\ c.seen \in [1 .. 2 -> [Items -> Verdicts \cup {None}]]

\* The type invariant: a call never has more turns than judges.
TypeOK ==
  /\ \A p \in Procs : CallType(call[p])
  /\ memory \in [Procs -> SUBSET {Gemma, Other}]
  /\ registered \in [Procs -> SUBSET {Gemma, Other}]
  /\ lock \in Procs \cup {None}
  /\ env \in [Procs -> {"unset", "offline"}]
  /\ saved \in [Procs -> {"unset", "offline", None}]
  /\ json \in [Benchmarks -> 1 .. MaxCalls \cup {None}]
  /\ md \in [Benchmarks -> 1 .. MaxCalls \cup {None}]
  /\ preflight \in 1 .. MaxCalls \cup {None}
  /\ calls \in 0 .. MaxCalls

\* "Judge backends cannot overlap in memory": no process ever has two judges
\* loaded, no two processes have Gemma loaded, and she is never in memory
\* while her process could go online, whatever fails and whoever dies.
OneJudge ==
  \A p \in Procs :
    /\ Cardinality(memory[p]) <= 1
    /\ Gemma \in memory[p] => /\ env[p] = "offline"
                              /\ \A q \in Procs \ {p} : Gemma \notin memory[q]

\* A call that has ended, well or not, leaves its process as it found it: no
\* judge in memory or in the table, the environment put back, the lock free.
NothingLeft ==
  \A p \in Procs :
    Free(p) => /\ memory[p] = {} /\ registered[p] = {}
               /\ lock # p
               /\ env[p] = Home[p] /\ saved[p] = None

\* A certificate rests on approved human labels of every case, two reviewers'
\* where that is required, and on two judges that have judged every case;
\* with MaxIncorrect = 0, neither gave full marks to an incorrect answer
\* outside the audit, and where any agreement is asked for, both were of the
\* reviewers' mind on a whole family.
CertificateIsEarned(c) ==
  (c.kind = "calibration" /\ c.at = "ended" /\ c.says) =>
    /\ c.judges[1] # c.judges[2]
    /\ \A x \in Cases :
         LET label == c.of.labels[x] IN
         /\ label.approved /\ label.score \in Scores
         /\ RequiresTwoReviewers(x) => label.reviewers = 2
    /\ \A t \in 1 .. 2 :
         /\ \A x \in Cases : c.seen[t][x] # None
         /\ MaxIncorrect = 0 =>
              \A x \in Cases \ Audit :
                c.of.labels[x].score = 0 => c.seen[t][x] # 2
         /\ MinAgreement > 0 =>
              \E x \in Cases \ Audit :
                \A y \in Cases \ Audit : FamilyOf[y] = FamilyOf[x] =>
                  c.seen[t][y] = c.of.labels[y].score

\* An answer without a certain failure: it says what each slot expects, to the
\* precision it has, and nothing whose normal form a slot forbids; it cites
\* only records it was given or may know, and looked nothing up in others.
SaysIt(slot, answer) ==
  LET wanted == NormalForm[slot.type, slot.expected]
  IN  CASE slot.type = "date" ->
             \E d \in answer.dates :
               /\ d.month = wanted.month
               /\ wanted.year = None \/ d.year \in {None, wanted.year}
               /\ None \in {wanted.day, d.day} \/ d.day = wanted.day
        [] slot.type = "time" ->
             \E t \in answer.times :
               /\ t.minutes = wanted.minutes
               /\ None \in {wanted.zone, t.zone} \/ t.zone = wanted.zone
        [] OTHER -> wanted \in Extracted(slot.type, answer)

InPlace(row) ==
  /\ Generated(row)
  /\ \A slot \in row.question.slots :
       /\ slot.expected # None => SaysIt(slot, row.answer)
       /\ \A t \in slot.forbidden :
            NormalForm[slot.type, t] \notin Extracted(slot.type, row.answer)
  /\ row.answer.citations \subseteq row.supplied \cup row.permitted
  /\ row.answer.claims_retrieval => row.supplied # {}

\* A benchmark row scores above nothing only if its answer is in place and
\* every judge of the call said so; judges that take turns never
\* get to see a hard failure.  An advisory is complete only if Gemma could be
\* read on every row that was generated, and rows without a score bring down
\* its mean.
ScoresAreEarned(c) ==
  (c.kind \in {"grading", "advisory"} /\ c.says # None) =>
    \A r \in Rows :
      LET status == Status[c.of][r] IN
      /\ c.says.scores[r] \notin {None, 0} =>
           /\ InPlace(Artifact[c.of][r])
           /\ \A t \in 1 .. Len(c.judges) : c.seen[t][r] = c.says.scores[r]
      /\ c.says.scores[r] = None /\ status # "generation_failure" =>
           \/ \E t \in 1 .. Len(c.judges) : c.seen[t][r] = Invalid
           \/ c.kind = "grading" /\ c.seen[1][r] # c.seen[2][r]
      /\ c.kind = "grading" /\ status # "review" =>
           c.seen[1][r] = None /\ c.seen[2][r] = None
      /\ c.kind = "advisory" =>
           /\ (c.says.complete /\ status # "generation_failure") =>
                c.says.scores[r] # None
           /\ c.says.attempted <= 2 * Cardinality(
                {x \in Rows : Status[c.of][x] = "review"
                                /\ c.seen[1][x] \in 1 .. 2})

\* What a call says at its end is earned by what the judges said in it.
ResultsAreEarned ==
  \A p \in Procs :
    CertificateIsEarned(call[p]) /\ ScoresAreEarned(call[p])

\* "A superseded value presented as current is a critical failure": an answer
\* that gives the value its scenario has superseded, where its question
\* forbids it, fails the gate that tolerates none.
StaleAnswersFailTheirGate ==
  \A p \in Procs, r \in Rows :
    (call[p].kind = "grading" /\ call[p].at = "ended") =>
      LET row == Artifact[call[p].of][r]
          stale == {s \in row.question.slots :
                      LET old == OldValue[row.question.scenario]
                      IN  /\ old \in s.forbidden
                          /\ NormalForm[s.type, old]
                               \in Extracted(s.type, row.answer)}
      IN  (/\ Generated(row) /\ row.question.suite = "supersession"
           /\ row.question.probe = "recall" /\ stale # {})
            => call[p].says.gates[row.arm]["stale_current_answer"] = "fail"
=============================================================================
