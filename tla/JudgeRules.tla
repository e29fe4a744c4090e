------------------------------ MODULE JudgeRules ------------------------------
(***************************************************************************)
(* When two judges are certified, and what a judged answer scores          *)
(* (semantic_judging.py, grading.py).                                      *)
(*                                                                         *)
(* Rates are compared as fractions; the confidence intervals of the report *)
(* decide nothing and are left out.                                        *)
(***************************************************************************)
EXTENDS AnswerGrading, FiniteSetsExt

CONSTANTS Cases,          \* calibration cases
          FamilyOf,       \* the case family of each case
          Audit,          \* cases of the audit stratum
          Eligible,       \* cases of the judge_eligible stratum
          Disputed,       \* cases marked disputed or as hard failures
          Categories,     \* the error categories of each case
          \* the thresholds, in per cent, and the least size of a score class
          MinAgreement, MinKappa, MaxIncorrect, MaxInvalid, MaxCritical,
          MinClassCount

ASSUME CaseConstants ==
  /\ IsFiniteSet(Cases)
  /\ Audit \subseteq Cases /\ Eligible \subseteq Cases \ Audit
  /\ Disputed \subseteq Cases
  /\ DOMAIN FamilyOf = Cases /\ DOMAIN Categories = Cases
  /\ {MinAgreement, MinKappa, MaxIncorrect, MaxInvalid, MaxCritical,
      MinClassCount} \subseteq Nat

\* Legal scores in halves.  A verdict is a score, or "invalid" when the
\* output did not parse as exactly one JSON object with a legal score.
Scores == 0 .. 2
Invalid == -1
Verdicts == Scores \cup {Invalid}

ASSUME NoneIsNoVerdict == None \notin Verdicts

-----------------------------------------------------------------------------
(* The labelled data set: what the reviewers' overlay says of each case    *)
(* (a score comes with its reason), and whether the manifest lists the     *)
(* hashes of these files.                                                  *)
Label == [score : Scores \cup {None}, approved : BOOLEAN,
          reviewers : 0 .. 2, training : BOOLEAN]
Dataset == [labels : [Cases -> Label], bound : BOOLEAN]

RequiresTwoReviewers(c) == c \in Disputed \cup Audit

\* _validate_calibration_inputs
Accepted(data) ==
  /\ Cases # {} /\ data.bound
  /\ \A c \in Cases :
       LET label == data.labels[c]
       IN  /\ ~label.training
           /\ label.approved /\ label.score # None
           /\ RequiresTwoReviewers(c) => label.reviewers = 2
  /\ \A s \in Scores :
       Cardinality({c \in Eligible : data.labels[c].score = s})
         >= MinClassCount

-----------------------------------------------------------------------------
(* Metrics of one judge's verdicts on a set of cases: human and verdict    *)
(* are functions on cases.  A rate over nothing is undefined, and an       *)
(* undefined rate meets no threshold.                                      *)
AtLeast(n, of, percent) == of > 0 /\ 100 * n >= percent * of
AtMost(n, of, percent) == of > 0 /\ 100 * n <= percent * of

Parsed(cases, verdict) == {c \in cases : verdict[c] # Invalid}

Families(cases) == {FamilyOf[c] : c \in cases}

InvalidFamilies(cases, verdict) ==
  Families({c \in cases : verdict[c] = Invalid})

\* Every verdict of the family is the human score.
ExactFamilies(cases, human, verdict) ==
  Families(cases) \ Families({c \in cases : verdict[c] # human[c]})

\* Families with an answer short of correct, or incorrect, and those in which
\* the judge gave such an answer full marks.
ShortFamilies(cases, human, verdict) ==
  Families({c \in Parsed(cases, verdict) : human[c] # 2})
FalsePassFamilies(cases, human, verdict) ==
  Families({c \in cases : human[c] # 2 /\ verdict[c] = 2})
IncorrectFamilies(cases, human, verdict) ==
  Families({c \in Parsed(cases, verdict) : human[c] = 0})
IncorrectToPassFamilies(cases, human, verdict) ==
  Families({c \in cases : human[c] = 0 /\ verdict[c] = 2})

\* Quadratic weights, times four.
Weight(i, j) == 4 - (i - j) * (i - j)

\* Weighted kappa (po - pe) / (1 - pe), with po = observed / 4n and
\* pe = expected / 4nn; undefined without valid verdicts and when pe = 1.
KappaReaches(cases, human, verdict, percent) ==
  LET valid == Parsed(cases, verdict)
      n == Cardinality(valid)
      observed == MapThenSumSet(LAMBDA c : Weight(human[c], verdict[c]),
                                valid)
      expected == MapThenSumSet(LAMBDA p : Weight(human[p[1]], verdict[p[2]]),
                                valid \X valid)
  IN  /\ n > 0 /\ expected # 4 * n * n
      /\ 100 * (n * observed - expected)
           >= percent * (4 * n * n - expected)

\* _slice_metrics: a case without error categories is in one of its own.
Slice(cases, key) ==
  {c \in cases : IF Categories[c] = {} THEN key = None
                 ELSE key \in Categories[c]}
Keys == {None} \cup UNION {Categories[c] : c \in Cases}

CriticalPasses(cases, human, verdict) ==
  \E key \in Keys :
    LET slice == Slice(cases, key)
        short == ShortFamilies(slice, human, verdict)
    IN  short # {} /\ ~AtMost(Cardinality(
                                FalsePassFamilies(slice, human, verdict)),
                              Cardinality(short), MaxCritical)

\* _threshold_failures is empty.
PassesThresholds(cases, human, verdict) ==
  LET families == Cardinality(Families(cases))
  IN  /\ AtLeast(Cardinality(ExactFamilies(cases, human, verdict)),
                 families, MinAgreement)
      /\ KappaReaches(cases, human, verdict, MinKappa)
      /\ AtMost(Cardinality(IncorrectToPassFamilies(cases, human, verdict)),
                Cardinality(IncorrectFamilies(cases, human, verdict)),
                MaxIncorrect)
      /\ AtMost(Cardinality(InvalidFamilies(cases, verdict)), families,
                MaxInvalid)
      /\ ~CriticalPasses(cases, human, verdict)

\* Mutant of Certified: a single judge is enough.
CertifiedByEither(human, first, second) ==
  \/ PassesThresholds(Cases \ Audit, human, first)
  \/ PassesThresholds(Cases \ Audit, human, second)

\* calibrate_judges: both judges, on all cases but the audit stratum.
Certified(human, first, second) ==
  /\ PassesThresholds(Cases \ Audit, human, first)
  /\ PassesThresholds(Cases \ Audit, human, second)

-----------------------------------------------------------------------------
(* The final score of a benchmark row.                                     *)
\* judge_benchmark_artifact and grade_with_dual_judges.
DualScore(status, first, second) ==
  IF status = "hard_fail" THEN 0
  ELSE IF status = "review" /\ first = second /\ first # Invalid THEN first
  ELSE None

\* apply_single_model_advisory
AdvisoryScore(status, verdict) ==
  IF status = "hard_fail" THEN 0
  ELSE IF status = "review" /\ verdict # Invalid THEN verdict ELSE None

\* all_attempted_score: what has no score has failed.
Attempted(score) == IF score = None THEN 0 ELSE score
=============================================================================
