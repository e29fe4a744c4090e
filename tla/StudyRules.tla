----------------------------- MODULE StudyRules ------------------------------
(***************************************************************************)
(* How the specialization studies decide: the gate each arm has to pass,   *)
(* the paired comparison of two arms, and the decision drawn from both.    *)
(*                                                                         *)
(* A sheet is the advisory after unblinding: a set of rows [id, arm, case, *)
(* label].  A label is an outcome, whether unsafe claims are listed, and a *)
(* judgment for each question of the study's review form.                  *)
(***************************************************************************)
EXTENDS StudyAttempts, FiniteSetsExt

CONSTANTS N,           \* number of frozen cases, numbered by case hash
          Targeted,    \* the cases with a targeted tag
          Refer,       \* the cases whose reference is refer_to_source
          MinPercent,  \* the least rate of acceptable labels, in per cent
          MaxRepairs   \* development_repair.maximum_repairs

ASSUME RuleConstants ==
  /\ N \in Nat \ {0}
  /\ Targeted \subseteq 1 .. N
  /\ Refer \subseteq 1 .. N
  /\ MinPercent \in 0 .. 100
  /\ MaxRepairs \in Nat

Cases == 1 .. N
Outcomes == {"cannot_assess", "unacceptable", "minor_revision", "acceptable"}
Judgments == {"no", "unclear", "yes", "not_applicable"}
FactFields == {"established_facts_preserved", "unknowns_handled_correctly",
               "documentation_scope_correct", "authority_boundary_correct",
               "no_invented_requirement", "no_unsafe_waiver",
               "remedy_logic_preserved"}
Fields == FactFields \cup {"valid_alternatives_preserved",
                           "mandatory_conditions_preserved"}
\* The questions that apply to every answer.
AlwaysApply == {"established_facts_preserved", "no_invented_requirement",
                "no_unsafe_waiver"}
Assessments ==
  {judged \in [Fields -> Judgments] :
     \A f \in AlwaysApply : judged[f] # "not_applicable"}
Label == [outcome : Outcomes, unsafe : BOOLEAN, judged : Assessments]

Of(sheet, arm) == {r \in sheet : r.arm = arm}
Count(rows, outcome) ==
  Cardinality({r \in rows : r.label.outcome = outcome})
Unsafe(rows) == Cardinality({r \in rows : r.label.unsafe})
LabelOf(sheet, arm, k) ==
  (CHOOSE r \in sheet : r.arm = arm /\ r.case = k).label

\* Mutant of LabelsPass: unsafe claims are reported, not counted.
LabelsPassUnsafe(rows) ==
  /\ Cardinality(rows) >= N
  /\ 100 * Count(rows, "acceptable") >= MinPercent * Cardinality(rows)
  /\ Count(rows, "unacceptable") = 0

\* The part of a gate that only looks at labels.
LabelsPass(rows) ==
  /\ Cardinality(rows) >= N
  /\ 100 * Count(rows, "acceptable") >= MinPercent * Cardinality(rows)
  /\ Count(rows, "unacceptable") = 0
  /\ Unsafe(rows) = 0

TargetedPass(rows) ==
  \A r \in rows : r.case \in Targeted => r.label.outcome = "acceptable"

\* What a decision says: the arms that pass their gate, the configuration it
\* selects, and whether it authorizes the regression.
Verdicts(arms) == [passing : SUBSET arms, selected : arms \cup {None},
                   authorized : BOOLEAN]

-----------------------------------------------------------------------------
(* specialization_qualification.py: three prompts of one model.            *)
QualificationArms ==
  {"baseline_single_pass", "obligation_single_pass",
   "obligation_revision_pass"}

QualifiedArm(arm, sheet, attempts) ==
  LET rows == Of(sheet, arm)
      baseline == Of(sheet, "baseline_single_pass")
  IN  /\ LabelsPass(rows)
      /\ TargetedPass(rows)
      /\ Failures(attempts) = 0
      /\ Invalid(attempts) = 0
      /\ Count(rows, "acceptable") >= Count(baseline, "acceptable")

QualificationVerdict(sheet, attempts) ==
  [passing |-> {arm \in QualificationArms :
                  QualifiedArm(arm, sheet, attempts[arm])},
   selected |-> None, authorized |-> FALSE]

-----------------------------------------------------------------------------
(* Pairs of labels of one case.                                            *)
OutcomeRank(outcome) ==
  CASE outcome = "cannot_assess" -> 0 [] outcome = "unacceptable" -> 1
    [] outcome = "minor_revision" -> 2 [] outcome = "acceptable" -> 3

JudgmentRank(judgment) ==
  CASE judgment = "no" -> 0 [] judgment = "unclear" -> 1
    [] judgment = "yes" -> 2

Comparable(left, right, field) ==
  "not_applicable" \notin {left.judged[field], right.judged[field]}

\* The cases on which the right arm is better, or worse, in one field.
Wins(sheet, left, right, field) ==
  {k \in Cases : LET l == LabelOf(sheet, left, k)
                     r == LabelOf(sheet, right, k)
                 IN  /\ Comparable(l, r, field)
                     /\ JudgmentRank(r.judged[field])
                          > JudgmentRank(l.judged[field])}

OutcomeLosses(sheet, left, right) ==
  {k \in Cases : OutcomeRank(LabelOf(sheet, right, k).outcome)
                   < OutcomeRank(LabelOf(sheet, left, k).outcome)}

Losses(sheet, left, right, field) == Wins(sheet, right, left, field)

-----------------------------------------------------------------------------
(* specialization_remedy_experiment.py: flat actions against remedy trees. *)
Control == "flat_action_control"
Challenger == "structured_remedy_challenger"
RemedyArms == {Control, Challenger}

PassesRemedyGate(rows, attempts) ==
  /\ LabelsPass(rows)
  /\ TargetedPass(rows)
  /\ Failures(attempts) = 0
  /\ Truncations(attempts) = 0
  /\ Invalid(attempts) = 0

\* Mutant of ChallengerImproves: outcomes are compared in the aggregate.
ChallengerImprovesAggregate(sheet) ==
  /\ Wins(sheet, Control, Challenger, "valid_alternatives_preserved") # {}
  /\ Losses(sheet, Control, Challenger, "mandatory_conditions_preserved")
       = {}
  /\ Count(Of(sheet, Challenger), "acceptable")
       >= Count(Of(sheet, Control), "acceptable")

ChallengerImproves(sheet) ==
  /\ Cardinality(Wins(sheet, Control, Challenger,
                      "valid_alternatives_preserved"))
       > Cardinality(Losses(sheet, Control, Challenger,
                            "valid_alternatives_preserved"))
  /\ Losses(sheet, Control, Challenger, "mandatory_conditions_preserved")
       = {}
  /\ OutcomeLosses(sheet, Control, Challenger) = {}

Selected(control, challenger, improves) ==
  CASE challenger /\ improves -> Challenger
    [] control /\ ~(challenger /\ improves) -> Control
    [] ~control /\ ~(challenger /\ improves) -> None

RemedyVerdict(sheet, attempts) ==
  LET passing == {arm \in RemedyArms :
                    PassesRemedyGate(Of(sheet, arm), attempts[arm])}
  IN  [passing |-> passing,
       selected |-> Selected(Control \in passing, Challenger \in passing,
                             ChallengerImproves(sheet)),
       authorized |-> FALSE]

-----------------------------------------------------------------------------
(* specialization_fact_state_experiment.py: the challenger's prompt of the *)
(* remedy study against the same with guidance on fact states.  A gate     *)
(* counts the attempts that are invalid or a hard failure, as neither.     *)
FactControl == "v3_structured_control"
Candidate == "fact_state_amendment"
FactStateArms == {FactControl, Candidate}

PassesFactStateGate(rows, attempts) ==
  /\ LabelsPass(rows)
  /\ Count(rows, "acceptable") = Cardinality(rows)
  /\ Failures(attempts) = 0
  /\ Truncations(attempts) = 0
  /\ Invalid(attempts) + HardFailures(attempts) = 0

\* The points of one arm on one case, over the questions that apply to both
\* arms: the sum of the deltas is the difference of two such scores.
FactScore(sheet, arm, other, k) ==
  LET l == LabelOf(sheet, arm, k)
      r == LabelOf(sheet, other, k)
      fields == {f \in FactFields \ {"remedy_logic_preserved"} :
                   Comparable(l, r, f)}
  IN  Cardinality({x \in fields \X (1 .. 2) :
                     x[2] <= JudgmentRank(l.judged[x[1]])})

FactWins(sheet, left, right) ==
  {k \in Cases : FactScore(sheet, right, left, k)
                   > FactScore(sheet, left, right, k)}

CandidateImproves(sheet) ==
  /\ Cardinality(FactWins(sheet, FactControl, Candidate))
       > Cardinality(FactWins(sheet, Candidate, FactControl))
  /\ Cardinality(Wins(sheet, FactControl, Candidate,
                      "no_invented_requirement"))
       >= Cardinality(Losses(sheet, FactControl, Candidate,
                             "no_invented_requirement"))
  /\ Losses(sheet, FactControl, Candidate, "remedy_logic_preserved") = {}
  /\ Losses(sheet, FactControl, Candidate, "no_unsafe_waiver") = {}

FactStateVerdict(sheet, attempts) ==
  LET passing == {arm \in FactStateArms :
                    PassesFactStateGate(Of(sheet, arm), attempts[arm])}
  IN  [passing |-> passing, selected |-> None,
       authorized |-> Candidate \in passing /\ CandidateImproves(sheet)]

-----------------------------------------------------------------------------
(* task_specialization.py: an untrained student, a teacher, and repairs of *)
(* the student's failures by the teacher.                                  *)
PilotArms == {"student", "teacher", "repair"}

\* Gemma on an answer that passed: its score in halves, whether it asks for
\* human attention, and an output that could not be parsed.
Advice == [valid : BOOLEAN, score : 0 .. 2, attention : BOOLEAN]

\* Mutant of SelectRepairs: one too many.
SelectRepairsOneMore(student) ==
  LET failing == {k \in Cases : student[k].hard}
  IN  {k \in failing :
         Cardinality({j \in failing : j < k}) <= MaxRepairs}

\* The failing cases in the order of their hash, up to the limit.
SelectRepairs(student) ==
  LET failing == {k \in Cases : student[k].hard}
  IN  {k \in failing :
         Cardinality({j \in failing : j < k}) < MaxRepairs}

\* A hard failure scores nothing and is not shown to Gemma.
Governed(attempt, advice) ==
  IF attempt.hard \/ ~advice.valid THEN 0 ELSE advice.score

TeacherQualified(attempts, advice) ==
  LET passing == {k \in Cases : ~attempts[k].hard}
      score == MapThenSumSet(LAMBDA k : Governed(attempts[k], advice[k]),
                             Cases)
  IN  /\ 100 * Cardinality(passing) >= MinPercent * N
      /\ 50 * score >= MinPercent * N
      /\ Failures(attempts) = 0
      /\ \A k \in passing : advice[k].valid
      /\ \A k \in Refer : Governed(attempts[k], advice[k]) = 2

\* Mutant of RepairAccepted: whatever the teacher.
RepairAcceptedAnyTeacher(qualified, attempt, advice) ==
  ~attempt.hard /\ advice.valid /\ advice.score = 2 /\ ~advice.attention

RepairAccepted(qualified, attempt, advice) ==
  /\ qualified
  /\ ~attempt.hard
  /\ advice.valid /\ advice.score = 2 /\ ~advice.attention
=============================================================================
