---------------------- MODULE SpecializationStudyProofs ----------------------
(***************************************************************************)
(* Theorems about SpecializationStudy, for any number of commands, cases,  *)
(* roots, labels and readings: what a decision, a regression and a repair  *)
(* rest on, whatever commands ran meanwhile and wherever they died.        *)
(***************************************************************************)
EXTENDS SpecializationStudy, FiniteSetTheorems, WellFoundedInduction, TLAPS

-----------------------------------------------------------------------------
(* Sheets.  The rows of a packet of all slots, with one label for each.    *)
SheetOf(rows, labels) ==
  {[arm |-> x[1], case |-> x[2], label |-> Meaning[labels[x]]] : x \in rows}

RowOf(labels, arm, k) ==
  [arm |-> arm, case |-> k, label |-> Meaning[labels[<<arm, k>>]]]

RowsOf(labels, arm) == {RowOf(labels, arm, k) : k \in Cases}

LEMMA CasesFinite == IsFiniteSet(Cases) /\ Cases \subseteq Nat
BY RuleConstants, FS_Interval DEF Cases

(* A set of which none is counted is empty, and one of which all are       *)
(* counted is the whole.                                                   *)
LEMMA NoneCounted ==
  ASSUME NEW S, IsFiniteSet(S), NEW T \in SUBSET S
  PROVE  /\ IsFiniteSet(T) /\ Cardinality(T) \in Nat
         /\ Cardinality(T) = 0 => T = {}
         /\ Cardinality(T) = Cardinality(S) => T = S
<1>1. IsFiniteSet(T) /\ (Cardinality(S) = Cardinality(T) => S = T)
  BY FS_Subset
<1> QED BY <1>1, FS_EmptySet, FS_CardinalityType

LEMMA ArmRows ==
  ASSUME NEW arms, NEW labels, NEW arm \in arms
  PROVE  Of(SheetOf(arms \X Cases, labels), arm)
           = RowsOf(labels, arm)
<1> DEFINE sheet == SheetOf(arms \X Cases, labels)
           rows == RowsOf(labels, arm)
<1>1. ASSUME NEW r \in Of(sheet, arm) PROVE r \in rows
  <2>1. PICK x \in arms \X Cases :
          r = [arm |-> x[1], case |-> x[2], label |-> Meaning[labels[x]]]
    BY <1>1 DEF Of, SheetOf
  <2>2. x[1] = arm /\ x[2] \in Cases /\ x = <<arm, x[2]>>
    BY <1>1, <2>1 DEF Of
  <2> QED BY <2>1, <2>2 DEF RowOf, RowsOf
<1>2. ASSUME NEW k \in Cases PROVE RowOf(labels, arm, k) \in Of(sheet, arm)
  <2>1. <<arm, k>> \in arms \X Cases
    OBVIOUS
  <2>2. RowOf(labels, arm, k) \in sheet
    BY <2>1 DEF SheetOf, RowOf
  <2> QED BY <2>2 DEF Of, RowOf
<1> HIDE DEF sheet
<1>3. rows \subseteq Of(sheet, arm)
  BY <1>2 DEF RowsOf
<1>4. Of(sheet, arm) \subseteq rows
  BY <1>1
<1> QED BY <1>3, <1>4 DEF sheet

LEMMA ArmRowsFinite ==
  ASSUME NEW labels, NEW arm
  PROVE  IsFiniteSet(RowsOf(labels, arm))
<1> DEFINE T == RowsOf(labels, arm)
           f == [k \in Cases |-> RowOf(labels, arm, k)]
<1>1. f \in Surjection(Cases, T)
  BY DEF Surjection, RowsOf
<1> QED BY <1>1, CasesFinite, FS_Surjection

(* The label of a slot is the one the reviewer gave it.                    *)
LEMMA LabelOfSlot ==
  ASSUME NEW arms, NEW labels, NEW arm \in arms, NEW k \in Cases
  PROVE  LabelOf(SheetOf(arms \X Cases, labels), arm, k)
           = Meaning[labels[<<arm, k>>]]
<1> DEFINE sheet == SheetOf(arms \X Cases, labels)
           row == RowOf(labels, arm, k)
<1>1. row \in sheet
  <2>1. <<arm, k>> \in arms \X Cases
    OBVIOUS
  <2> QED BY <2>1 DEF SheetOf, RowOf
<1>2. row.arm = arm /\ row.case = k
  BY DEF RowOf
<1>3. \A r \in sheet : r.arm = arm /\ r.case = k => r = row
  BY DEF SheetOf, RowOf
<1>4. (CHOOSE r \in sheet : r.arm = arm /\ r.case = k) = row
  <2> DEFINE chosen == CHOOSE r \in sheet : r.arm = arm /\ r.case = k
  <2> HIDE DEF sheet, row
  <2>1. \E r \in sheet : r.arm = arm /\ r.case = k
    BY <1>1, <1>2
  <2>2. chosen \in sheet /\ chosen.arm = arm /\ chosen.case = k
    BY <2>1, Zenon
  <2>3. chosen = row
    BY <2>2, <1>3
  <2> QED BY <2>3 DEF chosen
<1>5. LabelOf(sheet, arm, k) = row.label
  BY <1>4, Zenon DEF LabelOf
<1> QED BY <1>5 DEF RowOf

LEMMA LabelType ==
  ASSUME NEW rows, NEW labels \in [rows -> Labels], NEW x \in rows
  PROVE  Meaning[labels[x]] \in Label
BY StudyConstants

(* What the gate on labels says of every case.                             *)
LEMMA GateOnLabels ==
  ASSUME NEW arms, NEW arm \in arms, NEW labels \in [arms \X Cases -> Labels],
         LabelsPass(Of(SheetOf(arms \X Cases, labels), arm))
  PROVE  \A k \in Cases :
           LET label == Meaning[labels[<<arm, k>>]]
           IN  label.outcome # "unacceptable" /\ ~label.unsafe
<1> DEFINE rows == Of(SheetOf(arms \X Cases, labels), arm)
<1>1. rows = RowsOf(labels, arm) /\ IsFiniteSet(rows)
  BY ArmRows, ArmRowsFinite
<1>a. LabelsPass(rows)
  OBVIOUS
<1> HIDE DEF rows
<1>2. {r \in rows : r.label.outcome = "unacceptable"} = {}
  BY <1>1, <1>a, NoneCounted DEF LabelsPass, Count
<1>3. {r \in rows : r.label.unsafe} = {}
  BY <1>1, <1>a, NoneCounted DEF LabelsPass, Unsafe
<1> SUFFICES ASSUME NEW k \in Cases
             PROVE  LET label == Meaning[labels[<<arm, k>>]]
                    IN  label.outcome # "unacceptable" /\ ~label.unsafe
  OBVIOUS
<1>4. RowOf(labels, arm, k) \in rows
  BY <1>1 DEF RowsOf
<1> QED BY <1>2, <1>3, <1>4 DEF RowOf

LEMMA GateOnTargeted ==
  ASSUME NEW arms, NEW arm \in arms, NEW labels,
         TargetedPass(Of(SheetOf(arms \X Cases, labels), arm))
  PROVE  \A k \in Cases \cap Targeted :
           Meaning[labels[<<arm, k>>]].outcome = "acceptable"
<1> SUFFICES ASSUME NEW k \in Cases \cap Targeted
             PROVE  Meaning[labels[<<arm, k>>]].outcome = "acceptable"
  OBVIOUS
<1>1. RowOf(labels, arm, k) \in Of(SheetOf(arms \X Cases, labels), arm)
  BY ArmRows DEF RowsOf
<1> QED BY <1>1 DEF TargetedPass, RowOf

LEMMA GateOnAll ==
  ASSUME NEW arms, NEW arm \in arms, NEW labels,
         LET rows == Of(SheetOf(arms \X Cases, labels), arm)
         IN  Count(rows, "acceptable") = Cardinality(rows)
  PROVE  \A k \in Cases :
           Meaning[labels[<<arm, k>>]].outcome = "acceptable"
<1> DEFINE rows == Of(SheetOf(arms \X Cases, labels), arm)
<1>1. rows = RowsOf(labels, arm) /\ IsFiniteSet(rows)
  BY ArmRows, ArmRowsFinite
<1>a. Count(rows, "acceptable") = Cardinality(rows)
  OBVIOUS
<1> HIDE DEF rows
<1>2. {r \in rows : r.label.outcome = "acceptable"} = rows
  BY <1>1, <1>a, NoneCounted DEF Count
<1> SUFFICES ASSUME NEW k \in Cases
             PROVE  Meaning[labels[<<arm, k>>]].outcome = "acceptable"
  OBVIOUS
<1>3. RowOf(labels, arm, k) \in rows
  BY <1>1 DEF RowsOf
<1> QED BY <1>2, <1>3 DEF RowOf

-----------------------------------------------------------------------------
(* Attempts.                                                               *)
LEMMA CountsOfAttempts ==
  ASSUME NEW attempts, DOMAIN attempts = Cases
  PROVE  /\ Failures(attempts) = 0 => \A k \in Cases : attempts[k].generated
         /\ Invalid(attempts) \in Nat /\ HardFailures(attempts) \in Nat
         /\ Invalid(attempts) = 0 => \A k \in Cases : attempts[k].valid
         /\ HardFailures(attempts) = 0 => \A k \in Cases : ~attempts[k].hard
<1>1. Failures(attempts) = 0 => {k \in Cases : ~attempts[k].generated} = {}
  BY CasesFinite, NoneCounted DEF Failures
<1>2. /\ Invalid(attempts) \in Nat
      /\ Invalid(attempts) = 0 => {k \in Cases : ~attempts[k].valid} = {}
  BY CasesFinite, NoneCounted DEF Invalid
<1>3. /\ HardFailures(attempts) \in Nat
      /\ HardFailures(attempts) = 0 => {k \in Cases : attempts[k].hard} = {}
  BY CasesFinite, NoneCounted DEF HardFailures
<1> QED BY <1>1, <1>2, <1>3

(* What the record of an answer says of it.                                *)
LEMMA RecordOfAnswer ==
  ASSUME NEW answer, NEW arm,
         NEW attempt \in {QualificationAttempt(answer),
                          RemedyAttempt(arm, answer),
                          FactStateAttempt(answer)}
  PROVE  /\ attempt.answer = answer
         /\ attempt.generated => answer \notin {"raised", "truncated"}
         /\ attempt.valid => answer # "malformed"
<1> USE NoneIsNoAnswer DEF Answers
<1>1. CASE attempt = QualificationAttempt(answer)
  BY <1>1 DEF QualificationAttempt, Recorded, ParseMultipart, FinalOutput
<1>2. CASE attempt = RemedyAttempt(arm, answer)
  BY <1>2 DEF RemedyAttempt, QualificationAttempt, Recorded, ParseMultipart,
              ParseRemedy, FinalOutput
<1>3. CASE attempt = FactStateAttempt(answer)
  BY <1>3 DEF FactStateAttempt, Recorded, ParseRemedy, FinalOutput
<1> QED BY <1>1, <1>2, <1>3

(* Grading an answer again does not say more of it.                        *)
LEMMA RecordRegraded ==
  ASSUME NEW answer, NEW arm,
         NEW attempt \in {QualificationAttempt(answer),
                          RemedyAttempt(arm, answer),
                          FactStateAttempt(answer)}
  PROVE  /\ Regraded(attempt).generated => answer \notin {"raised", "truncated"}
         /\ Regraded(attempt).valid => answer # "malformed"
<1> USE NoneIsNoAnswer DEF Answers
<1>1. attempt.answer = answer
  BY RecordOfAnswer
<1>2. \E w, h, v, t, g, u :
        attempt = [answer |-> answer, generated |-> g, truncated |-> u,
                   valid |-> v, hard |-> h]
  BY DEF QualificationAttempt, RemedyAttempt, FactStateAttempt, Recorded
<1>3. Regraded(attempt).generated = attempt.generated
  BY <1>2 DEF Regraded
<1>4. Regraded(attempt).valid
        = (ParseRemedy(FinalOutput(answer)) # None)
  BY <1>1, <1>2 DEF Regraded
<1>5. ParseRemedy(FinalOutput(answer)) # None => answer # "malformed"
  BY DEF ParseRemedy, FinalOutput
<1> QED BY <1>3, <1>4, <1>5, RecordOfAnswer

LEMMA FactStateRecord ==
  ASSUME NEW answer,
         NEW attempt \in {FactStateAttempt(answer),
                          Regraded(FactStateAttempt(answer))},
         ~attempt.hard
  PROVE  answer \notin {"wrong_items", "foreign_record"}
<1> USE NoneIsNoAnswer DEF Answers
<1>1. CASE attempt = FactStateAttempt(answer)
  BY <1>1 DEF FactStateAttempt, Recorded, ParseRemedy, FinalOutput,
              RemedyHardFail
<1>2. CASE attempt = Regraded(FactStateAttempt(answer))
  BY <1>2 DEF Regraded, FactStateAttempt, Recorded, ParseRemedy, FinalOutput,
              RemedyHardFail
<1> QED BY <1>1, <1>2

(* The attempts of an arm, as a decision sees them.                        *)
LEMMA AttemptsOfArm ==
  ASSUME study \in {"qualification", "remedy", "fact_state"},
         NEW d, NEW arm \in Arms[study]
  PROVE  LET attempts == Attempts(d)[arm]
         IN  /\ DOMAIN attempts = Cases
             /\ \A k \in Cases :
                  LET answer == job[d].answers[<<arm, k>>].answer
                  IN  /\ attempts[k].generated =>
                           answer \notin {"raised", "truncated"}
                      /\ attempts[k].valid => answer # "malformed"
                      /\ study = "fact_state" /\ ~attempts[k].hard =>
                           answer \notin {"wrong_items", "foreign_record"}
<1> DEFINE attempts == Attempts(d)[arm]
           answer(k) == job[d].answers[<<arm, k>>].answer
           first(k) == StudyAttempt(arm, answer(k))
<1>1. attempts = [k \in Cases |-> IF job[d].kind = "corrected"
                                  THEN Regraded(first(k)) ELSE first(k)]
  BY DEF Attempts
<1> HIDE DEF attempts
<1>2. DOMAIN attempts = Cases
  BY <1>1
<1>3. ASSUME NEW k \in Cases
      PROVE  /\ attempts[k].generated =>
                  answer(k) \notin {"raised", "truncated"}
             /\ attempts[k].valid => answer(k) # "malformed"
             /\ study = "fact_state" /\ ~attempts[k].hard =>
                  answer(k) \notin {"wrong_items", "foreign_record"}
  <2>1. attempts[k] \in {first(k), Regraded(first(k))}
    BY <1>1
  <2>2. first(k) \in {QualificationAttempt(answer(k)),
                      RemedyAttempt(arm, answer(k)),
                      FactStateAttempt(answer(k))}
    BY DEF StudyAttempt
  <2>3. study = "fact_state" => first(k) = FactStateAttempt(answer(k))
    BY DEF StudyAttempt
  <2> HIDE DEF first, answer
  <2> QED
    BY <2>1, <2>2, <2>3, RecordOfAnswer, RecordRegraded, FactStateRecord
<1> QED BY <1>2, <1>3 DEF attempts

-----------------------------------------------------------------------------
(* What a passing arm rests on: its answers and the labels they were given. *)
EarnedOf(s, answers, labels, arm) ==
  \A k \in Cases :
    LET answer == answers[<<arm, k>>].answer
        label == Meaning[labels[<<arm, k>>]]
    IN  /\ answer \notin {"raised", "truncated", "malformed"}
        /\ label.outcome # "unacceptable" /\ ~label.unsafe
        /\ (s # "fact_state" /\ k \in Targeted) =>
             label.outcome = "acceptable"
        /\ s = "fact_state" =>
             /\ label.outcome = "acceptable"
             /\ answer \notin {"wrong_items", "foreign_record"}

(* The parts of the three gates that the studies have in common.           *)
LEMMA GateEarns ==
  ASSUME study \in {"qualification", "remedy", "fact_state"},
         NEW d, NEW arm \in Arms[study],
         NEW labels \in [Slots(study) -> Labels],
         LabelsPass(Of(SheetOf(Slots(study), labels), arm)),
         Failures(Attempts(d)[arm]) = 0, Invalid(Attempts(d)[arm]) = 0,
         study # "fact_state" =>
           TargetedPass(Of(SheetOf(Slots(study), labels), arm)),
         study = "fact_state" =>
           LET rows == Of(SheetOf(Slots(study), labels), arm)
           IN  /\ Count(rows, "acceptable") = Cardinality(rows)
               /\ HardFailures(Attempts(d)[arm]) = 0
  PROVE  EarnedOf(study, job[d].answers, labels, arm)
<1> DEFINE sheet == SheetOf(Slots(study), labels)
           attempts == Attempts(d)[arm]
           Answer(k) == job[d].answers[<<arm, k>>].answer
           Said(k) == Meaning[labels[<<arm, k>>]]
<1>0. Slots(study) = Arms[study] \X Cases
  BY DEF Slots
<1>1. \A k \in Cases : Said(k).outcome # "unacceptable" /\ ~Said(k).unsafe
  BY <1>0, GateOnLabels
<1>2. study # "fact_state" =>
        \A k \in Cases \cap Targeted : Said(k).outcome = "acceptable"
  BY <1>0, GateOnTargeted
<1>3. ASSUME study = "fact_state"
      PROVE  \A k \in Cases : Said(k).outcome = "acceptable"
  <2>1. Count(Of(sheet, arm), "acceptable") = Cardinality(Of(sheet, arm))
    BY <1>3
  <2>2. sheet = SheetOf(Arms[study] \X Cases, labels)
    BY <1>0
  <2> HIDE DEF sheet
  <2> QED BY <2>1, <2>2, GateOnAll
<1>4. \A k \in Cases : attempts[k].generated /\ attempts[k].valid
  BY AttemptsOfArm, CountsOfAttempts
<1>5. study = "fact_state" => \A k \in Cases : ~attempts[k].hard
  BY AttemptsOfArm, CountsOfAttempts
<1>6. \A k \in Cases :
        /\ Answer(k) \notin {"raised", "truncated", "malformed"}
        /\ study = "fact_state" =>
             Answer(k) \notin {"wrong_items", "foreign_record"}
  BY <1>4, <1>5, AttemptsOfArm
<1> HIDE DEF Answer, Said
<1>7. ASSUME NEW k \in Cases
      PROVE  /\ Answer(k) \notin {"raised", "truncated", "malformed"}
             /\ Said(k).outcome # "unacceptable" /\ ~Said(k).unsafe
             /\ (study # "fact_state" /\ k \in Targeted) =>
                  Said(k).outcome = "acceptable"
             /\ study = "fact_state" =>
                  /\ Said(k).outcome = "acceptable"
                  /\ Answer(k) \notin {"wrong_items", "foreign_record"}
  <2>1. study # "fact_state" /\ k \in Targeted =>
          Said(k).outcome = "acceptable"
    BY <1>2
  <2> QED BY <1>1, <1>3, <1>6, <2>1
<1> QED BY <1>7 DEF EarnedOf, Answer, Said

LEMMA QualifiedEarns ==
  ASSUME study = "qualification",
         NEW d, NEW arm \in Arms[study],
         NEW labels \in [Slots(study) -> Labels],
         QualifiedArm(arm, SheetOf(Slots(study), labels), Attempts(d)[arm])
  PROVE  EarnedOf(study, job[d].answers, labels, arm)
<1> DEFINE rows == Of(SheetOf(Slots(study), labels), arm)
<1>1. /\ LabelsPass(rows) /\ TargetedPass(rows)
      /\ Failures(Attempts(d)[arm]) = 0 /\ Invalid(Attempts(d)[arm]) = 0
  BY DEF QualifiedArm
<1> QED BY <1>1, GateEarns

LEMMA RemedyEarns ==
  ASSUME study = "remedy",
         NEW d, NEW arm \in Arms[study],
         NEW labels \in [Slots(study) -> Labels],
         PassesRemedyGate(Of(SheetOf(Slots(study), labels), arm),
                          Attempts(d)[arm])
  PROVE  EarnedOf(study, job[d].answers, labels, arm)
<1> DEFINE rows == Of(SheetOf(Slots(study), labels), arm)
<1>1. /\ LabelsPass(rows) /\ TargetedPass(rows)
      /\ Failures(Attempts(d)[arm]) = 0 /\ Invalid(Attempts(d)[arm]) = 0
  BY DEF PassesRemedyGate
<1> QED BY <1>1, GateEarns

LEMMA FactStateEarns ==
  ASSUME study = "fact_state",
         NEW d, NEW arm \in Arms[study],
         NEW labels \in [Slots(study) -> Labels],
         PassesFactStateGate(Of(SheetOf(Slots(study), labels), arm),
                             Attempts(d)[arm])
  PROVE  EarnedOf(study, job[d].answers, labels, arm)
<1> DEFINE rows == Of(SheetOf(Slots(study), labels), arm)
<1>1. /\ LabelsPass(rows) /\ Count(rows, "acceptable") = Cardinality(rows)
      /\ Failures(Attempts(d)[arm]) = 0
      /\ Invalid(Attempts(d)[arm]) + HardFailures(Attempts(d)[arm]) = 0
  BY DEF PassesFactStateGate
<1>2. /\ Invalid(Attempts(d)[arm]) \in Nat
      /\ HardFailures(Attempts(d)[arm]) \in Nat
  BY AttemptsOfArm, CountsOfAttempts
<1>3. Invalid(Attempts(d)[arm]) = 0 /\ HardFailures(Attempts(d)[arm]) = 0
  BY <1>1, <1>2
<1> QED BY <1>1, <1>3, GateEarns

-----------------------------------------------------------------------------
(* What the paired comparisons rest on.                                    *)
LEMMA MoreHasAnother ==
  ASSUME NEW S, IsFiniteSet(S), NEW T, IsFiniteSet(T),
         Cardinality(S) > Cardinality(T)
  PROVE  \E x \in S : x \notin T
<1>1. Cardinality(S) \in Nat /\ Cardinality(T) \in Nat
  BY FS_CardinalityType
<1>2. S \in SUBSET T => Cardinality(S) <= Cardinality(T)
  BY FS_Subset
<1> QED BY <1>1, <1>2

LEMMA OutcomeRanks ==
  \A outcome \in Outcomes : OutcomeRank(outcome) \in 0 .. 3
BY DEF Outcomes, OutcomeRank

LEMMA JudgmentRanks ==
  ASSUME NEW a \in Judgments \ {"not_applicable"},
         NEW b \in Judgments \ {"not_applicable"}
  PROVE  /\ JudgmentRank(a) \in 0 .. 2 /\ JudgmentRank(b) \in 0 .. 2
         /\ JudgmentRank(b) > JudgmentRank(a) <=>
              <<a, b>> \in {<<"no", "unclear">>, <<"no", "yes">>,
                            <<"unclear", "yes">>}
BY DEF Judgments, JudgmentRank

LEMMA JudgedType ==
  ASSUME NEW label \in Label
  PROVE  /\ label.outcome \in Outcomes
         /\ \A f \in Fields : label.judged[f] \in Judgments
         /\ \A f \in AlwaysApply : label.judged[f] # "not_applicable"
BY DEF Label, Assessments

(* The label the reviewer gave a slot, and a case on which the right of    *)
(* two arms is better in a field.                                          *)
Said(labels, arm, k) == Meaning[labels[<<arm, k>>]]

Better(labels, left, right, f, k) ==
  <<Said(labels, left, k).judged[f], Said(labels, right, k).judged[f]>>
    \in {<<"no", "unclear">>, <<"no", "yes">>, <<"unclear", "yes">>}

LEMMA LabelIsSaid ==
  ASSUME NEW arms, NEW labels, NEW arm \in arms, NEW k \in Cases
  PROVE  LabelOf(SheetOf(arms \X Cases, labels), arm, k)
           = Said(labels, arm, k)
BY LabelOfSlot DEF Said

LEMMA SaidType ==
  ASSUME NEW arms, NEW labels \in [arms \X Cases -> Labels], NEW arm \in arms,
         NEW k \in Cases
  PROVE  /\ Said(labels, arm, k) \in Label
         /\ LabelOf(SheetOf(arms \X Cases, labels), arm, k)
              = Said(labels, arm, k)
<1>1. <<arm, k>> \in arms \X Cases
  OBVIOUS
<1> QED BY <1>1, LabelOfSlot, LabelType DEF Said

LEMMA WinsAre ==
  ASSUME NEW arms, NEW labels \in [arms \X Cases -> Labels],
         NEW left \in arms, NEW right \in arms, NEW f \in Fields
  PROVE  \A k \in Cases :
           k \in Wins(SheetOf(arms \X Cases, labels), left, right, f)
             <=> Better(labels, left, right, f, k)
<1> DEFINE sheet == SheetOf(arms \X Cases, labels)
           wins == Wins(sheet, left, right, f)
<1>1. ASSUME NEW k \in Cases
      PROVE  k \in wins <=> Better(labels, left, right, f, k)
  <2> DEFINE l == Said(labels, left, k)
             r == Said(labels, right, k)
  <2>1. LabelOf(sheet, left, k) = l /\ LabelOf(sheet, right, k) = r
    BY LabelIsSaid
  <2>2. l.judged[f] \in Judgments /\ r.judged[f] \in Judgments
    BY SaidType, JudgedType
  <2>3. k \in wins <=>
          /\ Comparable(l, r, f)
          /\ JudgmentRank(r.judged[f]) > JudgmentRank(l.judged[f])
    BY <2>1 DEF Wins
  <2>4. Comparable(l, r, f) <=> /\ l.judged[f] # "not_applicable"
                                /\ r.judged[f] # "not_applicable"
    BY DEF Comparable
  <2>5. Better(labels, left, right, f, k) <=>
          <<l.judged[f], r.judged[f]>>
            \in {<<"no", "unclear">>, <<"no", "yes">>, <<"unclear", "yes">>}
    BY DEF Better
  <2> DEFINE a == l.judged[f]
             b == r.judged[f]
  <2> HIDE DEF wins, l, r
  <2>6. CASE Comparable(l, r, f)
    <3>1. a \in Judgments \ {"not_applicable"}
           /\ b \in Judgments \ {"not_applicable"}
      BY <2>2, <2>4, <2>6
    <3> QED BY <2>3, <2>5, <2>6, <3>1, JudgmentRanks
  <2>7. CASE ~Comparable(l, r, f)
    BY <2>3, <2>4, <2>5, <2>7
  <2> QED BY <2>6, <2>7
<1> QED BY <1>1

(* The challenger is better on a case that shows it.                       *)
SelectionOf(labels, says) ==
  /\ says.selected # None => says.selected \in says.passing
  /\ says.selected = Challenger =>
       /\ \A k \in Cases :
            OutcomeRank(Said(labels, Challenger, k).outcome)
              >= OutcomeRank(Said(labels, Control, k).outcome)
       /\ \E k \in Cases :
            Better(labels, Control, Challenger,
                   "valid_alternatives_preserved", k)

LEMMA SelectionEarned ==
  ASSUME NEW labels \in [RemedyArms \X Cases -> Labels], NEW attempts
  PROVE  SelectionOf(labels, RemedyVerdict(SheetOf(RemedyArms \X Cases, labels),
                                           attempts))
<1> DEFINE sheet == SheetOf(RemedyArms \X Cases, labels)
           passing == {arm \in RemedyArms :
                         PassesRemedyGate(Of(sheet, arm), attempts[arm])}
           says == RemedyVerdict(sheet, attempts)
           f == "valid_alternatives_preserved"
<1>a. Control \in RemedyArms /\ Challenger \in RemedyArms /\ f \in Fields
  BY DEF RemedyArms, Fields
<1>1. /\ says.passing = passing
      /\ says.selected = Selected(Control \in passing, Challenger \in passing,
                                  ChallengerImproves(sheet))
  BY DEF RemedyVerdict
<1> HIDE DEF sheet, passing, says
<1>2. says.selected # None => says.selected \in says.passing
  BY <1>1 DEF Selected
<1>3. says.selected = Challenger => ChallengerImproves(sheet)
  BY <1>1, NoneIsApart DEF Selected, Control, Challenger, RemedyArms
<1>4. ASSUME ChallengerImproves(sheet), NEW k \in Cases
      PROVE  OutcomeRank(Said(labels, Challenger, k).outcome)
               >= OutcomeRank(Said(labels, Control, k).outcome)
  <2>1. ~(OutcomeRank(LabelOf(sheet, Challenger, k).outcome)
            < OutcomeRank(LabelOf(sheet, Control, k).outcome))
    BY <1>4 DEF ChallengerImproves, OutcomeLosses
  <2>2. /\ LabelOf(sheet, Challenger, k) = Said(labels, Challenger, k)
        /\ LabelOf(sheet, Control, k) = Said(labels, Control, k)
    BY <1>a, LabelIsSaid DEF sheet
  <2>a. /\ Said(labels, Challenger, k) \in Label
        /\ Said(labels, Control, k) \in Label
    BY <1>a, SaidType
  <2>3. /\ OutcomeRank(Said(labels, Challenger, k).outcome) \in 0 .. 3
        /\ OutcomeRank(Said(labels, Control, k).outcome) \in 0 .. 3
    BY <2>a, JudgedType, OutcomeRanks
  <2> QED BY <2>1, <2>2, <2>3
<1>5. ASSUME ChallengerImproves(sheet)
      PROVE  \E k \in Cases : Better(labels, Control, Challenger, f, k)
  <2> DEFINE wins == Wins(sheet, Control, Challenger, f)
             losses == Losses(sheet, Control, Challenger, f)
  <2>1. Cardinality(wins) > Cardinality(losses)
    BY <1>5 DEF ChallengerImproves
  <2>2. wins \in SUBSET Cases /\ losses \in SUBSET Cases
    BY DEF Wins, Losses
  <2>3. \A k \in Cases :
          k \in wins <=> Better(labels, Control, Challenger, f, k)
    BY <1>a, WinsAre DEF sheet
  <2> HIDE DEF wins, losses
  <2>4. IsFiniteSet(wins) /\ IsFiniteSet(losses)
    BY <2>2, CasesFinite, FS_Subset
  <2>5. \E k \in wins : k \notin losses
    BY <2>1, <2>4, MoreHasAnother
  <2> QED BY <2>2, <2>3, <2>5
<1>6. SelectionOf(labels, says)
  BY <1>2, <1>3, <1>4, <1>5 DEF SelectionOf
<1> QED BY <1>6 DEF says, sheet

(* The points of one arm on one case, as a set.                            *)
Applicable(l, r) ==
  {f \in FactFields \ {"remedy_logic_preserved"} : Comparable(l, r, f)}

Points(l, r) ==
  {x \in Applicable(l, r) \X (1 .. 2) : x[2] <= JudgmentRank(l.judged[x[1]])}

LEMMA PointsFinite ==
  ASSUME NEW l, NEW r
  PROVE  IsFiniteSet(Points(l, r))
<1>1. IsFiniteSet(FactFields)
  <2> DEFINE S1 == {} \cup {"established_facts_preserved"}
             S2 == S1 \cup {"unknowns_handled_correctly"}
             S3 == S2 \cup {"documentation_scope_correct"}
             S4 == S3 \cup {"authority_boundary_correct"}
             S5 == S4 \cup {"no_invented_requirement"}
             S6 == S5 \cup {"no_unsafe_waiver"}
             S7 == S6 \cup {"remedy_logic_preserved"}
  <2>1. FactFields = S7
    BY DEF FactFields
  <2> HIDE DEF S1, S2, S3, S4, S5, S6, S7
  <2>2. IsFiniteSet(S1)
    BY FS_EmptySet, FS_AddElement DEF S1
  <2>3. IsFiniteSet(S2)
    BY <2>2, FS_AddElement DEF S2
  <2>4. IsFiniteSet(S3)
    BY <2>3, FS_AddElement DEF S3
  <2>5. IsFiniteSet(S4)
    BY <2>4, FS_AddElement DEF S4
  <2>6. IsFiniteSet(S5)
    BY <2>5, FS_AddElement DEF S5
  <2>7. IsFiniteSet(S6)
    BY <2>6, FS_AddElement DEF S6
  <2>8. IsFiniteSet(S7)
    BY <2>7, FS_AddElement DEF S7
  <2> QED BY <2>1, <2>8
<1>2. IsFiniteSet(Applicable(l, r))
  <2>1. Applicable(l, r) \in SUBSET FactFields
    BY DEF Applicable
  <2> QED BY <1>1, <2>1, FS_Subset
<1>3. IsFiniteSet(1 .. 2)
  <2>1. 1 \in Int /\ 2 \in Int
    OBVIOUS
  <2> QED BY <2>1, FS_Interval, Zenon
<1>4. IsFiniteSet(Applicable(l, r) \X (1 .. 2))
  BY <1>2, <1>3, FS_Product
<1>5. Points(l, r) \in SUBSET (Applicable(l, r) \X (1 .. 2))
  BY DEF Points
<1> QED BY <1>4, <1>5, FS_Subset

(* The arm with more points on a case is better in one of the questions.   *)
LEMMA MorePointsIsBetter ==
  ASSUME NEW arms, NEW labels \in [arms \X Cases -> Labels],
         NEW left \in arms, NEW right \in arms, NEW k \in Cases,
         LET sheet == SheetOf(arms \X Cases, labels)
         IN  FactScore(sheet, right, left, k) > FactScore(sheet, left, right, k)
  PROVE  \E f \in FactFields : Better(labels, left, right, f, k)
<1> DEFINE sheet == SheetOf(arms \X Cases, labels)
           l == Said(labels, left, k)
           r == Said(labels, right, k)
<1>1. /\ LabelOf(sheet, left, k) = l /\ LabelOf(sheet, right, k) = r
      /\ l \in Label /\ r \in Label
  BY SaidType
<1>a. FactScore(sheet, right, left, k) > FactScore(sheet, left, right, k)
  OBVIOUS
<1>b. \A f : Better(labels, left, right, f, k) <=>
          <<l.judged[f], r.judged[f]>>
            \in {<<"no", "unclear">>, <<"no", "yes">>, <<"unclear", "yes">>}
  BY DEF Better
<1> HIDE DEF sheet, l, r
<1>2. /\ FactScore(sheet, right, left, k) = Cardinality(Points(r, l))
      /\ FactScore(sheet, left, right, k) = Cardinality(Points(l, r))
  BY <1>1, Zenon DEF FactScore, Points, Applicable
<1>3. PICK x \in Points(r, l) : x \notin Points(l, r)
  BY <1>a, <1>2, PointsFinite, MoreHasAnother
<1> DEFINE f == x[1]
<1>4. /\ x \in Applicable(r, l) \X (1 .. 2)
      /\ x[2] <= JudgmentRank(r.judged[f])
  BY DEF Points
<1>5. f \in Applicable(r, l) /\ x[2] \in 1 .. 2
  BY <1>4
<1>6. /\ f \in FactFields
      /\ l.judged[f] # "not_applicable" /\ r.judged[f] # "not_applicable"
      /\ f \in Applicable(l, r)
  BY <1>5 DEF Applicable, Comparable
<1>7. x \in Applicable(l, r) \X (1 .. 2)
  BY <1>4, <1>6
<1>8. ~(x[2] <= JudgmentRank(l.judged[f]))
  BY <1>3, <1>7 DEF Points
<1> DEFINE a == l.judged[f]
           b == r.judged[f]
<1>9. /\ a \in Judgments \ {"not_applicable"}
      /\ b \in Judgments \ {"not_applicable"}
  BY <1>1, <1>6, JudgedType DEF Fields
<1> HIDE DEF f
<1>10. JudgmentRank(b) > JudgmentRank(a)
  BY <1>4, <1>5, <1>8, <1>9, JudgmentRanks
<1>11. Better(labels, left, right, f, k)
  BY <1>b, <1>9, <1>10, JudgmentRanks
<1> QED BY <1>6, <1>11

(* The candidate is better on a case that shows it, and it waives nothing  *)
(* that the control kept.                                                  *)
AuthorizedOf(labels) ==
  /\ \E k \in Cases, f \in FactFields :
       Better(labels, FactControl, Candidate, f, k)
  /\ \A k \in Cases :
       Said(labels, Candidate, k).judged["no_unsafe_waiver"] = "no" =>
         Said(labels, FactControl, k).judged["no_unsafe_waiver"] = "no"

LEMMA AuthorizationEarned ==
  ASSUME NEW labels \in [FactStateArms \X Cases -> Labels],
         CandidateImproves(SheetOf(FactStateArms \X Cases, labels))
  PROVE  AuthorizedOf(labels)
<1> DEFINE sheet == SheetOf(FactStateArms \X Cases, labels)
           more == FactWins(sheet, FactControl, Candidate)
           less == FactWins(sheet, Candidate, FactControl)
           f == "no_unsafe_waiver"
<1>a. /\ FactControl \in FactStateArms /\ Candidate \in FactStateArms
      /\ f \in Fields /\ f \in AlwaysApply
  BY DEF FactStateArms, Fields, FactFields, AlwaysApply
<1>b. CandidateImproves(sheet)
  OBVIOUS
<1>1. /\ more \in SUBSET Cases /\ less \in SUBSET Cases
      /\ Cardinality(more) > Cardinality(less)
  BY <1>b DEF CandidateImproves, FactWins
<1>2. \E k \in more : k \notin less
  <2> HIDE DEF more, less
  <2>1. IsFiniteSet(more) /\ IsFiniteSet(less)
    BY <1>1, CasesFinite, FS_Subset
  <2> QED BY <1>1, <2>1, MoreHasAnother
<1>3. PICK k \in Cases : FactScore(sheet, Candidate, FactControl, k)
                           > FactScore(sheet, FactControl, Candidate, k)
  BY <1>2, Zenon DEF FactWins
<1>4. \E g \in FactFields : Better(labels, FactControl, Candidate, g, k)
  BY <1>a, <1>3, MorePointsIsBetter
<1>5. ASSUME NEW c \in Cases, Said(labels, Candidate, c).judged[f] = "no"
      PROVE  Said(labels, FactControl, c).judged[f] = "no"
  <2>1. c \notin Wins(sheet, Candidate, FactControl, f)
    BY <1>b DEF CandidateImproves, Losses
  <2>2. ~Better(labels, Candidate, FactControl, f, c)
    BY <1>a, <2>1, WinsAre
  <2>3. /\ Said(labels, FactControl, c).judged[f] \in Judgments
        /\ Said(labels, FactControl, c).judged[f] # "not_applicable"
    BY <1>a, SaidType, JudgedType
  <2> QED BY <1>5, <2>2, <2>3 DEF Better, Judgments
<1> QED BY <1>4, <1>5 DEF AuthorizedOf

-----------------------------------------------------------------------------
(* What a verdict says, it has earned.                                     *)
EarnedVerdict(s, answers, labels, says) ==
  /\ says \in Verdicts(Arms[s])
  /\ \A arm \in says.passing : EarnedOf(s, answers, labels, arm)
  /\ s = "remedy" => SelectionOf(labels, says)
  /\ says.authorized =>
       /\ s = "fact_state" /\ Candidate \in says.passing
       /\ AuthorizedOf(labels)

LEMMA SheetOfScoring ==
  ASSUME study # "pilot", NEW j
  PROVE  Sheet(j) = SheetOf(Slots(study), j.sheet.labels)
BY DEF Sheet, SheetOf, Rows

LEMMA QualificationEarned ==
  ASSUME study = "qualification",
         NEW d, NEW labels \in [Slots(study) -> Labels]
  PROVE  EarnedVerdict(study, job[d].answers, labels,
                       QualificationVerdict(SheetOf(Slots(study), labels),
                                            Attempts(d)))
<1> DEFINE sheet == SheetOf(Slots(study), labels)
           attempts == Attempts(d)
           answers == job[d].answers
           passing == {arm \in QualificationArms :
                         QualifiedArm(arm, sheet, attempts[arm])}
           says == QualificationVerdict(sheet, attempts)
<1>1. Arms[study] = QualificationArms
  BY DEF Arms
<1>2. \A arm \in passing : EarnedOf(study, answers, labels, arm)
  BY <1>1, QualifiedEarns
<1>3. says = [passing |-> passing, selected |-> None, authorized |-> FALSE]
  BY DEF QualificationVerdict
<1>4. passing \in SUBSET Arms[study]
  BY <1>1
<1> HIDE DEF passing, says
<1>5. says \in Verdicts(Arms[study])
  BY <1>3, <1>4 DEF Verdicts
<1>6. EarnedVerdict(study, answers, labels, says)
  BY <1>2, <1>3, <1>5 DEF EarnedVerdict
<1> QED BY <1>6 DEF says

LEMMA RemedyEarned ==
  ASSUME study = "remedy",
         NEW d, NEW labels \in [Slots(study) -> Labels]
  PROVE  EarnedVerdict(study, job[d].answers, labels,
                       RemedyVerdict(SheetOf(Slots(study), labels),
                                     Attempts(d)))
<1> DEFINE sheet == SheetOf(Slots(study), labels)
           attempts == Attempts(d)
           answers == job[d].answers
           passing == {arm \in RemedyArms :
                         PassesRemedyGate(Of(sheet, arm), attempts[arm])}
           chosen == Selected(Control \in passing, Challenger \in passing,
                              ChallengerImproves(sheet))
           says == RemedyVerdict(sheet, attempts)
<1>1. Arms[study] = RemedyArms
  BY DEF Arms
<1>2. \A arm \in passing : EarnedOf(study, answers, labels, arm)
  BY <1>1, RemedyEarns
<1>3. says = [passing |-> passing, selected |-> chosen, authorized |-> FALSE]
  BY DEF RemedyVerdict
<1>4. passing \in SUBSET Arms[study]
  BY <1>1
<1>5. chosen \in RemedyArms \cup {None}
  BY DEF Selected, RemedyArms
<1>6. SelectionOf(labels, says)
  BY <1>1, SelectionEarned DEF Slots
<1> HIDE DEF passing, says, chosen
<1>7. says \in Verdicts(Arms[study])
  BY <1>1, <1>3, <1>4, <1>5 DEF Verdicts
<1>8. EarnedVerdict(study, answers, labels, says)
  BY <1>2, <1>3, <1>6, <1>7 DEF EarnedVerdict
<1> QED BY <1>8 DEF says

LEMMA FactStateEarned ==
  ASSUME study = "fact_state",
         NEW d, NEW labels \in [Slots(study) -> Labels]
  PROVE  EarnedVerdict(study, job[d].answers, labels,
                       FactStateVerdict(SheetOf(Slots(study), labels),
                                        Attempts(d)))
<1> DEFINE sheet == SheetOf(Slots(study), labels)
           attempts == Attempts(d)
           answers == job[d].answers
           passing == {arm \in FactStateArms :
                         PassesFactStateGate(Of(sheet, arm), attempts[arm])}
           authorized == Candidate \in passing /\ CandidateImproves(sheet)
           says == FactStateVerdict(sheet, attempts)
<1>1. Arms[study] = FactStateArms
  BY DEF Arms
<1>2. \A arm \in passing : EarnedOf(study, answers, labels, arm)
  BY <1>1, FactStateEarns
<1>3. /\ says = [passing |-> passing, selected |-> None,
                 authorized |-> authorized]
      /\ authorized \in BOOLEAN
  BY DEF FactStateVerdict
<1>4. passing \in SUBSET Arms[study]
  BY <1>1
<1>5. ASSUME authorized
      PROVE  Candidate \in passing /\ AuthorizedOf(labels)
  <2>1. Candidate \in passing /\ CandidateImproves(sheet)
    BY <1>5
  <2>2. sheet = SheetOf(FactStateArms \X Cases, labels)
        /\ labels \in [FactStateArms \X Cases -> Labels]
    BY <1>1 DEF Slots
  <2> HIDE DEF sheet, passing
  <2> QED BY <2>1, <2>2, AuthorizationEarned
<1> HIDE DEF passing, says, authorized
<1>6. says \in Verdicts(Arms[study])
  BY <1>3, <1>4 DEF Verdicts
<1>7. /\ says.passing = passing /\ says.authorized = authorized
  BY <1>3
<1>8. EarnedVerdict(study, answers, labels, says)
  BY <1>2, <1>5, <1>6, <1>7 DEF EarnedVerdict
<1> QED BY <1>8 DEF says

LEMMA VerdictEarned ==
  ASSUME study \in {"qualification", "remedy", "fact_state"}, NEW j,
         j.sheet.labels \in [Slots(study) -> Labels]
  PROVE  EarnedVerdict(study, job[j.of].answers, j.sheet.labels, Verdict(j))
<1> DEFINE labels == j.sheet.labels
           d == j.of
<1>1. Sheet(j) = SheetOf(Slots(study), labels)
  BY SheetOfScoring
<1>a. labels \in [Slots(study) -> Labels]
  OBVIOUS
<1> HIDE DEF labels, d
<1>2. CASE study = "qualification"
  <2>1. Verdict(j) = QualificationVerdict(Sheet(j), Attempts(d))
    BY <1>2 DEF Verdict, d
  <2> QED BY <1>1, <1>a, <1>2, <2>1, QualificationEarned DEF d, labels
<1>3. CASE study = "remedy"
  <2>1. Verdict(j) = RemedyVerdict(Sheet(j), Attempts(d))
    BY <1>3 DEF Verdict, d
  <2> QED BY <1>1, <1>a, <1>3, <2>1, RemedyEarned DEF d, labels
<1>4. CASE study = "fact_state"
  <2>1. Verdict(j) = FactStateVerdict(Sheet(j), Attempts(d))
    BY <1>4 DEF Verdict, d
  <2> QED BY <1>1, <1>a, <1>4, <2>1, FactStateEarned DEF d, labels
<1> QED BY <1>2, <1>3, <1>4

-----------------------------------------------------------------------------
(* The repairs of a pilot: no more than its protocol allows, and accepted  *)
(* only from a teacher that has earned it.                                 *)
LEMMA GreatestBelow ==
  ASSUME NEW S \in SUBSET Cases, S # {}
  PROVE  \E x \in S : \A y \in S : y <= x
<1> DEFINE Rest == {n \in Nat : \E x \in S : n = N - x}
<1>a. N \in Nat /\ \A x \in S : x \in 1 .. N
  BY RuleConstants DEF Cases
<1>1. Rest \subseteq Nat /\ Rest # {}
  <2>1. PICK x \in S : TRUE
    OBVIOUS
  <2>2. N - x \in Rest
    BY <1>a, <2>1
  <2> QED BY <2>2
<1> HIDE DEF Rest
<1>2. PICK n \in Rest : \A m \in Rest : ~(<<m, n>> \in OpToRel(<, Nat))
  BY <1>1, NatLessThanWellFounded, WFMin
<1>3. PICK x \in S : n = N - x
  BY DEF Rest
<1>4. ASSUME NEW y \in S PROVE y <= x
  <2>1. N - y \in Rest
    BY <1>a DEF Rest
  <2>2. ~(N - y < N - x)
    BY <1>1, <1>2, <1>3, <2>1 DEF OpToRel
  <2> QED BY <1>a, <2>2
<1> QED BY <1>4

LEMMA SelectRepairsBound ==
  ASSUME NEW student
  PROVE  /\ SelectRepairs(student) \in SUBSET Cases
         /\ IsFiniteSet(SelectRepairs(student))
         /\ Cardinality(SelectRepairs(student)) <= MaxRepairs
         /\ \A k \in SelectRepairs(student) : student[k].hard
<1> DEFINE failing == {k \in Cases : student[k].hard}
           chosen == SelectRepairs(student)
           Before(k) == {j \in failing : j < k}
<1>1. /\ chosen \subseteq failing /\ failing \subseteq Cases
      /\ \A k \in chosen : Cardinality(Before(k)) < MaxRepairs
  BY DEF SelectRepairs
<1>2. IsFiniteSet(failing) /\ IsFiniteSet(chosen)
  BY <1>1, CasesFinite, FS_Subset
<1>3. Cardinality(chosen) <= MaxRepairs
  <2>1. CASE chosen = {}
    BY <2>1, FS_EmptySet, RuleConstants
  <2>2. CASE chosen # {}
    <3> HIDE DEF chosen
    <3>1. PICK x \in chosen : \A y \in chosen : y <= x
      BY <1>1, <2>2, GreatestBelow
    <3>2. Before(x) \in SUBSET failing /\ x \notin Before(x)
      BY <1>1, CasesFinite
    <3>3. chosen \in SUBSET (Before(x) \cup {x})
      BY <1>1, <3>1, CasesFinite
    <3>4. Cardinality(Before(x)) < MaxRepairs
      BY <1>1
    <3> HIDE DEF Before, failing
    <3>5. IsFiniteSet(Before(x)) /\ Cardinality(Before(x)) \in Nat
      BY <1>2, <3>2, FS_Subset, FS_CardinalityType
    <3>6. /\ IsFiniteSet(Before(x) \cup {x})
          /\ Cardinality(Before(x) \cup {x}) = Cardinality(Before(x)) + 1
      BY <3>2, <3>5, FS_AddElement
    <3>7. Cardinality(chosen) <= Cardinality(Before(x) \cup {x})
      BY <3>3, <3>6, FS_Subset
    <3>8. Cardinality(chosen) \in Nat
      BY <1>2, FS_CardinalityType
    <3> QED BY <3>4, <3>5, <3>6, <3>7, <3>8, RuleConstants
  <2> QED BY <2>1, <2>2
<1> QED BY <1>1, <1>2, <1>3

RepairsOf(answers, says) ==
  \A k \in says :
    LET repair == answers[<<"repair", k>>] IN
    /\ answers[<<"student", k>>].answer # "sound"
    /\ repair.answer = "sound"
    /\ repair.reading.valid /\ repair.reading.score = 2
    /\ ~repair.reading.attention
    /\ \A c \in Cases :
         LET reply == answers[<<"teacher", c>>] IN
         /\ reply.answer \notin {"raised", "truncated"}
         /\ reply.answer = "sound" => reply.reading.valid
         /\ c \in Refer => reply.answer = "sound" /\ reply.reading.score = 2

LEMMA RecordOfPilotAnswer ==
  ASSUME NEW answer
  PROVE  /\ PilotAttempt(answer).hard <=> answer # "sound"
         /\ PilotAttempt(answer).generated =
              (answer \notin {"raised", "truncated"} /\ answer # None)
<1> USE NoneIsNoAnswer DEF Answers
<1>1. PilotAttempt(answer).hard
        = (StructuredHardFail(ParseStructured(FinalOutput(answer)))
             \/ answer = "truncated")
  BY DEF PilotAttempt, Recorded
<1>2. StructuredHardFail(ParseStructured(FinalOutput(answer)))
        <=> answer # "sound"
  BY DEF StructuredHardFail, ParseStructured, FinalOutput
<1>3. PilotAttempt(answer).generated = (FinalOutput(answer) # None)
  BY DEF PilotAttempt, Recorded
<1>4. (FinalOutput(answer) # None)
        <=> (answer \notin {"raised", "truncated"} /\ answer # None)
  BY DEF FinalOutput
<1> QED BY <1>1, <1>2, <1>3, <1>4

LEMMA QualifiedTeacher ==
  ASSUME NEW attempts, NEW advice, DOMAIN attempts = Cases,
         TeacherQualified(attempts, advice)
  PROVE  /\ \A k \in Cases : attempts[k].generated
         /\ \A k \in Cases : ~attempts[k].hard => advice[k].valid
         /\ \A k \in Refer : ~attempts[k].hard /\ advice[k].score = 2
<1>1. /\ Failures(attempts) = 0
      /\ \A k \in {c \in Cases : ~attempts[c].hard} : advice[k].valid
      /\ \A k \in Refer : Governed(attempts[k], advice[k]) = 2
  BY Zenon DEF TeacherQualified
<1>2. \A k \in Cases : attempts[k].generated
  BY <1>1, CountsOfAttempts
<1>3. \A k \in Refer : ~attempts[k].hard /\ advice[k].score = 2
  BY <1>1 DEF Governed
<1> QED BY <1>1, <1>2, <1>3

LEMMA RepairsEarned ==
  ASSUME NEW answers
  PROVE  /\ RepairsOf(answers, AcceptedRepairs(answers))
         /\ AcceptedRepairs(answers) \in SUBSET Cases
         /\ Cardinality(AcceptedRepairs(answers)) <= MaxRepairs
<1> DEFINE attempts == PilotAttempts(answers)
           readings == PilotReadings(answers)
           qualified == TeacherQualified(attempts["teacher"],
                                         readings["teacher"])
           chosen == SelectRepairs(attempts["student"])
           says == AcceptedRepairs(answers)
<1>1. says = {k \in chosen : RepairAccepted(qualified, attempts["repair"][k],
                                            readings["repair"][k])}
  BY DEF AcceptedRepairs
<1>2. \A arm \in PilotArms :
        /\ DOMAIN attempts[arm] = Cases
        /\ \A k \in Cases :
             /\ attempts[arm][k] = PilotAttempt(answers[<<arm, k>>].answer)
             /\ readings[arm][k] = answers[<<arm, k>>].reading
  BY DEF PilotAttempts, PilotReadings
<1>a. {"student", "teacher", "repair"} = PilotArms
  BY DEF PilotArms
<1> HIDE DEF attempts, readings, says
<1>3. chosen \in SUBSET Cases /\ Cardinality(chosen) <= MaxRepairs
      /\ IsFiniteSet(chosen) /\ \A k \in chosen : attempts["student"][k].hard
  BY SelectRepairsBound
<1> HIDE DEF chosen, qualified
<1>4. says \in SUBSET chosen
  BY <1>1
<1>5. says \in SUBSET Cases /\ Cardinality(says) <= MaxRepairs
  <2>1. IsFiniteSet(says) /\ Cardinality(says) <= Cardinality(chosen)
    BY <1>3, <1>4, FS_Subset
  <2>2. Cardinality(says) \in Nat /\ Cardinality(chosen) \in Nat
    BY <1>3, <2>1, FS_CardinalityType
  <2> QED BY <1>3, <1>4, <2>1, <2>2, RuleConstants
<1>6. ASSUME NEW k \in says
      PROVE  LET repair == answers[<<"repair", k>>] IN
             /\ answers[<<"student", k>>].answer # "sound"
             /\ repair.answer = "sound"
             /\ repair.reading.valid /\ repair.reading.score = 2
             /\ ~repair.reading.attention
             /\ \A c \in Cases :
                  LET reply == answers[<<"teacher", c>>] IN
                  /\ reply.answer \notin {"raised", "truncated"}
                  /\ reply.answer = "sound" => reply.reading.valid
                  /\ c \in Refer =>
                       reply.answer = "sound" /\ reply.reading.score = 2
  <2>1. /\ qualified /\ ~attempts["repair"][k].hard
        /\ readings["repair"][k].valid /\ readings["repair"][k].score = 2
        /\ ~readings["repair"][k].attention
    BY <1>1 DEF RepairAccepted
  <2>2. k \in Cases /\ attempts["student"][k].hard
    BY <1>3, <1>4
  <2>3. answers[<<"student", k>>].answer # "sound"
    <3>1. attempts["student"][k]
            = PilotAttempt(answers[<<"student", k>>].answer)
      BY <1>2, <1>a, <2>2
    <3> QED BY <2>2, <3>1, RecordOfPilotAnswer, Zenon
  <2>4. LET repair == answers[<<"repair", k>>] IN
        /\ repair.answer = "sound"
        /\ repair.reading.valid /\ repair.reading.score = 2
        /\ ~repair.reading.attention
    BY <1>2, <1>a, <2>1, <2>2, RecordOfPilotAnswer
  <2>5. ASSUME NEW c \in Cases
        PROVE  LET reply == answers[<<"teacher", c>>] IN
               /\ reply.answer \notin {"raised", "truncated"}
               /\ reply.answer = "sound" => reply.reading.valid
               /\ c \in Refer =>
                    reply.answer = "sound" /\ reply.reading.score = 2
    <3>1. /\ attempts["teacher"][c].generated
          /\ ~attempts["teacher"][c].hard => readings["teacher"][c].valid
          /\ c \in Refer => /\ ~attempts["teacher"][c].hard
                            /\ readings["teacher"][c].score = 2
      BY <1>2, <1>a, <2>1, QualifiedTeacher DEF qualified
    <3>2. /\ attempts["teacher"][c]
               = PilotAttempt(answers[<<"teacher", c>>].answer)
          /\ readings["teacher"][c] = answers[<<"teacher", c>>].reading
      BY <1>2, <1>a
    <3> QED BY <3>1, <3>2, RecordOfPilotAnswer
  <2> QED BY <2>3, <2>4, <2>5
<1>7. RepairsOf(answers, says)
  BY <1>6 DEF RepairsOf
<1> QED BY <1>5, <1>7 DEF says

-----------------------------------------------------------------------------
(* The invariant.  What a command has read, it has read of commands whose  *)
(* directory was made, and those never change again: the operators take    *)
(* the state they look at as arguments, so that it can grow.               *)
FlawsOf(s, answers) == {x \in Slots(s) : answers[x] # Sound(s)}

AnswersOf(s, answers) ==
  /\ DOMAIN answers = Slots(s)
  /\ IsFiniteSet(FlawsOf(s, answers))
  /\ Cardinality(FlawsOf(s, answers)) <= MaxFaults[s]

\* A job has all its fields, of their types.
JobFacts(j, s) ==
  /\ j = [kind |-> j.kind, root |-> j.root, assets |-> j.assets,
          of |-> j.of, packet |-> j.packet, sheet |-> j.sheet,
          bound |-> j.bound, answers |-> j.answers, says |-> j.says]
  /\ j.kind \in Kinds /\ j.root \in Roots
  /\ j.assets \in Versions \cup {None}
  /\ j.of \in Commands \cup {None} /\ j.packet \in Commands \cup {None}
  /\ j.answers # None => AnswersOf(s, j.answers)

Compared == {"comparison", "corrected"}

\* What a job rests on: the jobs of commands whose directory exists.
Known(j, s, jobs, dirs, counts) ==
  /\ j.kind = "audit" =>
       j.of \in dirs /\ jobs[j.of].kind = "pilot"
  /\ j.kind \in {"corrected", "review", "decision"} =>
       /\ j.of \in dirs /\ jobs[j.of].kind \in Compared
       /\ jobs[j.of].assets = j.assets /\ j.assets # None
       /\ s \in {"qualification", "remedy", "fact_state"}
  /\ j.kind = "decision" =>
       /\ j.packet \in dirs /\ jobs[j.packet].kind = "review"
       /\ jobs[j.packet].of = j.of
       /\ j.sheet.packet = j.packet
       /\ j.sheet.labels \in [Slots(s) -> Labels]
  /\ j.kind = "regression" =>
       /\ j.of \in dirs /\ jobs[j.of].kind = "decision"
       /\ counts[j.of] >= 1
       /\ jobs[j.of].says.authorized
       /\ jobs[j.of].assets = j.assets

\* What a command said when it made its directory, it had earned.
Concluded(j, s, jobs) ==
  /\ j.kind = "decision" =>
       EarnedVerdict(s, jobs[j.of].answers, j.sheet.labels, j.says)
  /\ j.kind = "pilot" =>
       /\ RepairsOf(j.answers, j.says)
       /\ j.says \in SUBSET Cases /\ Cardinality(j.says) <= MaxRepairs

TypeInv ==
  /\ study \in Studies /\ assets \in Versions \cup {None}
  /\ step \in [Commands -> {"unused", "working", "writing", "ended"}]
  /\ job = [c \in Commands |-> job[c]]
  /\ made \in SUBSET Commands
  /\ written \in [Commands -> Nat]
  /\ edits \in 0 .. MaxAdvisories[study]

\* How far a command has come, and what there is of it.
StepInv ==
  \A c \in Commands :
    /\ step[c] = "unused" => job[c] = NoJob
    /\ step[c] \in {"unused", "working"} => c \notin made /\ written[c] = 0
    /\ step[c] = "writing" => /\ c \in made /\ job[c].kind # "overlay"
                              /\ written[c] < FilesOf(job[c].kind)
    /\ step[c] = "ended" => written[c] <= FilesOf(job[c].kind)
    /\ c \notin made => job[c].says = None

JobInv ==
  \A c \in Commands :
    step[c] # "unused" =>
      JobFacts(job[c], study) /\ Known(job[c], study, job, made, written)

MadeInv == \A d \in made : Concluded(job[d], study, job)

AdvisoryInv ==
  \/ advisory = None
  \/ /\ advisory.packet \in made
     /\ job[advisory.packet].kind \in {"audit", "review"}
     /\ advisory.labels \in [Rows(advisory.packet) -> Labels \cup {None}]

FlawInv ==
  IsFiniteSet(AllFlaws) /\ Cardinality(AllFlaws) <= MaxFaults[study]

IInv == /\ TypeInv /\ StepInv /\ JobInv /\ MadeInv /\ OneWriter
        /\ AdvisoryInv /\ FlawInv

-----------------------------------------------------------------------------
(* What a comparison or a pilot generates.                                 *)
LEMMA SlotsFinite ==
  ASSUME NEW s \in Studies
  PROVE  IsFiniteSet(Slots(s))
<1>0. s \in {"pilot", "qualification", "remedy", "fact_state"}
  BY StudyConstants
<1>1. \E a, b, c : Arms[s] \subseteq (({} \cup {a}) \cup {b}) \cup {c}
  <2>1. CASE s = "pilot"
    BY <2>1 DEF Arms, PilotArms
  <2>2. CASE s = "qualification"
    BY <2>2 DEF Arms, QualificationArms
  <2>3. CASE s = "remedy"
    <3>1. Arms[s] = {Control, Challenger}
      BY <2>3 DEF Arms, RemedyArms
    <3> QED BY <3>1
  <2>4. CASE s = "fact_state"
    <3>1. Arms[s] = {FactControl, Candidate}
      BY <2>4 DEF Arms, FactStateArms
    <3> QED BY <3>1
  <2> QED BY <1>0, <2>1, <2>2, <2>3, <2>4
<1>2. PICK a, b, c : Arms[s] \subseteq (({} \cup {a}) \cup {b}) \cup {c}
  BY <1>1
<1> DEFINE A == {} \cup {a}
           B == A \cup {b}
           C == B \cup {c}
<1>3. Arms[s] \in SUBSET C
  BY <1>2
<1> HIDE DEF A, B, C
<1>4. IsFiniteSet(A)
  BY FS_EmptySet, FS_AddElement DEF A
<1>5. IsFiniteSet(B)
  BY <1>4, FS_AddElement DEF B
<1>6. IsFiniteSet(C)
  BY <1>5, FS_AddElement DEF C
<1>7. IsFiniteSet(Arms[s])
  BY <1>3, <1>6, FS_Subset
<1> QED BY <1>7, CasesFinite, FS_Product DEF Slots

LEMMA DeviatingIsBounded ==
  ASSUME NEW slots, IsFiniteSet(slots), NEW ordinary, NEW others,
         NEW most \in Nat, NEW g \in Deviating(slots, ordinary, others, most)
  PROVE  /\ DOMAIN g = slots
         /\ \E D \in SUBSET slots :
              /\ Cardinality(D) <= most /\ IsFiniteSet(D)
              /\ \A x \in slots : x \notin D => g[x] = ordinary
         /\ \A x \in slots : g[x] \in others \cup {ordinary}
<1>1. PICK D \in UNION {kSubset(n, slots) : n \in 0 .. most} :
        g \in {[x \in slots |-> IF x \in D THEN h[x] ELSE ordinary] :
                 h \in [D -> others]}
  BY DEF Deviating
<1>2. PICK h \in [D -> others] :
        g = [x \in slots |-> IF x \in D THEN h[x] ELSE ordinary]
  BY <1>1
<1>3. PICK n \in 0 .. most : D \in kSubset(n, slots)
  BY <1>1
<1>4. D \in SUBSET slots /\ Cardinality(D) = n
  BY <1>3 DEF kSubset
<1>5. IsFiniteSet(D)
  BY <1>4, FS_Subset
<1> QED BY <1>2, <1>4, <1>5

LEMMA GeneratedAnswers ==
  ASSUME NEW s \in Studies, NEW n \in 0 .. MaxFaults[s],
         NEW answers \in Generations[s][n]
  PROVE  /\ DOMAIN answers = Slots(s)
         /\ IsFiniteSet(FlawsOf(s, answers))
         /\ Cardinality(FlawsOf(s, answers)) <= n
<1>0. MaxFaults[s] \in Nat
  BY StudyConstants
<1>1. \E others : answers \in Deviating(Slots(s), Sound(s), others, n)
  BY DEF Generations
<1>2. PICK others : answers \in Deviating(Slots(s), Sound(s), others, n)
  BY <1>1
<1>3. PICK D \in SUBSET Slots(s) :
        /\ Cardinality(D) <= n /\ IsFiniteSet(D)
        /\ \A x \in Slots(s) : x \notin D => answers[x] = Sound(s)
  BY <1>0, <1>2, SlotsFinite, DeviatingIsBounded
<1>4. FlawsOf(s, answers) \in SUBSET D
  BY <1>3 DEF FlawsOf
<1>5. /\ IsFiniteSet(FlawsOf(s, answers))
      /\ Cardinality(FlawsOf(s, answers)) <= Cardinality(D)
  BY <1>3, <1>4, FS_Subset
<1>6. Cardinality(FlawsOf(s, answers)) \in Nat /\ Cardinality(D) \in Nat
  BY <1>3, <1>5, FS_CardinalityType
<1>7. DOMAIN answers = Slots(s)
  BY <1>0, <1>2, SlotsFinite, DeviatingIsBounded
<1> QED BY <1>0, <1>3, <1>5, <1>6, <1>7

(* The flaws of all commands, which the bound counts.                      *)
LEMMA FlawedIs ==
  ASSUME NEW answers
  PROVE  Flawed(answers) = FlawsOf(study, answers)
BY DEF Flawed, FlawsOf

Generating == {"pilot", "comparison"}

LEMMA AllFlawsAre ==
  ASSUME NEW x
  PROVE  /\ x \in AllFlaws <=>
              \E d \in made : /\ job[d].kind \in Generating
                              /\ x \in {d} \X FlawsOf(study, job[d].answers)
         /\ x \in AllFlaws' <=>
              \E d \in made' :
                /\ job'[d].kind \in Generating
                /\ x \in {d} \X FlawsOf(study', job'[d].answers)
<1>1. \A d : Flawed(job[d].answers) = FlawsOf(study, job[d].answers)
  BY FlawedIs
<1>2. \A d : Flawed(job[d].answers)' = FlawsOf(study', job'[d].answers)
  BY DEF Flawed, FlawsOf
<1>3. x \in AllFlaws <=>
        \E d \in made : /\ job[d].kind \in Generating
                        /\ x \in {d} \X Flawed(job[d].answers)
  BY DEF AllFlaws, Generating
<1>4. x \in AllFlaws' <=>
        \E d \in made' : /\ job'[d].kind \in Generating
                         /\ x \in {d} \X Flawed(job[d].answers)'
  BY DEF AllFlaws, Generating
<1> QED BY <1>1, <1>2, <1>3, <1>4

LEMMA FaultsLeftType ==
  ASSUME TypeInv, FlawInv
  PROVE  FaultsLeft \in 0 .. MaxFaults[study]
<1>1. MaxFaults[study] \in Nat
  BY StudyConstants DEF TypeInv
<1>2. Cardinality(AllFlaws) \in Nat
  BY FS_CardinalityType DEF FlawInv
<1> QED BY <1>1, <1>2 DEF FaultsLeft, FlawInv

-----------------------------------------------------------------------------
(* Directories are only added, and their jobs and files stay.              *)
LEMMA KnownStays ==
  ASSUME NEW j, NEW s, NEW jobs, NEW later, NEW dirs, NEW more,
         NEW counts, NEW grown, dirs \subseteq more,
         \A d \in dirs : /\ later[d] = jobs[d]
                         /\ counts[d] \in Nat /\ grown[d] \in Nat
                         /\ counts[d] <= grown[d],
         Known(j, s, jobs, dirs, counts)
  PROVE  Known(j, s, later, more, grown)
<1>1. j.kind = "audit" => j.of \in more /\ later[j.of].kind = "pilot"
  BY DEF Known
<1>2. j.kind \in {"corrected", "review", "decision"} =>
        /\ j.of \in more /\ later[j.of].kind \in Compared
        /\ later[j.of].assets = j.assets /\ j.assets # None
        /\ s \in {"qualification", "remedy", "fact_state"}
  BY DEF Known
<1>3. j.kind = "decision" =>
        /\ j.packet \in more /\ later[j.packet].kind = "review"
        /\ later[j.packet].of = j.of
        /\ j.sheet.packet = j.packet
        /\ j.sheet.labels \in [Slots(s) -> Labels]
  BY DEF Known
<1>4. ASSUME j.kind = "regression"
      PROVE  /\ j.of \in more /\ later[j.of].kind = "decision"
             /\ grown[j.of] >= 1
             /\ later[j.of].says.authorized
             /\ later[j.of].assets = j.assets
  <2>1. /\ j.of \in dirs /\ jobs[j.of].kind = "decision"
        /\ counts[j.of] >= 1
        /\ jobs[j.of].says.authorized
        /\ jobs[j.of].assets = j.assets
    BY <1>4 DEF Known
  <2>2. later[j.of] = jobs[j.of]
    BY <2>1
  <2>3. grown[j.of] >= 1
    BY <2>1
  <2>4. later[j.of].says.authorized
    BY <2>1, <2>2, Zenon
  <2> QED BY <2>1, <2>2, <2>3, <2>4
<1> QED BY <1>1, <1>2, <1>3, <1>4 DEF Known

LEMMA ConcludedStays ==
  ASSUME NEW j, NEW s, NEW jobs, NEW later,
         j.kind = "decision" => later[j.of] = jobs[j.of],
         Concluded(j, s, jobs)
  PROVE  Concluded(j, s, later)
BY DEF Concluded

\* What every step leaves of the directories that are there.
Grows ==
  /\ study' = study
  /\ made \subseteq made'
  /\ \A d \in made : /\ job'[d] = job[d]
                     /\ written[d] \in Nat /\ written'[d] \in Nat
                     /\ written[d] <= written'[d]

LEMMA JobStays ==
  ASSUME IInv, Grows, NEW c \in Commands, step[c] # "unused", job'[c] = job[c]
  PROVE  /\ JobFacts(job'[c], study')
         /\ Known(job'[c], study', job', made', written')
<1>1. JobFacts(job[c], study) /\ Known(job[c], study, job, made, written)
  BY DEF IInv, JobInv
<1>2. Known(job[c], study, job', made', written')
  BY <1>1, KnownStays DEF Grows
<1> QED BY <1>1, <1>2 DEF Grows

LEMMA MadeIsUsed ==
  ASSUME IInv, NEW d \in made
  PROVE  /\ d \in Commands /\ step[d] \in {"writing", "ended"}
         /\ JobFacts(job[d], study) /\ Known(job[d], study, job, made, written)
         /\ written[d] \in Nat
<1>1. d \in Commands /\ step[d] \in {"writing", "ended"}
  BY DEF IInv, TypeInv, StepInv
<1> QED BY <1>1 DEF IInv, TypeInv, JobInv

LEMMA ConclusionStays ==
  ASSUME IInv, Grows, NEW d \in made
  PROVE  Concluded(job'[d], study', job')
<1>1. Concluded(job[d], study, job)
  BY DEF IInv, MadeInv
<1>2. job[d].kind = "decision" => job'[job[d].of] = job[job[d].of]
  BY MadeIsUsed DEF Known, Grows
<1>3. Concluded(job[d], study, job')
  BY <1>1, <1>2, ConcludedStays
<1> QED BY <1>3 DEF Grows

LEMMA RowsStay ==
  ASSUME IInv, Grows, NEW p \in made, job[p].kind \in {"audit", "review"}
  PROVE  Rows(p)' = Rows(p)
<1>1. Known(job[p], study, job, made, written)
  BY MadeIsUsed
<1>2. CASE study # "pilot"
  BY <1>2 DEF Rows, Grows
<1>3. CASE study = "pilot"
  <2>1. job[p].of \in made
    BY <1>1, <1>3 DEF Known
  <2>2. job'[job'[p].of] = job[job[p].of]
    BY <2>1 DEF Grows
  <2> QED BY <1>3, <2>2 DEF Rows, Grows
<1> QED BY <1>2, <1>3

LEMMA AdvisoryStays ==
  ASSUME IInv, Grows, advisory' = advisory
  PROVE  AdvisoryInv'
<1>1. CASE advisory = None
  BY <1>1 DEF AdvisoryInv
<1>2. CASE advisory # None
  <2> DEFINE p == advisory.packet
  <2>1. /\ p \in made /\ job[p].kind \in {"audit", "review"}
        /\ advisory.labels \in [Rows(p) -> Labels \cup {None}]
    BY <1>2 DEF IInv, AdvisoryInv
  <2>2. p' = p
    OBVIOUS
  <2>3. Rows(p)' = Rows(p)
    BY <2>1, RowsStay
  <2> QED BY <2>1, <2>2, <2>3 DEF AdvisoryInv, Grows
<1> QED BY <1>1, <1>2

\* A step that makes no directory.
LEMMA NoDirectory ==
  ASSUME IInv, Grows, made' = made
  PROVE  MadeInv' /\ OneWriter' /\ FlawInv'
<1>1. MadeInv'
  BY ConclusionStays DEF MadeInv
<1>2. OneWriter'
  <2>1. \A d \in made : Name(job[d])' = Name(job[d])
    BY DEF Name, Grows
  <2>2. \A d, e \in made : Name(job[d]) = Name(job[e]) => d = e
    BY DEF IInv, OneWriter
  <2> QED BY <2>1, <2>2 DEF OneWriter
<1>3. FlawInv'
  <2>1. ASSUME NEW x
        PROVE  x \in AllFlaws' <=> x \in AllFlaws
    BY AllFlawsAre DEF Grows
  <2>2. AllFlaws' = AllFlaws
    BY <2>1
  <2> QED BY <2>2 DEF IInv, FlawInv, Grows
<1> QED BY <1>1, <1>2, <1>3

\* A step that leaves every job where it is and makes no directory.
LEMMA SameJobs ==
  ASSUME IInv, study' = study, job' = job, made' = made,
         \A d \in Commands : /\ written'[d] \in Nat /\ written[d] <= written'[d]
                             /\ step[d] = "unused" => step'[d] = "unused"
  PROVE  Grows /\ JobInv' /\ MadeInv' /\ OneWriter' /\ FlawInv'
<1>1. Grows
  BY MadeIsUsed DEF Grows
<1>2. JobInv'
  <2> SUFFICES ASSUME NEW c \in Commands, step'[c] # "unused"
               PROVE  /\ JobFacts(job'[c], study')
                      /\ Known(job'[c], study', job', made', written')
    BY DEF JobInv
  <2>1. job'[c] = job[c] /\ step[c] # "unused"
    OBVIOUS
  <2> QED BY <1>1, <2>1, JobStays
<1> QED BY <1>1, <1>2, NoDirectory

-----------------------------------------------------------------------------
(* The steps of a command.                                                 *)
\* What a command may start with.
NewJob(j) ==
  /\ JobFacts(j, study) /\ Known(j, study, job, made, written)
  /\ j.says = None

LEMMA StartKeeps ==
  ASSUME IInv, NEW c \in Commands, NEW j, step[c] = "unused", NewJob(j),
         Start(c, j)
  PROVE  IInv'
<1>1. /\ study' = study /\ made' = made /\ written' = written
      /\ assets' = assets /\ edits' = edits /\ advisory' = advisory
      /\ step' = [step EXCEPT ![c] = "working"]
      /\ job' = [job EXCEPT ![c] = j]
  BY DEF Start
<1>2. c \notin made /\ written[c] = 0
  BY DEF IInv, StepInv
<1>3. TypeInv'
  BY <1>1 DEF IInv, TypeInv
<1>4. /\ job'[c] = j /\ step'[c] = "working"
      /\ \A b \in Commands \ {c} : job'[b] = job[b] /\ step'[b] = step[b]
  BY <1>1 DEF IInv, TypeInv
<1>5. Grows
  BY <1>1, <1>2, <1>4, MadeIsUsed DEF Grows
<1>6. StepInv'
  BY <1>1, <1>2, <1>4 DEF IInv, StepInv, NewJob
<1>7. JobInv'
  <2> SUFFICES ASSUME NEW b \in Commands, step'[b] # "unused"
               PROVE  /\ JobFacts(job'[b], study')
                      /\ Known(job'[b], study', job', made', written')
    BY DEF JobInv
  <2>1. CASE b = c
    <3>1. Known(j, study, job', made', written')
      BY <1>5, KnownStays DEF Grows, NewJob
    <3> QED BY <1>1, <1>4, <2>1, <3>1 DEF NewJob
  <2>2. CASE b # c
    BY <1>4, <1>5, <2>2, JobStays
  <2> QED BY <2>1, <2>2
<1>8. AdvisoryInv'
  BY <1>1, <1>5, AdvisoryStays
<1> QED BY <1>1, <1>3, <1>5, <1>6, <1>7, <1>8, NoDirectory DEF IInv

LEMMA GiveUpKeeps ==
  ASSUME IInv, NEW c \in Commands, step[c] = "working", GiveUp(c)
  PROVE  IInv'
<1>1. /\ study' = study /\ made' = made /\ written' = written
      /\ assets' = assets /\ edits' = edits /\ advisory' = advisory
      /\ step' = [step EXCEPT ![c] = "unused"]
      /\ job' = [job EXCEPT ![c] = NoJob]
  BY DEF GiveUp
<1>2. c \notin made /\ written[c] = 0
  BY DEF IInv, StepInv
<1>3. TypeInv'
  BY <1>1 DEF IInv, TypeInv
<1>4. /\ job'[c] = NoJob /\ step'[c] = "unused"
      /\ \A b \in Commands \ {c} : job'[b] = job[b] /\ step'[b] = step[b]
  BY <1>1 DEF IInv, TypeInv
<1>5. Grows
  BY <1>1, <1>2, <1>4, MadeIsUsed DEF Grows
<1>6. StepInv'
  BY <1>1, <1>2, <1>4 DEF IInv, StepInv, NoJob
<1>7. JobInv'
  <2> SUFFICES ASSUME NEW b \in Commands, step'[b] # "unused"
               PROVE  /\ JobFacts(job'[b], study')
                      /\ Known(job'[b], study', job', made', written')
    BY DEF JobInv
  <2>1. b # c
    BY <1>4
  <2>2. job'[b] = job[b] /\ step[b] # "unused"
    BY <1>4, <2>1
  <2> QED BY <1>5, <2>2, JobStays
<1>8. AdvisoryInv'
  BY <1>1, <1>5, AdvisoryStays
<1> QED BY <1>1, <1>3, <1>5, <1>6, <1>7, <1>8, NoDirectory DEF IInv

LEMMA StopKeeps ==
  ASSUME IInv, NEW c \in Commands, Stop(c)
  PROVE  IInv'
<1>1. CASE step[c] = "working" /\ GiveUp(c)
  BY <1>1, GiveUpKeeps
<1>2. CASE /\ step[c] = "writing"
           /\ step' = [step EXCEPT ![c] = "ended"]
           /\ UNCHANGED <<study, assets, job, made, written, advisory, edits>>
  <2>1. TypeInv'
    BY <1>2 DEF IInv, TypeInv
  <2>2. /\ step'[c] = "ended"
        /\ \A b \in Commands \ {c} : step'[b] = step[b]
    BY <1>2 DEF IInv, TypeInv
  <2>3. Grows /\ JobInv' /\ MadeInv' /\ OneWriter' /\ FlawInv'
    BY <1>2, <2>2, SameJobs DEF IInv, TypeInv
  <2>4. StepInv'
    <3>1. written[c] \in Nat /\ FilesOf(job[c].kind) \in Nat
      BY DEF FilesOf, IInv, TypeInv
    <3> QED BY <1>2, <2>2, <3>1 DEF IInv, StepInv
  <2>5. AdvisoryInv'
    BY <1>2, <2>3, AdvisoryStays
  <2> QED BY <2>1, <2>3, <2>4, <2>5 DEF IInv
<1> QED BY <1>1, <1>2 DEF Stop

LEMMA WriteKeeps ==
  ASSUME IInv, NEW c \in Commands, Write(c)
  PROVE  IInv'
<1>1. /\ study' = study /\ made' = made /\ job' = job
      /\ assets' = assets /\ edits' = edits /\ advisory' = advisory
      /\ written' = [written EXCEPT ![c] = written[c] + 1]
      /\ step' = [step EXCEPT ![c] =
                    IF written[c] + 1 = FilesOf(job[c].kind)
                    THEN "ended" ELSE step[c]]
      /\ step[c] = IF job[c].kind = "overlay" THEN "working" ELSE "writing"
  BY DEF Write
<1>2. TypeInv'
  BY <1>1 DEF IInv, TypeInv
<1>3. /\ written[c] \in Nat /\ written'[c] = written[c] + 1
      /\ step'[c] = IF written[c] + 1 = FilesOf(job[c].kind)
                    THEN "ended" ELSE step[c]
      /\ \A b \in Commands \ {c} : /\ step'[b] = step[b]
                                   /\ written'[b] = written[b]
      /\ \A b \in Commands : written[b] \in Nat
  BY <1>1 DEF IInv, TypeInv
<1>4. FilesOf(job[c].kind) \in Nat
      /\ (job[c].kind = "overlay" => FilesOf(job[c].kind) = 1)
  BY DEF FilesOf
<1>5. Grows /\ JobInv' /\ MadeInv' /\ OneWriter' /\ FlawInv'
  BY <1>1, <1>3, SameJobs DEF IInv, TypeInv
<1>6. StepInv'
  <2> SUFFICES ASSUME NEW b \in Commands
               PROVE  /\ step'[b] = "unused" => job'[b] = NoJob
                      /\ step'[b] \in {"unused", "working"} =>
                           b \notin made' /\ written'[b] = 0
                      /\ step'[b] = "writing" =>
                           /\ b \in made' /\ job'[b].kind # "overlay"
                           /\ written'[b] < FilesOf(job'[b].kind)
                      /\ step'[b] = "ended" =>
                           written'[b] <= FilesOf(job'[b].kind)
                      /\ b \notin made' => job'[b].says = None
    BY DEF StepInv
  <2>1. CASE b # c
    BY <1>1, <1>3, <2>1 DEF IInv, StepInv
  <2>2. CASE b = c /\ job[c].kind = "overlay"
    BY <1>1, <1>3, <1>4, <2>2 DEF IInv, StepInv
  <2>3. CASE b = c /\ job[c].kind # "overlay"
    <3>1. /\ step[c] = "writing" /\ c \in made
          /\ written[c] < FilesOf(job[c].kind)
          /\ c \notin made => job[c].says = None
      BY <1>1, <2>3 DEF IInv, StepInv
    <3> QED BY <1>1, <1>3, <1>4, <2>3, <3>1
  <2> QED BY <2>1, <2>2, <2>3
<1>7. AdvisoryInv'
  BY <1>1, <1>5, AdvisoryStays
<1> QED BY <1>2, <1>5, <1>6, <1>7 DEF IInv

\* What a command has to show when it makes its directory.
MadeJob(j) ==
  /\ JobFacts(j, study) /\ Known(j, study, job, made, written)
  /\ Concluded(j, study, job)
  /\ j.kind \in Generating =>
       /\ IsFiniteSet(FlawsOf(study, j.answers))
       /\ Cardinality(FlawsOf(study, j.answers)) <= FaultsLeft

LEMMA OutcomeOf ==
  ASSUME IInv, NEW c \in Commands, step[c] = "working",
         job[c].kind # "overlay", NEW j \in Outcome(c)
  PROVE  MadeJob(j) /\ j.kind = job[c].kind
<1> DEFINE i == job[c]
<1>1. /\ JobFacts(i, study) /\ Known(i, study, job, made, written)
      /\ study \in Studies
  BY DEF IInv, JobInv, TypeInv
<1>2. FaultsLeft \in 0 .. MaxFaults[study] /\ MaxFaults[study] \in Nat
  BY <1>1, FaultsLeftType, StudyConstants DEF IInv
<1>a. j \in CASE i.kind = "comparison" ->
                   {[i EXCEPT !.answers = of] :
                      of \in Generations[study][FaultsLeft]}
              [] i.kind = "pilot" ->
                   {[i EXCEPT !.answers = of, !.says = AcceptedRepairs(of)] :
                      of \in {g \in Generations[study][FaultsLeft] :
                                \A x \in Flawed(g) : x[1] = "repair" =>
                                  x[2] \in SelectRepairs(
                                             PilotAttempts(g)["student"])}}
              [] i.kind = "decision" ->
                   {[i EXCEPT !.bound = advisory, !.says = Verdict(i)]}
              [] i.kind \in {"audit", "corrected", "review", "regression"} ->
                   {i}
  BY DEF Outcome
<1>b. i = [kind |-> i.kind, root |-> i.root, assets |-> i.assets,
           of |-> i.of, packet |-> i.packet, sheet |-> i.sheet,
           bound |-> i.bound, answers |-> i.answers, says |-> i.says]
  BY <1>1 DEF JobFacts
<1>c. i.kind \in Kinds /\ i.kind # "overlay"
  BY <1>1 DEF JobFacts
<1>d. ASSUME NEW of \in Generations[study][FaultsLeft]
      PROVE  /\ AnswersOf(study, of)
             /\ IsFiniteSet(FlawsOf(study, of))
             /\ Cardinality(FlawsOf(study, of)) <= FaultsLeft
  <2>1. /\ DOMAIN of = Slots(study) /\ IsFiniteSet(FlawsOf(study, of))
        /\ Cardinality(FlawsOf(study, of)) <= FaultsLeft
    BY <1>1, <1>2, GeneratedAnswers
  <2>2. Cardinality(FlawsOf(study, of)) \in Nat
    BY <2>1, FS_CardinalityType
  <2> QED BY <1>2, <2>1, <2>2 DEF AnswersOf
<1> HIDE DEF i
<1>3. CASE i.kind = "comparison"
  <2>1. PICK of \in Generations[study][FaultsLeft] : j = [i EXCEPT !.answers = of]
    BY <1>a, <1>3
  <2>2. j = [kind |-> i.kind, root |-> i.root, assets |-> i.assets,
             of |-> i.of, packet |-> i.packet, sheet |-> i.sheet,
             bound |-> i.bound, answers |-> of, says |-> i.says]
    BY <1>b, <2>1
  <2>3. JobFacts(j, study)
    BY <1>1, <1>d, <2>2 DEF JobFacts
  <2>4. Known(j, study, job, made, written) /\ Concluded(j, study, job)
    BY <1>3, <2>2 DEF Known, Concluded
  <2> QED BY <1>d, <2>2, <2>3, <2>4 DEF MadeJob, i
<1>4. CASE i.kind = "pilot"
  <2>1. PICK of \in Generations[study][FaultsLeft] :
          j = [i EXCEPT !.answers = of, !.says = AcceptedRepairs(of)]
    BY <1>a, <1>4
  <2>2. j = [kind |-> i.kind, root |-> i.root, assets |-> i.assets,
             of |-> i.of, packet |-> i.packet, sheet |-> i.sheet,
             bound |-> i.bound, answers |-> of, says |-> AcceptedRepairs(of)]
    BY <1>b, <2>1
  <2>3. JobFacts(j, study)
    BY <1>1, <1>d, <2>2 DEF JobFacts
  <2>4. Known(j, study, job, made, written)
    BY <1>4, <2>2 DEF Known
  <2>5. Concluded(j, study, job)
    BY <1>4, <2>2, RepairsEarned DEF Concluded
  <2> QED BY <1>d, <2>2, <2>3, <2>4, <2>5 DEF MadeJob, i
<1>5. CASE i.kind = "decision"
  <2>1. j = [i EXCEPT !.bound = advisory, !.says = Verdict(i)]
    BY <1>a, <1>5
  <2>2. j = [kind |-> i.kind, root |-> i.root, assets |-> i.assets,
             of |-> i.of, packet |-> i.packet, sheet |-> i.sheet,
             bound |-> advisory, answers |-> i.answers, says |-> Verdict(i)]
    BY <1>b, <2>1
  <2>3. JobFacts(j, study)
    BY <1>1, <2>2 DEF JobFacts
  <2>4. Known(j, study, job, made, written)
    BY <1>1, <1>5, <2>2 DEF Known
  <2>5. EarnedVerdict(study, job[i.of].answers, i.sheet.labels, Verdict(i))
    BY <1>1, <1>5, VerdictEarned DEF Known
  <2>6. Concluded(j, study, job)
    BY <1>5, <2>2, <2>5 DEF Concluded
  <2> QED BY <1>5, <2>2, <2>3, <2>4, <2>6 DEF MadeJob, Generating, i
<1>6. CASE i.kind \in {"audit", "corrected", "review", "regression"}
  <2>1. j = i
    BY <1>a, <1>6
  <2>2. Concluded(j, study, job)
    BY <1>6, <2>1 DEF Concluded
  <2> QED BY <1>1, <1>6, <2>1, <2>2 DEF MadeJob, Generating, i
<1> QED BY <1>c, <1>3, <1>4, <1>5, <1>6 DEF Kinds

LEMMA MakeDirectoryKeeps ==
  ASSUME IInv, NEW c \in Commands, MakeDirectory(c)
  PROVE  IInv'
<1>1. PICK j \in Outcome(c) : ~Taken(j) /\ job' = [job EXCEPT ![c] = j]
  BY DEF MakeDirectory, MayMake
<1>2. /\ study' = study /\ made' = made \cup {c} /\ written' = written
      /\ assets' = assets /\ edits' = edits /\ advisory' = advisory
      /\ step' = [step EXCEPT ![c] = "writing"]
      /\ step[c] = "working" /\ job[c].kind # "overlay"
  BY DEF MakeDirectory
<1>3. MadeJob(j) /\ j.kind = job[c].kind
  BY <1>1, <1>2, OutcomeOf
<1>4. c \notin made /\ written[c] = 0
  BY <1>2 DEF IInv, StepInv
<1>5. TypeInv'
  BY <1>1, <1>2 DEF IInv, TypeInv
<1>6. /\ job'[c] = j /\ step'[c] = "writing"
      /\ \A b \in Commands \ {c} : job'[b] = job[b] /\ step'[b] = step[b]
  BY <1>1, <1>2 DEF IInv, TypeInv
<1>7. Grows
  BY <1>2, <1>4, <1>6, MadeIsUsed DEF Grows
<1>8. StepInv'
  <2>1. 0 < FilesOf(j.kind)
    BY DEF FilesOf
  <2> QED BY <1>2, <1>3, <1>4, <1>6, <2>1 DEF IInv, StepInv
<1>9. JobInv'
  <2> SUFFICES ASSUME NEW b \in Commands, step'[b] # "unused"
               PROVE  /\ JobFacts(job'[b], study')
                      /\ Known(job'[b], study', job', made', written')
    BY DEF JobInv
  <2>1. CASE b = c
    <3>1. Known(j, study, job', made', written')
      BY <1>3, <1>7, KnownStays DEF Grows, MadeJob
    <3> QED BY <1>2, <1>3, <1>6, <2>1, <3>1 DEF MadeJob
  <2>2. CASE b # c
    <3>1. job'[b] = job[b] /\ step[b] # "unused"
      BY <1>6, <2>2
    <3> QED BY <1>7, <3>1, JobStays
  <2> QED BY <2>1, <2>2
<1>10. MadeInv'
  <2> SUFFICES ASSUME NEW d \in made' PROVE Concluded(job'[d], study', job')
    BY DEF MadeInv
  <2>1. CASE d \in made
    BY <1>7, <2>1, ConclusionStays
  <2>2. CASE d \notin made
    <3>1. d = c
      BY <1>2, <2>2
    <3>2. j.kind = "decision" => job'[j.of] = job[j.of]
      BY <1>3, <1>7 DEF MadeJob, Known, Grows
    <3>3. Concluded(j, study, job')
      BY <1>3, <3>2, ConcludedStays DEF MadeJob
    <3> QED BY <1>2, <1>6, <3>1, <3>3
  <2> QED BY <2>1, <2>2
<1>11. OneWriter'
  <2>1. \A d \in made : Name(job[d])' = Name(job[d])
    BY <1>7 DEF Name, Grows
  <2>2. \A d \in made : Name(job[d]) # Name(j)
    BY <1>1 DEF Taken
  <2>3. Name(job[c])' = Name(j)
    BY <1>6 DEF Name
  <2>4. \A d, e \in made : Name(job[d]) = Name(job[e]) => d = e
    BY DEF IInv, OneWriter
  <2>5. \A d, e \in made' : Name(job[d])' = Name(job[e])' => d = e
    BY <1>2, <2>1, <2>2, <2>3, <2>4
  <2> QED BY <2>5 DEF OneWriter
<1>12. FlawInv'
  <2> DEFINE mine == {c} \X FlawsOf(study, j.answers)
  <2>1. ASSUME NEW x
        PROVE  x \in AllFlaws' <=>
                 x \in AllFlaws \/ (j.kind \in Generating /\ x \in mine)
    <3>1. x \in AllFlaws <=>
            \E d \in made : /\ job[d].kind \in Generating
                            /\ x \in {d} \X FlawsOf(study, job[d].answers)
      BY AllFlawsAre
    <3>2. x \in AllFlaws' <=>
            \E d \in made \cup {c} :
              /\ job'[d].kind \in Generating
              /\ x \in {d} \X FlawsOf(study, job'[d].answers)
      BY <1>2, AllFlawsAre
    <3> QED BY <1>6, <1>7, <3>1, <3>2 DEF Grows
  <2>2. IsFiniteSet(AllFlaws) /\ Cardinality(AllFlaws) <= MaxFaults[study]
    BY DEF IInv, FlawInv
  <2>3. CASE j.kind \notin Generating
    <3>1. AllFlaws' = AllFlaws
      BY <2>1, <2>3
    <3> QED BY <1>2, <2>2, <3>1 DEF FlawInv
  <2>4. CASE j.kind \in Generating
    <3> HIDE DEF mine
    <3>1. AllFlaws' = AllFlaws \cup mine
      BY <2>1, <2>4
    <3>2. /\ IsFiniteSet(FlawsOf(study, j.answers))
          /\ Cardinality(FlawsOf(study, j.answers)) <= FaultsLeft
          /\ Cardinality(FlawsOf(study, j.answers)) \in Nat
      BY <1>3, <2>4, FS_CardinalityType DEF MadeJob
    <3>3. IsFiniteSet({c}) /\ Cardinality({c}) = 1
      BY FS_Singleton
    <3>4. /\ IsFiniteSet(mine)
          /\ Cardinality(mine) = 1 * Cardinality(FlawsOf(study, j.answers))
      BY <3>2, <3>3, FS_Product DEF mine
    <3>5. /\ IsFiniteSet(AllFlaws \cup mine)
          /\ Cardinality(AllFlaws \cup mine)
               = Cardinality(AllFlaws) + Cardinality(mine)
                   - Cardinality(AllFlaws \cap mine)
      BY <2>2, <3>4, FS_Union
    <3>6. Cardinality(AllFlaws \cap mine) \in Nat
      <4>1. AllFlaws \cap mine \in SUBSET mine
        OBVIOUS
      <4> QED BY <3>4, <4>1, FS_Subset, FS_CardinalityType
    <3>7. Cardinality(AllFlaws) \in Nat /\ MaxFaults[study] \in Nat
      BY <2>2, FS_CardinalityType, StudyConstants DEF IInv, TypeInv
    <3>8. Cardinality(AllFlaws \cup mine) <= MaxFaults[study]
      BY <3>2, <3>4, <3>5, <3>6, <3>7 DEF FaultsLeft
    <3> QED BY <1>2, <3>1, <3>5, <3>8 DEF FlawInv
  <2> QED BY <2>3, <2>4
<1>13. AdvisoryInv'
  BY <1>2, <1>7, AdvisoryStays
<1> QED BY <1>5, <1>8, <1>9, <1>10, <1>11, <1>12, <1>13 DEF IInv

-----------------------------------------------------------------------------
(* What a command has read when it starts.                                 *)
LEMMA JobOf ==
  ASSUME IInv, NEW kind \in Kinds, NEW root \in Roots,
         NEW of \in Commands \cup {None}
  PROVE  /\ Job(kind, root, of) =
              [kind |-> kind, root |-> root, assets |-> assets, of |-> of,
               packet |-> None, sheet |-> None, bound |-> None,
               answers |-> None, says |-> None]
         /\ JobFacts(Job(kind, root, of), study)
<1>1. Job(kind, root, of) =
        [kind |-> kind, root |-> root, assets |-> assets, of |-> of,
         packet |-> None, sheet |-> None, bound |-> None,
         answers |-> None, says |-> None]
  <2> DEFINE With(k, r, a, o) ==
               [kind |-> k, root |-> r, assets |-> a, of |-> o,
                packet |-> None, sheet |-> None, bound |-> None,
                answers |-> None, says |-> None]
  <2>1. [NoJob EXCEPT !.kind = kind] = With(kind, None, None, None)
    BY DEF NoJob
  <2>2. [With(kind, None, None, None) EXCEPT !.root = root]
          = With(kind, root, None, None)
    OBVIOUS
  <2>3. [With(kind, root, None, None) EXCEPT !.assets = assets]
          = With(kind, root, assets, None)
    OBVIOUS
  <2>4. [With(kind, root, assets, None) EXCEPT !.of = of]
          = With(kind, root, assets, of)
    OBVIOUS
  <2> HIDE DEF With
  <2>5. Job(kind, root, of) = With(kind, root, assets, of)
    BY <2>1, <2>2, <2>3, <2>4 DEF Job
  <2> QED BY <2>5 DEF With
<1>2. assets \in Versions \cup {None}
  BY DEF IInv, TypeInv
<1> QED BY <1>1, <1>2 DEF JobFacts

Scoring(kind, root, of, packet) ==
  [Job(kind, root, of) EXCEPT !.packet = packet, !.sheet = advisory]

LEMMA ScoringJob ==
  ASSUME IInv, NEW kind \in Kinds, NEW root \in Roots,
         NEW of \in Commands \cup {None}, NEW packet \in Commands
  PROVE  LET j == Scoring(kind, root, of, packet)
         IN  /\ j.kind = kind /\ j.assets = assets /\ j.of = of
             /\ j.packet = packet /\ j.sheet = advisory /\ j.says = None
             /\ JobFacts(j, study)
<1> DEFINE i == Job(kind, root, of)
           With(p, s) ==
             [kind |-> kind, root |-> root, assets |-> assets, of |-> of,
              packet |-> p, sheet |-> s, bound |-> None,
              answers |-> None, says |-> None]
           j == Scoring(kind, root, of, packet)
<1>0. j = [i EXCEPT !.packet = packet, !.sheet = advisory]
  BY DEF Scoring
<1>1. i = With(None, None) /\ JobFacts(i, study)
  BY JobOf
<1>2. [With(None, None) EXCEPT !.packet = packet] = With(packet, None)
  OBVIOUS
<1>3. [With(packet, None) EXCEPT !.sheet = advisory] = With(packet, advisory)
  OBVIOUS
<1> HIDE DEF i, j, With
<1>4. j = With(packet, advisory)
  BY <1>0, <1>1, <1>2, <1>3
<1>5. JobFacts(j, study)
  BY <1>1, <1>4 DEF JobFacts, With
<1>6. /\ j.kind = kind /\ j.assets = assets /\ j.of = of
      /\ j.packet = packet /\ j.sheet = advisory /\ j.says = None
  BY <1>4 DEF With
<1> QED BY <1>5, <1>6 DEF j

\* A comparison a later command may read.
LEMMA MatchingComparison ==
  ASSUME IInv, NEW d, Matches(d), assets # None,
         study \in {"qualification", "remedy", "fact_state"}
  PROVE  /\ d \in made /\ d \in Commands /\ job[d].kind \in Compared
         /\ job[d].assets = assets
         /\ JobFacts(job[d], study)
<1>1. d \in made /\ job[d].kind \in Compared /\ job[d].assets = assets
  BY DEF Matches, Comparison, On, Compared
<1> QED BY <1>1, MadeIsUsed

LEMMA FirstStarts ==
  ASSUME IInv, NEW c \in Commands, NEW root \in Roots,
         \/ RunPilot(c, root)
         \/ RunQualificationComparison(c, root)
         \/ RunRemedyComparison(c, root)
         \/ RunFactStateComparison(c, root)
  PROVE  \E j : step[c] = "unused" /\ NewJob(j) /\ Start(c, j)
<1>1. PICK kind \in {"pilot", "comparison"} :
        step[c] = "unused" /\ Start(c, Job(kind, root, None))
  BY DEF RunPilot, RunQualificationComparison, RunRemedyComparison,
         RunFactStateComparison, Idle, StartUnlessTaken
<1> DEFINE j == Job(kind, root, None)
<1>2. /\ JobFacts(j, study) /\ j.kind = kind /\ j.says = None
  BY <1>1, JobOf DEF Kinds
<1> HIDE DEF j
<1>3. Known(j, study, job, made, written)
  BY <1>1, <1>2 DEF Known
<1>4. step[c] = "unused" /\ Start(c, j)
  BY <1>1 DEF j
<1> QED BY <1>2, <1>3, <1>4 DEF NewJob

LEMMA CorrectionStarts ==
  ASSUME IInv, NEW c \in Commands, NEW root \in Roots, NEW d \in Commands,
         CorrectGrades(c, root, d)
  PROVE  \E j : step[c] = "unused" /\ NewJob(j) /\ Start(c, j)
<1> DEFINE i == Job("corrected", root, d)
           j == [i EXCEPT !.answers = job[d].answers]
<1>1. /\ step[c] = "unused" /\ Start(c, j)
      /\ study = "fact_state" /\ assets # None /\ Matches(d)
  BY DEF CorrectGrades, Idle, FactStateLoads
<1>2. /\ d \in made /\ job[d].kind \in Compared /\ job[d].assets = assets
      /\ JobFacts(job[d], study)
  BY <1>1, MatchingComparison
<1>3. /\ i = [kind |-> "corrected", root |-> root, assets |-> assets,
              of |-> d, packet |-> None, sheet |-> None, bound |-> None,
              answers |-> None, says |-> None]
      /\ JobFacts(i, study)
  BY JobOf DEF Kinds
<1> HIDE DEF i
<1>4. j = [kind |-> "corrected", root |-> root, assets |-> assets,
           of |-> d, packet |-> None, sheet |-> None, bound |-> None,
           answers |-> job[d].answers, says |-> None]
  BY <1>3
<1> HIDE DEF j
<1>5. JobFacts(j, study)
  BY <1>2, <1>3, <1>4 DEF JobFacts
<1>6. Known(j, study, job, made, written)
  BY <1>1, <1>2, <1>4 DEF Known
<1>7. j.says = None
  BY <1>4
<1> QED BY <1>1, <1>5, <1>6, <1>7 DEF NewJob

LEMMA PreparationStarts ==
  ASSUME IInv, NEW c \in Commands, NEW root \in Roots, NEW d \in Commands,
         \/ PrepareQualificationReview(c, root, d)
         \/ PrepareRemedyReview(c, root, d)
         \/ PrepareFactStateReview(c, root, d)
  PROVE  \E j : step[c] = "unused" /\ NewJob(j) /\ Start(c, j)
<1> DEFINE j == Job("review", root, d)
<1>1. /\ step[c] = "unused" /\ Start(c, j) /\ assets # None /\ Matches(d)
      /\ study \in {"qualification", "remedy", "fact_state"}
  BY DEF PrepareQualificationReview, PrepareRemedyReview,
         PrepareFactStateReview, Idle, QualificationLoads, RemedyLoads,
         FactStateLoads
<1>2. /\ d \in made /\ job[d].kind \in Compared /\ job[d].assets = assets
  BY <1>1, MatchingComparison
<1>3. /\ j = [kind |-> "review", root |-> root, assets |-> assets,
              of |-> d, packet |-> None, sheet |-> None, bound |-> None,
              answers |-> None, says |-> None]
      /\ JobFacts(j, study)
  BY JobOf DEF Kinds
<1> HIDE DEF j
<1>4. Known(j, study, job, made, written) /\ j.says = None
  BY <1>1, <1>2, <1>3 DEF Known
<1> QED BY <1>1, <1>3, <1>4 DEF NewJob

LEMMA AuditStarts ==
  ASSUME IInv, NEW c \in Commands, NEW root \in Roots, NEW d \in Commands,
         PrepareAudit(c, root, d)
  PROVE  \E j : step[c] = "unused" /\ NewJob(j) /\ Start(c, j)
<1> DEFINE j == Job("audit", root, d)
<1>1. /\ step[c] = "unused" /\ Start(c, j)
      /\ d \in made /\ job[d].kind = "pilot"
  BY DEF PrepareAudit, Idle, On, StartUnlessTaken
<1>2. /\ j = [kind |-> "audit", root |-> root, assets |-> assets,
              of |-> d, packet |-> None, sheet |-> None, bound |-> None,
              answers |-> None, says |-> None]
      /\ JobFacts(j, study)
  BY JobOf DEF Kinds
<1> HIDE DEF j
<1>3. Known(j, study, job, made, written) /\ j.says = None
  BY <1>1, <1>2 DEF Known
<1> QED BY <1>1, <1>2, <1>3 DEF NewJob

LEMMA OverlayStarts ==
  ASSUME IInv, NEW c \in Commands, NEW root \in Roots, NEW p \in Commands,
         ValidateOverlay(c, root, p)
  PROVE  \E j : step[c] = "unused" /\ NewJob(j) /\ Start(c, j)
<1> DEFINE d == job[p].of
           j == Scoring("overlay", root, d, p)
<1>1. step[c] = "unused" /\ Start(c, j) /\ p \in made
  BY DEF ValidateOverlay, Idle, On, Scoring
<1>2. job[p].of \in Commands \cup {None}
  BY <1>1, MadeIsUsed DEF JobFacts
<1>3. j.kind = "overlay" /\ j.says = None /\ JobFacts(j, study)
  <2>1. "overlay" \in Kinds /\ d \in Commands \cup {None}
    BY <1>2 DEF Kinds
  <2> HIDE DEF d
  <2> QED BY <2>1, ScoringJob
<1> HIDE DEF j
<1>4. Known(j, study, job, made, written)
  BY <1>3 DEF Known
<1> QED BY <1>1, <1>3, <1>4 DEF NewJob

\* A decision reads a packet of its comparison, and a label for every slot.
LEMMA ScoringStarts ==
  ASSUME IInv, NEW c \in Commands, NEW root \in Roots, NEW d \in Commands,
         NEW p \in Commands,
         \/ ScoreQualification(c, root, d, p)
         \/ ScoreRemedy(c, root, d, p)
         \/ ScoreFactState(c, root, d, p)
  PROVE  \E j : step[c] = "unused" /\ NewJob(j) /\ Start(c, j)
<1> DEFINE j == Scoring("decision", root, d, p)
<1>1. /\ step[c] = "unused" /\ assets # None
      /\ study \in {"qualification", "remedy", "fact_state"}
      /\ Score(c, root, d, p)
  BY DEF ScoreQualification, ScoreRemedy, ScoreFactState, Idle,
         QualificationLoads, RemedyLoads, FactStateLoads
<1>2. Start(c, j) /\ Matches(d) /\ Ready(p, d) /\ Complete(p)
  BY <1>1 DEF Score, Scoring
<1>3. d \in made /\ job[d].kind \in Compared /\ job[d].assets = assets
  BY <1>1, <1>2, MatchingComparison
<1>4. p \in made /\ job[p].kind = "review" /\ job[p].of = d
  BY <1>2 DEF Ready, On
<1>5. advisory.packet = p /\ advisory.labels \in [Slots(study) -> Labels]
  <2>1. /\ advisory # None /\ advisory.packet = p
        /\ \A x \in Rows(p) : advisory.labels[x] # None
    BY <1>2 DEF Complete
  <2>2. Rows(p) = Slots(study)
    BY <1>1 DEF Rows
  <2>3. advisory.labels \in [Rows(p) -> Labels \cup {None}]
    BY <2>1 DEF IInv, AdvisoryInv
  <2> QED BY <2>1, <2>2, <2>3
<1>6. /\ j.kind = "decision" /\ j.assets = assets /\ j.of = d
      /\ j.packet = p /\ j.sheet = advisory /\ j.says = None
      /\ JobFacts(j, study)
  BY ScoringJob DEF Kinds
<1> HIDE DEF j
<1>7. Known(j, study, job, made, written)
  BY <1>1, <1>3, <1>4, <1>5, <1>6 DEF Known
<1> QED BY <1>1, <1>2, <1>6, <1>7 DEF NewJob

LEMMA RegressionStarts ==
  ASSUME IInv, NEW c \in Commands, NEW root \in Roots, NEW d \in Commands,
         RunRegression(c, root, d)
  PROVE  \E j : step[c] = "unused" /\ NewJob(j) /\ Start(c, j)
<1> DEFINE j == Job("regression", root, d)
<1>1. /\ step[c] = "unused" /\ Start(c, j)
      /\ d \in made /\ job[d].kind = "decision" /\ written[d] >= 1
      /\ job[d].says.authorized /\ job[d].assets = assets
  BY DEF RunRegression, Idle, Authorizes, On, StartUnlessTaken
<1>2. /\ j = [kind |-> "regression", root |-> root, assets |-> assets,
              of |-> d, packet |-> None, sheet |-> None, bound |-> None,
              answers |-> None, says |-> None]
      /\ JobFacts(j, study)
  BY JobOf DEF Kinds
<1> HIDE DEF j
<1>3. j.kind = "regression" /\ j.of = d /\ j.assets = assets /\ j.says = None
  BY <1>2
<1>4. Known(j, study, job, made, written)
  BY <1>1, <1>3 DEF Known
<1> QED BY <1>1, <1>2, <1>3, <1>4 DEF NewJob

LEMMA CommandKeeps ==
  ASSUME IInv, NEW c \in Commands, NEW root \in Roots, Command(c, root)
  PROVE  IInv'
<1>1. \E j : step[c] = "unused" /\ NewJob(j) /\ Start(c, j)
  BY FirstStarts, CorrectionStarts, PreparationStarts, AuditStarts,
     OverlayStarts, ScoringStarts, RegressionStarts DEF Command
<1> QED BY <1>1, StartKeeps

-----------------------------------------------------------------------------
(* The world around the commands.                                          *)
LEMMA ReplaceAssetsKeeps ==
  ASSUME IInv, ReplaceAssets
  PROVE  IInv'
<1>1. /\ study' = study /\ step' = step /\ job' = job /\ made' = made
      /\ written' = written /\ advisory' = advisory /\ edits' = edits
      /\ assets' \in Versions \cup {None}
  BY DEF ReplaceAssets
<1>2. TypeInv' /\ StepInv'
  BY <1>1 DEF IInv, TypeInv, StepInv
<1>3. Grows /\ JobInv' /\ MadeInv' /\ OneWriter' /\ FlawInv'
  BY <1>1, SameJobs DEF IInv, TypeInv
<1> QED BY <1>1, <1>2, <1>3, AdvisoryStays DEF IInv

LEMMA ReviewKeeps ==
  ASSUME IInv, NEW p \in Commands, Review(p)
  PROVE  IInv'
<1>1. PICK labels \in Deviating(Rows(p), Fine, (Labels \ {Fine}) \cup {None},
                                MaxFlaws[study]) :
        advisory' = [packet |-> p, labels |-> labels]
  BY DEF Review
<1>2. /\ study' = study /\ step' = step /\ job' = job /\ made' = made
      /\ written' = written /\ assets' = assets /\ edits' = edits + 1
      /\ edits < MaxAdvisories[study]
      /\ p \in made /\ job[p].kind \in {"audit", "review"}
  BY DEF Review, On
<1>3. TypeInv'
  <2>1. MaxAdvisories[study] \in Nat
    BY StudyConstants DEF IInv, TypeInv
  <2>2. edits + 1 \in 0 .. MaxAdvisories[study]
    BY <1>2, <2>1 DEF IInv, TypeInv
  <2> QED BY <1>2, <2>2 DEF IInv, TypeInv
<1>4. StepInv'
  BY <1>2 DEF IInv, StepInv
<1>5. Grows /\ JobInv' /\ MadeInv' /\ OneWriter' /\ FlawInv'
  BY <1>2, SameJobs DEF IInv, TypeInv
<1>6. IsFiniteSet(Rows(p))
  <2>0. IsFiniteSet(Slots(study)) /\ study \in Studies
    BY SlotsFinite DEF IInv, TypeInv
  <2>1. CASE study # "pilot"
    BY <2>0, <2>1 DEF Rows
  <2>2. CASE study = "pilot"
    <3>1. Rows(p) \in SUBSET Slots(study)
      <4> DEFINE chosen == SelectRepairs(
                             PilotAttempts(job[job[p].of].answers)["student"])
      <4>1. chosen \in SUBSET Cases
        BY SelectRepairsBound
      <4>2. Slots(study) = PilotArms \X Cases
        BY <2>2 DEF Slots, Arms
      <4>3. Rows(p) = {<<"teacher", k>> : k \in Cases}
                        \cup {<<"repair", k>> : k \in chosen}
        BY <2>2 DEF Rows
      <4> HIDE DEF chosen
      <4> QED BY <4>1, <4>2, <4>3 DEF PilotArms
    <3> QED BY <2>0, <3>1, FS_Subset
  <2> QED BY <2>1, <2>2
<1>7. labels \in [Rows(p) -> Labels \cup {None}]
  <2> DEFINE others == (Labels \ {Fine}) \cup {None}
             most == MaxFlaws[study]
  <2>1. most \in Nat /\ Fine \in Labels
    BY StudyConstants DEF IInv, TypeInv
  <2>2. labels \in Deviating(Rows(p), Fine, others, most)
    OBVIOUS
  <2>3. others \cup {Fine} \subseteq Labels \cup {None}
    BY <2>1
  <2> HIDE DEF others, most
  <2>4. /\ DOMAIN labels = Rows(p)
        /\ \A x \in Rows(p) : labels[x] \in others \cup {Fine}
    BY <1>6, <2>1, <2>2, DeviatingIsBounded
  <2>5. labels = [x \in Rows(p) |-> labels[x]]
    <3>1. \E D, g : labels = [x \in Rows(p) |-> IF x \in D THEN g[x] ELSE Fine]
      BY <2>2 DEF Deviating
    <3> QED BY <3>1
  <2> QED BY <2>3, <2>4, <2>5
<1>8. AdvisoryInv'
  <2>1. Rows(p)' = Rows(p)
    BY <1>2, <1>5, RowsStay
  <2>2. advisory'.packet = p /\ advisory'.labels = labels
    BY <1>1
  <2> QED BY <1>2, <1>7, <2>1, <2>2 DEF AdvisoryInv
<1> QED BY <1>3, <1>4, <1>5, <1>8 DEF IInv

-----------------------------------------------------------------------------
LEMMA InitHolds == Init => IInv
<1> SUFFICES ASSUME Init PROVE IInv
  OBVIOUS
<1>0. /\ study \in Studies /\ assets = 1 /\ made = {} /\ advisory = None
      /\ step = [c \in Commands |-> "unused"]
      /\ job = [c \in Commands |-> NoJob]
      /\ written = [c \in Commands |-> 0] /\ edits = 0
  BY DEF Init
<1>1. TypeInv
  <2>1. MaxAdvisories[study] \in Nat /\ 1 \in Versions
    BY <1>0, StudyConstants
  <2> QED BY <1>0, <2>1 DEF TypeInv
<1>2. StepInv
  BY <1>0 DEF StepInv, NoJob
<1>3. JobInv /\ MadeInv /\ OneWriter /\ AdvisoryInv
  BY <1>0 DEF JobInv, MadeInv, OneWriter, AdvisoryInv
<1>4. FlawInv
  <2>1. AllFlaws = {}
    <3>1. \A x : x \notin AllFlaws
      BY <1>0, AllFlawsAre
    <3> QED BY <3>1
  <2>2. MaxFaults[study] \in Nat
    BY <1>0, StudyConstants
  <2> QED BY <2>1, <2>2, FS_EmptySet DEF FlawInv
<1> QED BY <1>1, <1>2, <1>3, <1>4 DEF IInv

LEMMA StutterHolds ==
  ASSUME IInv, UNCHANGED vars
  PROVE  IInv'
<1>1. /\ study' = study /\ step' = step /\ job' = job /\ made' = made
      /\ written' = written /\ advisory' = advisory /\ edits' = edits
      /\ assets' = assets
  BY DEF vars
<1>2. TypeInv' /\ StepInv'
  BY <1>1 DEF IInv, TypeInv, StepInv
<1>3. Grows /\ JobInv' /\ MadeInv' /\ OneWriter' /\ FlawInv'
  BY <1>1, SameJobs DEF IInv, TypeInv
<1> QED BY <1>1, <1>2, <1>3, AdvisoryStays DEF IInv

LEMMA NextHolds == IInv /\ [Next]_vars => IInv'
<1> SUFFICES ASSUME IInv, [Next]_vars PROVE IInv'
  OBVIOUS
<1>1. ASSUME NEW c \in Commands, NEW root \in Roots, Command(c, root)
      PROVE  IInv'
  BY <1>1, CommandKeeps
<1>2. ASSUME NEW c \in Commands, MakeDirectory(c) PROVE IInv'
  BY <1>2, MakeDirectoryKeeps
<1>3. ASSUME NEW c \in Commands, Refused(c) PROVE IInv'
  BY <1>3, GiveUpKeeps DEF Refused
<1>4. ASSUME NEW c \in Commands, Write(c) PROVE IInv'
  BY <1>4, WriteKeeps
<1>5. ASSUME NEW c \in Commands, Stop(c) PROVE IInv'
  BY <1>5, StopKeeps
<1>6. CASE ReplaceAssets
  BY <1>6, ReplaceAssetsKeeps
<1>7. ASSUME NEW p \in Commands, Review(p) PROVE IInv'
  BY <1>7, ReviewKeeps
<1>8. CASE UNCHANGED vars
  BY <1>8, StutterHolds
<1> QED BY <1>1, <1>2, <1>3, <1>4, <1>5, <1>6, <1>7, <1>8 DEF Next

THEOREM InvariantHolds == Spec => []IInv
BY InitHolds, NextHolds, PTL DEF Spec

(* The type invariant: whatever order the commands of a study run in and   *)
(* wherever they die, a command without a job has left nothing, none has   *)
(* more files than its kind, a pilot accepts no more repairs than its      *)
(* protocol allows, and the advisory labels the rows of one packet.        *)
THEOREM TypeCorrect == Spec => []TypeOK
<1>1. ASSUME IInv PROVE TypeOK
  <2>0. /\ TypeInv /\ StepInv /\ JobInv /\ MadeInv /\ AdvisoryInv
    BY <1>1 DEF IInv
  <2>1. ASSUME NEW c \in Commands
        PROVE  /\ written[c] \in 0 .. 2
               /\ job[c] = NoJob => written[c] = 0 /\ c \notin made
               /\ job[c] # NoJob => /\ JobType(job[c])
                                    /\ written[c] <= FilesOf(job[c].kind)
    <3>1. /\ written[c] \in Nat
          /\ step[c] \in {"unused", "working", "writing", "ended"}
          /\ FilesOf(job[c].kind) \in 1 .. 2
      BY <2>0 DEF TypeInv, FilesOf
    <3>2. CASE step[c] = "unused"
      BY <2>0, <3>1, <3>2 DEF StepInv
    <3>3. CASE step[c] # "unused"
      <4>1. JobFacts(job[c], study)
        BY <2>0, <3>3 DEF JobInv
      <4>2. job[c] # NoJob
        BY <4>1, NoneIsApart DEF JobFacts, NoJob
      <4>3. written[c] <= FilesOf(job[c].kind)
        BY <2>0, <3>1, <3>3 DEF StepInv
      <4>4. job[c].answers # None =>
              /\ DOMAIN job[c].answers = Slots(study)
              /\ Cardinality(Flawed(job[c].answers)) <= MaxFaults[study]
        BY <4>1, FlawedIs DEF JobFacts, AnswersOf
      <4>5. job[c].says # None => Concluded(job[c], study, job)
        BY <2>0 DEF StepInv, MadeInv
      <4>6. JobType(job[c])
        <5>1. job[c].kind = "pilot" /\ job[c].says # None =>
                /\ job[c].says \subseteq Cases
                /\ Cardinality(job[c].says) <= MaxRepairs
          BY <4>5 DEF Concluded
        <5>2. job[c].kind = "decision" /\ job[c].says # None =>
                job[c].says \in Verdicts(Arms[study])
          BY <4>5 DEF Concluded, EarnedVerdict
        <5> QED BY <4>1, <4>4, <5>1, <5>2 DEF JobType, JobFacts
      <4> QED BY <3>1, <4>2, <4>3, <4>6
    <3> QED BY <3>2, <3>3
  <2>2. advisory = None \/ AdvisoryType(advisory)
    BY <2>0 DEF AdvisoryInv, AdvisoryType
  <2> QED BY <2>0, <2>1, <2>2 DEF TypeOK, TypeInv
<1> QED BY <1>1, InvariantHolds, PTL

(* Two commands never write into one directory, however long each works    *)
(* between looking for it and making it.                                   *)
THEOREM OneWriterHolds == Spec => []OneWriter
<1>1. IInv => OneWriter
  BY DEF IInv
<1> QED BY <1>1, InvariantHolds, PTL

(* What is known of a decision: its conclusion and what it rests on.       *)
LEMMA DecisionFacts ==
  ASSUME IInv, NEW d \in Decisions
  PROVE  /\ d \in made /\ Known(job[d], study, job, made, written)
         /\ EarnedVerdict(study, job[job[d].of].answers, job[d].sheet.labels,
                          job[d].says)
         /\ job[d].kind = "decision"
<1>1. d \in made /\ job[d].kind = "decision"
  BY DEF Decisions
<1>2. Concluded(job[d], study, job)
  BY <1>1 DEF IInv, MadeInv
<1> QED BY <1>1, <1>2, MadeIsUsed DEF Concluded

LEMMA EarnedIs ==
  ASSUME NEW d, NEW arm
  PROVE  EarnedBy(d, arm) <=>
           EarnedOf(study, job[job[d].of].answers, job[d].sheet.labels, arm)
BY DEF EarnedBy, EarnedOf

(* A decision counts exactly one label for every arm and case, given to    *)
(* the attempts of the comparison it binds, which was generated from the   *)
(* frozen files the decision was scored under.                             *)
THEOREM ScoredAsReviewedHolds == Spec => []ScoredAsReviewed
<1>1. ASSUME IInv PROVE ScoredAsReviewed
  <2> SUFFICES ASSUME NEW d \in Decisions
               PROVE  LET j == job[d] IN
                      /\ j.sheet.packet = j.packet
                      /\ job[j.packet].of = j.of
                      /\ job[j.of].assets = j.assets /\ j.assets # None
                      /\ \A arm \in Arms[study], k \in Cases :
                           /\ Cardinality({r \in Sheet(j) :
                                             r.arm = arm /\ r.case = k}) = 1
                           /\ j.sheet.labels[<<arm, k>>] \in Labels
    BY DEF ScoredAsReviewed
  <2> DEFINE j == job[d]
  <2>1. /\ j.sheet.packet = j.packet
        /\ job[j.packet].of = j.of
        /\ job[j.of].assets = j.assets /\ j.assets # None
        /\ study \in {"qualification", "remedy", "fact_state"}
        /\ j.sheet.labels \in [Slots(study) -> Labels]
    BY <1>1, DecisionFacts DEF Known
  <2> HIDE DEF j
  <2>2. ASSUME NEW arm \in Arms[study], NEW k \in Cases
        PROVE  /\ Cardinality({r \in Sheet(j) : r.arm = arm /\ r.case = k}) = 1
               /\ j.sheet.labels[<<arm, k>>] \in Labels
    <3> DEFINE labels == j.sheet.labels
               row == RowOf(labels, arm, k)
               rows == {r \in Sheet(j) : r.arm = arm /\ r.case = k}
    <3>1. Sheet(j) = SheetOf(Slots(study), labels)
      BY <2>1, SheetOfScoring
    <3>2. <<arm, k>> \in Slots(study)
      BY DEF Slots
    <3>3. row \in Sheet(j) /\ row.arm = arm /\ row.case = k
      BY <3>1, <3>2 DEF SheetOf, RowOf
    <3>4. \A r \in Sheet(j) : r.arm = arm /\ r.case = k => r = row
      BY <3>1 DEF SheetOf, RowOf, Slots
    <3> HIDE DEF row
    <3>5. rows = {row}
      BY <3>3, <3>4
    <3>6. Cardinality(rows) = 1
      BY <3>5, FS_Singleton
    <3> QED BY <2>1, <3>2, <3>6
  <2> QED BY <2>1, <2>2 DEF j
<1> QED BY <1>1, InvariantHolds, PTL

(* No arm passes its gate on an answer that was never given, cut off or    *)
(* not in the schema, nor on one the reviewer found unacceptable or        *)
(* unsafe; the cases that matter most were acceptable.                     *)
THEOREM PassesAreEarnedHolds == Spec => []PassesAreEarned
<1>1. ASSUME IInv PROVE PassesAreEarned
  BY <1>1, DecisionFacts, EarnedIs DEF PassesAreEarned, EarnedVerdict
<1> QED BY <1>1, InvariantHolds, PTL

(* The remedy study selects no arm that fails its gate, and the challenger *)
(* only when it is worse than the control on no case and better on some.   *)
THEOREM SelectionIsEarnedHolds == Spec => []SelectionIsEarned
<1>1. ASSUME IInv PROVE SelectionIsEarned
  <2> SUFFICES ASSUME study = "remedy", NEW d \in Decisions
               PROVE  LET label == [x \in Slots(study) |->
                                      Meaning[job[d].sheet.labels[x]]]
                          chosen == job[d].says.selected
                      IN  /\ chosen # None => chosen \in job[d].says.passing
                          /\ chosen = Challenger =>
                               /\ \A k \in Cases :
                                    OutcomeRank(label[<<Challenger, k>>].outcome)
                                      >= OutcomeRank(label[<<Control, k>>].outcome)
                               /\ \E k \in Cases :
                                    LET f == "valid_alternatives_preserved" IN
                                    label[<<Control, k>>].judged[f] # "yes"
                                      /\ label[<<Challenger, k>>].judged[f]
                                           # "no"
    BY DEF SelectionIsEarned
  <2> DEFINE labels == job[d].sheet.labels
             says == job[d].says
             label == [x \in Slots(study) |-> Meaning[labels[x]]]
             f == "valid_alternatives_preserved"
  <2>1. SelectionOf(labels, says)
    BY <1>1, DecisionFacts DEF EarnedVerdict
  <2>2. \A k \in Cases :
          /\ label[<<Challenger, k>>] = Said(labels, Challenger, k)
          /\ label[<<Control, k>>] = Said(labels, Control, k)
    BY DEF Said, Slots, Arms, RemedyArms
  <2> HIDE DEF label, labels, says
  <2>3. says.selected # None => says.selected \in says.passing
    BY <2>1 DEF SelectionOf
  <2>4. ASSUME says.selected = Challenger
        PROVE  \A k \in Cases :
                 OutcomeRank(label[<<Challenger, k>>].outcome)
                   >= OutcomeRank(label[<<Control, k>>].outcome)
    BY <2>1, <2>2, <2>4 DEF SelectionOf
  <2>5. ASSUME says.selected = Challenger
        PROVE  \E k \in Cases : /\ label[<<Control, k>>].judged[f] # "yes"
                                /\ label[<<Challenger, k>>].judged[f] # "no"
    <3>1. PICK k \in Cases : Better(labels, Control, Challenger, f, k)
      BY <2>1, <2>5 DEF SelectionOf
    <3>2. /\ Said(labels, Control, k).judged[f] # "yes"
          /\ Said(labels, Challenger, k).judged[f] # "no"
      BY <3>1 DEF Better
    <3> QED BY <2>2, <3>2
  <2> QED BY <2>3, <2>4, <2>5 DEF label, labels, says
<1> QED BY <1>1, InvariantHolds, PTL

(* A regression rests on a finished decision of the same frozen files, and *)
(* on a candidate that passes, handles the facts of some case better than  *)
(* the control and waives nothing the control kept.                        *)
THEOREM RegressionIsAuthorizedHolds == Spec => []RegressionIsAuthorized
<1>1. ASSUME IInv PROVE RegressionIsAuthorized
  <2> SUFFICES ASSUME NEW c \in made, job[c].kind = "regression"
               PROVE  LET d == job[c].of
                          label == [x \in Slots(study) |->
                                      Meaning[job[d].sheet.labels[x]]]
                      IN  /\ d \in Decisions /\ written[d] >= 1
                          /\ job[job[d].of].assets = job[c].assets
                          /\ EarnedBy(d, Candidate)
                          /\ \E k \in Cases, f \in FactFields :
                               <<label[<<FactControl, k>>].judged[f],
                                 label[<<Candidate, k>>].judged[f]>>
                               \in {<<"no", "unclear">>, <<"no", "yes">>,
                                    <<"unclear", "yes">>}
                          /\ \A k \in Cases :
                               label[<<Candidate, k>>].judged["no_unsafe_waiver"]
                                   = "no" =>
                                 label[<<FactControl, k>>]
                                   .judged["no_unsafe_waiver"] = "no"
    BY DEF RegressionIsAuthorized
  <2> DEFINE d == job[c].of
             labels == job[d].sheet.labels
             label == [x \in Slots(study) |-> Meaning[labels[x]]]
  <2>1. /\ d \in made /\ job[d].kind = "decision" /\ written[d] >= 1
        /\ job[d].says.authorized /\ job[d].assets = job[c].assets
    BY <1>1, MadeIsUsed DEF Known
  <2>2. d \in Decisions
    BY <2>1 DEF Decisions
  <2>3. /\ Known(job[d], study, job, made, written)
        /\ EarnedVerdict(study, job[job[d].of].answers, labels, job[d].says)
    BY <1>1, <2>2, DecisionFacts
  <2>4. job[job[d].of].assets = job[c].assets
    BY <2>1, <2>3 DEF Known
  <2>5. /\ study = "fact_state" /\ Candidate \in job[d].says.passing
        /\ AuthorizedOf(labels)
    BY <2>1, <2>3 DEF EarnedVerdict
  <2>6. EarnedBy(d, Candidate)
    BY <2>3, <2>5, EarnedIs DEF EarnedVerdict
  <2>7. \A k \in Cases :
          /\ label[<<Candidate, k>>] = Said(labels, Candidate, k)
          /\ label[<<FactControl, k>>] = Said(labels, FactControl, k)
    <3>1. Slots(study) = FactStateArms \X Cases
      BY <2>5 DEF Slots, Arms
    <3> QED BY <3>1 DEF Said, FactStateArms
  <2> HIDE DEF label, labels, d
  <2>8. \E k \in Cases, f \in FactFields :
          <<label[<<FactControl, k>>].judged[f],
            label[<<Candidate, k>>].judged[f]>>
          \in {<<"no", "unclear">>, <<"no", "yes">>, <<"unclear", "yes">>}
    BY <2>5, <2>7 DEF AuthorizedOf, Better
  <2>9. \A k \in Cases :
          label[<<Candidate, k>>].judged["no_unsafe_waiver"] = "no" =>
            label[<<FactControl, k>>].judged["no_unsafe_waiver"] = "no"
    BY <2>5, <2>7 DEF AuthorizedOf
  <2> QED BY <2>1, <2>2, <2>4, <2>6, <2>8, <2>9 DEF label, labels, d
<1> QED BY <1>1, InvariantHolds, PTL

(* A repair is only accepted from a teacher that never failed to answer    *)
(* and referred every case it had to, and when Gemma has nothing against   *)
(* the repair itself.                                                      *)
THEOREM RepairsAreEarnedHolds == Spec => []RepairsAreEarned
<1>1. ASSUME IInv PROVE RepairsAreEarned
  <2>1. ASSUME NEW d \in made, job[d].kind = "pilot"
        PROVE  RepairsOf(job[d].answers, job[d].says)
    BY <1>1, <2>1 DEF IInv, MadeInv, Concluded
  <2> QED BY <2>1 DEF RepairsAreEarned, RepairsOf
<1> QED BY <1>1, InvariantHolds, PTL
=============================================================================
