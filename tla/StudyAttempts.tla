---------------------------- MODULE StudyAttempts ----------------------------
(***************************************************************************)
(* What the specialization studies know of one generated answer: how the   *)
(* call ended, what a strict parser makes of it, and what a machine may    *)
(* decide about it (remedy_logic.py, specialization_evaluator.py and the   *)
(* attempt functions of the four studies).                                 *)
(*                                                                         *)
(* The text of an answer is abstracted to what the parsers and graders     *)
(* tell apart; a prompt, a rendering and the costs are left out.           *)
(***************************************************************************)
EXTENDS Naturals, FiniteSets

CONSTANT None

\* How a call of the backend ends: it raises, is cut off, or returns a text
\* that does not parse, names other request items (or another decision) than
\* the case, cites a record the case does not supply, cites one twice, or is
\* in order.
Answers == {"raised", "truncated", "malformed", "wrong_items",
            "foreign_record", "repeated_record", "sound"}

ASSUME NoneIsNoAnswer == None \notin Answers

\* parse_final_answer: a text that was cut off is never an answer.
FinalOutput(answer) ==
  IF answer \in {"raised", "truncated"} THEN None ELSE answer

\* The three parsers accept the same texts here; each has its own schema.
ParseStructured(output) ==
  IF output \in {None, "malformed"} THEN None ELSE output

ParseMultipart(output) ==
  IF output \in {None, "malformed"} THEN None ELSE output

ParseRemedy(output) ==
  IF output \in {None, "malformed"} THEN None ELSE output

\* Each grader is given an assessment, or None when parsing failed, and says
\* whether it is a hard failure.
StructuredHardFail(assessment) == assessment # "sound"

QualificationHardFail(assessment) ==
  assessment \in {None, "wrong_items", "foreign_record", "repeated_record"}

RemedyHardFail(assessment) ==
  assessment \in {None, "wrong_items", "foreign_record"}

\* One row of a comparison.  Only the pilot has its deterministic passes read
\* by Gemma (advice); a study's labels come later, in an advisory.
Attempt == [answer : Answers, generated : BOOLEAN, truncated : BOOLEAN,
            valid : BOOLEAN, hard : BOOLEAN]

Recorded(answer, valid, hard) ==
  [answer |-> answer,
   generated |-> FinalOutput(answer) # None,
   truncated |-> answer = "truncated",
   valid |-> valid,
   hard |-> hard \/ answer = "truncated"]

PilotAttempt(answer) ==
  LET parsed == ParseStructured(FinalOutput(answer))
  IN  Recorded(answer, parsed # None, StructuredHardFail(parsed))

QualificationAttempt(answer) ==
  LET parsed == ParseMultipart(FinalOutput(answer))
  IN  Recorded(answer, parsed # None, QualificationHardFail(parsed))

\* The control answers in the flat schema, the challenger in remedy trees.
RemedyAttempt(arm, answer) ==
  IF arm = "flat_action_control" THEN QualificationAttempt(answer)
  ELSE LET parsed == ParseRemedy(FinalOutput(answer))
       IN  Recorded(answer, parsed # None, RemedyHardFail(parsed))

FactStateAttempt(answer) ==
  LET parsed == ParseRemedy(FinalOutput(answer))
  IN  Recorded(answer, parsed # None, RemedyHardFail(parsed))

\* correct_fact_state_machine_grades: parse and grade again what is on file;
\* how the call ended is copied.
Regraded(attempt) ==
  LET parsed == ParseRemedy(FinalOutput(attempt.answer))
  IN  [attempt EXCEPT !.valid = parsed # None,
                      !.hard = RemedyHardFail(parsed)]

-----------------------------------------------------------------------------
(* An attempt summary: the counts of a set of cases' attempts that the     *)
(* decisions use.                                                          *)
Failures(attempts) ==
  Cardinality({k \in DOMAIN attempts : ~attempts[k].generated})
Truncations(attempts) ==
  Cardinality({k \in DOMAIN attempts : attempts[k].truncated})
Invalid(attempts) ==
  Cardinality({k \in DOMAIN attempts : ~attempts[k].valid})
HardFailures(attempts) ==
  Cardinality({k \in DOMAIN attempts : attempts[k].hard})
=============================================================================
