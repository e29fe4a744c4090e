------------------------ MODULE MCSpecializationStudy ------------------------
\* SpecializationStudy for TLC: the labels a reviewer gives, the readings
\* Gemma gives and the bounds.
EXTENDS SpecializationStudy

Judged(no, unclear) ==
  [f \in Fields |-> IF f \in no THEN "no"
                    ELSE IF f \in unclear THEN "unclear" ELSE "yes"]

\* Fine; acceptable but with alternatives and facts lost; a minor revision for
\* the same; and one that lists an unsafe claim, with a requirement waived.
MCMeaning ==
  LET lost == {"valid_alternatives_preserved",
               "established_facts_preserved"}
      waived == {"mandatory_conditions_preserved", "no_unsafe_waiver",
                 "no_invented_requirement"}
      says(outcome, unsafe, judged) ==
        [outcome |-> outcome, unsafe |-> unsafe, judged |-> judged]
  IN  [label \in Labels |->
         CASE label = "fine" -> says("acceptable", FALSE, Judged({}, {}))
           [] label = "lost" -> says("acceptable", FALSE, Judged(lost, {}))
           [] label = "minor" ->
                says("minor_revision", FALSE, Judged({}, lost))
           [] label = "unsafe" ->
                says("acceptable", TRUE, Judged(waived, {}))]

MCFullScore == [valid |-> TRUE, score |-> 2, attention |-> FALSE]
MCReadings ==
  {MCFullScore,
   [valid |-> TRUE, score |-> 2, attention |-> TRUE],
   [valid |-> FALSE, score |-> 0, attention |-> TRUE]}

\* A repair takes a failure of the student before it can go wrong itself.
MCMaxFaults == [s \in Studies |-> IF s = "pilot" THEN 2 ELSE 1]

\* The paired rules of the remedy study weigh two labels against each other;
\* the human audit of a pilot decides nothing.
MCMaxFlaws ==
  [s \in Studies |-> CASE s = "pilot" -> 0 [] s = "remedy" -> 2
                      [] s \in {"qualification", "fact_state"} -> 1]

\* The regression is the fourth command of a study.
MCMaxCommands == [s \in Studies |-> IF s = "fact_state" THEN 4 ELSE 3]

\* Two commands race in the pilot.
MCMaxRunning == [s \in Studies |-> IF s = "pilot" THEN 2 ELSE 1]

\* The bounds of the run with the two regressions.
No == [s \in Studies |-> 0]
One == [s \in Studies |-> 1]
Two == [s \in Studies |-> 2]
Six == [s \in Studies |-> 6]
=============================================================================
