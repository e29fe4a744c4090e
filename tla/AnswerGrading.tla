---------------------------- MODULE AnswerGrading ----------------------------
(***************************************************************************)
(* What deterministic grading makes of a generated answer, and the gates   *)
(* of its report (strict_grading.py, provenance_grading.py, grading.py,    *)
(* gates.py).                                                              *)
(*                                                                         *)
(* An answer is the evidence the extractors take from its text.  A text of *)
(* the frozen questions and its normal form are kept apart: NormalForm is  *)
(* _normalize_declared, and normal forms are all that answers consist of.  *)
(***************************************************************************)
EXTENDS Integers, FiniteSets

CONSTANTS None,
          Words,        \* declared texts, and normal forms that are a word
          NormalForm,   \* the normal form of each text in a slot of each
                        \* type, None when it is malformed
          Records,      \* record identifiers
          QuestionFamilies,
          OldValue,     \* the superseded value of each scenario, a text
          Arms,
          UnitsNeeded   \* for each gate, the least number of units of which
                        \* so many may fail, within its confidence bound

WordTypes == {"number", "currency_amount", "unit", "comparator", "entity",
              "negation", "record_status"}
SlotTypes == WordTypes \cup {"date", "time", "provenance"}

\* Normal forms: a word, a date without year or day, a time without zone, a
\* citation, which may lack its record, or a record by its identifier alone.
Word == [word : Words]
Date == [year : Nat \cup {None}, month : 1 .. 12, day : 1 .. 31 \cup {None}]
Time == [minutes : 0 .. 1439, zone : {"UK", "UTC", "ET"} \cup {None}]
Citation == [cites : Records \cup {None}]
Identifier == [record : Records]

ASSUME GradingConstants ==
  /\ None \notin Word \cup Records
  /\ DOMAIN NormalForm = SlotTypes \X Word
  /\ \A s \in DOMAIN OldValue : OldValue[s] \in Word
  /\ \A gate \in DOMAIN UnitsNeeded :
       \A n \in DOMAIN UnitsNeeded[gate] : UnitsNeeded[gate][n] > n

Slot == [type : SlotTypes, expected : Word \cup {None},
         forbidden : SUBSET Word]
Question ==
  [suite : {"acquisition", "unseen_record", "supersession", "unknown_oos"},
   probe : {"recall", "temporal", "refusal", "live_source"},
   family : QuestionFamilies, scenario : DOMAIN OldValue \cup {None},
   slots : SUBSET Slot]

\* Words that may turn a negation into its opposite; "bare" ones have no
\* "not" after them.
Modals == {"must", "bare must", "may", "bare may", "can", "should", "yes",
           "authored"}
Answer ==
  [words : [WordTypes -> SUBSET Word], dates : SUBSET Date,
   times : SUBSET Time,
   citations : SUBSET (Records \cup {None}),
   mentions : SUBSET Records, modals : SUBSET Modals,
   claims_retrieval : BOOLEAN]

\* A row says generated when it has an answer, which may still be cut off or
\* not parse.
Row == [question : Question, arm : Arms, generated : BOOLEAN,
        parses : BOOLEAN, answer : Answer, supplied : SUBSET Records,
        permitted : SUBSET Records]

-----------------------------------------------------------------------------
(* Strict grading: every critical slot of the question.                    *)
Extracted(type, answer) ==
  CASE type \in WordTypes -> answer.words[type]
    [] type = "date" -> answer.dates
    [] type = "time" -> answer.times
    [] type = "provenance" ->
         {[cites |-> r] : r \in answer.citations}
           \cup {[record |-> r] :
                   r \in (answer.mentions \cup answer.citations) \ {None}}

DateRelation(wanted, date) ==
  IF \/ wanted.month # date.month
     \/ wanted.year # None /\ date.year \notin {None, wanted.year}
  THEN "absent"
  ELSE IF wanted.day \in {None, date.day} THEN "match"
  ELSE IF date.day = None THEN "partial" ELSE "conflict"

TimeRelation(wanted, time) ==
  IF wanted.minutes # time.minutes THEN "absent"
  ELSE IF wanted.zone \in {None, time.zone} THEN "match"
  ELSE IF time.zone = None THEN "partial" ELSE "conflict"

Relations(type, wanted, answer) ==
  CASE type = "date" -> {DateRelation(wanted, d) : d \in answer.dates}
    [] type = "time" -> {TimeRelation(wanted, t) : t \in answer.times}
    [] OTHER -> IF wanted \in Extracted(type, answer) THEN {"match"} ELSE {}

\* The best relation of any value counts: what else is said is no conflict.
Presence(type, wanted, answer) ==
  LET relations == Relations(type, wanted, answer)
  IN  IF "match" \in relations THEN "match"
      ELSE IF "partial" \in relations THEN "partial"
      ELSE IF "conflict" \in relations THEN "conflict" ELSE "absent"

Expected(slot) ==
  IF slot.expected = None THEN None ELSE NormalForm[slot.type, slot.expected]
Forbidden(slot) == {NormalForm[slot.type, t] : t \in slot.forbidden}

Malformed(slot) ==
  \/ slot.expected # None /\ Expected(slot) = None
  \/ None \in Forbidden(slot)
  \/ slot.expected = None /\ slot.forbidden = {}

\* A citation, once forbidden, forbids them all.
ForbiddenPresent(slot, answer) ==
  /\ ~Malformed(slot)
  /\ \/ Forbidden(slot) \cap Extracted(slot.type, answer) # {}
     \/ /\ slot.type = "provenance" /\ answer.citations # {}
        /\ Forbidden(slot) \cap Citation # {}

Temporal == {[word |-> "before"], [word |-> "after"]}
SameFamily(x, y) == (x \in Temporal) = (y \in Temporal)

Against(negation) ==
  CASE negation.word = "must not" -> {"bare must", "may", "can", "should"}
    [] negation.word = "may not" -> {"bare may", "must", "can", "should"}
    [] negation.word = "cannot" -> {"must", "may", "should"}
    [] negation.word = "no" -> {"yes"}
    [] negation.word = "did not author" -> {"authored"}
    [] OTHER -> {}

ScopeUnresolved(slot, slots, answer) ==
  LET wanted == Expected(slot)
      said == Extracted(slot.type, answer)
  IN  /\ wanted # None
      /\ CASE slot.type = "number" ->
                ~(said \subseteq {Expected(s) : s \in {t \in slots :
                                                  t.type = "number"}})
           [] slot.type = "negation" ->
                Against(wanted) \cap answer.modals # {}
           [] slot.type = "comparator" ->
                \E other \in said \ {wanted} : SameFamily(other, wanted)
           [] slot.type = "record_status" -> said \ {wanted} # {}
           [] OTHER -> FALSE

\* A malformed number stops the grading of the numbers next to it, and with
\* it that of the artifact.
Gradable(slots) ==
  \A s, t \in {u \in slots : u.type = "number" /\ u.expected # None} :
    Expected(t) = None => Malformed(s)

GradeSlot(slot, slots, answer) ==
  LET wanted == Expected(slot)
      presence == Presence(slot.type, wanted, answer)
  IN  IF Malformed(slot) \/ ForbiddenPresent(slot, answer) THEN "hard_fail"
      ELSE IF wanted # None /\ presence \in {"conflict", "absent"}
      THEN "hard_fail"
      ELSE IF \/ wanted # None /\ presence = "partial"
              \/ ScopeUnresolved(slot, slots, answer)
      THEN "review_required"
      ELSE "pass"

StrictStatus(slots, answer) ==
  LET graded == {GradeSlot(s, slots, answer) : s \in slots}
  IN  IF slots = {} THEN "no_slots"
      ELSE IF "hard_fail" \in graded THEN "hard_fail"
      ELSE IF "review_required" \in graded THEN "review_required"
      ELSE "pass"

-----------------------------------------------------------------------------
(* Provenance grading: a citation must be of a record that was supplied, or *)
(* that the model may know by heart.  The benchmark names no superseded    *)
(* records, and so none is ever found cited as current.                    *)
Hallucinated(row) ==
  row.answer.citations \ (row.supplied \cup row.permitted \cup {None})

ProvenanceHardFail(row) ==
  \/ Hallucinated(row) # {}
  \/ None \in row.answer.citations
  \/ row.answer.claims_retrieval /\ row.supplied = {}

Generated(row) == row.generated /\ row.parses

RowStatuses == {"generation_failure", "hard_fail", "review"}

GradeRow(row) ==
  IF ~Generated(row) THEN "generation_failure"
  ELSE IF \/ StrictStatus(row.question.slots, row.answer) = "hard_fail"
          \/ ProvenanceHardFail(row)
  THEN "hard_fail"
  ELSE "review"

-----------------------------------------------------------------------------
(* The promotion gates of the report, for each arm.                        *)
GateNames == {"new_current_value_strict", "stale_current_answer",
              "old_new_conflation", "hallucinated_citation"}
ZeroTolerance == {"stale_current_answer", "hallucinated_citation"}

\* The slots a gate on old values looks at: it looks for the text among the
\* forbidden values of the slot's result, which are normal forms.
Relevant(question) ==
  {s \in question.slots :
     OldValue[question.scenario] \in
       IF Malformed(s) THEN s.forbidden ELSE Forbidden(s)}

Observed(gate, row) ==
  /\ Generated(row)
  /\ gate # "hallucinated_citation" =>
       /\ row.question.suite = "supersession"
       /\ row.question.scenario # None /\ row.question.probe # "temporal"
  /\ gate \in {"stale_current_answer", "old_new_conflation"} =>
       Relevant(row.question) # {}

Passed(gate, row) ==
  CASE gate = "hallucinated_citation" -> Hallucinated(row) = {}
    [] gate = "new_current_value_strict" ->
         StrictStatus(row.question.slots, row.answer) = "pass"
    [] OTHER -> \A s \in Relevant(row.question) :
                  ~ForbiddenPresent(s, row.answer)

Cluster(gate, row) ==
  IF gate = "hallucinated_citation" THEN row.question.family
  ELSE row.question.scenario

\* evaluate_gate: a unit fails when any of its rows does.
GateStatus(gate, rows) ==
  LET seen == {row \in rows : Observed(gate, row)}
      units == {Cluster(gate, row) : row \in seen}
      failing == {Cluster(gate, row) : row \in {x \in seen : ~Passed(gate, x)}}
      failures == Cardinality(failing)
  IN  IF units = {} THEN "insufficient_data"
      ELSE IF gate \in ZeroTolerance /\ failures > 0 THEN "fail"
      ELSE IF Cardinality(units) >= UnitsNeeded[gate][failures] THEN "pass"
      ELSE IF failures = 0 THEN "insufficient_data" ELSE "fail"

Gates(rows) ==
  [arm \in Arms |-> [gate \in GateNames |->
     GateStatus(gate, {row \in rows : row.arm = arm})]]
=============================================================================
