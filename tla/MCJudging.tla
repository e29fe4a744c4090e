------------------------------ MODULE MCJudging ------------------------------
\* Judging for TLC: three families of calibration cases, an audited case, and
\* one benchmark with a row of every status.
EXTENDS Judging, TLC

CONSTANTS p1, p2, b1, wrong, wrong_too, half, right, audited

\* Two variants of one incorrect answer are a family.
MCFamilyOf == wrong :> "f1" @@ wrong_too :> "f1" @@ half :> "f2"
                @@ right :> "f3" @@ audited :> "f4"
MCCategories == [c \in Cases |-> IF c \in {wrong, half} THEN {"amount"}
                                 ELSE {}]

Labelled(score, reviewers) ==
  [score |-> score, approved |-> TRUE, reviewers |-> reviewers,
   training |-> FALSE]
Reviewed == wrong :> Labelled(0, 1) @@ wrong_too :> Labelled(0, 1)
              @@ half :> Labelled(1, 2) @@ right :> Labelled(2, 1)
              @@ audited :> Labelled(0, 2)

\* In order; with a label that is not approved, or that a second reviewer has
\* not seen; and with a manifest of other files.
MCDatasets ==
  {[labels |-> Reviewed, bound |-> TRUE],
   [labels |-> [Reviewed EXCEPT ![half].approved = FALSE], bound |-> TRUE],
   [labels |-> [Reviewed EXCEPT ![half].reviewers = 1], bound |-> TRUE],
   [labels |-> Reviewed, bound |-> FALSE]}

\* A benchmark is advised on at one prompt, and anything done at another.
MCMakes == p1 :> Kinds @@ p2 :> {"advisory", "preflight"}

MCHome == [p \in Procs |-> "unset"]

-----------------------------------------------------------------------------
\* One benchmark.  Texts of the questions and their normal forms:
Text(t) == [word |-> t]
MCWords == {"GBP 500", "GBP 750", "4", "2", "must not",
            "£500", "£750", "four", "two business hours", "2 September",
            "16:00 UK time", "[record:", "record"}
MCNormalForm ==
  <<"currency_amount", Text("£500")>> :> Text("GBP 500")
    @@ <<"currency_amount", Text("£750")>> :> Text("GBP 750")
    @@ <<"number", Text("four")>> :> Text("4")
    @@ <<"number", Text("two business hours")>> :> Text("2")
    @@ <<"negation", Text("must not")>> :> Text("must not")
    @@ <<"date", Text("2 September")>> :>
         [year |-> None, month |-> 9, day |-> 2]
    @@ <<"time", Text("16:00 UK time")>> :> [minutes |-> 960, zone |-> "UK"]
    @@ <<"provenance", Text("[record:")>> :> Text("record")
    @@ [x \in SlotTypes \X Word |-> None]
MCOldValue == "sc1" :> Text("£500") @@ "sc2" :> Text("two business hours")

\* Far fewer units than the code asks for: one clean unit passes.
MCUnitsNeeded == [gate \in GateNames |-> [n \in 0 .. 10 |-> 2 * n + 1]]

Ask(suite, probe, family, scenario, slots) ==
  [suite |-> suite, probe |-> probe, family |-> family,
   scenario |-> scenario, slots |-> slots]
Wants(type, text) ==
  [type |-> type, expected |-> Text(text), forbidden |-> {}]
Limit == Ask("supersession", "recall", "f1", "sc1",
  {[Wants("currency_amount", "£750") EXCEPT !.forbidden = {Text("£500")}]})
Reply == Ask("supersession", "recall", "f2", "sc2",
  {[Wants("number", "four") EXCEPT
      !.forbidden = {Text("two business hours")}],
   Wants("time", "16:00 UK time")})
Share == Ask("acquisition", "recall", "f3", None,
  {Wants("negation", "must not"), Wants("date", "2 September")})
Unknown == Ask("unknown_oos", "refusal", "f4", None,
  {[type |-> "provenance", expected |-> None,
    forbidden |-> {Text("[record:")}]})

Silent ==
  [words |-> [type \in WordTypes |-> {}], dates |-> {}, times |-> {},
   citations |-> {}, mentions |-> {}, modals |-> {},
   claims_retrieval |-> FALSE]
Says(type, texts) ==
  [Silent EXCEPT !.words[type] = {Text(t) : t \in texts}]
SaysNot(date) ==
  [Says("negation", {"must not"}) EXCEPT !.modals = {"must"},
                                         !.dates = {date}]
September(day) == [year |-> None, month |-> 9, day |-> day]

\* Two rows in order, as far as grading can tell: one leaves the zone of a
\* time open, the other cites a record it was given.  The rest: cut off; the
\* old amount; the old one next to the new; another day; a citation that is
\* made up; one that is empty; and a look-up that never was.
MCArtifact ==
  LET row(question, answer) ==
        [question |-> question, arm |-> "bm25", generated |-> TRUE,
         parses |-> TRUE, answer |-> answer, supplied |-> {"POL-1"},
         permitted |-> {}]
      base(r) == [r EXCEPT !.arm = "base", !.supplied = {}]
      rows == <<
        row(Limit, Says("currency_amount", {"GBP 500"})),
        row(Reply, [Says("number", {"4"}) EXCEPT
                      !.times = {[minutes |-> 960, zone |-> None]}]),
        [row(Share, Silent) EXCEPT !.parses = FALSE],
        row(Unknown, [Silent EXCEPT !.citations = {"POL-1"}]),
        base(row(Limit, Says("currency_amount", {"GBP 500", "GBP 750"}))),
        base(row(Share, SaysNot(September(3)))),
        base(row(Reply, [Says("number", {"4"}) EXCEPT
                           !.times = {[minutes |-> 960, zone |-> "UK"]},
                           !.citations = {"POL-2"}])),
        base(row(Unknown, [Silent EXCEPT !.citations = {None}])),
        base(row(Share, [SaysNot(September(2)) EXCEPT
                           !.claims_retrieval = TRUE]))>>
  IN  b1 :> rows

\* Of a hard failure a judge says the worst: full marks.
MCOpinions ==
  {[r \in Rows \cup {0} |-> IF r = 4 THEN x ELSE IF r \in {0, 2} THEN y
                            ELSE 2] : x, y \in {Invalid, 0, 2}}
=============================================================================
