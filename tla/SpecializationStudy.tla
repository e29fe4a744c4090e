------------------------- MODULE SpecializationStudy -------------------------
(***************************************************************************)
(* The four specialization studies, from generation to decision            *)
(* (task_specialization.py, specialization_audit.py,                       *)
(* specialization_qualification.py, specialization_remedy_experiment.py    *)
(* and specialization_fact_state_experiment.py).                           *)
(*                                                                         *)
(* Every step of a study is a command of its own: it reads what earlier    *)
(* commands wrote, works for up to hours, makes a directory named after    *)
(* hashes of what it read and writes its files there one after another.    *)
(* Nothing but that directory coordinates two commands, and a command may  *)
(* die anywhere.  Meanwhile the frozen assets may be replaced and the      *)
(* reviewer may rewrite the advisory.                                      *)
(*                                                                         *)
(* Commands are numbered as they start.  A file is written by one command  *)
(* and holds a time stamp or random ids, so the number of the command      *)
(* stands for the hash of what it wrote.  A command that is refused at     *)
(* once changes nothing and is no step; one that is refused or dies        *)
(* before it has made its directory leaves nothing and gives up its number.*)
(***************************************************************************)
EXTENDS StudyRules

CONSTANTS Studies,       \* the studies that may be run, one per behaviour
          Roots,         \* output directories
          Versions,      \* versions of the frozen assets
          Faults,        \* the answers other than "sound" a model may give
          Readings,      \* what Gemma may say of an answer (Advice records)
          FullScore,     \* the reading with nothing to object
          Labels,        \* the labels a reviewer may give an answer
          Meaning,       \* what each of them says (a Label)
          Fine,          \* the one with nothing to object
          \* bounds, for each study: commands that leave something behind,
          \* commands at a time, replies and labels that are not in order,
          \* and times the reviewer writes
          MaxCommands, MaxRunning, MaxFaults, MaxFlaws, MaxAdvisories

ASSUME StudyConstants ==
  /\ Studies \subseteq {"pilot", "qualification", "remedy", "fact_state"}
  /\ Versions \subseteq Nat \ {0} /\ 1 \in Versions
  /\ Faults \subseteq Answers \ {"sound"}
  /\ Readings \subseteq Advice /\ FullScore \in Readings
  /\ Meaning \in [Labels -> Label] /\ Fine \in Labels
  /\ None \notin Roots /\ None \notin Versions /\ None \notin Labels
  /\ {MaxCommands, MaxRunning, MaxFaults, MaxFlaws, MaxAdvisories}
       \subseteq [Studies -> Nat]

VARIABLES
  study,     \* which study the commands belong to
  assets,    \* the version of its frozen files, None while they disagree
  step,      \* where each command is
  job,       \* what each command has read and is to write
  made,      \* the commands that have made their directory
  written,   \* how many of its files each command has written
  advisory,  \* the reviewer's file, None before there is one
  edits      \* how often the reviewer has written it

vars == <<study, assets, step, job, made, written, advisory, edits>>

Commands == 1 .. Max({MaxCommands[s] : s \in Studies})
Arms == [pilot |-> PilotArms, qualification |-> QualificationArms,
         remedy |-> RemedyArms, fact_state |-> FactStateArms]

-----------------------------------------------------------------------------
(* Generations and sheets: functions on the (arm, case) slots of a study   *)
(* that deviate from the ordinary in a bounded number of slots.            *)
Slots(s) == Arms[s] \X Cases

Deviating(slots, ordinary, others, most) ==
  UNION {{[x \in slots |-> IF x \in D THEN g[x] ELSE ordinary] :
            g \in [D -> others]} :
         D \in UNION {kSubset(n, slots) : n \in 0 .. most}}

\* A reply is an answer and what Gemma says of it.  Only the pilot asks her,
\* and only about the answers that pass.
Reply(answer, reading) == [answer |-> answer, reading |-> reading]

Sound(s) == Reply("sound", IF s = "pilot" THEN FullScore ELSE None)

Generations ==
  [s \in Studies |->
     [n \in 0 .. MaxFaults[s] |->
        LET failed == {Reply(answer, None) : answer \in Faults}
            read == {Reply("sound", reading) : reading \in Readings}
        IN  Deviating(Slots(s), Sound(s),
                      IF s = "pilot" THEN (failed \cup read) \ {Sound(s)}
                      ELSE failed, n)]]

\* The bound on replies that are not in order is one for all commands.
Flawed(answers) == {x \in Slots(study) : answers[x] # Sound(study)}
AllFlaws ==
  UNION {{d} \X Flawed(job[d].answers) :
           d \in {e \in made : job[e].kind \in {"pilot", "comparison"}}}
FaultsLeft == MaxFaults[study] - Cardinality(AllFlaws)

-----------------------------------------------------------------------------
(* Commands: what they read, the name of their directory, their files.     *)
(*   of      the comparison, pilot or decision read first                  *)
(*   packet  the review packet scored                                      *)
(*   sheet   the advisory as it was when its rows were read                *)
(*   bound   the advisory as it was when it was hashed                     *)
(*   answers what a comparison or a pilot generated                        *)
(*   says    the verdict of a decision, the accepted repairs of a pilot    *)
Kinds == {"pilot", "audit", "overlay", "comparison", "corrected", "review",
          "decision", "regression"}

ASSUME NoneIsApart == None \notin Kinds \cup RemedyArms

NoJob ==
  [kind |-> None, root |-> None, assets |-> None, of |-> None,
   packet |-> None, sheet |-> None, bound |-> None, answers |-> None,
   says |-> None]

Job(kind, root, of) ==
  [NoJob EXCEPT !.kind = kind, !.root = root, !.assets = assets, !.of = of]

\* The files somebody reads back, in the order they are written: a packet
\* before its mapping.  Templates, renderings and the candidate rows of a
\* pilot follow and are left out.
FilesOf(kind) == IF kind \in {"audit", "review"} THEN 2 ELSE 1

Name(j) ==
  CASE j.kind \in {"pilot", "comparison"} -> <<j.kind, j.root, j.assets>>
    [] j.kind \in {"audit", "corrected", "review", "regression"} ->
         <<j.kind, j.root, j.of>>
    [] j.kind = "decision" -> <<j.kind, j.root, j.of, j.packet, j.bound>>
    [] j.kind = "overlay" -> <<j.kind, j.root>>

Taken(j) == \E d \in made : Name(job[d]) = Name(j)
On(d, kinds, n) == d \in made /\ job[d].kind \in kinds /\ written[d] >= n
Comparison(d) == On(d, {"comparison", "corrected"}, 1)

PilotAttempts(of) ==
  [arm \in PilotArms |->
     [k \in Cases |-> PilotAttempt(of[<<arm, k>>].answer)]]
PilotReadings(of) ==
  [arm \in PilotArms |-> [k \in Cases |-> of[<<arm, k>>].reading]]

StudyAttempt(arm, a) ==
  CASE study = "qualification" -> QualificationAttempt(a)
    [] study = "remedy" -> RemedyAttempt(arm, a)
    [] study = "fact_state" -> FactStateAttempt(a)

\* The attempts on file: a corrected comparison has graded them again.
Attempts(d) ==
  [arm \in Arms[study] |->
     [k \in Cases |->
        LET attempt == StudyAttempt(arm, job[d].answers[<<arm, k>>].answer)
        IN  IF job[d].kind = "corrected" THEN Regraded(attempt)
            ELSE attempt]]

\* The slots whose answers are in a packet.
Rows(p) ==
  IF study # "pilot" THEN Slots(study)
  ELSE {<<"teacher", k>> : k \in Cases}
         \cup {<<"repair", k>> :
                 k \in SelectRepairs(
                         PilotAttempts(job[job[p].of].answers)["student"])}

\* The advisory after unblinding: the mapping resolves each review id.
Sheet(j) ==
  {[arm |-> x[1], case |-> x[2], label |-> Meaning[j.sheet.labels[x]]] :
     x \in Rows(j.packet)}

Verdict(j) ==
  CASE study = "qualification" ->
         QualificationVerdict(Sheet(j), Attempts(j.of))
    [] study = "remedy" -> RemedyVerdict(Sheet(j), Attempts(j.of))
    [] study = "fact_state" -> FactStateVerdict(Sheet(j), Attempts(j.of))

AcceptedRepairs(answers) ==
  LET attempts == PilotAttempts(answers)
      readings == PilotReadings(answers)
      qualified == TeacherQualified(attempts["teacher"],
                                    readings["teacher"])
  IN  {k \in SelectRepairs(attempts["student"]) :
         RepairAccepted(qualified, attempts["repair"][k],
                        readings["repair"][k])}

-----------------------------------------------------------------------------
Init ==
  /\ study \in Studies
  /\ assets = 1
  /\ step = [c \in Commands |-> "unused"]
  /\ job = [c \in Commands |-> NoJob]
  /\ made = {}
  /\ written = [c \in Commands |-> 0]
  /\ advisory = None
  /\ edits = 0

Running == {c \in Commands : step[c] \in {"working", "writing"}}

\* The next command that may start.
Idle(c) ==
  /\ step[c] = "unused" /\ c <= MaxCommands[study]
  /\ \A b \in Commands : step[b] = "unused" => c <= b
  /\ Cardinality(Running) < MaxRunning[study]

\* Command c starts, with everything it reads before it works.
Start(c, j) ==
  /\ step' = [step EXCEPT ![c] = "working"]
  /\ job' = [job EXCEPT ![c] = j]
  /\ UNCHANGED <<study, assets, made, written, advisory, edits>>

\* The checks every command of a study begins with: the frozen files are
\* those their manifest lists.
PilotLoads == study = "pilot" /\ assets # None
QualificationLoads == study = "qualification" /\ assets # None
RemedyLoads == study = "remedy" /\ assets # None
FactStateLoads == study = "fact_state" /\ assets # None

\* A command that looks for its directory first, before hours of work.
StartUnlessTaken(c, j) == ~Taken(j) /\ Start(c, j)

RunPilot(c, root) ==
  /\ Idle(c) /\ PilotLoads
  /\ StartUnlessTaken(c, Job("pilot", root, None))

RunQualificationComparison(c, root) ==
  /\ Idle(c) /\ QualificationLoads
  /\ StartUnlessTaken(c, Job("comparison", root, None))

RunRemedyComparison(c, root) ==
  /\ Idle(c) /\ RemedyLoads
  /\ StartUnlessTaken(c, Job("comparison", root, None))

RunFactStateComparison(c, root) ==
  /\ Idle(c) /\ FactStateLoads
  /\ StartUnlessTaken(c, Job("comparison", root, None))

\* A comparison is accepted under the assets it was generated from.
Matches(d) == Comparison(d) /\ job[d].assets = assets

CorrectGrades(c, root, d) ==
  /\ Idle(c) /\ FactStateLoads /\ Matches(d)
  /\ Start(c, [Job("corrected", root, d) EXCEPT !.answers = job[d].answers])

PrepareQualificationReview(c, root, d) ==
  /\ Idle(c) /\ QualificationLoads /\ Matches(d)
  /\ Start(c, Job("review", root, d))

PrepareRemedyReview(c, root, d) ==
  /\ Idle(c) /\ RemedyLoads /\ Matches(d)
  /\ Start(c, Job("review", root, d))

PrepareFactStateReview(c, root, d) ==
  /\ Idle(c) /\ FactStateLoads /\ Matches(d)
  /\ Start(c, Job("review", root, d))

\* An audit is of a complete pilot with a full set of repairs.
PrepareAudit(c, root, d) ==
  /\ Idle(c) /\ study = "pilot"
  /\ On(d, {"pilot"}, 1)
  /\ Cardinality(SelectRepairs(PilotAttempts(job[d].answers)["student"]))
       = MaxRepairs
  /\ StartUnlessTaken(c, Job("audit", root, d))

-----------------------------------------------------------------------------
(* Scoring: the packet is of the comparison, the mapping is the packet's,  *)
(* and the advisory has one label for every id of the packet.              *)
\* Mutant of Ready: any packet will do.
ReadyAnyPacket(p, d) == On(p, {"review"}, 2)

Ready(p, d) == On(p, {"review"}, 2) /\ job[p].of = d

Complete(p) ==
  /\ advisory # None
  /\ advisory.packet = p
  /\ \A x \in Rows(p) : advisory.labels[x] # None

Score(c, root, d, p) ==
  /\ Matches(d) /\ Ready(p, d) /\ Complete(p)
  /\ Start(c, [Job("decision", root, d) EXCEPT !.packet = p,
                                               !.sheet = advisory])

ScoreQualification(c, root, d, p) ==
  Idle(c) /\ QualificationLoads /\ Score(c, root, d, p)

ScoreRemedy(c, root, d, p) ==
  Idle(c) /\ RemedyLoads /\ Score(c, root, d, p)

ScoreFactState(c, root, d, p) ==
  Idle(c) /\ FactStateLoads /\ Score(c, root, d, p)

\* The human audit of a pilot; its report is a file, not a directory.
ValidateOverlay(c, root, p) ==
  /\ Idle(c) /\ study = "pilot"
  /\ On(p, {"audit"}, 2) /\ Complete(p)
  /\ ~\E b \in Commands : /\ step[b] # "unused"
                          /\ Name(job[b]) = <<"overlay", root>>
                          /\ written[b] > 0
  /\ Start(c, [Job("overlay", root, job[p].of) EXCEPT !.packet = p,
                                                      !.sheet = advisory])

\* Mutant of Authorizes: a candidate that passes its gate is enough.
AuthorizesPassing(d) ==
  /\ On(d, {"decision"}, 1)
  /\ Candidate \in job[d].says.passing
  /\ job[d].assets = assets

\* The regression: only after a decision that authorizes it.
Authorizes(d) ==
  /\ On(d, {"decision"}, 1)
  /\ job[d].says.authorized
  /\ job[d].assets = assets

RunRegression(c, root, d) ==
  /\ Idle(c) /\ FactStateLoads
  /\ Authorizes(d)
  /\ StartUnlessTaken(c, Job("regression", root, d))

-----------------------------------------------------------------------------
(* The end of a command.  What a comparison generated is chosen here, and  *)
(* the advisory is hashed here; nobody can see either before.              *)
Outcome(c) ==
  LET j == job[c] IN
  CASE j.kind = "comparison" ->
         {[j EXCEPT !.answers = of] : of \in Generations[study][FaultsLeft]}
    [] j.kind = "pilot" ->
         {[j EXCEPT !.answers = of, !.says = AcceptedRepairs(of)] :
            of \in {g \in Generations[study][FaultsLeft] :
                      \A x \in Flawed(g) : x[1] = "repair" =>
                        x[2] \in SelectRepairs(PilotAttempts(g)["student"])}}
    [] j.kind = "decision" ->
         {[j EXCEPT !.bound = advisory, !.says = Verdict(j)]}
    [] j.kind \in {"audit", "corrected", "review", "regression"} -> {j}

\* Mutant of MayMake: mkdir(exist_ok=True).
MayMakeAgain(j) == TRUE

\* mkdir fails when the directory is there.
MayMake(j) == ~Taken(j)

MakeDirectory(c) ==
  /\ step[c] = "working" /\ job[c].kind # "overlay"
  /\ \E j \in Outcome(c) :
       /\ MayMake(j)
       /\ job' = [job EXCEPT ![c] = j]
  /\ step' = [step EXCEPT ![c] = "writing"]
  /\ made' = made \cup {c}
  /\ UNCHANGED <<study, assets, written, advisory, edits>>

GiveUp(c) ==
  /\ step' = [step EXCEPT ![c] = "unused"]
  /\ job' = [job EXCEPT ![c] = NoJob]
  /\ UNCHANGED <<study, assets, made, written, advisory, edits>>

\* The name was taken since the command looked, or it had not looked yet.
Refused(c) ==
  /\ step[c] = "working" /\ job[c].kind # "overlay"
  /\ \E j \in Outcome(c) : ~MayMake(j)
  /\ GiveUp(c)

Write(c) ==
  /\ step[c] = IF job[c].kind = "overlay" THEN "working" ELSE "writing"
  /\ written' = [written EXCEPT ![c] = @ + 1]
  /\ step' = [step EXCEPT ![c] = IF written[c] + 1 = FilesOf(job[c].kind)
                                 THEN "ended" ELSE @]
  /\ UNCHANGED <<study, assets, job, made, advisory, edits>>

\* A command dies: what it has written stays.
Stop(c) ==
  \/ step[c] = "working" /\ GiveUp(c)
  \/ /\ step[c] = "writing"
     /\ step' = [step EXCEPT ![c] = "ended"]
     /\ UNCHANGED <<study, assets, job, made, written, advisory, edits>>

-----------------------------------------------------------------------------
(* The world around: the checkout and the reviewer.                        *)
\* The frozen files are replaced one after another, and that once (a bound).
ReplaceAssets ==
  /\ assets \in {1, None}
  /\ assets' \in IF assets = None THEN Versions \ {1} ELSE {None}
  /\ UNCHANGED <<study, step, job, made, written, advisory, edits>>

\* The reviewer works from the packet; labels may still be missing.
Review(p) ==
  /\ On(p, {"audit", "review"}, 1)
  /\ edits < MaxAdvisories[study]
  /\ \E labels \in Deviating(Rows(p), Fine, (Labels \ {Fine}) \cup {None},
                             MaxFlaws[study]) :
       /\ [packet |-> p, labels |-> labels] # advisory
       /\ advisory' = [packet |-> p, labels |-> labels]
  /\ edits' = edits + 1
  /\ UNCHANGED <<study, assets, step, job, made, written>>

Command(c, root) ==
  \/ RunPilot(c, root)
  \/ RunQualificationComparison(c, root)
  \/ RunRemedyComparison(c, root)
  \/ RunFactStateComparison(c, root)
  \/ \E d \in Commands : \/ CorrectGrades(c, root, d)
                         \/ PrepareQualificationReview(c, root, d)
                         \/ PrepareRemedyReview(c, root, d)
                         \/ PrepareFactStateReview(c, root, d)
                         \/ PrepareAudit(c, root, d)
                         \/ ValidateOverlay(c, root, d)
                         \/ RunRegression(c, root, d)
  \/ \E d, p \in Commands : \/ ScoreQualification(c, root, d, p)
                            \/ ScoreRemedy(c, root, d, p)
                            \/ ScoreFactState(c, root, d, p)

Next ==
  \/ \E c \in Commands, root \in Roots : Command(c, root)
  \/ \E c \in Commands : \/ MakeDirectory(c) \/ Refused(c)
                         \/ Write(c) \/ Stop(c)
  \/ ReplaceAssets
  \/ \E p \in Commands : Review(p)

Spec == Init /\ [][Next]_vars

-----------------------------------------------------------------------------
JobType(j) ==
  /\ j.kind \in Kinds /\ j.root \in Roots
  /\ j.assets \in Versions \cup {None}
  /\ j.of \in Commands \cup {None} /\ j.packet \in Commands \cup {None}
  /\ j.answers # None => /\ DOMAIN j.answers = Slots(study)
                         /\ Cardinality(Flawed(j.answers))
                              <= MaxFaults[study]
  /\ j.kind = "pilot" /\ j.says # None =>
       j.says \subseteq Cases /\ Cardinality(j.says) <= MaxRepairs
  /\ j.kind = "decision" /\ j.says # None =>
       j.says \in Verdicts(Arms[study])

AdvisoryType(a) ==
  /\ a.packet \in made
  /\ a.labels \in [Rows(a.packet) -> Labels \cup {None}]

\* The type invariant: a command without a job has left nothing, one has
\* never more files than its kind, a pilot never accepts more repairs than
\* its protocol allows, and the advisory labels the rows of one packet.
TypeOK ==
  /\ study \in Studies /\ assets \in Versions \cup {None}
  /\ step \in [Commands -> {"unused", "working", "writing", "ended"}]
  /\ made \subseteq Commands /\ edits \in 0 .. MaxAdvisories[study]
  /\ \A c \in Commands :
       /\ written[c] \in 0 .. 2
       /\ job[c] = NoJob => written[c] = 0 /\ c \notin made
       /\ job[c] # NoJob => /\ JobType(job[c])
                            /\ written[c] <= FilesOf(job[c].kind)
  /\ advisory = None \/ AdvisoryType(advisory)

\* Two commands never write into one directory, however long they work
\* between looking for it and making it ("Refusing to overwrite ...").
OneWriter ==
  \A c, d \in made : Name(job[c]) = Name(job[d]) => c = d

Decisions == {d \in made : job[d].kind = "decision"}

\* A decision counts exactly one label for every arm and case, each given to
\* the attempt of the very comparison the decision binds, and the comparison
\* was generated from the frozen files the decision was scored under, however
\* many comparisons, packets and advisories lie around.
ScoredAsReviewed ==
  \A d \in Decisions :
    LET j == job[d] IN
    /\ j.sheet.packet = j.packet
    /\ job[j.packet].of = j.of
    /\ job[j.of].assets = j.assets /\ j.assets # None
    /\ \A arm \in Arms[study], k \in Cases :
         Cardinality({r \in Sheet(j) : r.arm = arm /\ r.case = k}) = 1
         /\ j.sheet.labels[<<arm, k>>] \in Labels

\* No arm passes on an answer that raised, was cut off or did not parse, or
\* that the reviewer found unacceptable or unsafe; a targeted case was
\* acceptable, in the fact-state study every case, from sound answers.
EarnedBy(d, arm) ==
  \A k \in Cases :
    LET answer == job[job[d].of].answers[<<arm, k>>].answer
        label == Meaning[job[d].sheet.labels[<<arm, k>>]]
    IN  /\ answer \notin {"raised", "truncated", "malformed"}
        /\ label.outcome # "unacceptable" /\ ~label.unsafe
        /\ (study # "fact_state" /\ k \in Targeted) =>
             label.outcome = "acceptable"
        /\ study = "fact_state" =>
             /\ label.outcome = "acceptable"
             /\ answer \notin {"wrong_items", "foreign_record"}

PassesAreEarned ==
  \A d \in Decisions : \A arm \in job[d].says.passing : EarnedBy(d, arm)

\* The challenger of the remedy study is only selected when it is worse than
\* the control on no case and better on some, and an arm that fails its gate
\* is never selected.
SelectionIsEarned ==
  study = "remedy" =>
    \A d \in Decisions :
      LET label == [x \in Slots(study) |->
                     Meaning[job[d].sheet.labels[x]]]
          chosen == job[d].says.selected
      IN  /\ chosen # None => chosen \in job[d].says.passing
          /\ chosen = Challenger =>
               /\ \A k \in Cases :
                    OutcomeRank(label[<<Challenger, k>>].outcome)
                      >= OutcomeRank(label[<<Control, k>>].outcome)
               /\ \E k \in Cases :
                    LET f == "valid_alternatives_preserved" IN
                    label[<<Control, k>>].judged[f] # "yes"
                      /\ label[<<Challenger, k>>].judged[f] # "no"

\* A regression rests on a finished decision of the same frozen files whose
\* candidate passes, handles the facts of some case better than the control
\* and waives no requirement the control kept.
RegressionIsAuthorized ==
  \A c \in made : job[c].kind = "regression" =>
    LET d == job[c].of
        label == [x \in Slots(study) |-> Meaning[job[d].sheet.labels[x]]]
    IN  /\ d \in Decisions /\ written[d] >= 1
        /\ job[job[d].of].assets = job[c].assets
        /\ EarnedBy(d, Candidate)
        /\ \E k \in Cases, f \in FactFields :
             <<label[<<FactControl, k>>].judged[f],
               label[<<Candidate, k>>].judged[f]>>
               \in {<<"no", "unclear">>, <<"no", "yes">>, <<"unclear", "yes">>}
        /\ \A k \in Cases :
             label[<<Candidate, k>>].judged["no_unsafe_waiver"] = "no" =>
               label[<<FactControl, k>>].judged["no_unsafe_waiver"] = "no"

\* A repair is only accepted from a teacher that never failed to answer, whose
\* every passing answer Gemma could read and that referred every case it had
\* to, and when Gemma has nothing against the repair itself.
RepairsAreEarned ==
  \A d \in made : job[d].kind = "pilot" =>
    \A k \in job[d].says :
      LET of == job[d].answers
          repair == of[<<"repair", k>>]
      IN
      /\ of[<<"student", k>>].answer # "sound"
      /\ repair.answer = "sound"
      /\ repair.reading.valid /\ repair.reading.score = 2
      /\ ~repair.reading.attention
      /\ \A c \in Cases :
           LET reply == of[<<"teacher", c>>] IN
           /\ reply.answer \notin {"raised", "truncated"}
           /\ reply.answer = "sound" => reply.reading.valid
           /\ c \in Refer =>
                reply.answer = "sound" /\ reply.reading.score = 2

\* The regression is run once: cli.py:581 and the protocol of the study call
\* it the sole pass, and the code keeps one regression for each decision file.
SoleRegression ==
  Cardinality({c \in made : job[c].kind = "regression"}) <= 1
=============================================================================
