---------------------------- MODULE JudgingProofs ----------------------------
(***************************************************************************)
(* What Judging guarantees for any number of processes, calls, cases and   *)
(* rows, whatever fails and whoever dies.                                  *)
(***************************************************************************)
EXTENDS Judging, FiniteSetTheorems, WellFoundedInduction, TLAPS

(* A call has the fields of a call, whatever is in those that no argument  *)
(* below depends on.                                                       *)
IsCall(c) ==
  c = [id |-> c.id, kind |-> c.kind, of |-> c.of, judges |-> c.judges,
       at |-> c.at, turn |-> c.turn, row |-> c.row, seen |-> c.seen,
       ok |-> c.ok, says |-> c.says]

Pairs == {<<Gemma>>, <<Gemma, Other>>, <<Other, Gemma>>}

CallInv(c) ==
  /\ IsCall(c)
  /\ c.at \in Steps /\ c.ok \in BOOLEAN
  /\ c.at # "idle" => /\ c.kind \in Kinds /\ c.judges \in Pairs
                      /\ c.turn \in 1 .. Len(c.judges)

(* From taking the lock to giving it back a process is at a judge that is  *)
(* Gemma.                                                                  *)
Holding == {"loading", "judging", "dropping", "restoring", "unlocking"}
HasGemma(p) == call[p].at \in Holding /\ Judge(p) = Gemma

(* What is in memory, in the table, in the environment and in the lock     *)
(* follows from where the call is.                                         *)
ProcInv(p) ==
  /\ lock = p <=> HasGemma(p)
  /\ call[p].at \in {"loading", "restoring", "unlocking"} => Judge(p) = Gemma
  /\ memory[p] # {} => /\ call[p].at \in {"judging", "dropping"}
                       /\ memory[p] = {Judge(p)}
  /\ registered[p] # {} =>
       /\ call[p].at \in (Holding \ {"loading"}) \cup {"released"}
       /\ registered[p] = {Judge(p)}
  /\ HasGemma(p) /\ call[p].at # "unlocking" =>
       env[p] = "offline" /\ saved[p] = Home[p]
  /\ ~HasGemma(p) \/ call[p].at = "unlocking" =>
       env[p] = Home[p] /\ saved[p] = None

Types ==
  /\ call = [p \in Procs |-> call[p]]
  /\ memory \in [Procs -> SUBSET {Gemma, Other}]
  /\ registered \in [Procs -> SUBSET {Gemma, Other}]
  /\ env \in [Procs -> {"unset", "offline"}]
  /\ saved \in [Procs -> {"unset", "offline", None}]
  /\ lock \in Procs \cup {None}

IInv == Types /\ \A p \in Procs : CallInv(call[p]) /\ ProcInv(p)

-----------------------------------------------------------------------------
(* An action of p leaves the others alone.                                 *)
Frame(p) ==
  \A q \in Procs \ {p} :
    /\ call'[q] = call[q] /\ memory'[q] = memory[q]
    /\ registered'[q] = registered[q]
    /\ env'[q] = env[q] /\ saved'[q] = saved[q]
    /\ lock' = q <=> lock = q

(* A step that leaves the other processes alone keeps the invariant if it  *)
(* keeps it for its own process.                                           *)
LEMMA FrameKeeps ==
  ASSUME IInv, NEW p \in Procs, Frame(p), Types',
         CallInv(call[p])', ProcInv(p)'
  PROVE  IInv'
<1> SUFFICES ASSUME NEW q \in Procs, q # p
             PROVE  CallInv(call[q])' /\ ProcInv(q)'
  BY DEF IInv
<1>1. /\ call'[q] = call[q] /\ memory'[q] = memory[q]
      /\ registered'[q] = registered[q]
      /\ env'[q] = env[q] /\ saved'[q] = saved[q]
      /\ lock' = q <=> lock = q
  BY DEF Frame
<1>2. CallInv(call[q]) /\ ProcInv(q)
  BY DEF IInv
<1>3. CallInv(call'[q])
  BY <1>1, <1>2
<1>4. HasGemma(q)' <=> HasGemma(q)
  BY <1>1 DEF HasGemma, Judge
<1>5. ProcInv(q)'
  BY <1>1, <1>2, <1>4 DEF ProcInv, Judge
<1> QED BY <1>3, <1>5

(* Only the place of a call changes.                                       *)
LEMMA Goes ==
  ASSUME NEW p \in Procs, NEW v,
         call = [q \in Procs |-> call[q]], IsCall(call[p]), Go(p, v)
  PROVE  /\ call' = [q \in Procs |-> call'[q]]
         /\ IsCall(call'[p])
         /\ call'[p].at = v /\ call'[p].ok = call[p].ok
         /\ call'[p].kind = call[p].kind
         /\ call'[p].judges = call[p].judges
         /\ call'[p].turn = call[p].turn
         /\ \A q \in Procs \ {p} : call'[q] = call[q]
<1>1. call' = [call EXCEPT ![p] = [call[p] EXCEPT !.at = v]]
  BY DEF Go
<1>2. /\ call' = [q \in Procs |-> call'[q]]
      /\ call'[p] = [call[p] EXCEPT !.at = v]
      /\ \A q \in Procs \ {p} : call'[q] = call[q]
  BY <1>1
<1> QED BY <1>2 DEF IsCall

(* A call fails and goes on to be cleaned up.                              *)
LEMMA Fails ==
  ASSUME NEW p \in Procs, NEW v,
         call = [q \in Procs |-> call[q]], IsCall(call[p]), Fail(p, v)
  PROVE  /\ call' = [q \in Procs |-> call'[q]]
         /\ IsCall(call'[p])
         /\ call'[p].at = v /\ call'[p].ok = FALSE
         /\ call'[p].kind = call[p].kind
         /\ call'[p].judges = call[p].judges
         /\ call'[p].turn = call[p].turn
         /\ \A q \in Procs \ {p} : call'[q] = call[q]
<1>1. call' = [call EXCEPT ![p] = [[call[p] EXCEPT !.at = v]
                                     EXCEPT !.ok = FALSE]]
  BY DEF Fail
<1>2. /\ call' = [q \in Procs |-> call'[q]]
      /\ call'[p] = [[call[p] EXCEPT !.at = v] EXCEPT !.ok = FALSE]
      /\ \A q \in Procs \ {p} : call'[q] = call[q]
  BY <1>1
<1> QED BY <1>2 DEF IsCall

(* What a step that goes or fails does to CallInv.                         *)
LEMMA PlaceKeepsCall ==
  ASSUME NEW p \in Procs, NEW v \in Steps \ {"idle"},
         Types, CallInv(call[p]), call[p].at # "idle",
         Go(p, v) \/ Fail(p, v)
  PROVE  /\ call' = [q \in Procs |-> call'[q]]
         /\ CallInv(call'[p]) /\ call'[p].at = v
         /\ call'[p].kind = call[p].kind
         /\ Judge(p)' = Judge(p)
         /\ \A q \in Procs \ {p} : call'[q] = call[q]
<1>1. call = [q \in Procs |-> call[q]] /\ IsCall(call[p])
  BY DEF Types, CallInv
<1>2. /\ call' = [q \in Procs |-> call'[q]]
      /\ IsCall(call'[p])
      /\ call'[p].at = v
      /\ call'[p].ok \in {call[p].ok, FALSE}
      /\ call'[p].kind = call[p].kind
      /\ call'[p].judges = call[p].judges
      /\ call'[p].turn = call[p].turn
      /\ \A q \in Procs \ {p} : call'[q] = call[q]
  <2>1. CASE Go(p, v)
    BY <1>1, <2>1, Goes
  <2>2. CASE Fail(p, v)
    BY <1>1, <2>2, Fails
  <2> QED BY <2>1, <2>2
<1>3. CallInv(call'[p])
  BY <1>2 DEF CallInv
<1> QED BY <1>2, <1>3 DEF Judge

(* A call whose judge is out of memory goes on to its next judge, its next *)
(* row, its files or its end, and still is a call there.                   *)
GoesTo == {"failed", "acquire", "ended", "checking", "writing"}

LEMMA GoesOnIsCall ==
  ASSUME NEW c, CallInv(c), c.at # "idle"
  PROVE  CallInv(GoesOn(c)) /\ GoesOn(c).at \in GoesTo
<1>1. /\ IsCall(c) /\ c.ok \in BOOLEAN /\ c.kind \in Kinds
      /\ c.judges \in Pairs /\ c.turn \in 1 .. Len(c.judges)
  BY DEF CallInv
<1>2. \A v \in GoesTo :
        LET d == [c EXCEPT !.at = v]
        IN  CallInv(d) /\ d.at = v
  BY <1>1 DEF CallInv, IsCall, GoesTo, Steps
<1>3. ASSUME NEW v \in GoesTo, NEW w
      PROVE  LET d == [c EXCEPT !.at = v, !.says = w]
             IN  CallInv(d) /\ d.at = v
  <2> DEFINE d == [c EXCEPT !.at = v, !.says = w]
  <2>1. d = [id |-> c.id, kind |-> c.kind, of |-> c.of,
             judges |-> c.judges, at |-> v, turn |-> c.turn,
             row |-> c.row, seen |-> c.seen, ok |-> c.ok, says |-> w]
    <3> DEFINE e == [c EXCEPT !.at = v]
    <3>1. d = [e EXCEPT !.says = w]
      OBVIOUS
    <3>2. e = [id |-> c.id, kind |-> c.kind, of |-> c.of,
               judges |-> c.judges, at |-> v, turn |-> c.turn,
               row |-> c.row, seen |-> c.seen, ok |-> c.ok,
               says |-> c.says]
      BY <1>1 DEF IsCall
    <3> HIDE DEF d, e
    <3> QED BY <3>1, <3>2
  <2> HIDE DEF d
  <2>2. CallInv(d) /\ d.at = v
    BY <1>1, <2>1 DEF CallInv, IsCall, GoesTo, Steps
  <2> QED BY <2>2 DEF d
<1>4. CASE ~c.ok
  BY <1>2, <1>4 DEF GoesOn, GoesTo
<1>5. CASE c.ok /\ ~LastTurn(c)
  <2>1. GoesOn(c) = [c EXCEPT !.at = "acquire", !.turn = c.turn + 1]
    BY <1>5 DEF GoesOn
  <2>2. c.turn + 1 \in 1 .. Len(c.judges)
    BY <1>1, <1>5 DEF LastTurn, Pairs
  <2> QED BY <1>1, <2>1, <2>2 DEF CallInv, IsCall, GoesTo, Steps
<1>6. CASE c.ok /\ LastTurn(c) /\ c.kind = "calibration"
  BY <1>3, <1>6 DEF GoesOn, GoesTo
<1>7. CASE c.ok /\ LastTurn(c) /\ c.kind = "grading"
  <2>1. CASE RowsAfter(c.of, c.row) = {}
    BY <1>3, <1>7, <2>1 DEF GoesOn, GoesTo
  <2>2. CASE RowsAfter(c.of, c.row) # {}
    <3>1. GoesOn(c) = [c EXCEPT !.at = "acquire", !.turn = 1,
                                !.row = Min(RowsAfter(c.of, c.row))]
      BY <1>7, <2>2 DEF GoesOn
    <3>2. 1 \in 1 .. Len(c.judges)
      BY <1>1 DEF Pairs
    <3> QED BY <1>1, <3>1, <3>2 DEF CallInv, IsCall, GoesTo, Steps
  <2> QED BY <2>1, <2>2
<1>8. CASE c.ok /\ LastTurn(c) /\ c.kind = "advisory"
  BY <1>3, <1>8 DEF GoesOn, GoesTo
<1>9. CASE c.ok /\ LastTurn(c) /\ c.kind = "preflight"
  BY <1>2, <1>9 DEF GoesOn, GoesTo
<1> QED
  BY <1>1, <1>4, <1>5, <1>6, <1>7, <1>8, <1>9 DEF Kinds

(* A step of p changes its own call, memory, table and environment, and    *)
(* takes or gives back the lock at most.                                   *)
Own(p) ==
  /\ call' = [q \in Procs |-> call'[q]]
  /\ \A q \in Procs \ {p} : call'[q] = call[q]
  /\ memory' = [memory EXCEPT ![p] = memory'[p]]
  /\ memory'[p] \subseteq {Gemma, Other}
  /\ registered' = [registered EXCEPT ![p] = registered'[p]]
  /\ registered'[p] \subseteq {Gemma, Other}
  /\ env' = [env EXCEPT ![p] = env'[p]]
  /\ env'[p] \in {"unset", "offline"}
  /\ saved' = [saved EXCEPT ![p] = saved'[p]]
  /\ saved'[p] \in {"unset", "offline", None}
  /\ \/ lock' = lock
     \/ lock = None /\ lock' = p
     \/ lock = p /\ lock' = None

(* Such a step keeps the invariant if it keeps it for p.                   *)
LEMMA OwnKeeps ==
  ASSUME IInv, NEW p \in Procs, Own(p), CallInv(call'[p]), ProcInv(p)'
  PROVE  IInv'
<1>1. Types
  BY DEF IInv
<1>2. Types'
  BY <1>1 DEF Types, Own
<1>3. Frame(p)
  BY <1>1, JudgingConstants DEF Types, Own, Frame
<1> QED BY <1>2, <1>3, FrameKeeps

(* A variable that is not touched is one that only p has changed.          *)
LEMMA Untouched ==
  ASSUME Types, NEW p \in Procs
  PROVE  /\ UNCHANGED memory =>
              /\ memory' = [memory EXCEPT ![p] = memory'[p]]
              /\ memory'[p] \subseteq {Gemma, Other}
         /\ UNCHANGED registered =>
              /\ registered' = [registered EXCEPT ![p] = registered'[p]]
              /\ registered'[p] \subseteq {Gemma, Other}
         /\ UNCHANGED env =>
              /\ env' = [env EXCEPT ![p] = env'[p]]
              /\ env'[p] \in {"unset", "offline"}
         /\ UNCHANGED saved =>
              /\ saved' = [saved EXCEPT ![p] = saved'[p]]
              /\ saved'[p] \in {"unset", "offline", None}
BY DEF Types

(* A process that is free makes a call.                                    *)
LEMMA BeginKeeps ==
  ASSUME IInv, NEW p \in Procs, NEW c, Begin(p, c), CallInv(c),
         c.at = "acquire"
  PROVE  IInv'
<1>1. Types /\ ProcInv(p)
  BY DEF IInv
<1>2. /\ call' = [q \in Procs |-> call'[q]] /\ call'[p] = c
      /\ \A q \in Procs \ {p} : call'[q] = call[q]
      /\ UNCHANGED <<memory, registered, lock, env, saved>>
  BY <1>1 DEF Begin, Types
<1>3. Own(p)
  BY <1>1, <1>2, Untouched DEF Own
<1>4. ProcInv(p)'
  BY <1>1, <1>2 DEF ProcInv, HasGemma, Holding, Begin, Free, Judge
<1> QED BY <1>2, <1>3, <1>4, OwnKeeps

(* A new call is one that is at its first judge.                           *)
LEMMA FreshIsCall ==
  ASSUME NEW id, NEW kind \in Kinds, NEW of, NEW judges \in Pairs
  PROVE  /\ CallInv(Fresh(id, kind, of, judges))
         /\ Fresh(id, kind, of, judges).at = "acquire"
BY DEF CallInv, IsCall, Fresh, Steps, Pairs

(* Every call begins with its first judge to acquire.                      *)
LEMMA CallsKeep ==
  ASSUME IInv, NEW p \in Procs,
         \/ \E b \in Benchmarks : RunGemmaAdvisory(p, b)
         \/ RunGemmaPreflight(p)
         \/ \E data \in Datasets, pair \in JudgePairs :
              CalibrateJudges(p, data, pair)
         \/ \E b \in Benchmarks, pair \in JudgePairs :
              JudgeBenchmark(p, b, pair)
  PROVE  IInv'
<1>1. ASSUME NEW b \in Benchmarks, RunGemmaAdvisory(p, b)
      PROVE  IInv'
  BY <1>1, FreshIsCall, BeginKeeps DEF RunGemmaAdvisory, Kinds, Pairs
<1>2. ASSUME RunGemmaPreflight(p)
      PROVE  IInv'
  BY <1>2, FreshIsCall, BeginKeeps DEF RunGemmaPreflight, Kinds, Pairs
<1>3. ASSUME NEW data \in Datasets, NEW pair \in JudgePairs,
             CalibrateJudges(p, data, pair)
      PROVE  IInv'
  BY <1>3, FreshIsCall, BeginKeeps
     DEF CalibrateJudges, Kinds, Pairs, JudgePairs
<1>4. ASSUME NEW b \in Benchmarks, NEW pair \in JudgePairs,
             JudgeBenchmark(p, b, pair)
      PROVE  IInv'
  <2> DEFINE f == Fresh(calls + 1, "grading", b, pair)
             r == Min(RowsAfter(b, 0))
             c == [f EXCEPT !.row = r]
  <2>1. CallInv(f) /\ f.at = "acquire"
    BY FreshIsCall DEF Kinds, Pairs, JudgePairs
  <2>2. Begin(p, c)
    BY <1>4 DEF JudgeBenchmark
  <2> HIDE DEF f, r
  <2>3. CallInv(c) /\ c.at = "acquire"
    BY <2>1 DEF CallInv, IsCall
  <2> HIDE DEF c
  <2> QED BY <2>2, <2>3, BeginKeeps
<1> QED BY <1>1, <1>2, <1>3, <1>4

(* A judge is acquired, or not.                                            *)
LEMMA AcquireKeeps ==
  ASSUME IInv, NEW p \in Procs,
         \/ Refused(p) \/ Lock(p) \/ Load(p) \/ LoadFails(p)
         \/ LoadOther(p) \/ LoadOtherFails(p)
  PROVE  IInv'
<1>1. Types /\ CallInv(call[p]) /\ ProcInv(p)
  BY DEF IInv
<1>2. ASSUME NEW v \in Steps \ {"idle"}, call[p].at # "idle",
             Go(p, v) \/ Fail(p, v)
      PROVE  /\ call' = [q \in Procs |-> call'[q]]
             /\ CallInv(call'[p]) /\ call'[p].at = v
             /\ Judge(p)' = Judge(p)
             /\ \A q \in Procs \ {p} : call'[q] = call[q]
  BY <1>1, <1>2, PlaceKeepsCall
<1>3. CASE Refused(p)
  <2>1. /\ call' = [q \in Procs |-> call'[q]]
        /\ CallInv(call'[p]) /\ call'[p].at = "failed"
        /\ Judge(p)' = Judge(p)
        /\ \A q \in Procs \ {p} : call'[q] = call[q]
    BY <1>2, <1>3 DEF Refused, Steps
  <2>2. Own(p)
    BY <1>1, <1>3, <2>1, Untouched DEF Refused, Own
  <2>3. ProcInv(p)'
    BY <1>1, <1>3, <2>1 DEF Refused, ProcInv, HasGemma, Holding
  <2> QED BY <2>1, <2>2, <2>3, OwnKeeps
<1>4. CASE Lock(p)
  <2>1. /\ call' = [q \in Procs |-> call'[q]]
        /\ CallInv(call'[p]) /\ call'[p].at = "loading"
        /\ Judge(p)' = Judge(p)
        /\ \A q \in Procs \ {p} : call'[q] = call[q]
    BY <1>2, <1>4 DEF Lock, Steps
  <2>2. /\ lock = None /\ lock' = p
        /\ saved' = [saved EXCEPT ![p] = env[p]] /\ saved'[p] = env[p]
        /\ env' = [env EXCEPT ![p] = "offline"] /\ env'[p] = "offline"
    BY <1>1, <1>4 DEF Lock, MayAcquire, LockFree, Types
  <2>3. Own(p)
    BY <1>1, <1>4, <2>1, <2>2, Untouched DEF Lock, Own, Types
  <2>4. ProcInv(p)'
    BY <1>1, <1>4, <2>1, <2>2 DEF Lock, ProcInv, HasGemma, Holding
  <2> QED BY <2>1, <2>3, <2>4, OwnKeeps
<1>5. CASE Load(p)
  <2>1. /\ call' = [q \in Procs |-> call'[q]]
        /\ CallInv(call'[p]) /\ call'[p].at = "judging"
        /\ Judge(p)' = Judge(p)
        /\ \A q \in Procs \ {p} : call'[q] = call[q]
    BY <1>2, <1>5 DEF Load, Steps
  <2>2. Judge(p) = Gemma /\ memory[p] = {} /\ registered[p] = {}
    BY <1>1, <1>5 DEF Load, ProcInv, Holding
  <2>3. /\ memory' = [memory EXCEPT ![p] = {Gemma}]
        /\ memory'[p] = {Gemma}
        /\ registered' = [registered EXCEPT ![p] = registered'[p]]
        /\ registered'[p] \in {{}, {Gemma}}
    BY <1>1, <1>5, <2>2 DEF Load, Registered, Types
  <2>4. Own(p)
    BY <1>1, <1>5, <2>1, <2>3, Untouched DEF Load, Own
  <2>5. ProcInv(p)'
    BY <1>1, <1>5, <2>1, <2>2, <2>3 DEF Load, ProcInv, HasGemma, Holding
  <2> QED BY <2>1, <2>4, <2>5, OwnKeeps
<1>6. CASE LoadFails(p)
  <2>1. /\ call' = [q \in Procs |-> call'[q]]
        /\ CallInv(call'[p]) /\ call'[p].at = "dropping"
        /\ Judge(p)' = Judge(p)
        /\ \A q \in Procs \ {p} : call'[q] = call[q]
    BY <1>2, <1>6 DEF LoadFails, Steps
  <2>2. Judge(p) = Gemma /\ memory[p] = {}
    BY <1>1, <1>6 DEF LoadFails, ProcInv
  <2>3. /\ memory' = [memory EXCEPT ![p] = memory'[p]]
        /\ memory'[p] \in {{}, {Gemma}}
    BY <1>1, <1>6, <2>2 DEF LoadFails, Types
  <2>4. Own(p)
    BY <1>1, <1>6, <2>1, <2>3, Untouched DEF LoadFails, Own
  <2>5. ProcInv(p)'
    BY <1>1, <1>6, <2>1, <2>2, <2>3
       DEF LoadFails, ProcInv, HasGemma, Holding
  <2> QED BY <2>1, <2>4, <2>5, OwnKeeps
<1>7. CASE LoadOther(p)
  <2>1. /\ call' = [q \in Procs |-> call'[q]]
        /\ CallInv(call'[p]) /\ call'[p].at = "judging"
        /\ Judge(p)' = Judge(p)
        /\ \A q \in Procs \ {p} : call'[q] = call[q]
    BY <1>2, <1>7 DEF LoadOther, Steps
  <2>2. Judge(p) = Other /\ memory[p] = {} /\ registered[p] = {}
    BY <1>1, <1>7
       DEF LoadOther, ProcInv, Holding, CallInv, Judge, Pairs
  <2>3. /\ memory' = [memory EXCEPT ![p] = {Other}]
        /\ memory'[p] = {Other}
        /\ registered' = [registered EXCEPT ![p] = registered'[p]]
        /\ registered'[p] \in {{}, {Other}}
    BY <1>1, <1>7, <2>2 DEF LoadOther, Registered, Types
  <2>4. Own(p)
    BY <1>1, <1>7, <2>1, <2>3, Untouched DEF LoadOther, Own
  <2>5. ProcInv(p)'
    BY <1>1, <1>7, <2>1, <2>2, <2>3
       DEF LoadOther, ProcInv, HasGemma, Holding
  <2> QED BY <2>1, <2>4, <2>5, OwnKeeps
<1>8. CASE LoadOtherFails(p)
  <2>1. /\ call' = [q \in Procs |-> call'[q]]
        /\ CallInv(call'[p]) /\ call'[p].at = "failed"
        /\ Judge(p)' = Judge(p)
        /\ \A q \in Procs \ {p} : call'[q] = call[q]
    BY <1>2, <1>8 DEF LoadOtherFails, Steps
  <2>2. Own(p)
    BY <1>1, <1>8, <2>1, Untouched DEF LoadOtherFails, Own
  <2>3. ProcInv(p)'
    BY <1>1, <1>8, <2>1 DEF LoadOtherFails, ProcInv, HasGemma, Holding
  <2> QED BY <2>1, <2>2, <2>3, OwnKeeps
<1> QED BY <1>3, <1>4, <1>5, <1>6, <1>7, <1>8

(* Verdicts change nothing but what the call has seen.                     *)
LEMMA VerdictsKeep ==
  ASSUME IInv, NEW p \in Procs, HaveJudged(p)
  PROVE  IInv'
<1>1. Types /\ CallInv(call[p]) /\ ProcInv(p)
  BY DEF IInv
<1>2. PICK answer \in Answers(call[p]) :
        call' = [call EXCEPT
          ![p].at = "dropping",
          ![p].seen[call[p].turn] =
            [x \in Items |-> IF x \in Batch(call[p]) THEN answer[x]
                             ELSE @[x]]]
  BY DEF HaveJudged
<1> DEFINE s == [call[p].seen EXCEPT ![call[p].turn] =
                   [x \in Items |-> IF x \in Batch(call[p]) THEN answer[x]
                                    ELSE @[x]]]
<1>3. call' = [call EXCEPT ![p] = [[call[p] EXCEPT !.at = "dropping"]
                                     EXCEPT !.seen = s]]
  BY <1>2
<1> HIDE DEF s
<1>4. /\ call' = [q \in Procs |-> call'[q]]
      /\ call'[p] = [[call[p] EXCEPT !.at = "dropping"] EXCEPT !.seen = s]
      /\ \A q \in Procs \ {p} : call'[q] = call[q]
  BY <1>1, <1>3 DEF Types
<1>5. /\ IsCall(call'[p])
      /\ call'[p].at = "dropping" /\ call'[p].ok = call[p].ok
      /\ call'[p].kind = call[p].kind
      /\ call'[p].judges = call[p].judges
      /\ call'[p].turn = call[p].turn
  BY <1>1, <1>4 DEF CallInv, IsCall
<1>6. CallInv(call'[p]) /\ Judge(p)' = Judge(p)
  BY <1>1, <1>5 DEF CallInv, HaveJudged, Steps, Judge
<1>7. Own(p)
  BY <1>1, <1>4, Untouched DEF HaveJudged, Own
<1>8. ProcInv(p)'
  BY <1>1, <1>5, <1>6 DEF HaveJudged, ProcInv, HasGemma, Holding
<1> QED BY <1>6, <1>7, <1>8, OwnKeeps

(* A judge is dropped, and what goes with it.                              *)
LEMMA ReleaseKeeps ==
  ASSUME IInv, NEW p \in Procs,
         \/ JudgeRaises(p) \/ Drop(p) \/ DropRaises(p)
         \/ RestoreEnvironment(p) \/ Unlock(p)
  PROVE  IInv'
<1>1. Types /\ CallInv(call[p]) /\ ProcInv(p)
  BY DEF IInv
<1>2. ASSUME NEW v \in Steps \ {"idle"}, call[p].at # "idle",
             Go(p, v) \/ Fail(p, v)
      PROVE  /\ call' = [q \in Procs |-> call'[q]]
             /\ CallInv(call'[p]) /\ call'[p].at = v
             /\ Judge(p)' = Judge(p)
             /\ \A q \in Procs \ {p} : call'[q] = call[q]
  BY <1>1, <1>2, PlaceKeepsCall
<1>3. CASE JudgeRaises(p)
  <2>1. /\ call' = [q \in Procs |-> call'[q]]
        /\ CallInv(call'[p]) /\ call'[p].at = "dropping"
        /\ Judge(p)' = Judge(p)
        /\ \A q \in Procs \ {p} : call'[q] = call[q]
    BY <1>2, <1>3 DEF JudgeRaises, Steps
  <2>2. Own(p)
    BY <1>1, <1>3, <2>1, Untouched DEF JudgeRaises, Own
  <2>3. ProcInv(p)'
    BY <1>1, <1>3, <2>1 DEF JudgeRaises, ProcInv, HasGemma, Holding
  <2> QED BY <2>1, <2>2, <2>3, OwnKeeps
<1>4. CASE Drop(p) \/ DropRaises(p)
  <2> DEFINE v == IF Judge(p) = Gemma THEN "restoring" ELSE "released"
  <2>1. v \in Steps \ {"idle"}
    BY DEF Steps
  <2>2. call[p].at = "dropping" /\ (Go(p, v) \/ Fail(p, v))
    BY <1>4 DEF Drop, DropRaises
  <2> HIDE DEF v
  <2>3. /\ call' = [q \in Procs |-> call'[q]]
        /\ CallInv(call'[p]) /\ call'[p].at = v
        /\ Judge(p)' = Judge(p)
        /\ \A q \in Procs \ {p} : call'[q] = call[q]
    BY <1>2, <2>1, <2>2
  <2>4. memory[p] \in {{}, {Judge(p)}}
    BY <1>1 DEF ProcInv
  <2>5. /\ memory' = [memory EXCEPT ![p] = {}] /\ memory'[p] = {}
        /\ UNCHANGED <<registered, lock, env, saved>>
    BY <1>1, <1>4, <2>4 DEF Drop, DropRaises, Types
  <2>6. Own(p)
    BY <1>1, <2>3, <2>5, Untouched DEF Own
  <2>7. ProcInv(p)'
    BY <1>1, <2>2, <2>3, <2>5 DEF ProcInv, HasGemma, Holding, v
  <2> QED BY <2>3, <2>6, <2>7, OwnKeeps
<1>5. CASE RestoreEnvironment(p)
  <2>1. /\ call' = [q \in Procs |-> call'[q]]
        /\ CallInv(call'[p]) /\ call'[p].at = "unlocking"
        /\ Judge(p)' = Judge(p)
        /\ \A q \in Procs \ {p} : call'[q] = call[q]
    BY <1>2, <1>5 DEF RestoreEnvironment, Steps
  <2>2. Judge(p) = Gemma /\ saved[p] = Home[p]
    BY <1>1, <1>5 DEF RestoreEnvironment, ProcInv, HasGemma, Holding
  <2>3. /\ env' = [env EXCEPT ![p] = Home[p]] /\ env'[p] = Home[p]
        /\ saved' = [saved EXCEPT ![p] = None] /\ saved'[p] = None
    BY <1>1, <1>5, <2>2 DEF RestoreEnvironment, Types
  <2>4. Own(p)
    BY <1>1, <1>5, <2>1, <2>3, Untouched, JudgingConstants
       DEF RestoreEnvironment, Own
  <2>5. ProcInv(p)'
    BY <1>1, <1>5, <2>1, <2>2, <2>3
       DEF RestoreEnvironment, ProcInv, HasGemma, Holding
  <2> QED BY <2>1, <2>4, <2>5, OwnKeeps
<1>6. CASE Unlock(p)
  <2>1. /\ call' = [q \in Procs |-> call'[q]]
        /\ CallInv(call'[p]) /\ call'[p].at = "released"
        /\ Judge(p)' = Judge(p)
        /\ \A q \in Procs \ {p} : call'[q] = call[q]
    BY <1>2, <1>6 DEF Unlock, Steps
  <2>2. lock = p /\ lock' = None /\ p # None
    BY <1>1, <1>6, JudgingConstants DEF Unlock, ProcInv, HasGemma, Holding
  <2>3. Own(p)
    BY <1>1, <1>6, <2>1, <2>2, Untouched DEF Unlock, Own
  <2>4. ProcInv(p)'
    BY <1>1, <1>6, <2>1, <2>2 DEF Unlock, ProcInv, HasGemma, Holding
  <2> QED BY <2>1, <2>3, <2>4, OwnKeeps
<1> QED BY <1>3, <1>4, <1>5, <1>6

(* The next judge, row or file comes when the last judge is gone.          *)
LEMMA ReleasedKeeps ==
  ASSUME IInv, NEW p \in Procs, Released(p)
  PROVE  IInv'
<1>1. Types /\ CallInv(call[p]) /\ ProcInv(p)
  BY DEF IInv
<1>2. /\ call' = [q \in Procs |-> call'[q]]
      /\ call'[p] = GoesOn(call[p])
      /\ \A q \in Procs \ {p} : call'[q] = call[q]
  BY <1>1 DEF Released, Types
<1>3. CallInv(call'[p]) /\ call'[p].at \in GoesTo
  BY <1>1, <1>2, GoesOnIsCall DEF Released
<1>4. registered[p] \in {{}, {Judge(p)}}
  BY <1>1 DEF ProcInv
<1>5. registered' = [registered EXCEPT ![p] = {}] /\ registered'[p] = {}
  BY <1>1, <1>4 DEF Released, Types
<1>6. Own(p)
  BY <1>1, <1>2, <1>5, Untouched DEF Released, Own
<1>7. ProcInv(p)'
  BY <1>1, <1>3, <1>5 DEF Released, ProcInv, HasGemma, Holding, GoesTo
<1> QED BY <1>3, <1>6, <1>7, OwnKeeps

(* Files are written by processes without a judge.                         *)
LEMMA FilesKeep ==
  ASSUME IInv, NEW p \in Procs,
         \/ CheckAdvisory(p) \/ WriteJson(p) \/ WriteMarkdown(p)
         \/ WritePreflight(p)
  PROVE  IInv'
<1>1. Types /\ CallInv(call[p]) /\ ProcInv(p)
  BY DEF IInv
<1> DEFINE Places == {"writing", "failed", "half_written", "ended"}
<1>2. /\ call[p].at \in {"checking", "writing", "half_written"}
      /\ \E v \in Places : Go(p, v) \/ Fail(p, v)
      /\ UNCHANGED <<memory, registered, lock, env, saved>>
  <2>1. CASE CheckAdvisory(p)
    BY <2>1 DEF CheckAdvisory
  <2>2. CASE WriteJson(p)
    BY <2>2 DEF WriteJson
  <2>3. CASE WriteMarkdown(p)
    BY <2>3 DEF WriteMarkdown
  <2>4. CASE WritePreflight(p)
    BY <2>4 DEF WritePreflight
  <2> QED BY <2>1, <2>2, <2>3, <2>4
<1>3. PICK v \in Places : Go(p, v) \/ Fail(p, v)
  BY <1>2
<1>4. v \in Steps \ {"idle"}
  BY DEF Steps
<1>5. /\ call' = [q \in Procs |-> call'[q]]
      /\ CallInv(call'[p]) /\ call'[p].at = v
      /\ Judge(p)' = Judge(p)
      /\ \A q \in Procs \ {p} : call'[q] = call[q]
  BY <1>1, <1>2, <1>3, <1>4, PlaceKeepsCall
<1>6. Own(p)
  BY <1>1, <1>2, <1>5, Untouched DEF Own
<1>7. ProcInv(p)'
  BY <1>1, <1>2, <1>5 DEF ProcInv, HasGemma, Holding
<1> QED BY <1>5, <1>6, <1>7, OwnKeeps

(* A process that has made no call.                                        *)
LEMMA NoCallIsCall == CallInv(NoCall) /\ NoCall.at = "idle"
<1>1. NoCall = [id |-> 0, kind |-> None, of |-> None, judges |-> <<>>,
                at |-> "idle", turn |-> 1, row |-> 0, seen |-> Unjudged,
                ok |-> TRUE, says |-> None]
  <2> DEFINE f == Fresh(0, None, None, <<>>)
  <2>1. NoCall = [f EXCEPT !.at = "idle"]
    BY DEF NoCall
  <2>2. f = [id |-> 0, kind |-> None, of |-> None, judges |-> <<>>,
             at |-> "acquire", turn |-> 1, row |-> 0, seen |-> Unjudged,
             ok |-> TRUE, says |-> None]
    BY DEF Fresh
  <2> HIDE DEF f
  <2> QED BY <2>1, <2>2
<1> QED BY <1>1 DEF CallInv, IsCall, Steps

(* Whoever dies leaves nothing to anyone.                                  *)
LEMMA ExitKeeps ==
  ASSUME IInv, NEW p \in Procs, Exit(p)
  PROVE  IInv'
<1>1. Types /\ ProcInv(p)
  BY DEF IInv
<1>2. /\ call' = [q \in Procs |-> call'[q]]
      /\ call'[p] = NoCall
      /\ \A q \in Procs \ {p} : call'[q] = call[q]
  BY <1>1 DEF Exit, Types
<1>3. CallInv(call'[p]) /\ call'[p].at = "idle"
  BY <1>2, NoCallIsCall
<1>4. /\ memory' = [memory EXCEPT ![p] = {}] /\ memory'[p] = {}
      /\ registered' = [registered EXCEPT ![p] = {}] /\ registered'[p] = {}
      /\ env' = [env EXCEPT ![p] = Home[p]] /\ env'[p] = Home[p]
      /\ saved' = [saved EXCEPT ![p] = None] /\ saved'[p] = None
      /\ lock' = (IF lock = p THEN None ELSE lock)
  BY <1>1 DEF Exit, Types
<1>5. Own(p)
  BY <1>2, <1>4, JudgingConstants DEF Own
<1>6. ProcInv(p)'
  BY <1>3, <1>4, JudgingConstants DEF ProcInv, HasGemma, Holding
<1> QED BY <1>3, <1>5, <1>6, OwnKeeps

(* No process has made a call.                                             *)
LEMMA InitHolds == Init => IInv
<1> SUFFICES ASSUME Init PROVE IInv
  OBVIOUS
<1>1. Types
  BY JudgingConstants DEF Init, Types
<1>2. ASSUME NEW p \in Procs
      PROVE  CallInv(call[p]) /\ ProcInv(p)
  <2>1. call[p] = NoCall
    BY DEF Init
  <2>2. lock # p
    BY JudgingConstants DEF Init
  <2> QED
    BY <2>1, <2>2, NoCallIsCall DEF Init, ProcInv, HasGemma, Holding
<1> QED BY <1>1, <1>2 DEF IInv

(* Every step keeps the invariant.                                         *)
LEMMA NextKeeps == IInv /\ [Next]_vars => IInv'
<1> SUFFICES ASSUME IInv, [Next]_vars PROVE IInv'
  OBVIOUS
<1>1. CASE UNCHANGED vars
  BY <1>1 DEF vars, files, IInv, Types, CallInv, ProcInv, HasGemma, Judge
<1>2. ASSUME NEW p \in Procs,
             \/ \E b \in Benchmarks : RunGemmaAdvisory(p, b)
             \/ RunGemmaPreflight(p)
             \/ \E data \in Datasets, pair \in JudgePairs :
                  CalibrateJudges(p, data, pair)
             \/ \E b \in Benchmarks, pair \in JudgePairs :
                  JudgeBenchmark(p, b, pair)
      PROVE  IInv'
  BY <1>2, CallsKeep
<1>3. ASSUME NEW p \in Procs,
             \/ Refused(p) \/ Lock(p) \/ Load(p) \/ LoadFails(p)
             \/ LoadOther(p) \/ LoadOtherFails(p)
      PROVE  IInv'
  BY <1>3, AcquireKeeps
<1>4. ASSUME NEW p \in Procs, HaveJudged(p)
      PROVE  IInv'
  BY <1>4, VerdictsKeep
<1>5. ASSUME NEW p \in Procs,
             \/ JudgeRaises(p) \/ Drop(p) \/ DropRaises(p)
             \/ RestoreEnvironment(p) \/ Unlock(p)
      PROVE  IInv'
  BY <1>5, ReleaseKeeps
<1>6. ASSUME NEW p \in Procs, Released(p)
      PROVE  IInv'
  BY <1>6, ReleasedKeeps
<1>7. ASSUME NEW p \in Procs,
             \/ CheckAdvisory(p) \/ WriteJson(p) \/ WriteMarkdown(p)
             \/ WritePreflight(p)
      PROVE  IInv'
  BY <1>7, FilesKeep
<1>8. ASSUME NEW p \in Procs, Exit(p)
      PROVE  IInv'
  BY <1>8, ExitKeeps
<1> QED
  BY <1>1, <1>2, <1>3, <1>4, <1>5, <1>6, <1>7, <1>8 DEF Next

(* The inductive invariant.                                                *)
THEOREM JudgingInvariant == Spec => []IInv
BY InitHolds, NextKeeps, PTL DEF Spec

-----------------------------------------------------------------------------
(* One process has the lock, and what is in memory is the judge it is at.  *)
LEMMA OneJudgeFollows == IInv => OneJudge
<1> SUFFICES ASSUME IInv, NEW p \in Procs
             PROVE  /\ Cardinality(memory[p]) <= 1
                    /\ Gemma \in memory[p] =>
                         /\ env[p] = "offline"
                         /\ \A q \in Procs \ {p} : Gemma \notin memory[q]
  BY DEF OneJudge
<1>1. \A q \in Procs : ProcInv(q)
  BY DEF IInv
<1>2. memory[p] = {} \/ memory[p] = {Judge(p)}
  BY <1>1 DEF ProcInv
<1>3. Cardinality(memory[p]) <= 1
  <2>1. Cardinality({}) = 0 /\ Cardinality({Judge(p)}) = 1
    BY FS_EmptySet, FS_Singleton
  <2> QED BY <1>2, <2>1
<1>4. \A q \in Procs :
        Gemma \in memory[q] =>
          /\ HasGemma(q) /\ call[q].at # "unlocking" /\ lock = q
  BY <1>1 DEF ProcInv, HasGemma, Holding
<1>5. ASSUME Gemma \in memory[p]
      PROVE  /\ env[p] = "offline"
             /\ \A q \in Procs \ {p} : Gemma \notin memory[q]
  BY <1>1, <1>4, <1>5 DEF ProcInv
<1> QED BY <1>3, <1>5

(* A free process is at no judge.                                          *)
LEMMA NothingLeftFollows == IInv => NothingLeft
BY DEF IInv, ProcInv, NothingLeft, Free, HasGemma, Holding

(* Judges never overlap in memory, and Gemma is alone and offline.         *)
THEOREM OneJudgeHolds == Spec => []OneJudge
BY JudgingInvariant, OneJudgeFollows, PTL

(* A call that has ended leaves its process as it found it.                *)
THEOREM NothingLeftHolds == Spec => []NothingLeft
BY JudgingInvariant, NothingLeftFollows, PTL

-----------------------------------------------------------------------------
(* A slot that is no hard failure is one the answer says, to the precision *)
(* it has, and nothing that the slot forbids is in the answer.             *)
LEMMA SlotInPlace ==
  ASSUME NEW slot \in Slot, NEW slots, NEW answer,
         GradeSlot(slot, slots, answer) # "hard_fail"
  PROVE  /\ slot.expected # None => SaysIt(slot, answer)
         /\ \A t \in slot.forbidden :
              NormalForm[slot.type, t] \notin Extracted(slot.type, answer)
<1> DEFINE wanted == Expected(slot)
<1>1. ~Malformed(slot) /\ ~ForbiddenPresent(slot, answer)
  BY DEF GradeSlot
<1>2. wanted # None =>
        Presence(slot.type, wanted, answer) \notin {"conflict", "absent"}
  BY <1>1 DEF GradeSlot
<1>3. ASSUME slot.expected # None
      PROVE  SaysIt(slot, answer)
  <2>1. wanted # None /\ wanted = NormalForm[slot.type, slot.expected]
    BY <1>1, <1>3 DEF Malformed, Expected
  <2>2. \/ "match" \in Relations(slot.type, wanted, answer)
        \/ "partial" \in Relations(slot.type, wanted, answer)
    BY <1>2, <2>1 DEF Presence
  <2>3. CASE slot.type = "date"
    <3>1. PICK d \in answer.dates :
            DateRelation(wanted, d) \in {"match", "partial"}
      BY <2>2, <2>3 DEF Relations
    <3>2. /\ d.month = wanted.month
          /\ wanted.year = None \/ d.year \in {None, wanted.year}
          /\ None \in {wanted.day, d.day} \/ d.day = wanted.day
      BY <3>1 DEF DateRelation
    <3> QED BY <2>1, <2>3, <3>2 DEF SaysIt
  <2>4. CASE slot.type = "time"
    <3>1. PICK u \in answer.times :
            TimeRelation(wanted, u) \in {"match", "partial"}
      BY <2>2, <2>4 DEF Relations
    <3>2. /\ u.minutes = wanted.minutes
          /\ None \in {wanted.zone, u.zone} \/ u.zone = wanted.zone
      BY <3>1 DEF TimeRelation
    <3> QED BY <2>1, <2>4, <3>2 DEF SaysIt
  <2>5. CASE slot.type \notin {"date", "time"}
    <3>1. wanted \in Extracted(slot.type, answer)
      BY <2>2, <2>5 DEF Relations
    <3> QED BY <2>1, <2>5, <3>1 DEF SaysIt
  <2> QED BY <2>3, <2>4, <2>5
<1>4. ASSUME NEW t \in slot.forbidden
      PROVE  NormalForm[slot.type, t] \notin Extracted(slot.type, answer)
  BY <1>1 DEF ForbiddenPresent, Forbidden
<1> QED BY <1>3, <1>4

(* What deterministic grading leaves to the judges has no certain failure, *)
(* whatever the question, its normal forms and the answer.                 *)
THEOREM ReviewedMeansInPlace ==
  \A row \in Row : GradeRow(row) = "review" => InPlace(row)
<1> SUFFICES ASSUME NEW row \in Row, GradeRow(row) = "review"
             PROVE  InPlace(row)
  OBVIOUS
<1> DEFINE slots == row.question.slots
<1>1. /\ Generated(row)
      /\ StrictStatus(slots, row.answer) # "hard_fail"
      /\ ~ProvenanceHardFail(row)
  BY DEF GradeRow
<1>2. slots \subseteq Slot
  BY DEF Row, Question
<1>3. \A slot \in slots : GradeSlot(slot, slots, row.answer) # "hard_fail"
  BY <1>1 DEF StrictStatus
<1>4. \A slot \in slots :
        /\ slot.expected # None => SaysIt(slot, row.answer)
        /\ \A t \in slot.forbidden :
             NormalForm[slot.type, t] \notin Extracted(slot.type, row.answer)
  BY <1>2, <1>3, SlotInPlace
<1>5. /\ row.answer.citations \subseteq row.supplied \cup row.permitted
      /\ row.answer.claims_retrieval => row.supplied # {}
  BY <1>1 DEF ProvenanceHardFail, Hallucinated
<1> QED BY <1>1, <1>4, <1>5 DEF InPlace

(* A slot that the answer says, and of which it says nothing forbidden, is *)
(* no hard failure.                                                        *)
LEMMA SaidIsNoFailure ==
  ASSUME NEW slot \in Slot, NEW slots, NEW answer,
         ~Malformed(slot),
         slot.type = "provenance" /\ Forbidden(slot) \cap Citation # {}
           => answer.citations = {},
         slot.expected # None => SaysIt(slot, answer),
         \A t \in slot.forbidden :
           NormalForm[slot.type, t] \notin Extracted(slot.type, answer)
  PROVE  GradeSlot(slot, slots, answer) # "hard_fail"
<1> DEFINE wanted == Expected(slot)
<1>1. ~ForbiddenPresent(slot, answer)
  BY DEF ForbiddenPresent, Forbidden
<1>2. ASSUME wanted # None
      PROVE  Presence(slot.type, wanted, answer) \in {"match", "partial"}
  <2>1. /\ SaysIt(slot, answer)
        /\ wanted = NormalForm[slot.type, slot.expected]
    BY <1>2 DEF Expected
  <2>2. CASE slot.type = "date"
    <3>1. PICK d \in answer.dates :
            /\ d.month = wanted.month
            /\ wanted.year = None \/ d.year \in {None, wanted.year}
            /\ None \in {wanted.day, d.day} \/ d.day = wanted.day
      BY <2>1, <2>2 DEF SaysIt
    <3>2. DateRelation(wanted, d) \in {"match", "partial"}
      BY <3>1 DEF DateRelation
    <3>3. DateRelation(wanted, d) \in Relations(slot.type, wanted, answer)
      BY <2>2 DEF Relations
    <3> QED BY <3>2, <3>3 DEF Presence
  <2>3. CASE slot.type = "time"
    <3>1. PICK u \in answer.times :
            /\ u.minutes = wanted.minutes
            /\ None \in {wanted.zone, u.zone} \/ u.zone = wanted.zone
      BY <2>1, <2>3 DEF SaysIt
    <3>2. TimeRelation(wanted, u) \in {"match", "partial"}
      BY <3>1 DEF TimeRelation
    <3>3. TimeRelation(wanted, u) \in Relations(slot.type, wanted, answer)
      BY <2>3 DEF Relations
    <3> QED BY <3>2, <3>3 DEF Presence
  <2>4. CASE slot.type \notin {"date", "time"}
    <3>1. wanted \in Extracted(slot.type, answer)
      BY <2>1, <2>4 DEF SaysIt
    <3>2. "match" \in Relations(slot.type, wanted, answer)
      BY <2>4, <3>1 DEF Relations
    <3> QED BY <3>2 DEF Presence
  <2> QED BY <2>2, <2>3, <2>4
<1> QED BY <1>1, <1>2 DEF GradeSlot

(* Deterministic grading keeps no answer in place from the judges, but for *)
(* two reasons that lie in the question: a slot whose declared texts have  *)
(* no normal form, and a slot that forbids one citation and thereby all.   *)
THEOREM InPlaceMeansReviewed ==
  ASSUME NEW row \in Row,
         \A slot \in row.question.slots :
           /\ ~Malformed(slot)
           /\ slot.type = "provenance" /\ Forbidden(slot) \cap Citation # {}
                => row.answer.citations = {}
  PROVE  InPlace(row) => GradeRow(row) = "review"
<1> SUFFICES ASSUME InPlace(row) PROVE GradeRow(row) = "review"
  OBVIOUS
<1> DEFINE slots == row.question.slots
<1>1. slots \subseteq Slot /\ row.supplied \cup row.permitted \subseteq Records
  BY DEF Row, Question
<1>2. \A slot \in slots : GradeSlot(slot, slots, row.answer) # "hard_fail"
  BY <1>1, SaidIsNoFailure DEF InPlace
<1>3. StrictStatus(slots, row.answer) # "hard_fail"
  BY <1>2 DEF StrictStatus
<1>4. ~ProvenanceHardFail(row)
  BY <1>1, GradingConstants DEF InPlace, ProvenanceHardFail, Hallucinated
<1> QED BY <1>3, <1>4 DEF GradeRow, InPlace

-----------------------------------------------------------------------------
(* Gates.                                                                  *)
(* A gate that tolerates no failure passes only if no row that it observes *)
(* fails, however the rows are grouped into units.                         *)
LEMMA ZeroToleranceMeansNone ==
  ASSUME NEW rows, IsFiniteSet(rows), NEW gate \in ZeroTolerance,
         GateStatus(gate, rows) = "pass"
  PROVE  \A row \in rows : Observed(gate, row) => Passed(gate, row)
<1> DEFINE seen == {row \in rows : Observed(gate, row)}
           bad == {row \in seen : ~Passed(gate, row)}
           failing == {Cluster(gate, row) : row \in bad}
<1>1. ~(Cardinality(failing) > 0)
  BY DEF GateStatus
<1>2. IsFiniteSet(failing)
  <2>1. IsFiniteSet(bad)
    BY FS_Subset
  <2> DEFINE cluster == [row \in bad |-> Cluster(gate, row)]
  <2>2. cluster \in Surjection(bad, failing)
    BY DEF Surjection
  <2> HIDE DEF cluster, failing, bad
  <2> QED BY <2>1, <2>2, FS_Surjection
<1>3. failing = {}
  BY <1>1, <1>2, FS_CardinalityType, FS_EmptySet
<1>4. bad = {}
  BY <1>3
<1> QED BY <1>4

(* An arm that passes the gates of the report that tolerate nothing has,   *)
(* in no answer that was generated, a citation of a record it was neither  *)
(* given nor allowed, and, in none that they look at, a superseded value:  *)
(* one bad row is never made up for by good ones of its unit.              *)
THEOREM PassedGatesAreClean ==
  ASSUME NEW rows \in SUBSET Row, IsFiniteSet(rows), NEW arm \in Arms,
         NEW row \in rows, row.arm = arm
  PROVE  /\ Gates(rows)[arm]["hallucinated_citation"] = "pass" /\ Generated(row)
              => row.answer.citations
                   \subseteq row.supplied \cup row.permitted \cup {None}
         /\ Gates(rows)[arm]["stale_current_answer"] = "pass" =>
              \A s \in Relevant(row.question) :
                Observed("stale_current_answer", row) /\ ~Malformed(s) =>
                  Forbidden(s) \cap Extracted(s.type, row.answer) = {}
<1> DEFINE own == {r \in rows : r.arm = arm}
<1>1. IsFiniteSet(own) /\ row \in own
  BY FS_Subset
<1>2. \A gate \in ZeroTolerance :
        Gates(rows)[arm][gate] = GateStatus(gate, own)
  BY DEF Gates, ZeroTolerance, GateNames
<1>3. \A gate \in ZeroTolerance :
        Gates(rows)[arm][gate] = "pass" /\ Observed(gate, row)
          => Passed(gate, row)
  <2> HIDE DEF own
  <2> QED BY <1>1, <1>2, ZeroToleranceMeansNone
<1>4. Generated(row) => Observed("hallucinated_citation", row)
  BY DEF Observed
<1>5. /\ Passed("hallucinated_citation", row) => Hallucinated(row) = {}
      /\ Passed("stale_current_answer", row) =>
           \A s \in Relevant(row.question) : ~ForbiddenPresent(s, row.answer)
  BY DEF Passed
<1>6. Hallucinated(row) = {} =>
        row.answer.citations \subseteq row.supplied \cup row.permitted \cup {None}
  BY DEF Hallucinated
<1>7. \A s : ~ForbiddenPresent(s, row.answer) =>
        \/ Forbidden(s) \cap Extracted(s.type, row.answer) = {}
        \/ Malformed(s)
  BY DEF ForbiddenPresent
<1> HIDE DEF own
<1>8. Gates(rows)[arm]["hallucinated_citation"] = "pass"
        /\ Observed("hallucinated_citation", row)
          => Passed("hallucinated_citation", row)
  BY <1>3 DEF ZeroTolerance
<1>9. Gates(rows)[arm]["stale_current_answer"] = "pass"
        /\ Observed("stale_current_answer", row)
          => Passed("stale_current_answer", row)
  BY <1>3 DEF ZeroTolerance
<1>10. ASSUME Gates(rows)[arm]["hallucinated_citation"] = "pass",
              Generated(row)
       PROVE  row.answer.citations
                \subseteq row.supplied \cup row.permitted \cup {None}
  <2>1. Passed("hallucinated_citation", row)
    BY <1>4, <1>8, <1>10
  <2> QED BY <1>5, <1>6, <2>1
<1>11. ASSUME Gates(rows)[arm]["stale_current_answer"] = "pass",
              Observed("stale_current_answer", row),
              NEW s \in Relevant(row.question), ~Malformed(s)
       PROVE  Forbidden(s) \cap Extracted(s.type, row.answer) = {}
  <2>1. Passed("stale_current_answer", row)
    BY <1>9, <1>11
  <2>2. ~ForbiddenPresent(s, row.answer)
    BY <1>5, <1>11, <2>1
  <2> QED BY <1>7, <1>11, <2>2
<1> QED BY <1>10, <1>11

-----------------------------------------------------------------------------
(* Results.                                                                *)
(* Where the judge of a call's turn has spoken, or failed, and is on its   *)
(* way out of memory, and where a call still has judging ahead.            *)
Done == {"dropping", "restoring", "unlocking", "released"}
Active == {"acquire", "loading", "judging"} \cup Done

(* The judge of turn t has judged the batch the call is at.                *)
Judged(c, t) == t < c.turn \/ (t = c.turn /\ c.ok /\ c.at \in Done)

(* What a call was made with fits its kind, and it is only where calls of  *)
(* its kind come.                                                          *)
KindInv(c) ==
  /\ c.kind \in Kinds /\ c.id >= 1
  /\ c.judges \in (IF c.kind \in Dual THEN JudgePairs ELSE {<<Gemma>>})
  /\ c.kind = "calibration" => c.of \in Datasets /\ Accepted(c.of)
  /\ c.kind \in {"grading", "advisory"} => c.of \in Benchmarks
  /\ c.kind = "grading" => c.row \in ReviewRows(c.of)
  /\ c.at \in {"checking", "half_written"} => c.kind = "advisory"
  /\ c.at = "writing" => c.kind \in {"advisory", "preflight"}

(* Who has judged has left a verdict on the whole batch.  A grading keeps  *)
(* hard failures from its judges, and has the verdicts of both on every    *)
(* row it has passed.                                                      *)
SeenInv(c) ==
  /\ \A t \in 1 .. 2 : Judged(c, t) =>
       \A x \in Batch(c) : c.seen[t][x] \in Verdicts
  /\ c.kind = "grading" =>
       \A x \in Rows, t \in 1 .. 2 :
         /\ Status[c.of][x] # "review" => c.seen[t][x] = None
         /\ Status[c.of][x] = "review" /\ x < c.row =>
              c.seen[t][x] \in Verdicts

WorkInv(c) ==
  /\ c.id \in 0 .. MaxCalls /\ c.kind \in Kinds \cup {None}
  /\ c.row \in Rows \cup {0} /\ c.turn \in 1 .. 2
  /\ c.seen \in [1 .. 2 -> [Items -> Verdicts \cup {None}]]
  /\ c.at # "idle" => KindInv(c) /\ SeenInv(c)
  /\ c.at \in Active \cup {"idle"} => c.says = None
  /\ CertificateIsEarned(c) /\ ScoresAreEarned(c)

(* The invariant of the calls' work, and the types of what is written.     *)
FileTypes ==
  /\ calls \in 0 .. MaxCalls
  /\ json \in [Benchmarks -> 1 .. MaxCalls \cup {None}]
  /\ md \in [Benchmarks -> 1 .. MaxCalls \cup {None}]
  /\ preflight \in 1 .. MaxCalls \cup {None}

ResultsInv == IInv /\ FileTypes /\ \A p \in Procs : WorkInv(call[p])

(* Rows are numbers, and some row of any is the first.                     *)
LEMMA FirstRow ==
  ASSUME NEW S, S \subseteq Rows, S # {}
  PROVE  Min(S) \in S /\ \A y \in S : Min(S) <= y
<1>1. S \subseteq Nat
  BY JudgingConstants
<1>2. PICK x \in S : \A y \in S : ~(<<y, x>> \in OpToRel(<, Nat))
  BY <1>1, NatLessThanWellFounded, WFMin
<1>3. ASSUME NEW y \in S
      PROVE  x <= y
  <2>1. x \in Nat /\ y \in Nat
    BY <1>1
  <2>2. ~(y < x)
    BY <1>2, <2>1 DEF OpToRel
  <2> QED BY <2>1, <2>2
<1> QED BY <1>3 DEF Min

(* A call that is somewhere else, or has failed.                           *)
Moved(c, v, ok) ==
  [id |-> c.id, kind |-> c.kind, of |-> c.of, judges |-> c.judges,
   at |-> v, turn |-> c.turn, row |-> c.row, seen |-> c.seen, ok |-> ok,
   says |-> c.says]

(* One update after the other.                                             *)
LEMMA MovedIs ==
  ASSUME NEW c, NEW v, NEW ok, IsCall(c)
  PROVE  [[c EXCEPT !.at = v] EXCEPT !.ok = ok] = Moved(c, v, ok)
<1> DEFINE d == [c EXCEPT !.at = v]
<1>1. d = Moved(c, v, c.ok)
  BY DEF IsCall, Moved
<1> HIDE DEF d
<1>2. [d EXCEPT !.ok = ok] = Moved(c, v, ok)
  BY <1>1 DEF Moved
<1> QED BY <1>2 DEF d

(* Go and Fail move a call.                                                *)
LEMMA Moves ==
  ASSUME NEW p \in Procs, NEW v, Types, IsCall(call[p])
  PROVE  /\ Go(p, v) => call'[p] = Moved(call[p], v, call[p].ok)
         /\ Fail(p, v) => call'[p] = Moved(call[p], v, FALSE)
         /\ Go(p, v) \/ Fail(p, v) =>
              \A q \in Procs \ {p} : call'[q] = call[q]
<1>1. call = [q \in Procs |-> call[q]]
  BY DEF Types
<1>2. ASSUME Go(p, v)
      PROVE  /\ call'[p] = Moved(call[p], v, call[p].ok)
             /\ \A q \in Procs \ {p} : call'[q] = call[q]
  <2>1. /\ call'[p] = [call[p] EXCEPT !.at = v]
        /\ \A q \in Procs \ {p} : call'[q] = call[q]
    BY <1>1, <1>2 DEF Go
  <2> QED BY <2>1 DEF IsCall, Moved
<1>3. ASSUME Fail(p, v)
      PROVE  /\ call'[p] = Moved(call[p], v, FALSE)
             /\ \A q \in Procs \ {p} : call'[q] = call[q]
  <2> DEFINE no == FALSE
             c == call[p]
  <2>1. /\ call'[p] = [[call[p] EXCEPT !.at = v] EXCEPT !.ok = no]
        /\ \A q \in Procs \ {p} : call'[q] = call[q]
    BY <1>1, <1>3 DEF Fail
  <2>2. IsCall(c)
    OBVIOUS
  <2> HIDE DEF no, c
  <2>3. [[c EXCEPT !.at = v] EXCEPT !.ok = no] = Moved(c, v, no)
    BY <2>2, MovedIs
  <2> QED BY <2>1, <2>3 DEF no, c
<1> QED BY <1>2, <1>3

(* What scores are earned by, of a call.                                   *)
EarnedScores(kind, of, judges, seen, says) ==
  ScoresAreEarned([kind |-> kind, of |-> of, judges |-> judges,
                   seen |-> seen, says |-> says])

(* Nothing else of a call matters.                                         *)
LEMMA ScoresOf ==
  ASSUME NEW c
  PROVE  ScoresAreEarned(c)
           <=> EarnedScores(c.kind, c.of, c.judges, c.seen, c.says)
<1> DEFINE d == [kind |-> c.kind, of |-> c.of, judges |-> c.judges,
                 seen |-> c.seen, says |-> c.says]
<1>1. /\ d.kind = c.kind /\ d.of = c.of /\ d.judges = c.judges
      /\ d.seen = c.seen /\ d.says = c.says
  OBVIOUS
<1>2. EarnedScores(c.kind, c.of, c.judges, c.seen, c.says)
        <=> ScoresAreEarned(d)
  BY DEF EarnedScores
<1> HIDE DEF d
<1>3. ScoresAreEarned(c) <=> ScoresAreEarned(d)
  BY <1>1, SMTT(60) DEF ScoresAreEarned
<1> QED BY <1>2, <1>3

(* A call that goes to a place of its kind keeps what it has, unless it    *)
(* claims more work than it has done.                                      *)
LEMMA MovedKeeps ==
  ASSUME NEW c, NEW v \in Steps \ {"idle"}, NEW ok \in {c.ok, FALSE},
         WorkInv(c), c.at # "idle",
         v \in Active => c.at \in Active,
         ok /\ v \in Done => c.at \in Done,
         v = "ended" => c.kind # "calibration",
         v \in {"checking", "half_written"} => c.kind = "advisory",
         v = "writing" => c.kind \in {"advisory", "preflight"}
  PROVE  WorkInv(Moved(c, v, ok))
<1> DEFINE d == Moved(c, v, ok)
<1>1. /\ d.id = c.id /\ d.kind = c.kind /\ d.of = c.of
      /\ d.judges = c.judges /\ d.at = v /\ d.turn = c.turn
      /\ d.row = c.row /\ d.seen = c.seen /\ d.ok = ok
      /\ d.says = c.says
  BY DEF Moved
<1> HIDE DEF d
<1>2. KindInv(d)
  BY <1>1 DEF WorkInv, KindInv
<1>3. SeenInv(d)
  <2>1. \A t \in 1 .. 2 : Judged(d, t) => Judged(c, t)
    BY <1>1, Zenon DEF Judged
  <2>2. Batch(d) = Batch(c)
    BY <1>1 DEF Batch
  <2>3. SeenInv(c)
    BY DEF WorkInv
  <2> QED BY <1>1, <2>1, <2>2, <2>3 DEF SeenInv
<1>4. CertificateIsEarned(d)
  BY <1>1 DEF CertificateIsEarned
<1>5. ScoresAreEarned(d)
  <2>1. ScoresAreEarned(c)
    BY DEF WorkInv
  <2> QED BY <1>1, <2>1, ScoresOf
<1>6. d.at \in Active \cup {"idle"} => d.says = None
  BY <1>1 DEF WorkInv
<1> QED BY <1>1, <1>2, <1>3, <1>4, <1>5, <1>6 DEF WorkInv, d

(* Rows are numbers.                                                       *)
LEMMA RowNumbers ==
  /\ \A r \in Rows : r \in Nat
  /\ \A r \in Rows \cup {0} : r \in Nat
<1>1. Rows \subseteq Nat
  BY JudgingConstants
<1> QED BY <1>1

(* A call at its first judge has done nothing yet, and claims nothing.     *)
LEMMA NewCallKeeps ==
  ASSUME NEW c, c.id \in 1 .. MaxCalls, c.row \in Rows \cup {0},
         c.turn = 1, c.seen = Unjudged, c.at = "acquire", c.says = None,
         KindInv(c),
         c.kind = "grading" => \A x \in ReviewRows(c.of) : c.row <= x
  PROVE  WorkInv(c)
<1>1. c.seen \in [1 .. 2 -> [Items -> Verdicts \cup {None}]]
  BY DEF Unjudged
<1>2. SeenInv(c)
  <2>1. \A t \in 1 .. 2 : ~Judged(c, t)
    BY DEF Judged, Done
  <2>2. ASSUME c.kind = "grading", NEW x \in Rows, NEW t \in 1 .. 2
        PROVE  /\ c.seen[t][x] = None
               /\ Status[c.of][x] = "review" => ~(x < c.row)
    <3>1. x \in Items
      BY DEF Items
    <3>2. c.seen[t][x] = None
      BY <3>1 DEF Unjudged
    <3>3. Status[c.of][x] = "review" => c.row <= x
      BY <2>2 DEF ReviewRows
    <3>4. x \in Nat /\ c.row \in Nat
      BY RowNumbers
    <3> QED BY <3>2, <3>3, <3>4
  <2> QED BY <2>1, <2>2 DEF SeenInv
<1>3. CertificateIsEarned(c) /\ ScoresAreEarned(c)
  BY DEF CertificateIsEarned, ScoresAreEarned
<1>4. c.id \in 0 .. MaxCalls /\ c.turn \in 1 .. 2
  BY JudgingConstants
<1> QED BY <1>1, <1>2, <1>3, <1>4 DEF WorkInv, KindInv, Active, Done

(* What a judge answers is a verdict on every item of the batch.           *)
LEMMA AnswersAreVerdicts ==
  ASSUME NEW c, KindInv(c), NEW answer \in Answers(c), NEW x \in Batch(c)
  PROVE  answer[x] \in Verdicts /\ x \in Items
<1>1. CASE c.kind = "calibration"
  <2>1. Batch(c) = Cases
    BY <1>1 DEF Batch
  <2>2. PICK D : \E g \in [D -> Verdicts] :
          answer = [y \in Cases |-> IF y \in D THEN g[y]
                                    ELSE c.of.labels[y].score]
    BY <1>1 DEF Answers
  <2>3. c.of.labels[x].score \in Scores
    <3>1. c.of \in Dataset /\ Accepted(c.of)
      BY <1>1, JudgingConstants DEF KindInv
    <3>2. c.of.labels[x] \in Label
      BY <2>1, <3>1 DEF Dataset
    <3>3. c.of.labels[x].score # None
      BY <2>1, <3>1 DEF Accepted
    <3> QED BY <3>2, <3>3 DEF Label
  <2>4. PICK g \in [D -> Verdicts] :
          answer = [y \in Cases |-> IF y \in D THEN g[y]
                                    ELSE c.of.labels[y].score]
    BY <2>2
  <2> QED BY <2>1, <2>3, <2>4 DEF Verdicts, Items
<1>2. CASE c.kind # "calibration"
  <2>1. x \in Rows \cup {0}
    BY <1>2 DEF KindInv, Kinds, Batch, ReviewRows, GeneratedRows
  <2>2. PICK opinion \in Opinions : answer = [y \in Batch(c) |-> opinion[y]]
    BY <1>2 DEF Answers
  <2>3. opinion[x] \in Verdicts
    BY <2>1, <2>2, JudgingConstants
  <2> QED BY <2>1, <2>2, <2>3 DEF Items
<1> QED BY <1>1, <1>2

(* A judge looks at its batch, and at nothing else.                        *)
LEMMA VerdictsAdded ==
  ASSUME NEW c, WorkInv(c), c.at = "judging", NEW answer \in Answers(c),
         NEW d, d.id = c.id, d.kind = c.kind, d.of = c.of,
         d.judges = c.judges, d.at = "dropping", d.turn = c.turn,
         d.row = c.row, d.ok = c.ok, d.says = c.says,
         d.seen = [c.seen EXCEPT ![c.turn] =
                     [x \in Items |-> IF x \in Batch(c) THEN answer[x]
                                      ELSE c.seen[c.turn][x]]]
  PROVE  WorkInv(d)
<1>1. KindInv(c) /\ SeenInv(c)
  BY DEF WorkInv
<1>2. \A x \in Batch(c) : answer[x] \in Verdicts /\ x \in Items
  BY <1>1, AnswersAreVerdicts
<1>3. /\ c.turn \in 1 .. 2
      /\ c.seen \in [1 .. 2 -> [Items -> Verdicts \cup {None}]]
  BY DEF WorkInv
<1>4. d.seen \in [1 .. 2 -> [Items -> Verdicts \cup {None}]]
  BY <1>2, <1>3
<1>5. ASSUME NEW t \in 1 .. 2, NEW x \in Items
      PROVE  d.seen[t][x] = IF t = c.turn /\ x \in Batch(c) THEN answer[x]
                            ELSE c.seen[t][x]
  BY <1>3
<1>6. SeenInv(d)
  <2>1. ASSUME NEW t \in 1 .. 2, Judged(d, t), NEW x \in Batch(d)
        PROVE  d.seen[t][x] \in Verdicts
    <3>1. x \in Batch(c)
      BY <2>1 DEF Batch
    <3>2. t = c.turn \/ Judged(c, t)
      BY <2>1 DEF Judged
    <3> QED BY <1>1, <1>2, <1>5, <3>1, <3>2 DEF SeenInv
  <2>2. ASSUME d.kind = "grading", NEW x \in Rows, NEW t \in 1 .. 2
        PROVE  /\ Status[d.of][x] # "review" => d.seen[t][x] = None
               /\ Status[d.of][x] = "review" /\ x < d.row =>
                    d.seen[t][x] \in Verdicts
    <3>1. x \in Items
      BY DEF Items
    <3>2. x \in Batch(c) => x = c.row /\ Status[c.of][x] = "review"
      BY <1>1, <2>2 DEF Batch, KindInv, ReviewRows
    <3> QED BY <1>1, <1>2, <1>5, <2>2, <3>1, <3>2 DEF SeenInv
  <2> QED BY <2>1, <2>2 DEF SeenInv
<1>7. KindInv(d)
  BY <1>1 DEF KindInv
<1>8. CertificateIsEarned(d) /\ ScoresAreEarned(d) /\ d.says = None
  BY DEF WorkInv, Active, CertificateIsEarned, ScoresAreEarned
<1> QED BY <1>4, <1>6, <1>7, <1>8 DEF WorkInv

-----------------------------------------------------------------------------
(* Certificates.                                                           *)
(* The families of some cases are finitely many, and none only of none.    *)
LEMMA FamiliesOf ==
  ASSUME NEW S, S \subseteq Cases
  PROVE  /\ IsFiniteSet(Families(S)) /\ Cardinality(Families(S)) \in Nat
         /\ Families(S) = {} => S = {}
         /\ Families(S) = {} <=> Cardinality(Families(S)) = 0
<1>1. IsFiniteSet(S)
  BY CaseConstants, FS_Subset
<1> DEFINE f == [c \in S |-> FamilyOf[c]]
           F == Families(S)
<1>2. f \in Surjection(S, F)
  BY DEF Surjection, Families
<1> HIDE DEF f
<1>3. IsFiniteSet(F)
  BY <1>1, <1>2, FS_Surjection
<1>4. F = {} => S = {}
  BY DEF Families
<1> HIDE DEF F
<1>5. Cardinality(F) \in Nat /\ (F = {} <=> Cardinality(F) = 0)
  BY <1>3, FS_CardinalityType, FS_EmptySet
<1> QED BY <1>3, <1>4, <1>5 DEF F

(* At most nothing of it is nothing, and at least a part of it is          *)
(* something.                                                              *)
LEMMA AtMostNothing ==
  ASSUME NEW n \in Nat, NEW of \in Nat, AtMost(n, of, 0)
  PROVE  n = 0
BY DEF AtMost

LEMMA AtLeastSomething ==
  ASSUME NEW n \in Nat, NEW of \in Nat, NEW percent \in Nat \ {0},
         AtLeast(n, of, percent)
  PROVE  n # 0
<1>1. of > 0 /\ 100 * n >= percent * of
  BY DEF AtLeast
<1>2. percent * of > 0
  BY <1>1
<1> QED BY <1>1, <1>2

(* Who passes the thresholds gave no incorrect answer full marks, where    *)
(* none is tolerated, and agreed with the reviewers on a whole family.     *)
LEMMA PassesMeans ==
  ASSUME NEW human, NEW verdict,
         PassesThresholds(Cases \ Audit, human, verdict)
  PROVE  /\ MaxIncorrect = 0 =>
              \A x \in Cases \ Audit : human[x] = 0 => verdict[x] # 2
         /\ MinAgreement > 0 =>
              \E x \in Cases \ Audit :
                \A y \in Cases \ Audit :
                  FamilyOf[y] = FamilyOf[x] => verdict[y] = human[y]
<1> DEFINE cases == Cases \ Audit
           wrong == {c \in cases : human[c] = 0 /\ verdict[c] = 2}
           asked == {c \in Parsed(cases, verdict) : human[c] = 0}
           differ == {c \in cases : verdict[c] # human[c]}
           exact == Families(cases) \ Families(differ)
<1>1. /\ AtLeast(Cardinality(exact), Cardinality(Families(cases)),
                 MinAgreement)
      /\ AtMost(Cardinality(Families(wrong)), Cardinality(Families(asked)),
                MaxIncorrect)
  BY DEF PassesThresholds, ExactFamilies, IncorrectToPassFamilies,
         IncorrectFamilies
<1>2. /\ cases \subseteq Cases /\ wrong \subseteq Cases
      /\ asked \subseteq Cases /\ differ \subseteq Cases
  BY DEF Parsed
<1>3. ASSUME MaxIncorrect = 0
      PROVE  \A x \in cases : human[x] = 0 => verdict[x] # 2
  <2> HIDE DEF wrong, asked
  <2>1. Cardinality(Families(wrong)) = 0
    BY <1>1, <1>2, <1>3, FamiliesOf, AtMostNothing
  <2>2. wrong = {}
    BY <1>2, <2>1, FamiliesOf
  <2> QED BY <2>2 DEF wrong
<1>4. ASSUME MinAgreement > 0
      PROVE  \E x \in cases : \A y \in cases :
               FamilyOf[y] = FamilyOf[x] => verdict[y] = human[y]
  <2> HIDE DEF cases, differ
  <2>1. MinAgreement \in Nat \ {0}
    BY <1>4, CaseConstants
  <2>2. IsFiniteSet(exact)
    BY <1>2, FamiliesOf, FS_Subset
  <2>3. Cardinality(exact) \in Nat /\ Cardinality(Families(cases)) \in Nat
    BY <1>2, <2>2, FamiliesOf, FS_CardinalityType
  <2> HIDE DEF exact
  <2>4. Cardinality(exact) # 0
    BY <1>1, <2>1, <2>3, AtLeastSomething
  <2>5. exact # {}
    BY <2>4, FS_EmptySet
  <2>6. PICK x \in cases : FamilyOf[x] \notin Families(differ)
    BY <2>5 DEF exact, Families
  <2>7. ASSUME NEW y \in cases, FamilyOf[y] = FamilyOf[x]
        PROVE  verdict[y] = human[y]
    BY <2>6, <2>7 DEF Families, differ
  <2> QED BY <2>7
<1> QED BY <1>3, <1>4

(* A certificate that two judges get on accepted labels is earned.         *)
LEMMA CertificateEarned ==
  ASSUME NEW c, c.judges \in JudgePairs, c.of \in Datasets, Accepted(c.of),
         \A t \in 1 .. 2, x \in Cases : c.seen[t][x] \in Verdicts,
         c.says => Certified(Human(c.of), c.seen[1], c.seen[2])
  PROVE  CertificateIsEarned(c)
<1> SUFFICES ASSUME c.says PROVE CertificateIsEarned(c)
  BY DEF CertificateIsEarned
<1>1. c.judges[1] # c.judges[2]
  BY JudgingConstants DEF JudgePairs
<1>2. ASSUME NEW x \in Cases
      PROVE  /\ c.of.labels[x].approved /\ c.of.labels[x].score \in Scores
             /\ RequiresTwoReviewers(x) => c.of.labels[x].reviewers = 2
  <2>1. c.of.labels[x] \in Label
    BY JudgingConstants DEF Dataset
  <2> QED BY <2>1 DEF Accepted, Label
<1>3. ASSUME NEW t \in 1 .. 2
      PROVE  /\ \A x \in Cases : c.seen[t][x] # None
             /\ MaxIncorrect = 0 =>
                  \A x \in Cases \ Audit :
                    c.of.labels[x].score = 0 => c.seen[t][x] # 2
             /\ MinAgreement > 0 =>
                  \E x \in Cases \ Audit :
                    \A y \in Cases \ Audit : FamilyOf[y] = FamilyOf[x] =>
                      c.seen[t][y] = c.of.labels[y].score
  <2> DEFINE human == Human(c.of)
             verdict == c.seen[t]
  <2>1. PassesThresholds(Cases \ Audit, human, verdict)
    BY DEF Certified
  <2>2. \A x \in Cases : human[x] = c.of.labels[x].score
    BY DEF Human
  <2>3. \A x \in Cases : verdict[x] # None
    BY NoneIsNoVerdict
  <2> HIDE DEF human, verdict
  <2>4. /\ MaxIncorrect = 0 =>
             \A x \in Cases \ Audit : human[x] = 0 => verdict[x] # 2
        /\ MinAgreement > 0 =>
             \E x \in Cases \ Audit :
               \A y \in Cases \ Audit :
                 FamilyOf[y] = FamilyOf[x] => verdict[y] = human[y]
    BY <2>1, PassesMeans
  <2>5. /\ MaxIncorrect = 0 =>
             \A x \in Cases \ Audit :
               c.of.labels[x].score = 0 => verdict[x] # 2
        /\ MinAgreement > 0 =>
             \E x \in Cases \ Audit :
               \A y \in Cases \ Audit : FamilyOf[y] = FamilyOf[x] =>
                 verdict[y] = c.of.labels[y].score
    BY <2>2, <2>4
  <2> QED BY <2>3, <2>5 DEF verdict
<1> QED BY <1>1, <1>2, <1>3, Zenon DEF CertificateIsEarned

-----------------------------------------------------------------------------
(* Scores.                                                                 *)
(* Every row has a status, and one left to the judges is in place.         *)
LEMMA StatusMeans ==
  ASSUME NEW b \in Benchmarks, NEW r \in Rows
  PROVE  /\ Status[b][r] \in RowStatuses
         /\ Status[b][r] = "review" => InPlace(Artifact[b][r])
<1>1. Artifact[b][r] \in Row
  BY JudgingConstants
<1>2. Status[b][r] = GradeRow(Artifact[b][r])
  BY DEF Status
<1>3. GradeRow(Artifact[b][r]) \in RowStatuses
  BY DEF GradeRow, RowStatuses
<1> QED BY <1>1, <1>2, <1>3, ReviewedMeansInPlace

(* A score that two judges who have seen every row to review agree on.     *)
LEMMA DualScoresEarned ==
  ASSUME NEW c, c.kind = "grading", c.of \in Benchmarks,
         c.says.scores = Scores2(c), Len(c.judges) = 2,
         \A x \in Rows, t \in 1 .. 2 :
           /\ Status[c.of][x] # "review" => c.seen[t][x] = None
           /\ Status[c.of][x] = "review" => c.seen[t][x] \in Verdicts
  PROVE  ScoresAreEarned(c)
<1>1. ASSUME NEW r \in Rows
      PROVE  LET status == Status[c.of][r] IN
             /\ c.says.scores[r] \notin {None, 0} =>
                  /\ InPlace(Artifact[c.of][r])
                  /\ \A t \in 1 .. Len(c.judges) :
                       c.seen[t][r] = c.says.scores[r]
             /\ c.says.scores[r] = None /\ status # "generation_failure" =>
                  \/ \E t \in 1 .. Len(c.judges) : c.seen[t][r] = Invalid
                  \/ c.kind = "grading" /\ c.seen[1][r] # c.seen[2][r]
             /\ status # "review" =>
                  c.seen[1][r] = None /\ c.seen[2][r] = None
  <2> DEFINE status == Status[c.of][r]
             score == c.says.scores[r]
  <2>1. score = DualScore(status, c.seen[1][r], c.seen[2][r])
    BY DEF Scores2
  <2>2. /\ status \in RowStatuses
        /\ status = "review" => InPlace(Artifact[c.of][r])
    BY StatusMeans
  <2>3. /\ status # "review" => c.seen[1][r] = None /\ c.seen[2][r] = None
        /\ status = "review" => c.seen[1][r] \in Verdicts
    OBVIOUS
  <2>4. 1 .. Len(c.judges) = {1, 2}
    OBVIOUS
  <2> HIDE DEF status, score
  <2>5. ASSUME score \notin {None, 0}
        PROVE  /\ status = "review"
               /\ c.seen[1][r] = score /\ c.seen[2][r] = score
    BY <2>1, <2>5 DEF DualScore
  <2>6. ASSUME score = None, status # "generation_failure"
        PROVE  c.seen[1][r] = Invalid \/ c.seen[1][r] # c.seen[2][r]
    <3>1. 0 # None
      BY NoneIsNoVerdict DEF Verdicts, Scores
    <3>2. status = "review"
      BY <2>1, <2>2, <2>6, <3>1 DEF DualScore, RowStatuses
    <3> QED
      BY <2>1, <2>3, <2>6, <3>2, NoneIsNoVerdict DEF DualScore
  <2>7. score \notin {None, 0} =>
          /\ InPlace(Artifact[c.of][r])
          /\ \A t \in 1 .. Len(c.judges) : c.seen[t][r] = score
    BY <2>2, <2>4, <2>5
  <2>8. score = None /\ status # "generation_failure" =>
          \/ \E t \in 1 .. Len(c.judges) : c.seen[t][r] = Invalid
          \/ c.kind = "grading" /\ c.seen[1][r] # c.seen[2][r]
    BY <2>4, <2>6
  <2> QED BY <2>3, <2>7, <2>8, Zenon DEF status, score
<1> QED BY <1>1, Zenon DEF ScoresAreEarned

(* The halves that an advisory adds up are those of rows with a verdict.   *)
LEMMA AttemptedEarned ==
  ASSUME NEW of \in Benchmarks, NEW seen, NEW scores,
         \A r \in Rows : scores[r] = AdvisoryScore(Status[of][r], seen[r]),
         \A r \in GeneratedRows(of) : seen[r] \in Verdicts
  PROVE  AllAttempted(scores) <=
           2 * Cardinality({x \in Rows : Status[of][x] = "review"
                                           /\ seen[x] \in 1 .. 2})
<1> DEFINE halves == {x \in Rows \X (1 .. 2) :
                        x[2] <= Attempted(scores[x[1]])}
           full == {x \in Rows : Status[of][x] = "review"
                                   /\ seen[x] \in 1 .. 2}
           pair == 1 .. 2
<1>1. ASSUME NEW r \in Rows, NEW k \in pair, k <= Attempted(scores[r])
      PROVE  r \in full
  <2>1. scores[r] = AdvisoryScore(Status[of][r], seen[r])
    OBVIOUS
  <2>2. scores[r] \notin {None, 0}
    BY <1>1 DEF Attempted
  <2>3. Status[of][r] = "review" /\ seen[r] # Invalid /\ scores[r] = seen[r]
    BY <2>1, <2>2 DEF AdvisoryScore
  <2>4. seen[r] \in Verdicts
    BY <2>3 DEF GeneratedRows
  <2>5. seen[r] \in 1 .. 2
    BY <2>2, <2>3, <2>4 DEF Verdicts, Scores, Invalid
  <2> QED BY <2>3, <2>5
<1>2. halves \subseteq full \X pair
  BY <1>1
<1>3. IsFiniteSet(full) /\ Cardinality(full) \in Nat
  BY JudgingConstants, FS_Subset, FS_CardinalityType
<1>4. IsFiniteSet(pair) /\ Cardinality(pair) = 2
  <2>1. 1 \in Int /\ 2 \in Int
    OBVIOUS
  <2>2. IsFiniteSet(pair)
    BY <2>1, FS_Interval, Zenon
  <2>3. Cardinality(pair) = IF 1 > 2 THEN 0 ELSE 2 - 1 + 1
    BY <2>1, FS_Interval, Zenon
  <2> QED BY <2>2, <2>3
<1>5. AllAttempted(scores) = Cardinality(halves)
  BY DEF AllAttempted
<1> HIDE DEF halves, full, pair
<1>6. /\ IsFiniteSet(full \X pair)
      /\ Cardinality(full \X pair) = Cardinality(full) * 2
  BY <1>3, <1>4, FS_Product
<1>7. IsFiniteSet(halves) /\ Cardinality(halves) <= Cardinality(full \X pair)
  BY <1>2, <1>6, FS_Subset
<1>8. Cardinality(halves) <= 2 * Cardinality(full)
  <2>1. Cardinality(halves) \in Nat
    BY <1>7, FS_CardinalityType
  <2> QED BY <1>3, <1>6, <1>7, <2>1
<1> QED BY <1>5, <1>8 DEF full

(* An advisory by a judge who has seen every row that was generated.       *)
LEMMA AdvisoryScoresEarned ==
  ASSUME NEW c, c.kind = "advisory", c.of \in Benchmarks,
         c.says.scores = Scores1(c),
         c.says.complete <=> \A r \in Rows : c.seen[1][r] # Invalid,
         c.says.attempted = AllAttempted(Scores1(c)),
         c.judges = <<Gemma>>,
         \A x \in GeneratedRows(c.of) : c.seen[1][x] \in Verdicts
  PROVE  ScoresAreEarned(c)
<1>1. ASSUME NEW r \in Rows
      PROVE  LET status == Status[c.of][r] IN
             /\ c.says.scores[r] \notin {None, 0} =>
                  /\ InPlace(Artifact[c.of][r])
                  /\ \A t \in 1 .. Len(c.judges) :
                       c.seen[t][r] = c.says.scores[r]
             /\ c.says.scores[r] = None /\ status # "generation_failure" =>
                  \E t \in 1 .. Len(c.judges) : c.seen[t][r] = Invalid
             /\ (c.says.complete /\ status # "generation_failure") =>
                  c.says.scores[r] # None
  <2> DEFINE status == Status[c.of][r]
             score == c.says.scores[r]
  <2>1. score = AdvisoryScore(status, c.seen[1][r])
    BY DEF Scores1
  <2>2. /\ status \in RowStatuses
        /\ status = "review" => InPlace(Artifact[c.of][r])
    BY StatusMeans
  <2>3. status # "generation_failure" => c.seen[1][r] \in Verdicts
    BY DEF GeneratedRows
  <2>4. 1 .. Len(c.judges) = {1}
    OBVIOUS
  <2>5. c.says.complete => c.seen[1][r] # Invalid
    OBVIOUS
  <2> HIDE DEF status, score
  <2>6. ASSUME score \notin {None, 0}
        PROVE  status = "review" /\ c.seen[1][r] = score
    BY <2>1, <2>6 DEF AdvisoryScore
  <2>7. ASSUME score = None, status # "generation_failure"
        PROVE  c.seen[1][r] = Invalid
    <3>1. 0 # None
      BY NoneIsNoVerdict DEF Verdicts, Scores
    <3>2. status = "review"
      BY <2>1, <2>2, <2>7, <3>1 DEF AdvisoryScore, RowStatuses
    <3> QED
      BY <2>1, <2>3, <2>7, <3>2, NoneIsNoVerdict DEF AdvisoryScore
  <2>8. score \notin {None, 0} =>
          /\ InPlace(Artifact[c.of][r])
          /\ \A t \in 1 .. Len(c.judges) : c.seen[t][r] = score
    BY <2>2, <2>4, <2>6
  <2>9. score = None /\ status # "generation_failure" =>
          \E t \in 1 .. Len(c.judges) : c.seen[t][r] = Invalid
    BY <2>4, <2>7
  <2>10. c.says.complete /\ status # "generation_failure" => score # None
    BY <2>5, <2>7
  <2> QED BY <2>8, <2>9, <2>10, Zenon DEF status, score
<1>2. c.says.attempted <= 2 * Cardinality(
        {x \in Rows : Status[c.of][x] = "review" /\ c.seen[1][x] \in 1 .. 2})
  <2> DEFINE scores == Scores1(c)
             seen == c.seen[1]
  <2>1. \A r \in Rows : scores[r] = AdvisoryScore(Status[c.of][r], seen[r])
    BY DEF Scores1
  <2>2. \A r \in GeneratedRows(c.of) : seen[r] \in Verdicts
    OBVIOUS
  <2>3. c.says.attempted = AllAttempted(scores)
    OBVIOUS
  <2> HIDE DEF scores, seen
  <2>4. AllAttempted(scores) <= 2 * Cardinality(
          {x \in Rows : Status[c.of][x] = "review" /\ seen[x] \in 1 .. 2})
    BY <2>1, <2>2, AttemptedEarned
  <2> QED BY <2>3, <2>4 DEF seen
<1>3. c.kind # "grading"
  OBVIOUS
<1> QED BY <1>1, <1>2, <1>3, Zenon DEF ScoresAreEarned

-----------------------------------------------------------------------------
(* A call whose judge is out of memory has earned what it says if it says  *)
(* anything now, and what it has seen if it goes on.                       *)
LEMMA NextTurn ==
  ASSUME NEW c, WorkInv(c), c.at = "released", c.ok, c.turn = 1,
         NEW d, d.id = c.id, d.kind = c.kind, d.of = c.of,
         d.judges = c.judges, d.at = "acquire", d.turn = 2,
         d.row = c.row, d.seen = c.seen, d.says = c.says
  PROVE  WorkInv(d)
<1>1. KindInv(c) /\ SeenInv(c) /\ c.says = None
  BY DEF WorkInv, Active, Done
<1>2. SeenInv(d)
  <2>1. \A t \in 1 .. 2 : Judged(d, t) => Judged(c, t)
    BY DEF Judged, Done
  <2>2. Batch(d) = Batch(c)
    BY DEF Batch
  <2> QED BY <1>1, <2>1, <2>2 DEF SeenInv
<1>3. KindInv(d)
  BY <1>1 DEF KindInv
<1>4. CertificateIsEarned(d) /\ ScoresAreEarned(d)
  BY <1>1 DEF CertificateIsEarned, ScoresAreEarned
<1>5. /\ d.id \in 0 .. MaxCalls /\ d.kind \in Kinds \cup {None}
      /\ d.row \in Rows \cup {0} /\ d.turn \in 1 .. 2
      /\ d.seen \in [1 .. 2 -> [Items -> Verdicts \cup {None}]]
  BY DEF WorkInv
<1> QED BY <1>1, <1>2, <1>3, <1>4, <1>5 DEF WorkInv

(* At its last judge a call has the verdicts of all its judges.            *)
LEMMA AllJudged ==
  ASSUME NEW c, WorkInv(c), c.at = "released", c.ok, LastTurn(c)
  PROVE  /\ c.turn = IF c.kind \in Dual THEN 2 ELSE 1
         /\ \A t \in 1 .. c.turn, x \in Batch(c) : c.seen[t][x] \in Verdicts
<1>1. KindInv(c) /\ SeenInv(c) /\ c.turn \in 1 .. 2
  BY DEF WorkInv
<1>2. c.turn = IF c.kind \in Dual THEN 2 ELSE 1
  BY <1>1 DEF KindInv, LastTurn, JudgePairs
<1>3. \A t \in 1 .. c.turn : Judged(c, t) /\ t \in 1 .. 2
  BY <1>1 DEF Judged, Done
<1> QED BY <1>1, <1>2, <1>3 DEF SeenInv

(* A grading at its last judge has every verdict up to its row.            *)
LEMMA RowDone ==
  ASSUME NEW c, WorkInv(c), c.at = "released", c.ok, LastTurn(c),
         c.kind = "grading", NEW x \in Rows, NEW t \in 1 .. 2,
         Status[c.of][x] = "review", x \notin RowsAfter(c.of, c.row)
  PROVE  c.seen[t][x] \in Verdicts
<1>1. KindInv(c) /\ SeenInv(c)
  BY DEF WorkInv
<1>2. c.row \in Nat /\ x \in Nat
  BY RowNumbers DEF WorkInv
<1>3. x <= c.row
  BY <1>2 DEF RowsAfter, ReviewRows
<1>4. CASE x < c.row
  BY <1>1, <1>4 DEF SeenInv
<1>5. CASE x = c.row
  <2>1. c.turn = 2 /\ x \in Batch(c)
    BY <1>5, AllJudged DEF Dual, Batch
  <2> QED BY <2>1, AllJudged
<1> QED BY <1>2, <1>3, <1>4, <1>5

(* The next row of a grading.                                              *)
LEMMA NextRow ==
  ASSUME NEW c, WorkInv(c), c.at = "released", c.ok, LastTurn(c),
         c.kind = "grading", RowsAfter(c.of, c.row) # {},
         NEW d, d.id = c.id, d.kind = c.kind, d.of = c.of,
         d.judges = c.judges, d.at = "acquire", d.turn = 1,
         d.row = Min(RowsAfter(c.of, c.row)), d.seen = c.seen,
         d.says = c.says
  PROVE  WorkInv(d)
<1>1. KindInv(c) /\ SeenInv(c) /\ c.says = None
  BY DEF WorkInv, Active, Done
<1> DEFINE left == RowsAfter(c.of, c.row)
<1>2. left \subseteq ReviewRows(c.of) /\ left \subseteq Rows
  BY DEF RowsAfter, ReviewRows
<1>3. d.row \in left /\ \A y \in left : d.row <= y
  <2> HIDE DEF left
  <2>1. left # {}
    BY DEF left
  <2>2. Min(left) \in left /\ \A y \in left : Min(left) <= y
    BY <1>2, <2>1, FirstRow
  <2> QED BY <2>2 DEF left
<1>4. KindInv(d)
  BY <1>1, <1>2, <1>3 DEF KindInv
<1>5. SeenInv(d)
  <2>1. \A t \in 1 .. 2 : ~Judged(d, t)
    BY DEF Judged, Done
  <2>2. ASSUME NEW x \in Rows, NEW t \in 1 .. 2
        PROVE  /\ Status[d.of][x] # "review" => d.seen[t][x] = None
               /\ Status[d.of][x] = "review" /\ x < d.row =>
                    d.seen[t][x] \in Verdicts
    <3>1. Status[d.of][x] # "review" => d.seen[t][x] = None
      BY <1>1 DEF SeenInv
    <3>2. ASSUME Status[d.of][x] = "review", x < d.row
          PROVE  d.seen[t][x] \in Verdicts
      <4>1. x \in Nat /\ d.row \in Nat
        BY <1>2, <1>3, RowNumbers
      <4>2. x \notin left
        BY <1>3, <3>2, <4>1
      <4> QED BY <3>2, <4>2, RowDone
    <3> QED BY <3>1, <3>2
  <2> QED BY <2>1, <2>2 DEF SeenInv
<1>6. CertificateIsEarned(d) /\ ScoresAreEarned(d)
  BY <1>1 DEF CertificateIsEarned, ScoresAreEarned
<1>7. /\ d.id \in 0 .. MaxCalls /\ d.kind \in Kinds \cup {None}
      /\ d.row \in Rows \cup {0} /\ d.turn \in 1 .. 2
      /\ d.seen \in [1 .. 2 -> [Items -> Verdicts \cup {None}]]
  BY <1>2, <1>3 DEF WorkInv
<1> QED BY <1>1, <1>4, <1>5, <1>6, <1>7 DEF WorkInv

(* The end of a call, or of its judging: only what it says is new.         *)
LEMMA SaysKeeps ==
  ASSUME NEW c, WorkInv(c), c.at = "released", c.ok, LastTurn(c),
         NEW d, d.id = c.id, d.kind = c.kind, d.of = c.of,
         d.judges = c.judges, d.turn = c.turn, d.row = c.row,
         d.seen = c.seen,
         \/ /\ c.kind = "calibration" /\ d.at = "ended"
            /\ d.says <=> Certified(Human(c.of), c.seen[1], c.seen[2])
         \/ /\ c.kind = "grading" /\ d.at = "ended"
            /\ RowsAfter(c.of, c.row) = {}
            /\ d.says.scores = Scores2(c)
         \/ /\ c.kind = "advisory" /\ d.at = "checking"
            /\ d.says.scores = Scores1(c)
            /\ d.says.complete <=> \A r \in Rows : c.seen[1][r] # Invalid
            /\ d.says.attempted = AllAttempted(Scores1(c))
  PROVE  WorkInv(d)
<1>1. KindInv(c) /\ SeenInv(c)
  BY DEF WorkInv
<1>2. /\ c.turn = IF c.kind \in Dual THEN 2 ELSE 1
      /\ \A t \in 1 .. c.turn, x \in Batch(c) : c.seen[t][x] \in Verdicts
  BY AllJudged
<1>3. KindInv(d)
  BY <1>1 DEF KindInv
<1>4. SeenInv(d)
  <2>1. \A t \in 1 .. 2 : Judged(d, t) => Judged(c, t)
    BY DEF Judged, Done
  <2>2. Batch(d) = Batch(c)
    BY DEF Batch
  <2> QED BY <1>1, <2>1, <2>2 DEF SeenInv
<1>5. CertificateIsEarned(d)
  <2>1. CASE c.kind = "calibration"
    <3>1. /\ d.judges \in JudgePairs /\ d.of \in Datasets /\ Accepted(d.of)
          /\ c.turn = 2 /\ Batch(c) = Cases
      BY <1>1, <1>2, <2>1 DEF KindInv, Dual, Batch
    <3>2. \A t \in 1 .. 2, x \in Cases : d.seen[t][x] \in Verdicts
      BY <1>2, <3>1
    <3>3. d.says => Certified(Human(d.of), d.seen[1], d.seen[2])
      BY <2>1
    <3> QED BY <3>1, <3>2, <3>3, CertificateEarned
  <2>2. CASE c.kind # "calibration"
    BY <2>2 DEF CertificateIsEarned
  <2> QED BY <2>1, <2>2
<1>6. ScoresAreEarned(d)
  <2>1. CASE c.kind = "calibration"
    BY <2>1 DEF ScoresAreEarned
  <2>2. CASE c.kind = "grading"
    <3>1. /\ RowsAfter(d.of, d.row) = {} /\ d.of \in Benchmarks
          /\ Len(d.judges) = 2
      BY <1>1, <2>2 DEF KindInv, Dual, JudgePairs
    <3>2. d.says.scores = Scores2(d)
      BY <2>2 DEF Scores2
    <3>3. ASSUME NEW x \in Rows, NEW t \in 1 .. 2
          PROVE  /\ Status[d.of][x] # "review" => d.seen[t][x] = None
                 /\ Status[d.of][x] = "review" => d.seen[t][x] \in Verdicts
      BY <1>1, <2>2, <3>1, RowDone DEF SeenInv
    <3> QED BY <2>2, <3>1, <3>2, <3>3, DualScoresEarned
  <2>3. CASE c.kind = "advisory"
    <3>1. d.of \in Benchmarks /\ d.judges = <<Gemma>>
      BY <1>1, <2>3 DEF KindInv, Dual
    <3>2. Scores1(d) = Scores1(c)
      BY DEF Scores1
    <3>3. \A x \in GeneratedRows(d.of) : d.seen[1][x] \in Verdicts
      <4>1. c.turn = 1 /\ Batch(c) = GeneratedRows(d.of)
        BY <1>2, <2>3 DEF Dual, Batch
      <4> QED BY <1>2, <4>1
    <3> QED BY <2>3, <3>1, <3>2, <3>3, AdvisoryScoresEarned
  <2> QED BY <2>1, <2>2, <2>3
<1>7. /\ d.id \in 0 .. MaxCalls /\ d.kind \in Kinds \cup {None}
      /\ d.row \in Rows \cup {0} /\ d.turn \in 1 .. 2
      /\ d.seen \in [1 .. 2 -> [Items -> Verdicts \cup {None}]]
  BY DEF WorkInv
<1>8. d.at \notin Active \cup {"idle"}
  BY DEF Active, Done
<1> QED BY <1>3, <1>4, <1>5, <1>6, <1>7, <1>8 DEF WorkInv

(* What GoesOn changes, one field after the other.                         *)
LEMMA FieldsOf ==
  ASSUME NEW c, IsCall(c), NEW v, NEW w, NEW x
  PROVE  /\ LET d == [c EXCEPT !.at = v]
            IN  d = Moved(c, v, c.ok)
         /\ LET d == [c EXCEPT !.at = v, !.says = w]
            IN  /\ d.id = c.id /\ d.kind = c.kind /\ d.of = c.of
                /\ d.judges = c.judges /\ d.at = v /\ d.turn = c.turn
                /\ d.row = c.row /\ d.seen = c.seen /\ d.says = w
         /\ LET d == [c EXCEPT !.at = v, !.turn = w]
            IN  /\ d.id = c.id /\ d.kind = c.kind /\ d.of = c.of
                /\ d.judges = c.judges /\ d.at = v /\ d.turn = w
                /\ d.row = c.row /\ d.seen = c.seen /\ d.says = c.says
         /\ LET d == [c EXCEPT !.at = v, !.turn = w, !.row = x]
            IN  /\ d.id = c.id /\ d.kind = c.kind /\ d.of = c.of
                /\ d.judges = c.judges /\ d.at = v /\ d.turn = w
                /\ d.row = x /\ d.seen = c.seen /\ d.says = c.says
BY DEF IsCall, Moved

(* A call that goes on keeps what its judges have said.                    *)
LEMMA GoesOnKeeps ==
  ASSUME NEW c, CallInv(c), WorkInv(c), c.at = "released"
  PROVE  WorkInv(GoesOn(c))
<1>1. IsCall(c) /\ c.ok \in BOOLEAN /\ c.turn \in 1 .. Len(c.judges)
  BY DEF CallInv
<1>2. KindInv(c) /\ c.turn \in 1 .. 2
  BY DEF WorkInv
<1>3. ASSUME NEW v \in {"failed", "writing"},
             v = "writing" => c.kind = "preflight"
      PROVE  WorkInv([c EXCEPT !.at = v])
  <2>1. v \in Steps \ {"idle"} /\ v \notin Active \cup Done
    BY DEF Steps, Active, Done
  <2>2. WorkInv(Moved(c, v, c.ok))
    BY <1>1, <1>3, <2>1, MovedKeeps
  <2> QED BY <1>1, <2>2, FieldsOf
<1>4. CASE ~c.ok
  BY <1>3, <1>4 DEF GoesOn
<1>5. CASE c.ok /\ ~LastTurn(c)
  <2> DEFINE d == [c EXCEPT !.at = "acquire", !.turn = c.turn + 1]
  <2>1. GoesOn(c) = d
    BY <1>5 DEF GoesOn
  <2>2. c.turn = 1
    <3> DEFINE n == Len(c.judges)
    <3>1. n \in {1, 2}
      BY DEF CallInv, Pairs
    <3>2. c.turn # n /\ c.turn \in 1 .. n
      BY <1>1, <1>5 DEF LastTurn
    <3> HIDE DEF n
    <3> QED BY <3>1, <3>2
  <2>3. /\ d.id = c.id /\ d.kind = c.kind /\ d.of = c.of
        /\ d.judges = c.judges /\ d.at = "acquire" /\ d.turn = c.turn + 1
        /\ d.row = c.row /\ d.seen = c.seen /\ d.says = c.says
    BY <1>1, FieldsOf
  <2> HIDE DEF d
  <2>4. d.turn = 2
    BY <2>2, <2>3
  <2> QED BY <1>5, <2>1, <2>2, <2>3, <2>4, NextTurn
<1>6. CASE c.ok /\ LastTurn(c) /\ c.kind = "calibration"
  <2> DEFINE w == Certified(Human(c.of), c.seen[1], c.seen[2])
             d == [c EXCEPT !.at = "ended", !.says = w]
  <2>1. GoesOn(c) = d
    BY <1>6 DEF GoesOn
  <2> HIDE DEF w
  <2>2. /\ d.id = c.id /\ d.kind = c.kind /\ d.of = c.of
        /\ d.judges = c.judges /\ d.at = "ended" /\ d.turn = c.turn
        /\ d.row = c.row /\ d.seen = c.seen /\ d.says = w
    BY <1>1, FieldsOf
  <2> HIDE DEF d
  <2>3. d.says <=> Certified(Human(c.of), c.seen[1], c.seen[2])
    BY <2>2 DEF w
  <2> QED BY <1>6, <2>1, <2>2, <2>3, SaysKeeps
<1>7. CASE c.ok /\ LastTurn(c) /\ c.kind = "grading"
  <2>1. CASE RowsAfter(c.of, c.row) = {}
    <3> DEFINE w == [scores |-> Scores2(c), gates |-> ReportGates[c.of]]
               d == [c EXCEPT !.at = "ended", !.says = w]
    <3>1. GoesOn(c) = d
      BY <1>7, <2>1 DEF GoesOn
    <3>2. w.scores = Scores2(c)
      OBVIOUS
    <3> HIDE DEF w
    <3>3. /\ d.id = c.id /\ d.kind = c.kind /\ d.of = c.of
          /\ d.judges = c.judges /\ d.at = "ended" /\ d.turn = c.turn
          /\ d.row = c.row /\ d.seen = c.seen /\ d.says = w
      BY <1>1, FieldsOf
    <3> HIDE DEF d
    <3> QED BY <1>7, <2>1, <3>1, <3>2, <3>3, SaysKeeps
  <2>2. CASE RowsAfter(c.of, c.row) # {}
    <3> DEFINE x == Min(RowsAfter(c.of, c.row))
               d == [c EXCEPT !.at = "acquire", !.turn = 1, !.row = x]
    <3>1. GoesOn(c) = d
      BY <1>7, <2>2 DEF GoesOn
    <3> HIDE DEF x
    <3>2. /\ d.id = c.id /\ d.kind = c.kind /\ d.of = c.of
          /\ d.judges = c.judges /\ d.at = "acquire" /\ d.turn = 1
          /\ d.row = x /\ d.seen = c.seen /\ d.says = c.says
      BY <1>1, FieldsOf
    <3> HIDE DEF d
    <3>3. d.row = Min(RowsAfter(c.of, c.row))
      BY <3>2 DEF x
    <3> QED BY <1>7, <2>2, <3>1, <3>2, <3>3, NextRow
  <2> QED BY <2>1, <2>2
<1>8. CASE c.ok /\ LastTurn(c) /\ c.kind = "advisory"
  <2> DEFINE w == Report(c)
             d == [c EXCEPT !.at = "checking", !.says = w]
  <2>1. GoesOn(c) = d
    BY <1>8 DEF GoesOn
  <2>2. /\ w.scores = Scores1(c)
        /\ w.complete <=> \A r \in Rows : c.seen[1][r] # Invalid
        /\ w.attempted = AllAttempted(Scores1(c))
    BY DEF Report
  <2> HIDE DEF w
  <2>3. /\ d.id = c.id /\ d.kind = c.kind /\ d.of = c.of
        /\ d.judges = c.judges /\ d.at = "checking" /\ d.turn = c.turn
        /\ d.row = c.row /\ d.seen = c.seen /\ d.says = w
    BY <1>1, FieldsOf
  <2> HIDE DEF d
  <2> QED BY <1>8, <2>1, <2>2, <2>3, SaysKeeps
<1>9. CASE c.ok /\ LastTurn(c) /\ c.kind = "preflight"
  <2> DEFINE v == IF c.seen[1][0] = Invalid THEN "failed" ELSE "writing"
  <2>1. GoesOn(c) = [c EXCEPT !.at = v]
    BY <1>9 DEF GoesOn
  <2>2. v \in {"failed", "writing"}
    OBVIOUS
  <2> HIDE DEF v
  <2> QED BY <1>3, <1>9, <2>1, <2>2
<1> QED
  BY <1>1, <1>2, <1>4, <1>5, <1>6, <1>7, <1>8, <1>9 DEF KindInv, Kinds

-----------------------------------------------------------------------------
(* What a step of p does to the work: its own call keeps WorkInv, and the  *)
(* calls of the others are theirs.                                         *)
KeepsWork(p) ==
  /\ WorkInv(call'[p]) /\ \A q \in Procs \ {p} : call'[q] = call[q]
  /\ FileTypes'

(* Files nobody writes keep their types.                                   *)
LEMMA WorkUntouched ==
  ASSUME FileTypes, UNCHANGED <<files, calls>>
  PROVE  FileTypes'
BY DEF FileTypes, files

(* A call is made.                                                         *)
LEMMA BeginWork ==
  ASSUME ResultsInv, NEW p \in Procs, NEW c, Begin(p, c),
         c.id = calls + 1, WorkInv(c)
  PROVE  KeepsWork(p)
<1>1. call = [q \in Procs |-> call[q]] /\ FileTypes
  BY DEF ResultsInv, IInv, Types
<1>2. call'[p] = c /\ \A q \in Procs \ {p} : call'[q] = call[q]
  BY <1>1 DEF Begin
<1>3. FileTypes'
  BY <1>1, JudgingConstants DEF Begin, FileTypes, files
<1> QED BY <1>2, <1>3 DEF KeepsWork

(* Every kind of call is made with what its kind needs.                    *)
LEMMA CallsWork ==
  ASSUME ResultsInv, NEW p \in Procs,
         \/ \E b \in Benchmarks : RunGemmaAdvisory(p, b)
         \/ RunGemmaPreflight(p)
         \/ \E data \in Datasets, pair \in JudgePairs :
              CalibrateJudges(p, data, pair)
         \/ \E b \in Benchmarks, pair \in JudgePairs :
              JudgeBenchmark(p, b, pair)
  PROVE  KeepsWork(p)
<1>1. ASSUME calls < MaxCalls
      PROVE  calls + 1 \in 1 .. MaxCalls
  BY <1>1, JudgingConstants DEF ResultsInv, FileTypes
<1>2. ASSUME NEW kind \in Kinds \ {"grading"}, NEW of, NEW judges,
             calls < MaxCalls,
             judges \in (IF kind \in Dual THEN JudgePairs ELSE {<<Gemma>>}),
             kind = "calibration" => of \in Datasets /\ Accepted(of),
             kind = "advisory" => of \in Benchmarks
      PROVE  LET c == Fresh(calls + 1, kind, of, judges)
             IN  c.id = calls + 1 /\ WorkInv(c)
  <2> DEFINE c == Fresh(calls + 1, kind, of, judges)
  <2>1. /\ c.id = calls + 1 /\ c.kind = kind /\ c.of = of
        /\ c.judges = judges /\ c.at = "acquire" /\ c.turn = 1
        /\ c.row = 0 /\ c.seen = Unjudged /\ c.says = None
    BY DEF Fresh
  <2> HIDE DEF c
  <2>2. c.id \in 1 .. MaxCalls
    BY <1>1, <1>2, <2>1
  <2>3. KindInv(c)
    BY <1>2, <2>1, <2>2 DEF KindInv
  <2>4. WorkInv(c)
    BY <1>2, <2>1, <2>2, <2>3, NewCallKeeps
  <2> QED BY <2>1, <2>4 DEF c
<1>3. ASSUME NEW b \in Benchmarks, RunGemmaAdvisory(p, b)
      PROVE  KeepsWork(p)
  <2> DEFINE c == Fresh(calls + 1, "advisory", b, <<Gemma>>)
  <2>1. Begin(p, c) /\ calls < MaxCalls
    BY <1>3 DEF RunGemmaAdvisory, Begin
  <2>2. c.id = calls + 1 /\ WorkInv(c)
    BY <1>2, <2>1 DEF Kinds, Dual
  <2> HIDE DEF c
  <2> QED BY <2>1, <2>2, BeginWork
<1>4. ASSUME RunGemmaPreflight(p)
      PROVE  KeepsWork(p)
  <2> DEFINE c == Fresh(calls + 1, "preflight", None, <<Gemma>>)
  <2>1. Begin(p, c) /\ calls < MaxCalls
    BY <1>4 DEF RunGemmaPreflight, Begin
  <2>2. c.id = calls + 1 /\ WorkInv(c)
    BY <1>2, <2>1 DEF Kinds, Dual
  <2> HIDE DEF c
  <2> QED BY <2>1, <2>2, BeginWork
<1>5. ASSUME NEW data \in Datasets, NEW pair \in JudgePairs,
             CalibrateJudges(p, data, pair)
      PROVE  KeepsWork(p)
  <2> DEFINE c == Fresh(calls + 1, "calibration", data, pair)
  <2>1. Begin(p, c) /\ calls < MaxCalls /\ Accepted(data)
    BY <1>5 DEF CalibrateJudges, Begin
  <2>2. c.id = calls + 1 /\ WorkInv(c)
    BY <1>2, <2>1 DEF Kinds, Dual
  <2> HIDE DEF c
  <2> QED BY <2>1, <2>2, BeginWork
<1>6. ASSUME NEW b \in Benchmarks, NEW pair \in JudgePairs,
             JudgeBenchmark(p, b, pair)
      PROVE  KeepsWork(p)
  <2> DEFINE f == Fresh(calls + 1, "grading", b, pair)
             r == Min(RowsAfter(b, 0))
             c == [f EXCEPT !.row = r]
  <2>1. Begin(p, c) /\ calls < MaxCalls
    BY <1>6 DEF JudgeBenchmark, Begin
  <2>2. /\ r \in ReviewRows(b) /\ r \in Rows
        /\ \A x \in ReviewRows(b) : r <= x
    <3> DEFINE rows == RowsAfter(b, 0)
    <3>1. rows \subseteq Rows /\ rows # {}
      BY <1>6 DEF JudgeBenchmark, RowsAfter, ReviewRows
    <3>2. \A x \in ReviewRows(b) : x \in rows
      <4>1. Rows \subseteq Nat \ {0}
        BY JudgingConstants
      <4> QED BY <4>1 DEF RowsAfter, ReviewRows
    <3>3. rows \subseteq ReviewRows(b)
      BY DEF RowsAfter
    <3> HIDE DEF rows
    <3>4. Min(rows) \in rows /\ \A x \in rows : Min(rows) <= x
      BY <3>1, FirstRow
    <3> QED BY <3>1, <3>2, <3>3, <3>4 DEF rows
  <2> HIDE DEF r
  <2>3. /\ c.id = calls + 1 /\ c.kind = "grading" /\ c.of = b
        /\ c.judges = pair /\ c.at = "acquire" /\ c.turn = 1
        /\ c.row = r /\ c.seen = Unjudged /\ c.says = None
    BY DEF Fresh
  <2> HIDE DEF c
  <2>4. c.id \in 1 .. MaxCalls
    BY <1>1, <2>1, <2>3
  <2>5. KindInv(c)
    BY <2>2, <2>3, <2>4 DEF KindInv, Kinds, Dual
  <2>6. WorkInv(c)
    BY <2>2, <2>3, <2>4, <2>5, NewCallKeeps
  <2> QED BY <2>1, <2>3, <2>6, BeginWork
<1> QED BY <1>3, <1>4, <1>5, <1>6

(* A call is elsewhere, or has failed, and the files are as they were.     *)
LEMMA MoveWork ==
  ASSUME ResultsInv, NEW p \in Procs, NEW v \in Steps \ {"idle"},
         call[p].at # "idle",
         \/ Go(p, v) /\ (v \in Done => call[p].at \in Done)
         \/ Fail(p, v),
         v \in Active => call[p].at \in Active,
         v = "ended" => call[p].kind # "calibration",
         v \in {"checking", "half_written"} => call[p].kind = "advisory",
         v = "writing" => call[p].kind \in {"advisory", "preflight"},
         FileTypes'
  PROVE  KeepsWork(p)
<1>1. Types /\ CallInv(call[p]) /\ WorkInv(call[p])
  BY DEF ResultsInv, IInv
<1>2. IsCall(call[p]) /\ call[p].ok \in BOOLEAN
  BY <1>1 DEF CallInv
<1>3. CASE Go(p, v) /\ (v \in Done => call[p].at \in Done)
  <2>1. WorkInv(Moved(call[p], v, call[p].ok))
    BY <1>1, <1>3, MovedKeeps
  <2> QED BY <1>1, <1>2, <1>3, <2>1, Moves DEF KeepsWork
<1>4. CASE Fail(p, v)
  <2> DEFINE no == FALSE
  <2>1. no \in {call[p].ok, FALSE} /\ ~no
    OBVIOUS
  <2>2. call'[p] = Moved(call[p], v, no)
    BY <1>1, <1>2, <1>4, Moves
  <2> HIDE DEF no
  <2>3. WorkInv(Moved(call[p], v, no))
    BY <1>1, <2>1, MovedKeeps
  <2> QED BY <1>1, <1>2, <1>4, <2>2, <2>3, Moves DEF KeepsWork
<1> QED BY <1>3, <1>4

(* A judge is acquired, or not: nothing has been judged yet.                *)
LEMMA AcquireWork ==
  ASSUME ResultsInv, NEW p \in Procs,
         \/ Refused(p) \/ Lock(p) \/ Load(p) \/ LoadFails(p)
         \/ LoadOther(p) \/ LoadOtherFails(p)
  PROVE  KeepsWork(p)
<1>1. FileTypes'
  BY WorkUntouched
     DEF ResultsInv, Refused, Lock, Load, LoadFails, LoadOther,
         LoadOtherFails, files
<1>2. CASE Refused(p) \/ LoadOtherFails(p)
  <2>1. Fail(p, "failed") /\ call[p].at # "idle"
    BY <1>2 DEF Refused, LoadOtherFails
  <2> QED BY <1>1, <2>1, MoveWork DEF Steps, Active, Done
<1>3. CASE Lock(p)
  <2>1. Go(p, "loading") /\ call[p].at = "acquire"
    BY <1>3 DEF Lock
  <2> QED BY <1>1, <2>1, MoveWork DEF Steps, Active, Done
<1>4. CASE Load(p) \/ LoadOther(p)
  <2>1. Go(p, "judging") /\ call[p].at \in {"acquire", "loading"}
    BY <1>4 DEF Load, LoadOther
  <2> QED BY <1>1, <2>1, MoveWork DEF Steps, Active, Done
<1>5. CASE LoadFails(p)
  <2>1. Fail(p, "dropping") /\ call[p].at = "loading"
    BY <1>5 DEF LoadFails
  <2> QED BY <1>1, <2>1, MoveWork DEF Steps, Active, Done
<1> QED BY <1>2, <1>3, <1>4, <1>5

(* A judge judges its batch.                                               *)
LEMMA VerdictsWork ==
  ASSUME ResultsInv, NEW p \in Procs, HaveJudged(p)
  PROVE  KeepsWork(p)
<1> DEFINE c == call[p]
<1>1. Types /\ CallInv(c) /\ WorkInv(c) /\ FileTypes
  BY DEF ResultsInv, IInv
<1>2. PICK answer \in Answers(c) :
        call' = [call EXCEPT
          ![p].at = "dropping",
          ![p].seen[call[p].turn] =
            [x \in Items |-> IF x \in Batch(call[p]) THEN answer[x]
                             ELSE @[x]]]
  BY DEF HaveJudged
<1> DEFINE s == [c.seen EXCEPT ![c.turn] =
                   [x \in Items |-> IF x \in Batch(c) THEN answer[x]
                                    ELSE c.seen[c.turn][x]]]
<1>3. call' = [call EXCEPT ![p] = [[c EXCEPT !.at = "dropping"]
                                     EXCEPT !.seen = s]]
  BY <1>2
<1> HIDE DEF s
<1>4. /\ call'[p] = [[c EXCEPT !.at = "dropping"] EXCEPT !.seen = s]
      /\ \A q \in Procs \ {p} : call'[q] = call[q]
  BY <1>1, <1>3 DEF Types
<1> DEFINE d == call'[p]
<1>5. /\ d.id = c.id /\ d.kind = c.kind /\ d.of = c.of
      /\ d.judges = c.judges /\ d.at = "dropping" /\ d.turn = c.turn
      /\ d.row = c.row /\ d.ok = c.ok /\ d.says = c.says /\ d.seen = s
  BY <1>1, <1>4 DEF CallInv, IsCall
<1>6. c.at = "judging"
  BY DEF HaveJudged
<1> HIDE DEF c, d
<1>7. d.seen = [c.seen EXCEPT ![c.turn] =
                  [x \in Items |-> IF x \in Batch(c) THEN answer[x]
                                   ELSE c.seen[c.turn][x]]]
  BY <1>5 DEF s
<1>8. WorkInv(d)
  BY <1>1, <1>2, <1>5, <1>6, <1>7, VerdictsAdded
<1>9. FileTypes'
  BY <1>1, WorkUntouched DEF HaveJudged
<1> QED BY <1>4, <1>8, <1>9 DEF KeepsWork, d

(* A judge is let go, and what it has said stays.                          *)
LEMMA ReleaseWork ==
  ASSUME ResultsInv, NEW p \in Procs,
         \/ JudgeRaises(p) \/ Drop(p) \/ DropRaises(p)
         \/ RestoreEnvironment(p) \/ Unlock(p)
  PROVE  KeepsWork(p)
<1>1. FileTypes'
  BY WorkUntouched
     DEF ResultsInv, JudgeRaises, Drop, DropRaises, RestoreEnvironment,
         Unlock, files
<1>2. CASE JudgeRaises(p)
  <2>1. Fail(p, "dropping") /\ call[p].at = "judging"
    BY <1>2 DEF JudgeRaises
  <2> QED BY <1>1, <2>1, MoveWork DEF Steps, Active, Done
<1>3. CASE Drop(p) \/ DropRaises(p)
  <2> DEFINE v == IF Judge(p) = Gemma THEN "restoring" ELSE "released"
  <2>1. call[p].at = "dropping" /\ (Go(p, v) \/ Fail(p, v))
    BY <1>3 DEF Drop, DropRaises
  <2>2. v \in {"restoring", "released"}
    OBVIOUS
  <2> HIDE DEF v
  <2> QED BY <1>1, <2>1, <2>2, MoveWork DEF Steps, Active, Done
<1>4. CASE RestoreEnvironment(p)
  <2>1. Go(p, "unlocking") /\ call[p].at = "restoring"
    BY <1>4 DEF RestoreEnvironment
  <2> QED BY <1>1, <2>1, MoveWork DEF Steps, Active, Done
<1>5. CASE Unlock(p)
  <2>1. Go(p, "released") /\ call[p].at = "unlocking"
    BY <1>5 DEF Unlock
  <2> QED BY <1>1, <2>1, MoveWork DEF Steps, Active, Done
<1> QED BY <1>2, <1>3, <1>4, <1>5

(* The call goes on.                                                       *)
LEMMA ReleasedWork ==
  ASSUME ResultsInv, NEW p \in Procs, Released(p)
  PROVE  KeepsWork(p)
<1>1. Types /\ CallInv(call[p]) /\ WorkInv(call[p]) /\ FileTypes
  BY DEF ResultsInv, IInv
<1>2. /\ call'[p] = GoesOn(call[p])
      /\ \A q \in Procs \ {p} : call'[q] = call[q]
  BY <1>1 DEF Released, Types
<1>3. WorkInv(GoesOn(call[p]))
  BY <1>1, GoesOnKeeps DEF Released
<1>4. FileTypes'
  BY <1>1, WorkUntouched DEF Released
<1> QED BY <1>2, <1>3, <1>4 DEF KeepsWork

(* Files are written by calls that have said what they have to say.        *)
LEMMA FilesWork ==
  ASSUME ResultsInv, NEW p \in Procs,
         \/ CheckAdvisory(p) \/ WriteJson(p) \/ WriteMarkdown(p)
         \/ WritePreflight(p)
  PROVE  KeepsWork(p)
<1>1. WorkInv(call[p]) /\ FileTypes
  BY DEF ResultsInv
<1>2. call[p].at # "idle" => KindInv(call[p]) /\ call[p].id \in 1 .. MaxCalls
  BY <1>1, JudgingConstants DEF WorkInv, KindInv
<1>3. CASE CheckAdvisory(p)
  <2>1. /\ Go(p, "writing") \/ Fail(p, "failed")
        /\ call[p].at = "checking" /\ UNCHANGED <<files, calls>>
    BY <1>3 DEF CheckAdvisory
  <2>2. call[p].kind = "advisory"
    BY <1>2, <2>1 DEF KindInv
  <2>3. FileTypes'
    BY <1>1, <2>1, WorkUntouched
  <2> QED BY <2>1, <2>2, <2>3, MoveWork DEF Steps, Active, Done
<1>4. CASE WriteJson(p)
  <2>1. /\ Go(p, "half_written") /\ call[p].at = "writing"
        /\ call[p].kind = "advisory"
    BY <1>4 DEF WriteJson
  <2>2. FileTypes'
    BY <1>1, <1>2, <1>4, <2>1 DEF WriteJson, FileTypes
  <2> QED BY <2>1, <2>2, MoveWork DEF Steps, Active, Done
<1>5. CASE WriteMarkdown(p)
  <2>1. Go(p, "ended") /\ call[p].at = "half_written"
    BY <1>5 DEF WriteMarkdown
  <2>2. call[p].kind = "advisory"
    BY <1>2, <2>1 DEF KindInv
  <2>3. FileTypes'
    BY <1>1, <1>2, <1>5, <2>1 DEF WriteMarkdown, FileTypes
  <2> QED BY <2>1, <2>2, <2>3, MoveWork DEF Steps, Active, Done
<1>6. CASE WritePreflight(p)
  <2>1. /\ Go(p, "ended") /\ call[p].at = "writing"
        /\ call[p].kind = "preflight"
    BY <1>6 DEF WritePreflight
  <2>2. FileTypes'
    BY <1>1, <1>2, <1>6, <2>1 DEF WritePreflight, FileTypes
  <2> QED BY <2>1, <2>2, MoveWork DEF Steps, Active, Done
<1> QED BY <1>3, <1>4, <1>5, <1>6

(* Who has made no call has nothing to claim.                              *)
LEMMA NoCallWork == WorkInv(NoCall)
<1> DEFINE c == NoCall
<1>1. /\ c.id = 0 /\ c.kind = None /\ c.at = "idle" /\ c.turn = 1
      /\ c.row = 0 /\ c.seen = Unjudged /\ c.says = None
  BY DEF NoCall, Fresh
<1>2. /\ 0 \in 0 .. MaxCalls /\ 1 \in 1 .. 2
      /\ Unjudged \in [1 .. 2 -> [Items -> Verdicts \cup {None}]]
  BY JudgingConstants DEF Unjudged
<1> HIDE DEF c
<1>3. CertificateIsEarned(c) /\ ScoresAreEarned(c)
  BY <1>1 DEF CertificateIsEarned, ScoresAreEarned
<1>4. WorkInv(c)
  BY <1>1, <1>2, <1>3 DEF WorkInv
<1> QED BY <1>4 DEF c

(* A call that dies claims nothing.                                        *)
LEMMA ExitWork ==
  ASSUME ResultsInv, NEW p \in Procs, Exit(p)
  PROVE  KeepsWork(p)
<1>1. Types /\ FileTypes
  BY DEF ResultsInv, IInv
<1>2. call'[p] = NoCall /\ \A q \in Procs \ {p} : call'[q] = call[q]
  BY <1>1 DEF Exit, Types
<1>3. FileTypes'
  BY <1>1, WorkUntouched DEF Exit
<1> QED BY <1>2, <1>3, NoCallWork DEF KeepsWork

(* No call, no claim.                                                      *)
LEMMA InitResults == Init => ResultsInv
<1> SUFFICES ASSUME Init PROVE ResultsInv
  OBVIOUS
<1>1. FileTypes
  BY JudgingConstants DEF Init, FileTypes
<1>2. \A p \in Procs : call[p] = NoCall
  BY DEF Init
<1> QED BY <1>1, <1>2, InitHolds, NoCallWork DEF ResultsInv

(* Every step keeps what the calls have earned.                            *)
LEMMA NextResults == ResultsInv /\ [Next]_vars => ResultsInv'
<1> SUFFICES ASSUME ResultsInv, [Next]_vars PROVE ResultsInv'
  OBVIOUS
<1>1. IInv'
  BY NextKeeps DEF ResultsInv
<1>2. CASE UNCHANGED vars
  <2>1. FileTypes'
    BY <1>2, WorkUntouched DEF ResultsInv, vars
  <2>2. \A p \in Procs : call'[p] = call[p]
    BY <1>2 DEF vars
  <2> QED BY <1>1, <2>1, <2>2 DEF ResultsInv
<1>3. CASE Next
  <2>1. PICK p \in Procs : KeepsWork(p)
    BY <1>3, CallsWork, AcquireWork, VerdictsWork, ReleaseWork,
       ReleasedWork, FilesWork, ExitWork, Zenon DEF Next
  <2>2. \A q \in Procs : WorkInv(call'[q])
    BY <2>1 DEF KeepsWork, ResultsInv
  <2> QED BY <1>1, <2>1, <2>2 DEF ResultsInv, KeepsWork
<1> QED BY <1>2, <1>3

(* The inductive invariant of what calls say.                              *)
THEOREM ResultsInvariant == Spec => []ResultsInv
BY InitResults, NextResults, PTL DEF Spec

(* The types: a call is never at more judges than it has.                  *)
LEMMA TypesFollow == ResultsInv => TypeOK
<1> SUFFICES ASSUME ResultsInv PROVE TypeOK
  OBVIOUS
<1>1. Types /\ FileTypes
  BY DEF ResultsInv, IInv
<1>2. ASSUME NEW p \in Procs
      PROVE  CallType(call[p])
  <2> DEFINE c == call[p]
  <2>1. CallInv(c) /\ WorkInv(c)
    BY DEF ResultsInv, IInv
  <2> HIDE DEF c
  <2>2. c.at = "idle" \/ c.turn <= Len(c.judges)
    BY <2>1 DEF CallInv, WorkInv
  <2>3. CallType(c)
    BY <2>1, <2>2 DEF CallInv, WorkInv, CallType
  <2> QED BY <2>3 DEF c
<1> QED BY <1>1, <1>2 DEF TypeOK, Types, FileTypes

(* Whatever raises and whoever dies, calls, judges and files are of their  *)
(* types, and no call is at a judge it does not have.                      *)
THEOREM TypeCorrect == Spec => []TypeOK
BY ResultsInvariant, TypesFollow, PTL

(* A certificate and every score are earned by what the judges of the call *)
(* have said of the answers, in the turns they took.                       *)
LEMMA ResultsFollow == ResultsInv => ResultsAreEarned
BY DEF ResultsInv, WorkInv, ResultsAreEarned

THEOREM ResultsAreEarnedHolds == Spec => []ResultsAreEarned
BY ResultsInvariant, ResultsFollow, PTL
=============================================================================
