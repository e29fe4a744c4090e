-------------------------- MODULE ReviewStoreProofs --------------------------
(***************************************************************************)
(* Theorems about ReviewStore, for any set of servers, threads, cases and  *)
(* packets.  StoreInv holds for any number of processes; durability needs  *)
(* OneServer, and DurableInv is its strengthening.                         *)
(***************************************************************************)
EXTENDS ReviewStore, TLAPS

-----------------------------------------------------------------------------
(* The strengthening of WriteSection, DecisionsOfLoadedPacket and          *)
(* OverlayProvenance.                                                      *)

(* A busy thread belongs to a process that is serving.                     *)
ThreadAtHome(t) ==
  thr[t].pc # "idle" => /\ thr[t].srv \in Servers
                        /\ phase[thr[t].srv] = "up"
                        /\ thr[t].pc \in SaveSteps => thr[t].case \in Cases

HomeInv == TypeOK /\ \A t \in Threads : ThreadAtHome(t)

(* What an export has read so far comes from its own process, and it has   *)
(* read everything when it moves on to the files.                          *)
RowsOfHome(t) ==
  thr[t].pc \in ExportSteps =>
    \A c \in Cases : thr[t].rows[c] # None =>
      /\ thr[t].rows[c].packet = loaded[thr[t].srv]
      /\ thr[t].rows[c].by = Reviewer[thr[t].srv]

ReadAll(t) ==
  thr[t].pc \in ExportSteps \ {"read"} => Complete(thr[t].rows)

BlankUntilLoaded(s) ==
  phase[s] \in {"down", "packet", "mapping"} => decisions[s] = Blank

ProvenanceInv ==
  /\ \A t \in Threads : RowsOfHome(t) /\ ReadAll(t)
  /\ \A s \in Servers : BlankUntilLoaded(s)
  /\ DecisionsOfLoadedPacket
  /\ OverlayProvenance

(* Save numbers are handed out by seq, so nothing is numbered above it.    *)
NumbersUsed ==
  \A c \in Cases : /\ Num(stateFile[c]) <= seq
                   /\ \A s \in Servers : Num(decisions[s][c]) <= seq

(* The memory of a process does not go back during an export.              *)
FloorInMemory ==
  \A t \in Threads : thr[t].pc = "read" =>
    NotBefore(decisions[thr[t].srv], thr[t].floor)

FreshInv == NumbersUsed /\ FloorInMemory /\ OverlayNotStale

-----------------------------------------------------------------------------
(* The strengthening of AckedDurable for a single process.                 *)

OneServer == \A s1, s2 \in Servers : s1 = s2

FileOfLoadedPacket ==
  \A s \in Servers : phase[s] \in {"loaded", "up"} =>
    \A c \in Cases : stateFile[c] # None => stateFile[c].packet = loaded[s]

(* A decision about to be answered is on disk.                             *)
AnswerOnDisk ==
  \A t \in Threads : thr[t].pc = "respond" =>
    /\ stateFile[thr[t].case] # None
    /\ stateFile[thr[t].case].packet = loaded[thr[t].srv]
    /\ thr[t].n <= stateFile[thr[t].case].n

AnswerNumbered ==
  \A t \in Threads : thr[t].pc \in {"write", "respond"} => thr[t].n # 0

DurableInv ==
  /\ AnswerNumbered
  /\ MemoryCoversFile
  /\ FileOfLoadedPacket
  /\ AnswerOnDisk
  /\ AckedDurable

-----------------------------------------------------------------------------
LEMMA IdleType == Idle \in ThreadStates
BY ConstantsAssumption DEF Idle, ThreadStates, Rows, Blank

LEMMA EmptyFilesType ==
  /\ Blank \in Rows
  /\ NoOverlay \in OverlayContents
  /\ NoManifest \in ManifestContents
BY DEF Rows, Blank, NoOverlay, OverlayContents, NoManifest, ManifestContents

(* A case split on Next that every inductive step below follows.           *)
LEMMA NextCases ==
  ASSUME [Next]_vars
  PROVE  \/ \E s \in Servers : LoadPacket(s)
         \/ \E s \in Servers : LoadMapping(s)
         \/ \E s \in Servers : LoadState(s)
         \/ \E s \in Servers : Bind(s)
         \/ \E s \in Servers : Exit(s)
         \/ \E t \in Threads, s \in Servers, c \in Cases : SaveBegin(t, s, c)
         \/ \E t \in Threads : SaveCommit(t)
         \/ \E t \in Threads : SaveReplace(t)
         \/ \E t \in Threads : SaveFail(t)
         \/ \E t \in Threads : Respond(t)
         \/ \E t \in Threads : RespondLost(t)
         \/ \E t \in Threads, s \in Servers : ExportBegin(t, s)
         \/ \E t \in Threads, c \in Cases : ExportRead(t, c)
         \/ \E t \in Threads : ExportOverlay(t)
         \/ \E t \in Threads : ExportHashPacket(t)
         \/ \E t \in Threads : ExportHashMapping(t)
         \/ \E t \in Threads : ExportManifest(t)
         \/ \E t \in Threads : ExportFail(t)
         \/ UNCHANGED vars
BY DEF Next, Process, Request, Answer


-----------------------------------------------------------------------------
(* Type correctness, with the home of each thread, which its types rest on.*)

LEMMA HomeInit == Init => HomeInv
BY IdleType, EmptyFilesType, ConstantsAssumption
   DEF Init, HomeInv, ThreadAtHome, TypeOK, Idle, Rows, Blank, Phases

LEMMA HomeStep == HomeInv /\ [Next]_vars => HomeInv'
<1> SUFFICES ASSUME HomeInv, [Next]_vars PROVE HomeInv'
  OBVIOUS
<1> USE IdleType, EmptyFilesType, ConstantsAssumption DEF HomeInv,
       ThreadAtHome, TypeOK, SaveSteps, ExportSteps, files, procs
<1>1. ASSUME NEW s \in Servers, LoadPacket(s) PROVE HomeInv'
  BY <1>1 DEF LoadPacket, Phases
<1>2. ASSUME NEW s \in Servers, LoadMapping(s) PROVE HomeInv'
  BY <1>2 DEF LoadMapping, Phases
<1>3. ASSUME NEW s \in Servers, LoadState(s) PROVE HomeInv'
  BY <1>3 DEF LoadState, LoadStateAs, Phases
<1>4. ASSUME NEW s \in Servers, Bind(s) PROVE HomeInv'
  BY <1>4 DEF Bind, Phases
<1>5. ASSUME NEW s \in Servers, Exit(s) PROVE HomeInv'
  BY <1>5 DEF Exit, Phases, Idle
<1>6. ASSUME NEW t \in Threads, NEW s \in Servers, NEW c \in Cases,
             SaveBegin(t, s, c)
      PROVE  HomeInv'
  BY <1>6 DEF SaveBegin, Idle, ThreadStates
<1>7. ASSUME NEW t \in Threads, SaveCommit(t) PROVE HomeInv'
  <2> DEFINE s == thr[t].srv
             d == [n |-> seq + 1, by |-> Reviewer[s], packet |-> loaded[s]]
  <2>1. /\ s \in Servers /\ phase[s] = "up" /\ thr[t].case \in Cases
        /\ thr[t] \in ThreadStates
    BY <1>7 DEF SaveCommit
  <2>2. d \in Decision
    BY <2>1 DEF Decision, Reviewers
  <2>3. decisions' \in [Servers -> Rows]
    BY <1>7, <2>1, <2>2 DEF SaveCommit, Rows
  <2>4. ASSUME NEW n \in Nat
        PROVE  [thr[t] EXCEPT !.pc = "write", !.n = n] \in ThreadStates
    BY <2>1 DEF ThreadStates
  <2>5. thr' \in [Threads -> ThreadStates]
    <3>1. seq + 1 \in Nat
      BY SMTT(30), seq \in Nat
    <3>. QED
      BY <1>7, <2>4, <3>1 DEF SaveCommit
  <2>6. \A u \in Threads : ThreadAtHome(u)'
    BY <1>7, <2>1 DEF SaveCommit, ThreadStates
  <2>. QED
    BY <1>7, <2>3, <2>5, <2>6 DEF SaveCommit
<1>8. ASSUME NEW t \in Threads, SaveReplace(t) PROVE HomeInv'
  BY <1>8 DEF SaveReplace, ThreadStates
<1>9. ASSUME NEW t \in Threads, SaveFail(t) PROVE HomeInv'
  BY <1>9 DEF SaveFail, Idle
<1>10. ASSUME NEW t \in Threads, Respond(t) PROVE HomeInv'
  BY <1>10 DEF Respond, Idle, ThreadStates
<1>11. ASSUME NEW t \in Threads, RespondLost(t) PROVE HomeInv'
  BY <1>11 DEF RespondLost, Idle
<1>12. ASSUME NEW t \in Threads, NEW s \in Servers, ExportBegin(t, s)
      PROVE  HomeInv'
  BY <1>12 DEF ExportBegin, Idle, ThreadStates
<1>13. ASSUME NEW t \in Threads, NEW c \in Cases, ExportRead(t, c)
      PROVE  HomeInv'
  <2> DEFINE rows == [thr[t].rows EXCEPT ![c] = decisions[thr[t].srv][c]]
             step == IF Complete(rows) THEN "overlay" ELSE "read"
  <2>1. rows \in Rows
    BY <1>13 DEF ExportRead, ThreadStates, Rows
  <2>2. [thr[t] EXCEPT !.rows = rows, !.pc = step] \in ThreadStates
    BY <2>1 DEF ThreadStates
  <2>3. thr' = [thr EXCEPT ![t] = [thr[t] EXCEPT !.rows = rows, !.pc = step]]
    BY <1>13 DEF ExportRead
  <2>4. thr' \in [Threads -> ThreadStates]
    BY <2>2, <2>3
  <2>5. \A u \in Threads : ThreadAtHome(u)'
    BY <1>13, <2>2, <2>3 DEF ExportRead, ThreadStates
  <2>. QED
    BY <1>13, <2>4, <2>5 DEF ExportRead
<1>14. ASSUME NEW t \in Threads, ExportOverlay(t) PROVE HomeInv'
  BY <1>14 DEF ExportOverlay, ThreadStates, Overlay, OverlayContents, Reviewers
<1>15. ASSUME NEW t \in Threads, ExportHashPacket(t) PROVE HomeInv'
  BY <1>15 DEF ExportHashPacket, ThreadStates
<1>16. ASSUME NEW t \in Threads, ExportHashMapping(t) PROVE HomeInv'
  BY <1>16 DEF ExportHashMapping, ThreadStates
<1>17. ASSUME NEW t \in Threads, ExportManifest(t) PROVE HomeInv'
  BY <1>17 DEF ExportManifest, Idle, Overlay, ThreadStates, OverlayContents,
       ManifestContents, Reviewers
<1>18. ASSUME NEW t \in Threads, ExportFail(t) PROVE HomeInv'
  BY <1>18 DEF ExportFail, Idle
<1>19. ASSUME UNCHANGED vars PROVE HomeInv'
  BY <1>19 DEF vars
<1> QED
  BY <1>1, <1>2, <1>3, <1>4, <1>5, <1>6, <1>7, <1>8, <1>9, <1>10, <1>11,
       <1>12, <1>13, <1>14, <1>15, <1>16, <1>17, <1>18, <1>19, NextCases


-----------------------------------------------------------------------------
(* The two steps that change one cell of a nested structure, field by      *)
(* field.                                                                  *)

Commits(t, home) ==
  /\ home = thr[t].srv /\ home \in Servers /\ phase[home] = "up"
  /\ thr[t].case \in Cases
  /\ lock[home] = None /\ lock' = [lock EXCEPT ![home] = t]
  /\ thr'[t].pc = "write" /\ thr'[t].n = seq + 1
  /\ thr'[t].srv = home /\ thr'[t].case = thr[t].case
  /\ \A u \in Threads : u # t => thr'[u] = thr[u]
  /\ \A s \in Servers : s # home => decisions'[s] = decisions[s]
  /\ \A c \in Cases : decisions'[home][c] =
       IF c = thr[t].case
       THEN [n |-> seq + 1, by |-> Reviewer[home], packet |-> loaded[home]]
       ELSE decisions[home][c]
  /\ Num(decisions'[home][thr[t].case]) = seq + 1
  /\ seq' = seq + 1
  /\ UNCHANGED <<phase, loaded, stateFile, overlayFile, acked>>

LEMMA CommitEffect ==
  ASSUME HomeInv, NEW t \in Threads, SaveCommit(t)
  PROVE  Commits(t, thr[t].srv)
<1> DEFINE home == thr[t].srv
           d == [n |-> seq + 1, by |-> Reviewer[home],
                 packet |-> loaded[home]]
<1>1. /\ home \in Servers /\ phase[home] = "up" /\ thr[t].case \in Cases
      /\ seq \in Nat /\ loaded[home] \in Packets
  BY DEF SaveCommit, HomeInv, ThreadAtHome, TypeOK, SaveSteps
<1>2. d \in Decision
  BY <1>1 DEF Decision, Reviewers
<1>3. Num(d) = seq + 1
  BY <1>2, NoneAssumption DEF Num
<1>4. /\ decisions'[home][thr[t].case] = d
      /\ \A c \in Cases : decisions'[home][c] =
           IF c = thr[t].case THEN d ELSE decisions[home][c]
  BY <1>1 DEF SaveCommit, HomeInv, TypeOK, Rows
<1>5. /\ thr'[t].pc = "write" /\ thr'[t].n = seq + 1
      /\ thr'[t].srv = home /\ thr'[t].case = thr[t].case
      /\ \A u \in Threads : u # t => thr'[u] = thr[u]
  BY DEF SaveCommit, HomeInv, TypeOK, ThreadStates
<1>6. \A s \in Servers : s # home => decisions'[s] = decisions[s]
  BY DEF SaveCommit, HomeInv, TypeOK
<1>. QED
  BY <1>1, <1>3, <1>4, <1>5, <1>6 DEF SaveCommit, Commits, files

Reads(t, c, home) ==
  /\ home = thr[t].srv /\ home \in Servers /\ thr[t].pc = "read"
  /\ thr[t].rows[c] = None
  /\ thr'[t].srv = home /\ thr'[t].floor = thr[t].floor
  /\ thr'[t].pc \in {"read", "overlay"}
  /\ \A u \in Threads : u # t => thr'[u] = thr[u]
  /\ thr'[t].pc = "overlay" => Complete(thr'[t].rows)
  /\ \A d \in Cases : thr'[t].rows[d] =
       IF d = c THEN decisions[home][c] ELSE thr[t].rows[d]
  /\ UNCHANGED <<phase, loaded, decisions, lock, stateFile, overlayFile, seq,
                 acked>>

LEMMA ReadEffect ==
  ASSUME HomeInv, NEW t \in Threads, NEW c \in Cases, ExportRead(t, c)
  PROVE  Reads(t, c, thr[t].srv)
<1> DEFINE home == thr[t].srv
           rows == [thr[t].rows EXCEPT ![c] = decisions[home][c]]
           step == IF Complete(rows) THEN "overlay" ELSE "read"
<1>1. /\ home \in Servers /\ thr[t].pc = "read" /\ thr[t].rows[c] = None
      /\ thr[t] \in ThreadStates /\ thr \in [Threads -> ThreadStates]
      /\ thr[t].rows \in [Cases -> Decision \cup {None}]
  BY DEF ExportRead, HomeInv, ThreadAtHome, TypeOK, ThreadStates, Rows
<1>2. thr' = [thr EXCEPT ![t] = [thr[t] EXCEPT !.rows = rows, !.pc = step]]
  BY DEF ExportRead
<1>3. /\ thr'[t].rows = rows /\ thr'[t].pc = step /\ thr'[t].srv = home
      /\ thr'[t].floor = thr[t].floor
      /\ \A u \in Threads : u # t => thr'[u] = thr[u]
  BY <1>1, <1>2 DEF ThreadStates
<1>. QED
  BY <1>1, <1>3 DEF Reads, ExportRead, files, procs

-----------------------------------------------------------------------------
(* Provenance: whose decisions are where, for any number of processes.     *)

LEMMA ProvenanceInit == Init => ProvenanceInv
BY DEF Init, ProvenanceInv, RowsOfHome, ReadAll, BlankUntilLoaded,
       DecisionsOfLoadedPacket, OverlayProvenance, Idle, Blank, NoOverlay,
       ExportSteps

LEMMA ProvenanceStep ==
  HomeInv /\ HomeInv' /\ ProvenanceInv /\ [Next]_vars => ProvenanceInv'
<1> SUFFICES ASSUME HomeInv, HomeInv', ProvenanceInv, [Next]_vars
             PROVE  ProvenanceInv'
  OBVIOUS
<1> USE DEF HomeInv, ThreadAtHome, TypeOK, ProvenanceInv, RowsOfHome, ReadAll,
            BlankUntilLoaded, DecisionsOfLoadedPacket, OverlayProvenance,
            ExportSteps, files, procs
<1>1. ASSUME NEW s \in Servers, LoadPacket(s)
      PROVE  ProvenanceInv'
  BY <1>1 DEF LoadPacket, Blank
<1>2. ASSUME NEW s \in Servers, LoadMapping(s)
      PROVE  ProvenanceInv'
  BY <1>2 DEF LoadMapping
<1>3. ASSUME NEW s \in Servers, LoadState(s)
      PROVE  ProvenanceInv'
  BY <1>3 DEF LoadState, LoadStateAs, Loadable
<1>4. ASSUME NEW s \in Servers, Bind(s)
      PROVE  ProvenanceInv'
  BY <1>4 DEF Bind
<1>5. ASSUME NEW s \in Servers, Exit(s)
      PROVE  ProvenanceInv'
  BY <1>5 DEF Exit, Idle, Blank
<1>6. ASSUME NEW t \in Threads, NEW s \in Servers, NEW c \in Cases,
             SaveBegin(t, s, c)
      PROVE  ProvenanceInv'
  BY <1>6 DEF SaveBegin, Idle
<1>7. ASSUME NEW t \in Threads, SaveCommit(t)
      PROVE  ProvenanceInv'
  BY <1>7 DEF SaveCommit, ThreadStates, SaveSteps
<1>8. ASSUME NEW t \in Threads, SaveReplace(t)
      PROVE  ProvenanceInv'
  BY <1>8 DEF SaveReplace, ThreadStates, SaveSteps
<1>9. ASSUME NEW t \in Threads, SaveFail(t)
      PROVE  ProvenanceInv'
  BY <1>9 DEF SaveFail, Idle
<1>10. ASSUME NEW t \in Threads, Respond(t)
      PROVE  ProvenanceInv'
  BY <1>10 DEF Respond, Idle
<1>11. ASSUME NEW t \in Threads, RespondLost(t)
      PROVE  ProvenanceInv'
  BY <1>11 DEF RespondLost, Idle
<1>12. ASSUME NEW t \in Threads, NEW s \in Servers, ExportBegin(t, s)
      PROVE  ProvenanceInv'
  BY <1>12 DEF ExportBegin, Idle, Blank
<1>13. ASSUME NEW t \in Threads, NEW c \in Cases, ExportRead(t, c)
      PROVE  ProvenanceInv'
  <2>1. Reads(t, c, thr[t].srv)
    BY <1>13, ReadEffect
  <2>2. RowsOfHome(t)' /\ ReadAll(t)'
    <3>1. ReadAll(t)'
      BY <2>1 DEF Reads
    <3>2. ASSUME NEW d \in Cases, thr'[t].rows[d] # None
          PROVE  /\ thr'[t].rows[d].packet = loaded[thr[t].srv]
                 /\ thr'[t].rows[d].by = Reviewer[thr[t].srv]
      <4>1. CASE d = c
        BY <2>1, <3>2, <4>1 DEF Reads
      <4>2. CASE d # c
        BY <2>1, <3>2, <4>2 DEF Reads
      <4>. QED
        BY <4>1, <4>2
    <3>. QED
      BY <2>1, <3>1, <3>2 DEF Reads
  <2>3. ASSUME NEW u \in Threads, u # t PROVE RowsOfHome(u)' /\ ReadAll(u)'
    BY <2>1, <2>3 DEF Reads
  <2>. QED
    BY <2>1, <2>2, <2>3 DEF Reads
<1>14. ASSUME NEW t \in Threads, ExportOverlay(t)
      PROVE  ProvenanceInv'
  <2>1. /\ RowsOfHome(t) /\ ReadAll(t) /\ thr[t].pc = "overlay"
        /\ overlayFile' = Overlay(t)
    BY <1>14 DEF ExportOverlay
  <2>2. OverlayProvenance'
    BY <2>1 DEF Overlay, Complete
  <2>3. \A u \in Threads : RowsOfHome(u)' /\ ReadAll(u)'
    BY <1>14 DEF ExportOverlay, ThreadStates
  <2>. QED
    BY <1>14, <2>2, <2>3 DEF ExportOverlay
<1>15. ASSUME NEW t \in Threads, ExportHashPacket(t)
      PROVE  ProvenanceInv'
  BY <1>15 DEF ExportHashPacket, ThreadStates
<1>16. ASSUME NEW t \in Threads, ExportHashMapping(t)
      PROVE  ProvenanceInv'
  BY <1>16 DEF ExportHashMapping, ThreadStates
<1>17. ASSUME NEW t \in Threads, ExportManifest(t)
      PROVE  ProvenanceInv'
  BY <1>17 DEF ExportManifest, Idle
<1>18. ASSUME NEW t \in Threads, ExportFail(t)
      PROVE  ProvenanceInv'
  BY <1>18 DEF ExportFail, Idle
<1>19. ASSUME UNCHANGED vars PROVE ProvenanceInv'
  BY <1>19 DEF vars
<1> QED
  BY <1>1, <1>2, <1>3, <1>4, <1>5, <1>6, <1>7, <1>8, <1>9, <1>10, <1>11,
     <1>12, <1>13, <1>14, <1>15, <1>16, <1>17, <1>18, <1>19, NextCases

-----------------------------------------------------------------------------
(* The critical section of save.                                           *)

LEMMA WriteInit == Init => WriteSection
BY DEF Init, WriteSection, Idle

LEMMA WriteStep ==
  HomeInv /\ HomeInv' /\ WriteSection /\ [Next]_vars => WriteSection'
<1> SUFFICES ASSUME HomeInv, HomeInv', WriteSection, [Next]_vars
             PROVE  WriteSection'
  OBVIOUS
<1> USE DEF HomeInv, ThreadAtHome, TypeOK, WriteSection, SaveSteps, files,
       procs
<1>1. ASSUME NEW s \in Servers, LoadPacket(s)
      PROVE  WriteSection'
  BY <1>1 DEF LoadPacket
<1>2. ASSUME NEW s \in Servers, LoadMapping(s)
      PROVE  WriteSection'
  BY <1>2 DEF LoadMapping
<1>3. ASSUME NEW s \in Servers, LoadState(s)
      PROVE  WriteSection'
  BY <1>3 DEF LoadState, LoadStateAs
<1>4. ASSUME NEW s \in Servers, Bind(s)
      PROVE  WriteSection'
  BY <1>4 DEF Bind
<1>5. ASSUME NEW s \in Servers, Exit(s)
      PROVE  WriteSection'
  BY <1>5 DEF Exit, Idle
<1>6. ASSUME NEW t \in Threads, NEW s \in Servers, NEW c \in Cases,
             SaveBegin(t, s, c)
      PROVE  WriteSection'
  BY <1>6 DEF SaveBegin, Idle
<1>7. ASSUME NEW t \in Threads, SaveCommit(t)
      PROVE  WriteSection'
  <2>1. Commits(t, thr[t].srv)
    BY <1>7, CommitEffect
  <2>2. ASSUME NEW u \in Threads, thr'[u].pc = "write"
        PROVE  /\ lock'[thr'[u].srv] = u
               /\ phase'[thr'[u].srv] = "up"
               /\ Num(decisions'[thr'[u].srv][thr'[u].case]) = thr'[u].n
    <3>1. CASE u = t
      BY <2>1, <3>1 DEF Commits
    <3>2. CASE u # t
      <4>1. thr'[u] = thr[u] /\ thr[u].pc = "write" /\ thr[u].srv \in Servers
        BY <2>1, <2>2, <3>2 DEF Commits
      <4>2. thr[u].srv # thr[t].srv
        BY <2>1, <4>1, ConstantsAssumption DEF Commits
      <4>. QED
        BY <2>1, <4>1, <4>2 DEF Commits
    <3>. QED
      BY <3>1, <3>2
  <2>. QED
    BY <2>2
<1>8. ASSUME NEW t \in Threads, SaveReplace(t)
      PROVE  WriteSection'
  BY <1>8 DEF SaveReplace, ThreadStates
<1>9. ASSUME NEW t \in Threads, SaveFail(t)
      PROVE  WriteSection'
  BY <1>9 DEF SaveFail, Idle
<1>10. ASSUME NEW t \in Threads, Respond(t)
      PROVE  WriteSection'
  BY <1>10 DEF Respond, Idle
<1>11. ASSUME NEW t \in Threads, RespondLost(t)
      PROVE  WriteSection'
  BY <1>11 DEF RespondLost, Idle
<1>12. ASSUME NEW t \in Threads, NEW s \in Servers, ExportBegin(t, s)
      PROVE  WriteSection'
  BY <1>12 DEF ExportBegin, Idle
<1>13. ASSUME NEW t \in Threads, NEW c \in Cases, ExportRead(t, c)
      PROVE  WriteSection'
  <2>1. Reads(t, c, thr[t].srv)
    BY <1>13, ReadEffect
  <2>2. ASSUME NEW u \in Threads, thr'[u].pc = "write"
        PROVE  thr'[u] = thr[u] /\ thr[u].pc = "write"
    BY <2>1, <2>2 DEF Reads
  <2>. QED
    BY <2>1, <2>2 DEF Reads
<1>14. ASSUME NEW t \in Threads, ExportOverlay(t)
      PROVE  WriteSection'
  BY <1>14 DEF ExportOverlay, ThreadStates
<1>15. ASSUME NEW t \in Threads, ExportHashPacket(t)
      PROVE  WriteSection'
  BY <1>15 DEF ExportHashPacket, ThreadStates
<1>16. ASSUME NEW t \in Threads, ExportHashMapping(t)
      PROVE  WriteSection'
  BY <1>16 DEF ExportHashMapping, ThreadStates
<1>17. ASSUME NEW t \in Threads, ExportManifest(t)
      PROVE  WriteSection'
  BY <1>17 DEF ExportManifest, Idle
<1>18. ASSUME NEW t \in Threads, ExportFail(t)
      PROVE  WriteSection'
  BY <1>18 DEF ExportFail, Idle
<1>19. ASSUME UNCHANGED vars PROVE WriteSection'
  BY <1>19 DEF vars
<1> QED
  BY <1>1, <1>2, <1>3, <1>4, <1>5, <1>6, <1>7, <1>8, <1>9, <1>10, <1>11,
     <1>12, <1>13, <1>14, <1>15, <1>16, <1>17, <1>18, <1>19, NextCases
-----------------------------------------------------------------------------
(* Exports are not stale, for any number of processes.                     *)

LEMMA FreshInit == Init => FreshInv
BY DEF Init, FreshInv, NumbersUsed, FloorInMemory, OverlayNotStale, Idle,
       Blank, Num, ExportSteps

LEMMA FreshStep ==
  HomeInv /\ HomeInv' /\ FreshInv /\ [Next]_vars => FreshInv'
<1> SUFFICES ASSUME HomeInv, HomeInv', FreshInv, [Next]_vars
             PROVE  FreshInv'
  OBVIOUS
<1> USE DEF HomeInv, ThreadAtHome, TypeOK, FreshInv, NumbersUsed,
       FloorInMemory,
            OverlayNotStale, NotBefore, SaveSteps, ExportSteps, files, procs
<1>1. ASSUME NEW s \in Servers, LoadPacket(s)
      PROVE  FreshInv'
  BY <1>1 DEF LoadPacket
<1>2. ASSUME NEW s \in Servers, LoadMapping(s)
      PROVE  FreshInv'
  BY <1>2 DEF LoadMapping
<1>3. ASSUME NEW s \in Servers, LoadState(s)
      PROVE  FreshInv'
  BY <1>3 DEF LoadState, LoadStateAs
<1>4. ASSUME NEW s \in Servers, Bind(s)
      PROVE  FreshInv'
  BY <1>4 DEF Bind
<1>5. ASSUME NEW s \in Servers, Exit(s)
      PROVE  FreshInv'
  BY <1>5 DEF Exit, Idle, Blank, Num
<1>6. ASSUME NEW t \in Threads, NEW s \in Servers, NEW c \in Cases,
             SaveBegin(t, s, c)
      PROVE  FreshInv'
  BY <1>6 DEF SaveBegin, Idle
<1>7. ASSUME NEW t \in Threads, SaveCommit(t)
      PROVE  FreshInv'
  <2>1. Commits(t, thr[t].srv) /\ seq \in Nat
    BY <1>7, CommitEffect
  <2>2. \A s \in Servers, c \in Cases :
          /\ Num(decisions[s][c]) \in Nat
          /\ Num(decisions[s][c]) <= seq
    BY DEF Num, Rows, Decision
  <2>3. ASSUME NEW s \in Servers, NEW c \in Cases
        PROVE  \/ decisions'[s][c] = decisions[s][c]
               \/ Num(decisions'[s][c]) = seq + 1
    <3>1. CASE s # thr[t].srv
      BY <2>1, <3>1 DEF Commits
    <3>2. CASE s = thr[t].srv /\ c # thr[t].case
      BY <2>1, <3>2 DEF Commits
    <3>3. CASE s = thr[t].srv /\ c = thr[t].case
      BY <2>1, <3>3 DEF Commits
    <3>. QED
      BY <3>1, <3>2, <3>3
  <2>4. ASSUME NEW s \in Servers, NEW c \in Cases
        PROVE  /\ Num(decisions'[s][c]) \in Nat
               /\ Num(decisions[s][c]) <= Num(decisions'[s][c])
               /\ Num(decisions'[s][c]) <= seq'
    <3>1. CASE decisions'[s][c] = decisions[s][c]
      BY <2>1, <2>2, <3>1 DEF Commits
    <3>2. CASE Num(decisions'[s][c]) = seq + 1
      BY <2>1, <2>2, <3>2 DEF Commits
    <3>. QED
      BY <2>3, <3>1, <3>2
  <2>5. \A c \in Cases : Num(stateFile[c]) \in Nat
    BY DEF Num, Rows, Decision
  <2>6. NumbersUsed'
    BY <2>1, <2>4, <2>5 DEF Commits
  <2>7. \A u \in Threads : thr'[u].pc \in ExportSteps => thr'[u] = thr[u]
    BY <2>1 DEF Commits
  <2>8. \A u \in Threads, c \in Cases : Num(thr[u].floor[c]) \in Nat
    BY DEF Num, Rows, Decision, ThreadStates
  <2>9. FloorInMemory'
    <3> SUFFICES ASSUME NEW u \in Threads, thr'[u].pc = "read", NEW c \in Cases
                 PROVE  Num(thr'[u].floor[c])
                          <= Num(decisions'[thr'[u].srv][c])
      OBVIOUS
    <3>1. thr'[u] = thr[u] /\ thr[u].srv \in Servers
      BY <2>7
    <3>2. Num(thr[u].floor[c]) <= Num(decisions[thr[u].srv][c])
      BY <3>1
    <3>. QED
      BY <2>2, <2>4, <2>8, <3>1, <3>2
  <2>10. OverlayNotStale'
    BY <2>7
  <2>. QED
    BY <2>6, <2>9, <2>10
<1>8. ASSUME NEW t \in Threads, SaveReplace(t)
      PROVE  FreshInv'
  BY <1>8 DEF SaveReplace, ThreadStates
<1>9. ASSUME NEW t \in Threads, SaveFail(t)
      PROVE  FreshInv'
  BY <1>9 DEF SaveFail, Idle
<1>10. ASSUME NEW t \in Threads, Respond(t)
      PROVE  FreshInv'
  BY <1>10 DEF Respond, Idle
<1>11. ASSUME NEW t \in Threads, RespondLost(t)
      PROVE  FreshInv'
  BY <1>11 DEF RespondLost, Idle
<1>12. ASSUME NEW t \in Threads, NEW s \in Servers, ExportBegin(t, s)
      PROVE  FreshInv'
  <2>1. /\ thr'[t].pc = "read" /\ thr'[t].floor = decisions[s]
        /\ thr'[t].srv = s /\ thr'[t].rows = Blank
        /\ \A u \in Threads : u # t => thr'[u] = thr[u]
        /\ UNCHANGED <<stateFile, decisions, seq>>
    BY <1>12 DEF ExportBegin, Idle
  <2>2. NotBefore(decisions[s], decisions[s])
    <3>1. \A c \in Cases : Num(decisions[s][c]) \in Nat
      BY DEF Num, Rows, Decision
    <3>. QED
      BY <3>1
  <2>3. FloorInMemory'
    BY <2>1, <2>2
  <2>4. OverlayNotStale'
    <3>1. \A c \in Cases : thr'[t].rows[c] = None
      BY <2>1 DEF Blank
    <3> SUFFICES ASSUME NEW u \in Threads, thr'[u].pc \in ExportSteps,
                        NEW c \in Cases
                 PROVE  IF thr'[u].rows[c] = None
                        THEN thr'[u].pc = "read"
                        ELSE Num(thr'[u].floor[c]) <= Num(thr'[u].rows[c])
      OBVIOUS
    <3>2. CASE u = t
      BY <2>1, <3>1, <3>2
    <3>3. CASE u # t
      BY <2>1, <3>3
    <3>. QED
      BY <3>2, <3>3
  <2>. QED
    BY <2>1, <2>3, <2>4
<1>13. ASSUME NEW t \in Threads, NEW c \in Cases, ExportRead(t, c)
      PROVE  FreshInv'
  <2>1. Reads(t, c, thr[t].srv)
    BY <1>13, ReadEffect
  <2>2. FloorInMemory'
    BY <2>1 DEF Reads
  <2>3. ASSUME NEW d \in Cases
        PROVE  IF thr'[t].rows[d] = None
               THEN thr'[t].pc = "read"
               ELSE Num(thr'[t].floor[d]) <= Num(thr'[t].rows[d])
    <3>1. CASE d = c
      BY <2>1, <3>1 DEF Reads, Complete
    <3>2. CASE d # c
      BY <2>1, <3>2 DEF Reads, Complete
    <3>. QED
      BY <3>1, <3>2
  <2>4. OverlayNotStale'
    BY <2>1, <2>3 DEF Reads
  <2>. QED
    BY <2>1, <2>2, <2>4 DEF Reads
<1>14. ASSUME NEW t \in Threads, ExportOverlay(t)
      PROVE  FreshInv'
  BY <1>14 DEF ExportOverlay, ThreadStates
<1>15. ASSUME NEW t \in Threads, ExportHashPacket(t)
      PROVE  FreshInv'
  BY <1>15 DEF ExportHashPacket, ThreadStates
<1>16. ASSUME NEW t \in Threads, ExportHashMapping(t)
      PROVE  FreshInv'
  BY <1>16 DEF ExportHashMapping, ThreadStates
<1>17. ASSUME NEW t \in Threads, ExportManifest(t)
      PROVE  FreshInv'
  BY <1>17 DEF ExportManifest, Idle
<1>18. ASSUME NEW t \in Threads, ExportFail(t)
      PROVE  FreshInv'
  BY <1>18 DEF ExportFail, Idle
<1>19. ASSUME UNCHANGED vars PROVE FreshInv'
  BY <1>19 DEF vars
<1> QED
  BY <1>1, <1>2, <1>3, <1>4, <1>5, <1>6, <1>7, <1>8, <1>9, <1>10, <1>11,
     <1>12, <1>13, <1>14, <1>15, <1>16, <1>17, <1>18, <1>19, NextCases

-----------------------------------------------------------------------------
(* The theorems that hold for any number of processes.                     *)

StoreInv == HomeInv /\ ProvenanceInv /\ WriteSection /\ FreshInv

LEMMA StoreInvariant == Spec => []StoreInv
<1>1. Init => StoreInv
  BY HomeInit, ProvenanceInit, WriteInit, FreshInit DEF StoreInv
<1>2. StoreInv /\ [Next]_vars => StoreInv'
  BY HomeStep, ProvenanceStep, WriteStep, FreshStep DEF StoreInv
<1>. QED
  BY <1>1, <1>2, PTL DEF Spec

(* Every variable keeps its type: in particular the files of the server    *)
(* only ever hold whole contents it has written.                           *)
THEOREM TypeCorrect == Spec => []TypeOK
<1>1. StoreInv => TypeOK
  BY DEF StoreInv, HomeInv
<1>. QED
  BY <1>1, StoreInvariant, PTL

(* Between the update of the dictionary and the replacement of the state   *)
(* file no other request of the process saves (ReviewStore.save).          *)
THEOREM WriteSectionHolds == Spec => []WriteSection
<1>1. StoreInv => WriteSection
  BY DEF StoreInv
<1>. QED
  BY <1>1, StoreInvariant, PTL

(* An exported row was decided by the reviewer the overlay names, on the   *)
(* packet of all the other rows, however many processes share the files.   *)
THEOREM ProvenanceHolds == Spec => []OverlayProvenance
<1>1. StoreInv => OverlayProvenance
  BY DEF StoreInv, ProvenanceInv
<1>. QED
  BY <1>1, StoreInvariant, PTL

(* No process takes over another reviewer's decisions, or decisions on a   *)
(* packet it has not loaded (_load_state).                                 *)
THEOREM MemoryIsOwnWork == Spec => []DecisionsOfLoadedPacket
<1>1. StoreInv => DecisionsOfLoadedPacket
  BY DEF StoreInv, ProvenanceInv
<1>. QED
  BY <1>1, StoreInvariant, PTL

(* An export misses no case and no decision committed before it began,     *)
(* though it reads the dictionary without the lock.                        *)
THEOREM OverlayNotStaleHolds == Spec => []OverlayNotStale
<1>1. StoreInv => OverlayNotStale
  BY DEF StoreInv, FreshInv
<1>. QED
  BY <1>1, StoreInvariant, PTL

-----------------------------------------------------------------------------
(* Durability, for a single process.                                       *)

LEMMA NumOfRow ==
  ASSUME NEW d \in Decision \cup {None}
  PROVE  /\ Num(d) \in Nat
         /\ d = None => Num(d) = 0
         /\ d # None => Num(d) = d.n /\ Num(d) # 0
BY NoneAssumption DEF Num, Decision

LEMMA RowsTyped ==
  ASSUME HomeInv
  PROVE  /\ \A c \in Cases : stateFile[c] \in Decision \cup {None}
         /\ \A s \in Servers, c \in Cases :
              decisions[s][c] \in Decision \cup {None}
BY DEF HomeInv, TypeOK, Rows

LEMMA DurableInit == Init => DurableInv
BY DEF Init, DurableInv, AnswerNumbered, MemoryCoversFile, FileOfLoadedPacket,
       AnswerOnDisk, AckedDurable, NotBefore, Blank, Idle

(* The heart of durability: replacing the file by the memory of the only   *)
(* process loses nothing that the file held.                               *)
LEMMA ReplaceKeeps ==
  ASSUME OneServer, StoreInv, DurableInv,
         NEW home \in Servers, phase[home] = "up",
         NEW c \in Cases, stateFile[c] # None
  PROVE  /\ decisions[home][c] # None
         /\ decisions[home][c].packet = loaded[home]
         /\ stateFile[c].packet = loaded[home]
         /\ stateFile[c].n <= decisions[home][c].n
<1>1. Num(stateFile[c]) <= Num(decisions[home][c])
  BY DEF DurableInv, MemoryCoversFile, NotBefore
<1>2. /\ stateFile[c] \in Decision \cup {None}
      /\ decisions[home][c] \in Decision \cup {None}
  BY RowsTyped DEF StoreInv
<1>3. decisions[home][c] # None
  BY <1>1, <1>2, NumOfRow
<1>4. stateFile[c].n <= decisions[home][c].n
  BY <1>1, <1>2, <1>3, NumOfRow
<1>5. stateFile[c].packet = loaded[home]
  BY DEF DurableInv, FileOfLoadedPacket
<1>. QED
  BY <1>3, <1>4, <1>5 DEF StoreInv, ProvenanceInv, DecisionsOfLoadedPacket

LEMMA DurableStep ==
  OneServer /\ StoreInv /\ StoreInv' /\ DurableInv /\ [Next]_vars
    => DurableInv'
<1> SUFFICES ASSUME OneServer, StoreInv, StoreInv', DurableInv, [Next]_vars
             PROVE  DurableInv'
  OBVIOUS
<1>0. HomeInv /\ HomeInv' /\ WriteSection /\ NumbersUsed
  BY DEF StoreInv, FreshInv
<1>1. ASSUME NEW s \in Servers, LoadPacket(s)
      PROVE  DurableInv'
  BY <1>0, <1>1
     DEF LoadPacket, DurableInv, AnswerNumbered, MemoryCoversFile,
          FileOfLoadedPacket, AnswerOnDisk,
         AckedDurable,
         HomeInv, ThreadAtHome, TypeOK, OneServer, files, procs, SaveSteps
<1>2. ASSUME NEW s \in Servers, LoadMapping(s)
      PROVE  DurableInv'
  BY <1>0, <1>2
     DEF LoadMapping, DurableInv, AnswerNumbered, MemoryCoversFile,
          FileOfLoadedPacket, AnswerOnDisk,
         AckedDurable,
         HomeInv, ThreadAtHome, TypeOK, OneServer, files, procs, SaveSteps
<1>3. ASSUME NEW s \in Servers, LoadState(s)
      PROVE  DurableInv'
  <2>1. /\ phase' = [phase EXCEPT ![s] = "loaded"]
        /\ phase \in [Servers -> Phases]
        /\ decisions'[s] = stateFile
        /\ UNCHANGED <<stateFile, loaded, thr, acked>>
        /\ \A u \in Servers : u = s
    BY <1>0, <1>3 DEF LoadState, LoadStateAs, HomeInv, TypeOK, files, OneServer
  <2>2. \A c \in Cases : Num(stateFile[c]) \in Nat
    BY <1>0, RowsTyped, NumOfRow
  <2>3. MemoryCoversFile'
    BY <2>1, <2>2 DEF MemoryCoversFile, NotBefore
  <2>4. FileOfLoadedPacket'
    BY <1>3, <2>1 DEF FileOfLoadedPacket, LoadState, LoadStateAs, Loadable
  <2>. QED
    BY <2>1, <2>3, <2>4
       DEF DurableInv, AnswerNumbered, AnswerOnDisk, AckedDurable
<1>4. ASSUME NEW s \in Servers, Bind(s)
      PROVE  DurableInv'
  BY <1>0, <1>4
     DEF Bind, DurableInv, AnswerNumbered, MemoryCoversFile,
          FileOfLoadedPacket, AnswerOnDisk,
         AckedDurable,
         HomeInv, ThreadAtHome, TypeOK, OneServer, files, procs, SaveSteps
<1>5. ASSUME NEW s \in Servers, Exit(s)
      PROVE  DurableInv'
  BY <1>0, <1>5
     DEF Exit, Idle, DurableInv, AnswerNumbered, MemoryCoversFile,
          FileOfLoadedPacket, AnswerOnDisk,
         AckedDurable,
         HomeInv, ThreadAtHome, TypeOK, OneServer, files, procs, SaveSteps
<1>6. ASSUME NEW t \in Threads, NEW s \in Servers, NEW c \in Cases,
             SaveBegin(t, s, c)
      PROVE  DurableInv'
  BY <1>0, <1>6
     DEF SaveBegin, Idle, DurableInv, AnswerNumbered, MemoryCoversFile,
          FileOfLoadedPacket, AnswerOnDisk,
         AckedDurable,
         HomeInv, ThreadAtHome, TypeOK, OneServer, files, procs, SaveSteps
<1>7. ASSUME NEW t \in Threads, SaveCommit(t)
      PROVE  DurableInv'
  <2>1. Commits(t, thr[t].srv) /\ seq \in Nat
    BY <1>0, <1>7, CommitEffect DEF HomeInv, TypeOK
  <2>2. \A c \in Cases : Num(stateFile[c]) \in Nat /\ Num(stateFile[c]) <= seq
    BY <1>0, RowsTyped, NumOfRow DEF NumbersUsed
  <2>3. MemoryCoversFile'
    <3> SUFFICES ASSUME NEW s \in Servers, phase'[s] \in {"loaded", "up"},
                        NEW c \in Cases
                 PROVE  Num(stateFile'[c]) <= Num(decisions'[s][c])
      BY DEF MemoryCoversFile, NotBefore
    <3>1. s = thr[t].srv /\ UNCHANGED stateFile
      BY <2>1 DEF Commits, OneServer
    <3>2. CASE c = thr[t].case
      BY <2>1, <2>2, <3>1, <3>2 DEF Commits
    <3>3. CASE c # thr[t].case
      BY <2>1, <3>1, <3>3
         DEF Commits, DurableInv, MemoryCoversFile, NotBefore
    <3>. QED
      BY <3>2, <3>3
  <2>4. AnswerNumbered'
    BY <2>1 DEF Commits, DurableInv, AnswerNumbered
  <2>5. AnswerOnDisk'
    <3>1. \A u \in Threads : thr'[u].pc = "respond" => thr'[u] = thr[u]
      BY <2>1 DEF Commits
    <3>. QED
      BY <2>1, <3>1 DEF Commits, DurableInv, AnswerOnDisk
  <2>. QED
    BY <2>1, <2>3, <2>4, <2>5
       DEF Commits, DurableInv, FileOfLoadedPacket, AckedDurable
<1>8. ASSUME NEW t \in Threads, SaveReplace(t)
      PROVE  DurableInv'
  <2> DEFINE home == thr[t].srv
  <2>1. /\ home \in Servers /\ phase[home] = "up" /\ thr[t].pc = "write"
        /\ thr[t].case \in Cases /\ stateFile' = decisions[home]
        /\ \A u \in Servers : u = home
        /\ UNCHANGED <<phase, loaded, decisions, acked>>
    BY <1>0, <1>8 DEF SaveReplace, HomeInv, ThreadAtHome, SaveSteps, OneServer
  <2>2. /\ thr'[t].pc = "respond" /\ thr'[t].srv = home
        /\ thr'[t].case = thr[t].case /\ thr'[t].n = thr[t].n
        /\ \A u \in Threads : u # t => thr'[u] = thr[u]
    BY <1>0, <1>8 DEF SaveReplace, HomeInv, TypeOK, ThreadStates
  <2>3. \A c \in Cases : /\ decisions[home][c] \in Decision \cup {None}
                         /\ Num(decisions[home][c]) \in Nat
    BY <1>0, <2>1, RowsTyped, NumOfRow
  <2>4. MemoryCoversFile'
    BY <2>1, <2>3 DEF MemoryCoversFile, NotBefore
  <2>5. FileOfLoadedPacket'
    BY <2>1 DEF FileOfLoadedPacket, StoreInv, ProvenanceInv,
                DecisionsOfLoadedPacket
  <2>6. AnswerNumbered'
    BY <2>1, <2>2 DEF DurableInv, AnswerNumbered
  <2>7. AnswerOnDisk'
    <3> SUFFICES ASSUME NEW u \in Threads, thr'[u].pc = "respond"
                 PROVE  /\ decisions[home][thr'[u].case] # None
                        /\ decisions[home][thr'[u].case].packet
                             = loaded[thr'[u].srv]
                        /\ thr'[u].n <= decisions[home][thr'[u].case].n
      BY <2>1 DEF AnswerOnDisk
    <3>1. CASE u = t
      <4>1. Num(decisions[home][thr[t].case]) = thr[t].n /\ thr[t].n # 0
        BY <1>0, <2>1 DEF WriteSection, DurableInv, AnswerNumbered
      <4>2. /\ decisions[home][thr[t].case] # None
            /\ decisions[home][thr[t].case].n = thr[t].n
            /\ thr[t].n \in Nat
        BY <2>1, <2>3, <4>1, NumOfRow
      <4>. QED
        BY <2>1, <2>2, <3>1, <4>2
           DEF StoreInv, ProvenanceInv, DecisionsOfLoadedPacket
    <3>2. CASE u # t
      <4>1. /\ thr'[u] = thr[u] /\ thr[u].pc = "respond"
            /\ thr[u].srv = home /\ thr[u].case \in Cases /\ thr[u].n \in Nat
        BY <1>0, <2>1, <2>2, <3>2
           DEF HomeInv, ThreadAtHome, TypeOK, ThreadStates, SaveSteps
      <4>2. /\ stateFile[thr[u].case] # None
            /\ thr[u].n <= stateFile[thr[u].case].n
        BY <4>1 DEF DurableInv, AnswerOnDisk
      <4>3. /\ decisions[home][thr[u].case] # None
            /\ decisions[home][thr[u].case].packet = loaded[home]
            /\ stateFile[thr[u].case].n <= decisions[home][thr[u].case].n
        BY <2>1, <4>1, <4>2, ReplaceKeeps
      <4>4. /\ stateFile[thr[u].case].n \in Nat
            /\ decisions[home][thr[u].case].n \in Nat
        BY <1>0, <2>3, <4>1, <4>2, <4>3, RowsTyped, NumOfRow
      <4>. QED
        BY <4>1, <4>2, <4>3, <4>4
    <3>. QED
      BY <3>1, <3>2
  <2>8. AckedDurable'
    <3> SUFFICES ASSUME NEW p \in Packets, NEW c \in Cases, acked[p][c] # 0
                 PROVE  /\ decisions[home][c] # None
                        /\ decisions[home][c].packet = p
                        /\ acked[p][c] <= decisions[home][c].n
      BY <2>1 DEF AckedDurable
    <3>1. /\ stateFile[c] # None /\ stateFile[c].packet = p
          /\ acked[p][c] <= stateFile[c].n
      BY DEF DurableInv, AckedDurable
    <3>2. /\ decisions[home][c] # None
          /\ decisions[home][c].packet = p
          /\ stateFile[c].n <= decisions[home][c].n
      BY <2>1, <3>1, ReplaceKeeps
    <3>3. /\ stateFile[c].n \in Nat /\ decisions[home][c].n \in Nat
          /\ acked[p][c] \in Nat
      BY <1>0, <2>3, <3>1, <3>2, RowsTyped, NumOfRow DEF HomeInv, TypeOK
    <3>. QED
      BY <3>1, <3>2, <3>3
  <2>. QED
    BY <2>4, <2>5, <2>6, <2>7, <2>8 DEF DurableInv
<1>9. ASSUME NEW t \in Threads, SaveFail(t)
      PROVE  DurableInv'
  BY <1>0, <1>9
     DEF SaveFail, Idle, DurableInv, AnswerNumbered, MemoryCoversFile,
          FileOfLoadedPacket, AnswerOnDisk,
         AckedDurable,
         HomeInv, ThreadAtHome, TypeOK, OneServer, files, procs, SaveSteps
<1>10. ASSUME NEW t \in Threads, Respond(t)
      PROVE  DurableInv'
  <2> DEFINE p == loaded[thr[t].srv]
             c == thr[t].case
  <2>1. /\ p \in Packets /\ c \in Cases /\ thr[t].pc = "respond"
        /\ thr[t].n \in Nat
        /\ UNCHANGED <<stateFile, phase, loaded, decisions>>
        /\ thr'[t] = Idle /\ \A u \in Threads : u # t => thr'[u] = thr[u]
    BY <1>0, <1>10 DEF Respond, HomeInv, ThreadAtHome, TypeOK, ThreadStates,
                       SaveSteps, files, procs
  <2>2. /\ stateFile[c] # None /\ stateFile[c].packet = p
        /\ thr[t].n <= stateFile[c].n
    BY <2>1 DEF DurableInv, AnswerOnDisk
  <2>3. \A q \in Packets, d \in Cases :
          \/ acked'[q][d] = acked[q][d]
          \/ q = p /\ d = c /\ acked'[q][d] = thr[t].n
    BY <1>0, <1>10, <2>1 DEF Respond, HomeInv, TypeOK
  <2>4. AckedDurable'
    BY <2>1, <2>2, <2>3 DEF DurableInv, AckedDurable
  <2>. QED
    BY <2>1, <2>4 DEF DurableInv, AnswerNumbered, MemoryCoversFile,
                      FileOfLoadedPacket, AnswerOnDisk, Idle
<1>11. ASSUME NEW t \in Threads, RespondLost(t)
      PROVE  DurableInv'
  BY <1>0, <1>11
     DEF RespondLost, Idle, DurableInv, AnswerNumbered, MemoryCoversFile,
          FileOfLoadedPacket, AnswerOnDisk,
         AckedDurable,
         HomeInv, ThreadAtHome, TypeOK, OneServer, files, procs, SaveSteps
<1>12. ASSUME NEW t \in Threads, NEW s \in Servers, ExportBegin(t, s)
      PROVE  DurableInv'
  BY <1>0, <1>12
     DEF ExportBegin, Idle, DurableInv, AnswerNumbered, MemoryCoversFile,
          FileOfLoadedPacket, AnswerOnDisk,
         AckedDurable,
         HomeInv, ThreadAtHome, TypeOK, OneServer, files, procs, SaveSteps
<1>13. ASSUME NEW t \in Threads, NEW c \in Cases, ExportRead(t, c)
      PROVE  DurableInv'
  <2>1. Reads(t, c, thr[t].srv)
    BY <1>0, <1>13, ReadEffect
  <2>2. \A u \in Threads : thr'[u].pc \in {"write", "respond"} =>
          thr'[u] = thr[u]
    BY <2>1 DEF Reads
  <2>. QED
    BY <2>1, <2>2 DEF Reads, DurableInv, AnswerNumbered, MemoryCoversFile,
                      FileOfLoadedPacket, AnswerOnDisk, AckedDurable
<1>14. ASSUME NEW t \in Threads, ExportOverlay(t)
      PROVE  DurableInv'
  BY <1>0, <1>14
     DEF ExportOverlay, ThreadStates, DurableInv, AnswerNumbered,
          MemoryCoversFile, FileOfLoadedPacket, AnswerOnDisk,
         AckedDurable,
         HomeInv, ThreadAtHome, TypeOK, OneServer, files, procs, SaveSteps
<1>15. ASSUME NEW t \in Threads, ExportHashPacket(t)
      PROVE  DurableInv'
  BY <1>0, <1>15
     DEF ExportHashPacket, ThreadStates, DurableInv, AnswerNumbered,
          MemoryCoversFile, FileOfLoadedPacket, AnswerOnDisk,
         AckedDurable,
         HomeInv, ThreadAtHome, TypeOK, OneServer, files, procs, SaveSteps
<1>16. ASSUME NEW t \in Threads, ExportHashMapping(t)
      PROVE  DurableInv'
  BY <1>0, <1>16
     DEF ExportHashMapping, ThreadStates, DurableInv, AnswerNumbered,
          MemoryCoversFile, FileOfLoadedPacket, AnswerOnDisk,
         AckedDurable,
         HomeInv, ThreadAtHome, TypeOK, OneServer, files, procs, SaveSteps
<1>17. ASSUME NEW t \in Threads, ExportManifest(t)
      PROVE  DurableInv'
  BY <1>0, <1>17
     DEF ExportManifest, Idle, DurableInv, AnswerNumbered, MemoryCoversFile,
          FileOfLoadedPacket, AnswerOnDisk,
         AckedDurable,
         HomeInv, ThreadAtHome, TypeOK, OneServer, files, procs, SaveSteps
<1>18. ASSUME NEW t \in Threads, ExportFail(t)
      PROVE  DurableInv'
  BY <1>0, <1>18
     DEF ExportFail, Idle, DurableInv, AnswerNumbered, MemoryCoversFile,
          FileOfLoadedPacket, AnswerOnDisk,
         AckedDurable,
         HomeInv, ThreadAtHome, TypeOK, OneServer, files, procs, SaveSteps
<1>19. ASSUME UNCHANGED vars PROVE DurableInv'
  BY <1>19
     DEF vars, DurableInv, AnswerNumbered, MemoryCoversFile,
          FileOfLoadedPacket, AnswerOnDisk,
         AckedDurable,
         files, procs
<1> QED
  BY <1>1, <1>2, <1>3, <1>4, <1>5, <1>6, <1>7, <1>8, <1>9, <1>10, <1>11,
     <1>12, <1>13, <1>14, <1>15, <1>16, <1>17, <1>18, <1>19, NextCases

LEMMA DurableInvariant == OneServer => (Spec => []DurableInv)
<1> SUFFICES ASSUME OneServer PROVE Spec => []DurableInv
  OBVIOUS
<1>1. Init => DurableInv
  BY DurableInit
<1>2. StoreInv /\ StoreInv' /\ DurableInv /\ [Next]_vars => DurableInv'
  BY DurableStep
<1>. QED
  BY <1>1, <1>2, StoreInvariant, PTL DEF Spec

(* With one process for a reviewer, an answered decision is on disk ever   *)
(* after, or a later one on the same case is, through failing writes,      *)
(* lost answers, exits and restarts.                                       *)
THEOREM AckedDurableHolds == OneServer => (Spec => []AckedDurable)
<1>1. DurableInv => AckedDurable
  BY DEF DurableInv
<1>. QED
  BY <1>1, DurableInvariant, PTL


-----------------------------------------------------------------------------
(* The server implements DurableReview.                                    *)

LEMMA SavedNumberType ==
  ASSUME HomeInv
  PROVE  \A p \in Packets, c \in Cases : SavedNumber(p, c) \in Nat
BY RowsTyped, NumOfRow DEF SavedNumber

LEMMA PromiseInit == Init => Promise!Init
BY DEF Init, Promise!Init, Promise!Nothing, SavedNumber, Blank

(* Only the replacement of the state file moves what is saved.             *)
LEMMA PromiseSave ==
  ASSUME OneServer, StoreInv, StoreInv', DurableInv,
         NEW t \in Threads, SaveReplace(t)
  PROVE  Promise!Save
<1> DEFINE home == thr[t].srv
<1>1. /\ home \in Servers /\ phase[home] = "up"
      /\ stateFile' = decisions[home] /\ UNCHANGED acked
  BY DEF SaveReplace, StoreInv, HomeInv, ThreadAtHome
<1>2. ASSUME NEW p \in Packets, NEW c \in Cases
      PROVE  /\ SavedNumber(p, c)' \in Nat
             /\ SavedNumber(p, c) <= SavedNumber(p, c)'
  <2>1. SavedNumber(p, c) \in Nat /\ SavedNumber(p, c)' \in Nat
    BY SavedNumberType DEF StoreInv, SavedNumber, HomeInv, TypeOK, Rows,
       Decision
  <2>2. CASE stateFile[c] # None /\ stateFile[c].packet = p
    BY <1>1, <2>1, <2>2, ReplaceKeeps DEF SavedNumber
  <2>3. CASE ~(stateFile[c] # None /\ stateFile[c].packet = p)
    BY <2>1, <2>3 DEF SavedNumber
  <2>. QED
    BY <2>1, <2>2, <2>3
<1>. QED
  BY <1>1, <1>2 DEF Promise!Save

(* Only an answer moves what is acknowledged, and not past what is saved.  *)
LEMMA PromiseAck ==
  ASSUME OneServer, StoreInv, DurableInv, NEW t \in Threads, Respond(t)
  PROVE  Promise!Next \/ UNCHANGED Promise!absVars
<1> DEFINE p == loaded[thr[t].srv]
           c == thr[t].case
           n == thr[t].n
<1>1. /\ p \in Packets /\ c \in Cases /\ thr[t].pc = "respond" /\ n \in Nat
      /\ UNCHANGED stateFile
      /\ acked \in [Packets -> [Cases -> Nat]]
  BY DEF Respond, StoreInv, HomeInv, ThreadAtHome, TypeOK, ThreadStates,
         SaveSteps, files
<1>2. n <= SavedNumber(p, c)
  BY <1>1 DEF DurableInv, AnswerOnDisk, SavedNumber
<1>3. \A q \in Packets, d \in Cases : UNCHANGED SavedNumber(q, d)
  BY <1>1 DEF SavedNumber
<1>4. CASE acked[p][c] < n
  <2>1. acked' = [acked EXCEPT ![p] = [acked[p] EXCEPT ![c] = n]]
    BY <1>1, <1>4 DEF Respond
  <2>2. acked'[p][c] = n
    BY <1>1, <2>1
  <2>3. n \in 1 .. SavedNumber(p, c)
    <3>1. acked[p][c] \in Nat /\ SavedNumber(p, c) \in Nat
      BY <1>1, SavedNumberType DEF StoreInv
    <3>. QED
      BY <1>1, <1>2, <1>4, <3>1
  <2>4. Promise!Ack(p, c)
    BY <1>1, <1>3, <1>4, <2>1, <2>3 DEF Promise!Ack
  <2>. QED
    BY <1>1, <2>4 DEF Promise!Next
<1>5. CASE ~(acked[p][c] < n)
  <2>1. acked' = [acked EXCEPT ![p] = [acked[p] EXCEPT ![c] = acked[p][c]]]
    BY <1>5 DEF Respond
  <2>2. UNCHANGED acked
    BY <1>1, <2>1
  <2>. QED
    BY <1>3, <2>2 DEF Promise!absVars
<1>. QED
  BY <1>4, <1>5

LEMMA PromiseStep ==
  OneServer /\ StoreInv /\ StoreInv' /\ DurableInv /\ [Next]_vars
    => [Promise!Next]_(Promise!absVars)
<1> SUFFICES ASSUME OneServer, StoreInv, StoreInv', DurableInv, [Next]_vars
             PROVE  Promise!Next \/ UNCHANGED Promise!absVars
  OBVIOUS
<1>1. CASE \E t \in Threads : SaveReplace(t)
  BY <1>1, PromiseSave DEF Promise!Next
<1>2. CASE \E t \in Threads : Respond(t)
  BY <1>2, PromiseAck
<1>3. CASE /\ ~\E t \in Threads : SaveReplace(t)
           /\ ~\E t \in Threads : Respond(t)
  <2>1. UNCHANGED <<stateFile, acked>>
    BY <1>3, NextCases
       DEF LoadPacket, LoadMapping, LoadState, LoadStateAs, Bind, Exit,
           SaveBegin, SaveCommit, SaveFail, RespondLost, ExportBegin, ExportRead,
           ExportOverlay, ExportHashPacket, ExportHashMapping, ExportManifest,
           ExportFail, files, vars
  <2>. QED
    BY <2>1 DEF Promise!absVars, SavedNumber
<1>. QED
  BY <1>1, <1>2, <1>3

(* With one process, the server is an implementation of DurableReview:     *)
(* what is saved only moves forward and nothing unsaved is answered.       *)
THEOREM KeepsPromiseHolds == OneServer => (Spec => KeepsPromise)
<1> SUFFICES ASSUME OneServer PROVE Spec => KeepsPromise
  OBVIOUS
<1>1. Init => Promise!Init
  BY PromiseInit
<1>2. StoreInv /\ StoreInv' /\ DurableInv /\ [Next]_vars
        => [Promise!Next]_(Promise!absVars)
  BY PromiseStep
<1>3. Spec => []DurableInv
  BY DurableInvariant
<1>. QED
  BY <1>1, <1>2, <1>3, StoreInvariant, PTL DEF Spec, KeepsPromise, Promise!Spec

=============================================================================
