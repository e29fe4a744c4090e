----------------------------- MODULE ReviewStore -----------------------------
(***************************************************************************)
(* The blinded human-review server of review_ui.py.                        *)
(*                                                                         *)
(* A server process loads a packet, its private mapping and the reviewer's *)
(* saved decisions, then binds a port and answers every request in a       *)
(* thread of its own.  Saving a decision updates the in-memory dictionary  *)
(* and rewrites the whole state file under one lock; exporting reads the   *)
(* dictionary without the lock, replaces the overlay file, hashes packet   *)
(* and mapping as they are on disk at that moment, and replaces the        *)
(* manifest.  Nothing stops a second process from being started for the    *)
(* same reviewer: all processes share the five files below.                *)
(*                                                                         *)
(* Abstractions.  A decision keeps its reviewer, the packet its review ID  *)
(* belongs to (the salt of each preparation makes the IDs of two packets   *)
(* disjoint) and, for its score and reason, the number of the save that    *)
(* made it: numbers order decisions as they were committed to memory.  A   *)
(* packet and the mapping prepared with it are one number.  Requests that  *)
(* fail validation change nothing and are left out, as are the read-only   *)
(* GET requests.  os.replace is atomic, and a replaced file survives the   *)
(* exit of the process.                                                    *)
(***************************************************************************)
EXTENDS Naturals, FiniteSets

CONSTANTS
  Servers,      \* processes running serve_review_ui
  Threads,      \* request threads; each serves one request at a time
  Cases,        \* the cases of a packet
  Packets,      \* packets prepared so far or later, as numbers
  FirstPacket,  \* the packet on disk at the start
  Port,         \* Port[s]: the --port of process s
  Reviewer,     \* Reviewer[s]: the --reviewer of process s
  None,
  MaxSaves      \* bound on the number of save requests

ASSUME ConstantsAssumption ==
  /\ FirstPacket \in Packets
  /\ None \notin Servers \cup Threads \cup Cases \cup Packets
  /\ \A s \in Servers : Reviewer[s] # None
  /\ MaxSaves \in Nat

VARIABLES
  \* files
  packetFile,    \* the packet zip
  mappingFile,   \* the private mapping
  stateFile,     \* reviewers/<slug>.jsonl
  overlayFile,   \* overlays/<slug>.jsonl
  manifestFile,  \* overlays/<slug>.manifest.json
  \* processes
  phase,         \* how far process s is: start-up, serving, or not running
  loaded,        \* the packet process s has loaded
  decisions,     \* ReviewStore.decisions of process s
  lock,          \* ReviewStore._lock of process s: its holder, or None
  thr,           \* what each request thread is doing
  \* history
  seq,           \* number of saves committed to some process's memory
  acked          \* per packet and case, the latest save answered with 200

files == <<packetFile, mappingFile, stateFile, overlayFile, manifestFile>>
procs == <<phase, loaded, decisions, lock>>
vars == <<files, procs, thr, seq, acked>>

-----------------------------------------------------------------------------
Reviewers == {Reviewer[s] : s \in Servers}

Decision == [n : Nat \ {0}, by : Reviewers, packet : Packets]
ASSUME NoneAssumption == None \notin Decision

Rows == [Cases -> Decision \cup {None}]
Blank == [c \in Cases |-> None]
Num(decision) == IF decision = None THEN 0 ELSE decision.n
Complete(rows) == \A c \in Cases : rows[c] # None
NotBefore(rows, floor) == \A c \in Cases : Num(floor[c]) <= Num(rows[c])

(* An overlay labels all its rows with one reviewer.  Its rows carry case  *)
(* IDs, not review IDs: their "by" and "packet" are history, which no      *)
(* program reads back.                                                     *)
OverlayContents == [by : Reviewers \cup {None}, rows : Rows]
ManifestContents ==
  [packet : Packets \cup {None}, mapping : Packets \cup {None},
   overlay : OverlayContents]

NoOverlay == [by |-> None, rows |-> Blank]
NoManifest == [packet |-> None, mapping |-> None, overlay |-> NoOverlay]

Phases == {"down", "packet", "mapping", "loaded", "up"}
SaveSteps == {"acquire", "write", "respond"}
ExportSteps == {"read", "overlay", "packet", "mapping", "manifest"}

Idle == [pc |-> "idle", srv |-> None, case |-> None, n |-> 0,
         rows |-> Blank, floor |-> Blank,
         packet |-> None, mapping |-> None]

ThreadStates ==
  [pc : {"idle"} \cup SaveSteps \cup ExportSteps,
   srv : Servers \cup {None}, case : Cases \cup {None}, n : Nat,
   rows : Rows, floor : Rows,
   packet : Packets \cup {None}, mapping : Packets \cup {None}]

TypeOK ==
  /\ packetFile \in Packets
  /\ mappingFile \in Packets
  /\ stateFile \in Rows
  /\ overlayFile \in OverlayContents
  /\ manifestFile \in ManifestContents
  /\ phase \in [Servers -> Phases]
  /\ loaded \in [Servers -> Packets]
  /\ decisions \in [Servers -> Rows]
  /\ lock \in [Servers -> Threads \cup {None}]
  /\ thr \in [Threads -> ThreadStates]
  /\ seq \in Nat
  /\ acked \in [Packets -> [Cases -> Nat]]

Init ==
  /\ packetFile = FirstPacket
  /\ mappingFile = FirstPacket
  /\ stateFile = Blank
  /\ overlayFile = NoOverlay
  /\ manifestFile = NoManifest
  /\ phase = [s \in Servers |-> "down"]
  /\ loaded = [s \in Servers |-> FirstPacket]
  /\ decisions = [s \in Servers |-> Blank]
  /\ lock = [s \in Servers |-> None]
  /\ thr = [t \in Threads |-> Idle]
  /\ seq = 0
  /\ acked = [p \in Packets |-> [c \in Cases |-> 0]]

-----------------------------------------------------------------------------
(* Start-up: ReviewStore.__init__ reads three files one after the other,   *)
(* refusing what does not fit, and only then is the port bound.            *)

LoadPacket(s) ==
  /\ phase[s] = "down"
  /\ loaded' = [loaded EXCEPT ![s] = packetFile]
  /\ phase' = [phase EXCEPT ![s] = "packet"]
  /\ UNCHANGED <<files, decisions, lock, thr, seq, acked>>

(* The mapping must be the one whose hash the packet's manifest records.   *)
LoadMapping(s) ==
  /\ phase[s] = "packet"
  /\ mappingFile = loaded[s]
  /\ phase' = [phase EXCEPT ![s] = "mapping"]
  /\ UNCHANGED <<files, loaded, decisions, lock, thr, seq, acked>>

(* Mutant of Loadable: rows of another reviewer are accepted.              *)
LoadableFromAnyReviewer(s) ==
  \A c \in Cases : stateFile[c] # None => stateFile[c].packet = loaded[s]

(* Mutant of Loadable: the review ID is not looked up in the packet.       *)
LoadableFromAnyPacket(s) ==
  \A c \in Cases : stateFile[c] # None => stateFile[c].by = Reviewer[s]

(* A row of another reviewer, or of a review ID the packet does not have,  *)
(* refuses the whole file; an empty or absent file loads as no decisions.  *)
Loadable(s) ==
  \A c \in Cases : stateFile[c] # None =>
    stateFile[c].by = Reviewer[s] /\ stateFile[c].packet = loaded[s]

LoadStateAs(s, rows) ==
  /\ phase[s] = "mapping"
  /\ decisions' = [decisions EXCEPT ![s] = rows]
  /\ phase' = [phase EXCEPT ![s] = "loaded"]
  /\ UNCHANGED <<files, loaded, lock, thr, seq, acked>>

(* Mutant of LoadState: an absent file loads as None.                      *)
LoadStateAbsentIsNone(s) ==
  Loadable(s) /\ LoadStateAs(s, IF stateFile = Blank THEN None ELSE stateFile)

LoadState(s) ==
  /\ Loadable(s)
  /\ LoadStateAs(s, stateFile)

Bind(s) ==
  /\ phase[s] = "loaded"
  /\ \A other \in Servers : phase[other] = "up" => Port[other] # Port[s]
  /\ phase' = [phase EXCEPT ![s] = "up"]
  /\ UNCHANGED <<files, loaded, decisions, lock, thr, seq, acked>>

(* The process ends: a refusal or a busy port during start-up, Ctrl-C or a *)
(* crash later.  Request threads are daemon threads, so they end with it   *)
(* wherever they are, and everything in memory is gone.                    *)
Exit(s) ==
  /\ phase[s] # "down"
  /\ phase' = [phase EXCEPT ![s] = "down"]
  /\ loaded' = [loaded EXCEPT ![s] = FirstPacket]
  /\ decisions' = [decisions EXCEPT ![s] = Blank]
  /\ lock' = [lock EXCEPT ![s] = None]
  /\ thr' = [t \in Threads |-> IF thr[t].srv = s THEN Idle ELSE thr[t]]
  /\ UNCHANGED <<files, seq, acked>>

-----------------------------------------------------------------------------
(* POST /api/review: ReviewStore.save, ReviewStore._write_state.           *)

Unsaved == {t \in Threads : thr[t].pc = "acquire"}

SaveBegin(t, s, c) ==
  /\ thr[t] = Idle
  /\ phase[s] = "up"
  /\ seq + Cardinality(Unsaved) < MaxSaves
  /\ thr' = [thr EXCEPT ![t] =
               [Idle EXCEPT !.pc = "acquire", !.srv = s, !.case = c]]
  /\ UNCHANGED <<files, procs, seq, acked>>

(* Mutant of SaveCommit: the lock is not waited for.                       *)
SaveCommitUnlocked(t) ==
  LET s == thr[t].srv IN
  /\ thr[t].pc = "acquire"
  /\ lock' = [lock EXCEPT ![s] = t]
  /\ decisions' = [decisions EXCEPT ![s] =
                     [decisions[s] EXCEPT ![thr[t].case] =
                        [n |-> seq + 1, by |-> Reviewer[s],
                         packet |-> loaded[s]]]]
  /\ seq' = seq + 1
  /\ thr' = [thr EXCEPT ![t] = [thr[t] EXCEPT !.pc = "write", !.n = seq + 1]]
  /\ UNCHANGED <<files, phase, loaded, acked>>

(* "with self._lock: self.decisions[review_id] = decision"                 *)
SaveCommit(t) ==
  LET s == thr[t].srv IN
  /\ thr[t].pc = "acquire"
  /\ lock[s] = None
  /\ lock' = [lock EXCEPT ![s] = t]
  /\ decisions' = [decisions EXCEPT ![s] =
                     [decisions[s] EXCEPT ![thr[t].case] =
                        [n |-> seq + 1, by |-> Reviewer[s],
                         packet |-> loaded[s]]]]
  /\ seq' = seq + 1
  /\ thr' = [thr EXCEPT ![t] = [thr[t] EXCEPT !.pc = "write", !.n = seq + 1]]
  /\ UNCHANGED <<files, phase, loaded, acked>>

(* The whole dictionary replaces the state file; the lock is released.     *)
SaveReplace(t) ==
  LET s == thr[t].srv IN
  /\ thr[t].pc = "write"
  /\ stateFile' = decisions[s]
  /\ lock' = [lock EXCEPT ![s] = None]
  /\ thr' = [thr EXCEPT ![t] = [thr[t] EXCEPT !.pc = "respond"]]
  /\ UNCHANGED <<packetFile, mappingFile, overlayFile, manifestFile,
                 phase, loaded, decisions, seq, acked>>

(* Mutants of SaveFail: the failure is swallowed and answered with 200;    *)
(* the lock is not released.                                               *)
SaveFailSwallowed(t) ==
  LET s == thr[t].srv IN
  /\ thr[t].pc = "write"
  /\ lock' = [lock EXCEPT ![s] = None]
  /\ thr' = [thr EXCEPT ![t] = [thr[t] EXCEPT !.pc = "respond"]]
  /\ UNCHANGED <<files, phase, loaded, decisions, seq, acked>>

SaveFailKeepsLock(t) ==
  /\ thr[t].pc = "write"
  /\ thr' = [thr EXCEPT ![t] = Idle]
  /\ UNCHANGED <<files, procs, seq, acked>>

(* The write fails before os.replace (a full disk): the OSError is not one *)
(* do_POST catches, so no answer is sent; the decision stays in memory.    *)
SaveFail(t) ==
  LET s == thr[t].srv IN
  /\ thr[t].pc = "write"
  /\ lock' = [lock EXCEPT ![s] = None]
  /\ thr' = [thr EXCEPT ![t] = Idle]
  /\ UNCHANGED <<files, phase, loaded, decisions, seq, acked>>

Respond(t) ==
  LET p == loaded[thr[t].srv]
      c == thr[t].case
  IN
  /\ thr[t].pc = "respond"
  /\ acked' = [acked EXCEPT ![p] =
                 [acked[p] EXCEPT ![c] =
                    IF acked[p][c] < thr[t].n THEN thr[t].n ELSE acked[p][c]]]
  /\ thr' = [thr EXCEPT ![t] = Idle]
  /\ UNCHANGED <<files, procs, seq>>

(* The browser has gone, or overview() cannot hash the packet: the save is *)
(* done and the answer is not sent.                                        *)
RespondLost(t) ==
  /\ thr[t].pc = "respond"
  /\ thr' = [thr EXCEPT ![t] = Idle]
  /\ UNCHANGED <<files, procs, seq, acked>>

-----------------------------------------------------------------------------
(* POST /api/export: ReviewStore.export_overlay.                           *)

(* An incomplete review is answered with 400 and changes nothing.          *)
ExportBegin(t, s) ==
  /\ thr[t] = Idle
  /\ phase[s] = "up"
  /\ Complete(decisions[s])
  /\ thr' = [thr EXCEPT ![t] =
               [Idle EXCEPT !.pc = "read", !.srv = s, !.floor = decisions[s]]]
  /\ UNCHANGED <<files, procs, seq, acked>>

(* Mutant of ExportRead: the rows come from the state file.                *)
ExportReadFromFile(t, c) ==
  /\ thr[t].pc = "read"
  /\ thr[t].rows[c] = None
  /\ LET rows == [thr[t].rows EXCEPT ![c] = stateFile[c]]
     IN thr' = [thr EXCEPT ![t] =
                  [thr[t] EXCEPT !.rows = rows,
                     !.pc = IF Complete(rows) THEN "overlay" ELSE "read"]]
  /\ UNCHANGED <<files, procs, seq, acked>>

(* Cases are read one by one, in the packet's order, which the salted IDs  *)
(* make an arbitrary one; the lock is not taken.                           *)
ExportRead(t, c) ==
  /\ thr[t].pc = "read"
  /\ thr[t].rows[c] = None
  /\ LET rows == [thr[t].rows EXCEPT ![c] = decisions[thr[t].srv][c]]
     IN thr' = [thr EXCEPT ![t] =
                  [thr[t] EXCEPT !.rows = rows,
                     !.pc = IF Complete(rows) THEN "overlay" ELSE "read"]]
  /\ UNCHANGED <<files, procs, seq, acked>>

Overlay(t) == [by |-> Reviewer[thr[t].srv], rows |-> thr[t].rows]

ExportOverlay(t) ==
  /\ thr[t].pc = "overlay"
  /\ overlayFile' = Overlay(t)
  /\ thr' = [thr EXCEPT ![t] = [thr[t] EXCEPT !.pc = "packet"]]
  /\ UNCHANGED <<packetFile, mappingFile, stateFile, manifestFile,
                 procs, seq, acked>>

ExportHashPacket(t) ==
  /\ thr[t].pc = "packet"
  /\ thr' = [thr EXCEPT ![t] = [thr[t] EXCEPT !.pc = "mapping",
                                              !.packet = packetFile]]
  /\ UNCHANGED <<files, procs, seq, acked>>

ExportHashMapping(t) ==
  /\ thr[t].pc = "mapping"
  /\ thr' = [thr EXCEPT ![t] = [thr[t] EXCEPT !.pc = "manifest",
                                              !.mapping = mappingFile]]
  /\ UNCHANGED <<files, procs, seq, acked>>

(* The manifest names the hashes just taken and the rows of this export.   *)
ExportManifest(t) ==
  /\ thr[t].pc = "manifest"
  /\ manifestFile' = [packet |-> thr[t].packet, mapping |-> thr[t].mapping,
                      overlay |-> Overlay(t)]
  /\ thr' = [thr EXCEPT ![t] = Idle]
  /\ UNCHANGED <<packetFile, mappingFile, stateFile, overlayFile,
                 procs, seq, acked>>

(* A write or a hash fails: the request ends where it is.  An overlay that *)
(* was replaced already stays, next to the previous manifest.              *)
ExportFail(t) ==
  /\ thr[t].pc \in ExportSteps \ {"read"}
  /\ thr' = [thr EXCEPT ![t] = Idle]
  /\ UNCHANGED <<files, procs, seq, acked>>

-----------------------------------------------------------------------------
Process(s) ==
  \/ LoadPacket(s)
  \/ LoadMapping(s)
  \/ LoadState(s)
  \/ Bind(s)
  \/ Exit(s)

Request(t) ==
  \/ \E s \in Servers, c \in Cases : SaveBegin(t, s, c)
  \/ \E s \in Servers : ExportBegin(t, s)

Answer(t) ==
  \/ SaveCommit(t)
  \/ SaveReplace(t)
  \/ SaveFail(t)
  \/ Respond(t)
  \/ RespondLost(t)
  \/ \E c \in Cases : ExportRead(t, c)
  \/ ExportOverlay(t)
  \/ ExportHashPacket(t)
  \/ ExportHashMapping(t)
  \/ ExportManifest(t)
  \/ ExportFail(t)

Next ==
  \/ \E s \in Servers : Process(s)
  \/ \E t \in Threads : Request(t) \/ Answer(t)

Spec == Init /\ [][Next]_vars

(* A request thread that can take a step is eventually run.  Nothing makes *)
(* a person start a process, send a request or stop the server.            *)
FairSpec == Spec /\ \A t \in Threads : WF_vars(Answer(t))

-----------------------------------------------------------------------------
(* Durability: a decision that was answered is in the state file, or a     *)
(* decision on the same case committed after it is, whatever failed, was   *)
(* retried, crashed or restarted since (serve_review_ui: "Progress is      *)
(* saved after every decision.").  It is a promise of one process: a       *)
(* second one for the same reviewer writes back what it loaded.            *)
AckedDurable ==
  \A p \in Packets, c \in Cases : acked[p][c] # 0 =>
    /\ stateFile[c] # None
    /\ stateFile[c].packet = p
    /\ acked[p][c] <= stateFile[c].n

(* The critical section of save: from the update of the dictionary to the  *)
(* replacement of the file no other request of the process commits, so the *)
(* file written holds the decision being answered.                         *)
WriteSection ==
  \A t \in Threads : thr[t].pc = "write" =>
    /\ lock[thr[t].srv] = t
    /\ phase[thr[t].srv] = "up"
    /\ Num(decisions[thr[t].srv][thr[t].case]) = thr[t].n

(* The dictionary is never behind the file of a running single process: a  *)
(* save rewrites the file from it, so a decision it lacked would be wiped. *)
MemoryCoversFile ==
  \A s \in Servers : phase[s] \in {"loaded", "up"} =>
    NotBefore(decisions[s], stateFile)

(* export_overlay reads the dictionary without the lock while saves go on: *)
(* still every case is there, with a decision at least as late as the one  *)
(* that stood when the export was requested.                               *)
OverlayNotStale ==
  \A t \in Threads : thr[t].pc \in ExportSteps =>
    \A c \in Cases :
      IF thr[t].rows[c] = None
      THEN thr[t].pc = "read"
      ELSE Num(thr[t].floor[c]) <= Num(thr[t].rows[c])

(* What a process has in memory, and so what it writes, was decided by its *)
(* own reviewer on the packet it has loaded: neither another reviewer's    *)
(* state file nor a later preparation is ever reinterpreted.               *)
DecisionsOfLoadedPacket ==
  \A s \in Servers, c \in Cases : decisions[s][c] # None =>
    /\ decisions[s][c].packet = loaded[s]
    /\ decisions[s][c].by = Reviewer[s]

(* Every row of the overlay was decided by the reviewer the overlay names, *)
(* and all of them on the cases of one packet, whichever processes shared  *)
(* the files (_load_state refuses foreign rows; two reviewer names can     *)
(* have the same slug and then share the files).                           *)
OverlayProvenance ==
  \A c, d \in Cases : overlayFile.rows[c] # None =>
    /\ overlayFile.rows[d] # None
    /\ overlayFile.rows[c].by = overlayFile.by
    /\ overlayFile.rows[c].packet = overlayFile.rows[d].packet

(* Every request comes to an end, answered or not: no failure leaves the   *)
(* lock held.                                                              *)
RequestsEnd == \A t \in Threads : thr[t].pc # "idle" ~> thr[t].pc = "idle"

(* The server implements the promise of DurableReview, the state file      *)
(* standing for what is saved.                                             *)
SavedNumber(p, c) ==
  IF stateFile[c] # None /\ stateFile[c].packet = p THEN stateFile[c].n ELSE 0

Promise == INSTANCE DurableReview WITH
  saved <- [p \in Packets |-> [c \in Cases |-> SavedNumber(p, c)]]

KeepsPromise == Promise!Spec
=============================================================================
