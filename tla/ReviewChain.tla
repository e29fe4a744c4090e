----------------------------- MODULE ReviewChain -----------------------------
(***************************************************************************)
(* The artifact chain of the human review, benchmark_review.py around the  *)
(* server of ReviewStore: prepare_benchmark_review writes a new mapping    *)
(* and a new packet over the old ones, servers review and export, and      *)
(* write_benchmark_review_report unblinds an export and decides, refusing  *)
(* what its hashes do not tie together.  The three are separate programs   *)
(* over the same files and nothing keeps them from running at the same     *)
(* time.  The benchmark, its deterministic grading and the frozen suites   *)
(* are fixed; a hash is modelled by the content it is taken of.            *)
(***************************************************************************)
EXTENDS ReviewStore

VARIABLES
  prepared,     \* packets that some preparation has started to write
  preparing,    \* the packet the running preparation writes next, or None
  rep,          \* the running report command
  reportFile,   \* <stem>-smoke-go-no-go.json
  disturbed     \* history: a preparation wrote a file during the report

chain == <<prepared, preparing, rep, reportFile, disturbed>>
chainVars == <<vars, chain>>

(* A report's artifact chain and the rows it scored; "quiet" is history.   *)
Report ==
  [packet : Packets, mapping : Packets, manifest : ManifestContents,
   overlay : OverlayContents, quiet : BOOLEAN]

ReportSteps == {"mapping", "overlay", "manifest", "rehash packet",
                "rehash mapping", "chain"}

NoReport == [pc |-> "idle", packet |-> FirstPacket,
             overlay |-> NoOverlay, manifest |-> NoManifest]

ChainTypeOK ==
  /\ TypeOK
  /\ prepared \subseteq Packets
  /\ preparing \in Packets \cup {None}
  /\ rep \in [pc : {"idle"} \cup ReportSteps, packet : Packets,
              overlay : OverlayContents, manifest : ManifestContents]
  /\ reportFile \in Report \cup {None}
  /\ disturbed \in BOOLEAN

ChainInit ==
  /\ Init
  /\ prepared = {FirstPacket}
  /\ preparing = None
  /\ rep = NoReport
  /\ reportFile = None
  /\ disturbed = FALSE

-----------------------------------------------------------------------------
(* prepare_benchmark_review: a fresh salt makes a new packet and mapping.  *)

PrepareMapping(p) ==
  /\ preparing = None
  /\ p \notin prepared
  /\ prepared' = prepared \cup {p}
  /\ preparing' = p
  /\ mappingFile' = p
  /\ disturbed' = (rep.pc # "idle")
  /\ UNCHANGED <<packetFile, stateFile, overlayFile, manifestFile,
                 procs, thr, seq, acked, rep, reportFile>>

PreparePacket ==
  /\ preparing # None
  /\ packetFile' = preparing
  /\ preparing' = None
  /\ disturbed' = (rep.pc # "idle")
  /\ UNCHANGED <<mappingFile, stateFile, overlayFile, manifestFile,
                 procs, thr, seq, acked, prepared, rep, reportFile>>

(* Mutant of PrepareDies: the zip is written in place, not to a temporary  *)
(* file that replaces it, so that half a zip (None) is left of the packet. *)
PrepareDiesInPlace ==
  /\ preparing # None
  /\ packetFile' = None
  /\ preparing' = None
  /\ disturbed' = (rep.pc # "idle")
  /\ UNCHANGED <<mappingFile, stateFile, overlayFile, manifestFile,
                 procs, thr, seq, acked, prepared, rep, reportFile>>

(* The zip cannot be written, or the command is killed between the files.  *)
PrepareDies ==
  /\ preparing # None
  /\ preparing' = None
  /\ UNCHANGED <<vars, prepared, rep, reportFile, disturbed>>

-----------------------------------------------------------------------------
(* build_benchmark_review_report reads packet, mapping, overlay and        *)
(* manifest, then hashes packet and mapping again from disk.  A check that *)
(* fails raises and writes nothing, so it guards the step that reads what  *)
(* it compares.                                                            *)

ReportStep(from, fields) ==
  /\ rep.pc = from
  /\ rep' = fields
  /\ UNCHANGED <<vars, prepared, preparing, reportFile, disturbed>>

ReportBegin ==
  ReportStep("idle", [NoReport EXCEPT !.pc = "mapping", !.packet = packetFile])

(* "private mapping hash does not match packet"                            *)
ReportReadMapping ==
  /\ mappingFile = rep.packet
  /\ ReportStep("mapping", [rep EXCEPT !.pc = "overlay"])

(* "human overlay does not cover every blinded benchmark row"              *)
ReportReadOverlay ==
  /\ Complete(overlayFile.rows)
  /\ ReportStep("overlay", [rep EXCEPT !.pc = "manifest",
                                       !.overlay = overlayFile])

(* Mutant of ReportReadManifest: the overlay's hash is not compared.       *)
ReportReadAnyManifest ==
  /\ manifestFile # NoManifest
  /\ ReportStep("manifest", [rep EXCEPT !.pc = "rehash packet",
                                        !.manifest = manifestFile])

(* "overlay byte hash mismatch"                                            *)
ReportReadManifest ==
  /\ manifestFile # NoManifest
  /\ manifestFile.overlay = rep.overlay
  /\ ReportStep("manifest", [rep EXCEPT !.pc = "rehash packet",
                                        !.manifest = manifestFile])

(* Mutant of ReportCheckPacket: the packet's hash is not compared.         *)
ReportAnyPacket ==
  ReportStep("rehash packet", [rep EXCEPT !.pc = "rehash mapping"])

(* "overlay belongs to another review packet"                              *)
ReportCheckPacket ==
  /\ rep.manifest.packet = packetFile
  /\ ReportStep("rehash packet", [rep EXCEPT !.pc = "rehash mapping"])

(* "overlay belongs to another private mapping"                            *)
ReportCheckMapping ==
  /\ rep.manifest.mapping = mappingFile
  /\ ReportStep("rehash mapping", [rep EXCEPT !.pc = "chain"])

(* The chain takes the packet's hash from disk once more; the report       *)
(* replaces the previous one (its Markdown rendering follows and is read   *)
(* by no program).                                                         *)
ReportWrite ==
  /\ rep.pc = "chain"
  /\ reportFile' = [packet |-> packetFile, mapping |-> rep.packet,
                    manifest |-> rep.manifest, overlay |-> rep.overlay,
                    quiet |-> ~disturbed]
  /\ rep' = NoReport
  /\ disturbed' = FALSE
  /\ UNCHANGED <<vars, prepared, preparing>>

(* A check refuses, a file is missing, a write fails or the command dies.  *)
ReportEnds ==
  /\ rep.pc # "idle"
  /\ rep' = NoReport
  /\ disturbed' = FALSE
  /\ UNCHANGED <<vars, prepared, preparing, reportFile>>

-----------------------------------------------------------------------------
Prepare ==
  \/ \E p \in Packets : PrepareMapping(p)
  \/ PreparePacket
  \/ PrepareDies

WriteReport ==
  \/ ReportBegin
  \/ ReportReadMapping
  \/ ReportReadOverlay
  \/ ReportReadManifest
  \/ ReportCheckPacket
  \/ ReportCheckMapping
  \/ ReportWrite
  \/ ReportEnds

ChainNext ==
  \/ Next /\ UNCHANGED chain
  \/ Prepare
  \/ WriteReport

ChainSpec == ChainInit /\ [][ChainNext]_chainVars

-----------------------------------------------------------------------------
(* A report scores exactly one export: complete, its rows all decided by   *)
(* the reviewer the manifest names and on the cases of one packet, though  *)
(* exports of several threads may leave the overlay of one next to the     *)
(* manifest of another.                                                    *)
ReportScoresOneExport ==
  reportFile # None =>
    /\ reportFile.overlay = reportFile.manifest.overlay
    /\ \A c, d \in Cases :
         /\ reportFile.overlay.rows[c] # None
         /\ reportFile.overlay.rows[c].by = reportFile.overlay.by
         /\ reportFile.overlay.rows[c].packet
              = reportFile.overlay.rows[d].packet

(* If no preparation wrote while the report was built, its chain names one *)
(* preparation throughout: the packet, the mapping that unblinded it, and  *)
(* both hashes of the manifest.                                            *)
ReportChainConsistent ==
  (reportFile # None /\ reportFile.quiet) =>
    /\ reportFile.mapping = reportFile.packet
    /\ reportFile.manifest.packet = reportFile.packet
    /\ reportFile.manifest.mapping = reportFile.packet

(* The report's packet is the packet that was reviewed: the check "overlay *)
(* belongs to another review packet" (_verified_overlay) is there for it.  *)
ReportNamesReviewedPacket ==
  (reportFile # None /\ reportFile.quiet) =>
    \A c \in Cases : reportFile.overlay.rows[c].packet = reportFile.packet
=============================================================================
