--------------------------- MODULE ReviewChainProofs ---------------------------
(***************************************************************************)
(* Theorems about ReviewChain: the server's invariants with preparations   *)
(* and reports running beside it, and what a written report may claim.     *)
(***************************************************************************)
EXTENDS ReviewChain, ReviewStoreProofs

(* The overlay is the work of one reviewer on one packet, or has no row:   *)
(* OverlayProvenance, of an overlay that a report has read.                *)
OneDecider(overlay) ==
  \A c, d \in Cases : overlay.rows[c] # None =>
    /\ overlay.rows[d] # None
    /\ overlay.rows[c].by = overlay.by
    /\ overlay.rows[c].packet = overlay.rows[d].packet

Past(steps) == rep.pc \in ReportSteps \ steps

OverlayRead ==
  Past({"mapping", "overlay"}) =>
    Complete(rep.overlay.rows) /\ OneDecider(rep.overlay)

ManifestRead ==
  Past({"mapping", "overlay", "manifest"}) =>
    rep.manifest.overlay = rep.overlay

(* What the report has compared is still on disk, unless a preparation     *)
(* wrote in between.                                                       *)
StillOnDisk ==
  ~disturbed =>
    /\ Past({}) => rep.packet = packetFile
    /\ Past({"mapping"}) => rep.packet = mappingFile
    /\ rep.pc \in {"rehash mapping", "chain"} => rep.manifest.packet = packetFile
    /\ rep.pc = "chain" => rep.manifest.mapping = mappingFile

ReportInv ==
  /\ OverlayRead
  /\ ManifestRead
  /\ StillOnDisk
  /\ ReportScoresOneExport
  /\ ReportChainConsistent

ChainInv == StoreInv /\ ChainTypeOK /\ ReportInv

-----------------------------------------------------------------------------
(* The server never writes the packet or the mapping.                      *)
LEMMA ServersKeepPacket ==
  ASSUME Next
  PROVE  UNCHANGED <<packetFile, mappingFile>>
BY DEF Next, Process, Request, Answer, files, LoadPacket, LoadMapping,
       LoadState, LoadStateAs, Bind, Exit, SaveBegin, SaveCommit, SaveReplace,
       SaveFail, Respond, RespondLost, ExportBegin, ExportRead, ExportOverlay,
       ExportHashPacket, ExportHashMapping, ExportManifest, ExportFail

(* No invariant of the server depends on which packet or mapping is there. *)
LEMMA StoreInvAnyPacket ==
  ASSUME StoreInv, packetFile' \in Packets, mappingFile' \in Packets,
         UNCHANGED <<stateFile, overlayFile, manifestFile, procs, thr, seq,
                     acked>>
  PROVE  StoreInv'
<1> USE DEF procs
<1>1. HomeInv'
  BY DEF StoreInv, HomeInv, TypeOK, ThreadAtHome
<1>2. ProvenanceInv'
  BY DEF StoreInv, ProvenanceInv, RowsOfHome, ReadAll, BlankUntilLoaded,
         DecisionsOfLoadedPacket, OverlayProvenance
<1>3. WriteSection'
  BY DEF StoreInv, WriteSection
<1>4. FreshInv'
  BY DEF StoreInv, FreshInv, NumbersUsed, FloorInMemory, OverlayNotStale,
         NotBefore
<1>. QED
  BY <1>1, <1>2, <1>3, <1>4 DEF StoreInv

LEMMA ChainCases ==
  ASSUME [ChainNext]_chainVars
  PROVE  \/ Next /\ UNCHANGED chain
         \/ \E p \in Packets : PrepareMapping(p)
         \/ PreparePacket
         \/ PrepareDies
         \/ ReportBegin
         \/ ReportReadMapping
         \/ ReportReadOverlay
         \/ ReportReadManifest
         \/ ReportCheckPacket
         \/ ReportCheckMapping
         \/ ReportWrite
         \/ ReportEnds
         \/ UNCHANGED chainVars
BY DEF ChainNext, Prepare, WriteReport

-----------------------------------------------------------------------------
LEMMA ChainInvInit == ChainInit => ChainInv
<1> SUFFICES ASSUME ChainInit PROVE ChainInv
  OBVIOUS
<1> USE DEF ChainInit, NoReport
<1>1. StoreInv
  BY HomeInit, ProvenanceInit, WriteInit, FreshInit DEF StoreInv
<1>2. ChainTypeOK
  BY <1>1, EmptyFilesType, ConstantsAssumption
  DEF ChainTypeOK, StoreInv, HomeInv, ReportSteps
<1>3. ReportInv
  BY DEF ReportInv, OverlayRead, ManifestRead, StillOnDisk, Past, ReportSteps,
         ReportScoresOneExport, ReportChainConsistent
<1>. QED
  BY <1>1, <1>2, <1>3 DEF ChainInv

(* The server steps: reports and preparations stand still.                 *)
LEMMA ServersKeepChain ==
  ASSUME ChainInv, Next \/ UNCHANGED vars, UNCHANGED chain
  PROVE  ChainInv'
<1>1. StoreInv'
  BY HomeStep, ProvenanceStep, WriteStep, FreshStep DEF ChainInv, StoreInv
<1>2. UNCHANGED <<packetFile, mappingFile>>
  BY ServersKeepPacket DEF vars, files
<1>3. ChainTypeOK'
  BY <1>1 DEF ChainInv, ChainTypeOK, StoreInv, HomeInv, chain
<1>4. ReportInv'
  BY <1>2 DEF ChainInv, ReportInv, OverlayRead, ManifestRead, StillOnDisk,
    Past, OneDecider, Complete, ReportScoresOneExport, ReportChainConsistent,
    chain
<1>. QED
  BY <1>1, <1>3, <1>4 DEF ChainInv

(* A preparation writes at most the packet or the mapping, and while a     *)
(* report is running the report is disturbed.                              *)
LEMMA PreparationKeepsChain ==
  ASSUME ChainInv,
         \/ \E p \in Packets : PrepareMapping(p)
         \/ PreparePacket
         \/ PrepareDies
  PROVE  ChainInv'
<1> USE DEF PrepareMapping, PreparePacket, PrepareDies
<1>1. /\ packetFile' \in Packets
      /\ mappingFile' \in Packets
      /\ UNCHANGED <<stateFile, overlayFile, manifestFile, procs, thr, seq,
                     acked>>
  BY DEF ChainInv, ChainTypeOK, TypeOK, vars, files
<1>2. StoreInv'
  BY <1>1, StoreInvAnyPacket DEF ChainInv
<1>3. ChainTypeOK'
  BY <1>2 DEF ChainInv, ChainTypeOK, StoreInv, HomeInv
<1>4. StillOnDisk'
  <2>1. CASE rep.pc = "idle"
    BY <2>1 DEF StillOnDisk, Past, ReportSteps
  <2>2. CASE rep.pc # "idle"
    BY <2>2 DEF ChainInv, ReportInv, StillOnDisk, Past, vars, files
  <2>. QED
    BY <2>1, <2>2
<1>5. UNCHANGED <<rep, reportFile>>
  OBVIOUS
<1>6. ReportInv'
  BY <1>4, <1>5 DEF ChainInv, ReportInv, OverlayRead, ManifestRead, Past,
    OneDecider, Complete, ReportScoresOneExport, ReportChainConsistent
<1>. QED
  BY <1>2, <1>3, <1>6 DEF ChainInv

(* A report reads and compares: the files stay, and what it has compared   *)
(* is true of them.                                                        *)
LEMMA ReadingKeepsChain ==
  ASSUME ChainInv,
         \/ ReportBegin
         \/ ReportReadMapping
         \/ ReportReadOverlay
         \/ ReportReadManifest
         \/ ReportCheckPacket
         \/ ReportCheckMapping
  PROVE  ChainInv'
<1> USE DEF ReportBegin, ReportReadMapping, ReportReadOverlay,
       ReportReadManifest, ReportCheckPacket, ReportCheckMapping, ReportStep
<1>1. UNCHANGED <<vars, prepared, preparing, reportFile, disturbed>>
  OBVIOUS
<1>2. StoreInv'
  BY <1>1, HomeStep, ProvenanceStep, WriteStep, FreshStep
  DEF ChainInv, StoreInv
<1>3. UNCHANGED <<packetFile, mappingFile, overlayFile, manifestFile>>
  BY <1>1 DEF vars, files
<1>4. rep \in [pc : {"idle"} \cup ReportSteps, packet : Packets,
               overlay : OverlayContents, manifest : ManifestContents]
  BY DEF ChainInv, ChainTypeOK
<1>5. /\ packetFile \in Packets
      /\ overlayFile \in OverlayContents
      /\ manifestFile \in ManifestContents
  BY DEF ChainInv, ChainTypeOK, TypeOK
<1>6. ChainTypeOK'
  <2>1. rep' \in [pc : {"idle"} \cup ReportSteps, packet : Packets,
                  overlay : OverlayContents, manifest : ManifestContents]
    BY <1>4, <1>5, EmptyFilesType DEF ReportSteps, NoReport
  <2>. QED
    BY <1>1, <1>2, <2>1 DEF ChainInv, ChainTypeOK, StoreInv, HomeInv
<1>7. OverlayRead'
  <2>1. CASE ReportReadOverlay
    <3>1. rep'.overlay = overlayFile /\ Complete(overlayFile.rows)
      BY <2>1, <1>4
    <3>2. OneDecider(overlayFile)
      BY DEF ChainInv, StoreInv, ProvenanceInv, OverlayProvenance, OneDecider
    <3>. QED
      BY <3>1, <3>2 DEF OverlayRead, OneDecider, Complete
  <2>2. CASE ~ReportReadOverlay
    <3>1. Past({"mapping", "overlay"})' =>
            Past({"mapping", "overlay"}) /\ rep'.overlay = rep.overlay
      BY <2>2, <1>4 DEF Past, ReportSteps, NoReport
    <3>. QED
      BY <3>1 DEF ChainInv, ReportInv, OverlayRead, OneDecider, Complete
  <2>. QED
    BY <2>1, <2>2
<1>8. ManifestRead'
  BY <1>4, <1>3 DEF ChainInv, ReportInv, ManifestRead, Past, ReportSteps,
                    NoReport
<1>9. StillOnDisk'
  BY <1>4, <1>1, <1>3 DEF ChainInv, ReportInv, StillOnDisk, Past, ReportSteps,
                          NoReport
<1>10. ReportScoresOneExport' /\ ReportChainConsistent'
  BY <1>1 DEF ChainInv, ReportInv, ReportScoresOneExport, ReportChainConsistent
<1>. QED
  BY <1>2, <1>6, <1>7, <1>8, <1>9, <1>10 DEF ChainInv, ReportInv

(* A report is written, or its command ends without one.                   *)
LEMMA EndingKeepsChain ==
  ASSUME ChainInv, ReportWrite \/ ReportEnds
  PROVE  ChainInv'
<1> USE DEF ReportWrite, ReportEnds
<1>1. UNCHANGED <<vars, prepared, preparing>> /\ rep' = NoReport
         /\ disturbed' = FALSE
  OBVIOUS
<1>2. StoreInv'
  BY <1>1, HomeStep, ProvenanceStep, WriteStep, FreshStep
  DEF ChainInv, StoreInv
<1>3. rep \in [pc : {"idle"} \cup ReportSteps, packet : Packets,
               overlay : OverlayContents, manifest : ManifestContents]
  BY DEF ChainInv, ChainTypeOK
<1>4. ChainTypeOK'
  <2>1. rep' \in [pc : {"idle"} \cup ReportSteps, packet : Packets,
                  overlay : OverlayContents, manifest : ManifestContents]
    BY <1>1, EmptyFilesType, ConstantsAssumption DEF NoReport, ReportSteps
  <2>2. reportFile' \in Report \cup {None}
    <3>1. /\ packetFile \in Packets
          /\ disturbed \in BOOLEAN
          /\ reportFile \in Report \cup {None}
      BY DEF ChainInv, ChainTypeOK, TypeOK
    <3>2. CASE ReportEnds
      BY <3>1, <3>2
    <3>3. CASE ReportWrite
      <4> DEFINE R(q) == [packet |-> packetFile, mapping |-> rep.packet,
                          manifest |-> rep.manifest, overlay |-> rep.overlay,
                          quiet |-> q]
      <4>1. R(TRUE) \in Report /\ R(FALSE) \in Report
        BY <1>3, <3>1 DEF Report
      <4>2. reportFile' = R(~disturbed)
        BY <3>3
      <4> HIDE DEF R
      <4>3. reportFile' = R(TRUE) \/ reportFile' = R(FALSE)
        BY <3>1, <4>2, Zenon
      <4>. QED
        BY <4>1, <4>3
    <3>. QED
      BY <3>2, <3>3
  <2>. QED
    BY <1>1, <1>2, <2>1, <2>2 DEF ChainInv, ChainTypeOK, StoreInv, HomeInv
<1>5. OverlayRead' /\ ManifestRead' /\ StillOnDisk'
  BY <1>1 DEF OverlayRead, ManifestRead, StillOnDisk, Past, NoReport,
              ReportSteps
<1>6. CASE ReportEnds
  <2>1. ReportScoresOneExport' /\ ReportChainConsistent'
    BY <1>6 DEF ChainInv, ReportInv, ReportScoresOneExport,
                ReportChainConsistent
  <2>. QED
    BY <1>2, <1>4, <1>5, <2>1 DEF ChainInv, ReportInv
<1>7. CASE ReportWrite
  <2>1. /\ Complete(rep.overlay.rows)
        /\ OneDecider(rep.overlay)
        /\ rep.manifest.overlay = rep.overlay
    BY <1>7 DEF ChainInv, ReportInv, OverlayRead, ManifestRead, Past,
                ReportSteps
  <2>2. ReportScoresOneExport'
    BY <1>7, <2>1 DEF ReportScoresOneExport, Complete, OneDecider
  <2>3. ~disturbed => /\ rep.packet = packetFile
                      /\ rep.packet = mappingFile
                      /\ rep.manifest.packet = packetFile
                      /\ rep.manifest.mapping = mappingFile
    BY <1>7 DEF ChainInv, ReportInv, StillOnDisk, Past, ReportSteps
  <2>4. ReportChainConsistent'
    BY <1>7, <2>3 DEF ReportChainConsistent
  <2>. QED
    BY <1>2, <1>4, <1>5, <2>2, <2>4 DEF ChainInv, ReportInv
<1>. QED
  BY <1>6, <1>7

LEMMA ChainInvStep == ChainInv /\ [ChainNext]_chainVars => ChainInv'
<1> SUFFICES ASSUME ChainInv, [ChainNext]_chainVars PROVE ChainInv'
  OBVIOUS
<1>1. UNCHANGED chainVars => UNCHANGED vars /\ UNCHANGED chain
  BY DEF chainVars
<1>. QED
  BY <1>1, ChainCases, ServersKeepChain, PreparationKeepsChain,
     ReadingKeepsChain, EndingKeepsChain

LEMMA ChainInvariant == ChainSpec => []ChainInv
BY ChainInvInit, ChainInvStep, PTL DEF ChainSpec

-----------------------------------------------------------------------------
(* The files, the server and the report command keep their types with all  *)
(* three programs running at the same time.                                *)
THEOREM ChainTypeCorrect == ChainSpec => []ChainTypeOK
<1>1. ChainInv => ChainTypeOK
  BY DEF ChainInv
<1>. QED
  BY <1>1, ChainInvariant, PTL

(* A report scores one complete export of one reviewer on one packet,      *)
(* however exports of several threads and processes interleave with what   *)
(* the report command reads.                                               *)
THEOREM ReportScoresOneExportHolds == ChainSpec => []ReportScoresOneExport
<1>1. ChainInv => ReportScoresOneExport
  BY DEF ChainInv, ReportInv
<1>. QED
  BY <1>1, ChainInvariant, PTL

(* The chain of a report that no preparation disturbed names one           *)
(* preparation throughout (build_benchmark_review_report).                 *)
THEOREM ReportChainConsistentHolds == ChainSpec => []ReportChainConsistent
<1>1. ChainInv => ReportChainConsistent
  BY DEF ChainInv, ReportInv
<1>. QED
  BY <1>1, ChainInvariant, PTL

(* What a server holds in memory is its own reviewer's work on the packet  *)
(* it has loaded, though a preparation may replace the packet at any time. *)
THEOREM DecisionsOfLoadedPacketHolds == ChainSpec => []DecisionsOfLoadedPacket
<1>1. ChainInv => DecisionsOfLoadedPacket
  BY DEF ChainInv, StoreInv, ProvenanceInv
<1>. QED
  BY <1>1, ChainInvariant, PTL

(* The overlay file is one reviewer's work on one packet, as above.        *)
THEOREM ChainOverlayProvenance == ChainSpec => []OverlayProvenance
<1>1. ChainInv => OverlayProvenance
  BY DEF ChainInv, StoreInv, ProvenanceInv
<1>. QED
  BY <1>1, ChainInvariant, PTL

-----------------------------------------------------------------------------
(* The promise of one server, with preparations beside it.                 *)

(* A preparation or a report leaves what durability is about alone.        *)
LEMMA ChainDurableStep ==
  OneServer /\ ChainInv /\ ChainInv' /\ DurableInv /\ [ChainNext]_chainVars
    => DurableInv' /\ [Promise!Next]_(Promise!absVars)
<1> SUFFICES ASSUME OneServer, ChainInv, ChainInv', DurableInv,
                    [ChainNext]_chainVars
             PROVE  /\ DurableInv'
                    /\ Promise!Next \/ UNCHANGED Promise!absVars
  OBVIOUS
<1>1. CASE Next
  BY <1>1, DurableStep, PromiseStep DEF ChainInv
<1>2. CASE ~Next
  <2>1. UNCHANGED <<stateFile, phase, loaded, decisions, thr, acked>>
    BY <1>2, ChainCases
       DEF chainVars, vars, files, procs, PrepareMapping, PreparePacket,
           PrepareDies, ReportStep, ReportBegin, ReportReadMapping,
           ReportReadOverlay, ReportReadManifest, ReportCheckPacket,
           ReportCheckMapping, ReportWrite, ReportEnds
  <2>2. DurableInv'
    BY <2>1 DEF DurableInv, AnswerNumbered, MemoryCoversFile, AckedDurable,
                FileOfLoadedPacket, AnswerOnDisk, NotBefore
  <2>3. UNCHANGED Promise!absVars
    BY <2>1 DEF Promise!absVars, SavedNumber
  <2>. QED
    BY <2>2, <2>3
<1>. QED
  BY <1>1, <1>2

(* One server keeps the promise of DurableReview while new packets are     *)
(* prepared over the reviewed one and reports read its files: a state file *)
(* of an older packet is refused, never overwritten.                       *)
THEOREM ChainKeepsPromise ==
  OneServer => (ChainSpec => KeepsPromise /\ []AckedDurable)
<1> SUFFICES ASSUME OneServer PROVE ChainSpec => KeepsPromise /\ []AckedDurable
  OBVIOUS
<1>1. ChainInit => DurableInv /\ Promise!Init
  BY DurableInit, PromiseInit DEF ChainInit
<1>2. ChainInv /\ ChainInv' /\ DurableInv /\ [ChainNext]_chainVars
        => DurableInv' /\ [Promise!Next]_(Promise!absVars)
  BY ChainDurableStep
<1>3. DurableInv => AckedDurable
  BY DEF DurableInv
<1>. QED
  BY <1>1, <1>2, <1>3, ChainInvariant, PTL
  DEF ChainSpec, KeepsPromise, Promise!Spec
=============================================================================
