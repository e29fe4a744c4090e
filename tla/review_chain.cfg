\* Two processes for two reviewers whose names have the same slug and who
\* therefore share every file, a second preparation at any moment, and reports
\* at any moment. AtOnce lets both processes be up together only while nothing
\* has been prepared again or reported.
SPECIFICATION ChainSpec
CONSTANTS
  Servers = {s1, s2}
  Threads = {t1, t2}
  Cases = {c1}
  Packets = {1, 2}
  FirstPacket = 1
  Port <- OwnPort
  Reviewer <- OwnReviewer
  None = None
  MaxSaves = 2
SYMMETRY Symmetry
CONSTRAINT AtOnce
INVARIANTS
  ChainTypeOK
  OverlayProvenance
  ReportScoresOneExport
  ReportChainConsistent
  DecisionsOfLoadedPacket
