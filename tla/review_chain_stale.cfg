\* A server reviews one packet, a second is prepared, then it exports.
SPECIFICATION ChainSpec
CONSTANTS
  Servers = {s1}
  Threads = {t1, t2}
  Cases = {c1}
  Packets = {1, 2}
  FirstPacket = 1
  Port <- OnePort
  Reviewer <- OneReviewer
  None = None
  MaxSaves = 2
SYMMETRY Symmetry
INVARIANT ReportNamesReviewedPacket
