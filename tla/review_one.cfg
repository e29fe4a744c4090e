\* One server process: concurrent saves and exports, failing writes,
\* crashes and restarts; and every request ends.
SPECIFICATION FairSpec
CONSTANTS
  Servers = {s1}
  Threads = {t1, t2}
  Cases = {c1, c2}
  Packets = {1}
  FirstPacket = 1
  Port <- OnePort
  Reviewer <- OneReviewer
  None = None
  MaxSaves = 3
INVARIANTS
  TypeOK
  WriteSection
  AckedDurable
  OverlayNotStale
PROPERTIES
  KeepsPromise
  RequestsEnd
