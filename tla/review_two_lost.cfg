\* Two processes for one reviewer on the default port: the second loads the
\* saved decisions before it finds the port taken or free.
SPECIFICATION Spec
CONSTANTS
  Servers = {s1, s2}
  Threads = {t1, t2}
  Cases = {c1, c2}
  Packets = {1}
  FirstPacket = 1
  Port <- OnePort
  Reviewer <- OneReviewer
  None = None
  MaxSaves = 3
SYMMETRY Symmetry

INVARIANT AckedDurable
