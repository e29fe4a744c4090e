--------------------------- MODULE MCReviewChain ---------------------------
(* Instances of ReviewChain for TLC.                                       *)
EXTENDS ReviewChain, TLC

OnePort == [s \in Servers |-> 8765]
OwnPort == [s \in Servers |-> s]
OneReviewer == [s \in Servers |-> "ana"]
OwnReviewer == [s \in Servers |-> s]
Symmetry == Permutations(Servers) \cup Permutations(Threads)
              \cup Permutations(Cases)
AtOnce ==
  \/ prepared = {FirstPacket} /\ rep.pc = "idle" /\ reportFile = None
  \/ Cardinality({s \in Servers : phase[s] # "down"}) <= 1
=============================================================================
