--------------------------- MODULE MCReviewStore ---------------------------
(* Instances of ReviewStore for TLC.                                       *)
EXTENDS ReviewStore, TLC

OnePort == [s \in Servers |-> 8765]
OneReviewer == [s \in Servers |-> "ana"]

Symmetry == Permutations(Threads) \cup Permutations(Cases)
=============================================================================
