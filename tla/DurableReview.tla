---------------------------- MODULE DurableReview ----------------------------
(***************************************************************************)
(* What the review server promises its reviewer, without saying how: a     *)
(* decision that was answered is saved and stays saved until a later one   *)
(* for the same case takes its place, across every restart.  The server    *)
(* prints it as "Progress is saved after every decision."                  *)
(***************************************************************************)
EXTENDS Naturals

CONSTANTS Packets, Cases

VARIABLES
  saved,  \* per packet and case, the number of the decision on disk (0: none)
  acked   \* per packet and case, the latest decision the reviewer was told of

absVars == <<saved, acked>>

Nothing == [p \in Packets |-> [c \in Cases |-> 0]]

Init == saved = Nothing /\ acked = Nothing

(* The disk moves forward, for one case or for several at once.            *)
Save ==
  /\ saved' \in [Packets -> [Cases -> Nat]]
  /\ \A p \in Packets, c \in Cases : saved[p][c] <= saved'[p][c]
  /\ UNCHANGED acked

(* Only what is on disk is answered.                                       *)
Ack(p, c) ==
  \E n \in 1 .. saved[p][c] :
    /\ acked[p][c] < n
    /\ acked' = [acked EXCEPT ![p] = [acked[p] EXCEPT ![c] = n]]
    /\ UNCHANGED saved

Next == Save \/ \E p \in Packets, c \in Cases : Ack(p, c)

Spec == Init /\ [][Next]_absVars
=============================================================================
