------------------------- MODULE MCCustomTcpDownlink -------------------------
(* Constant values for model checking CustomTcpDownlink.                   *)
EXTENDS CustomTcpDownlink, TLC

CONSTANTS d1, d2, c1, c2, c3, k1, k2

\* All commands are of one kind, so that the sequence number has to tell
\* their ACKs apart.
MCSameCode == [c \in Command |-> "action_exec"]

MCSymmetry == Permutations(Command) \cup Permutations(Client)
=============================================================================
