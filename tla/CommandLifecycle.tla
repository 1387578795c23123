--------------------------- MODULE CommandLifecycle ---------------------------
(***************************************************************************)
(* What downlink delivery promises about one command, whatever happens to  *)
(* connections, RPCs and processes: at-least-once delivery that stops at   *)
(* the confirmation, with loss as the only other way out.                  *)
(*                                                                         *)
(*   absent -> waiting <-> taken -> transmitted -> confirmed               *)
(*                ^          |           |                                 *)
(*                |          v           |                                 *)
(*                |       rejected       |                                 *)
(*                +----------------------+        (anything open) -> lost  *)
(***************************************************************************)
CONSTANT Command

VARIABLES
  stage,    \* where each command is in its life
  onAir,    \* commands that were transmitted at least once
  received  \* commands a device received at least once

vars == <<stage, onAir, received>>

Open == {"waiting", "taken", "transmitted"}
Final == {"confirmed", "rejected", "lost"}

TypeOK ==
  /\ stage \in [Command -> {"absent"} \cup Open \cup Final]
  /\ onAir \subseteq Command
  /\ received \subseteq Command

Init ==
  /\ stage = [c \in Command |-> "absent"]
  /\ onAir = {}
  /\ received = {}

\* One command moves from a stage in `from` to stage `to`.
Move(c, from, to) ==
  /\ stage[c] \in from
  /\ stage' = [stage EXCEPT ![c] = to]

Submit(c) == Move(c, {"absent"}, "waiting") /\ UNCHANGED <<onAir, received>>

Take(c) == Move(c, {"waiting"}, "taken") /\ UNCHANGED <<onAir, received>>

\* Transmission: the frame may still get lost.
Transmit(c) ==
  /\ Move(c, {"taken"}, "transmitted")
  /\ onAir' = onAir \cup {c}
  /\ UNCHANGED received

\* A device receives a frame, however late.
Deliver(c) ==
  /\ c \in onAir
  /\ received' = received \cup {c}
  /\ UNCHANGED <<stage, onAir>>

\* Only what was received is confirmed, and only while it is transmitted.
Confirm(c) ==
  /\ c \in received
  /\ Move(c, {"transmitted"}, "confirmed")
  /\ UNCHANGED <<onAir, received>>

Reject(c) == Move(c, {"taken"}, "rejected") /\ UNCHANGED <<onAir, received>>

Return(c) ==
  Move(c, {"taken", "transmitted"}, "waiting") /\ UNCHANGED <<onAir, received>>

\* A full queue, a restart or a broken call loses open commands for good.
Lose(S) ==
  /\ \A c \in S : stage[c] \in Open
  /\ stage' = [c \in Command |-> IF c \in S THEN "lost" ELSE stage[c]]
  /\ UNCHANGED <<onAir, received>>

Forward ==
  \/ \E c \in Command :
       Submit(c) \/ Take(c) \/ Transmit(c) \/ Deliver(c) \/ Confirm(c) \/ Reject(c)
  \/ \E S \in (SUBSET Command) \ {{}} : Lose(S)

Next == Forward \/ \E c \in Command : Return(c)

Spec == Init /\ [][Next]_vars

\* Delivery that never tries a command again.
OnceSpec == Init /\ [][Forward]_vars

-----------------------------------------------------------------------------
\* Nothing is confirmed that no device received.
ConfirmedWasReceived ==
  \A c \in Command : stage[c] = "confirmed" => c \in received

\* A command that is settled or lost never comes back.
FinalIsForever ==
  [][\A c \in Command : stage[c] \in Final => stage'[c] = stage[c]]_vars
=============================================================================
