-------------------------- MODULE GenerationFence --------------------------
(***************************************************************************)
(* What the identity registry promises to the rest of the server, without  *)
(* its permits, tickets, gates and timers: every nickname is held by at    *)
(* most one generation, generations only turn over while no operation of   *)
(* the outgoing one is in flight, operations start only on the generation  *)
(* that holds the nickname, and a generation number is used once.          *)
(*                                                                         *)
(* IdentityRegistry implements this specification with holder = Retained.  *)
(***************************************************************************)
EXTENDS Naturals

CONSTANTS Nicknames, Tasks, MaxGeneration

VARIABLES
  holder,   \* the generation that holds each nickname, or 0
  busy,     \* the generation each task works for, or 0
  unused    \* every generation from this one on is unused

vars == <<holder, busy, unused>>

Init ==
  /\ holder = [n \in Nicknames |-> 0]
  /\ busy = [t \in Tasks |-> 0]
  /\ unused = 1

Idle(g) == g = 0 \/ \A t \in Tasks : busy[t] # g

\* A nickname is released or handed to a fresh generation, only while the
\* outgoing generation is idle.
TurnOver(n) ==
  /\ Idle(holder[n])
  /\ \/ holder'[n] = 0
     \/ /\ holder'[n] \in unused .. (unused' - 1)
        /\ \A m \in Nicknames \ {n} : holder'[m] # holder'[n]

\* A task ends its work, or starts work on a generation that holds a nickname
\* and keeps it.
StartOrEnd(t) ==
  \/ busy'[t] = 0
  \/ /\ busy[t] = 0
     /\ \E n \in Nicknames : busy'[t] = holder[n] /\ holder'[n] = holder[n]

\* Several nicknames may turn over in one step.
Next ==
  /\ holder' \in [Nicknames -> 0..MaxGeneration]
  /\ busy' \in [Tasks -> 0..MaxGeneration]
  /\ unused' \in unused .. MaxGeneration
  /\ \A n \in Nicknames : holder'[n] # holder[n] => TurnOver(n)
  /\ \A t \in Tasks : busy'[t] # busy[t] => StartOrEnd(t)

Spec == Init /\ [][Next]_vars
=============================================================================
