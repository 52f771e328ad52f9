---------------------------- MODULE ProfileRegister ----------------------------
(***************************************************************************)
(* What one rider's stored profile promises to its callers: a set of       *)
(* applied updates that grows by one update per commit, of which some are  *)
(* vouched for by an answered call.  A power loss may take back updates    *)
(* nobody was promised, and never a promised one.                          *)
(***************************************************************************)
CONSTANT Requests

VARIABLES current,   \* the updates the profile shows now
          promised   \* the updates an answered call has vouched for

vars == <<current, promised>>

Init == current = {} /\ promised = {}

\* One conditional read-modify-write takes effect.
Commit(r) ==
    /\ r \notin current
    /\ current' = current \cup {r}
    /\ UNCHANGED promised

\* A call answers with a snapshot the profile has not moved away from.
Answer(snapshot) ==
    /\ snapshot \subseteq current
    /\ promised' = promised \cup snapshot
    /\ UNCHANGED current

\* A power loss falls back to an earlier state that keeps every promise.
Lose(remaining) ==
    /\ promised \subseteq remaining
    /\ remaining \subseteq current
    /\ current' = remaining
    /\ UNCHANGED promised

Next ==
    \/ \E r \in Requests : Commit(r)
    \/ \E snapshot \in SUBSET Requests : Answer(snapshot) \/ Lose(snapshot)

Spec == Init /\ [][Next]_vars
================================================================================
