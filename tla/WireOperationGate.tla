------------------------- MODULE WireOperationGate -------------------------
(***************************************************************************)
(* WireOperationGate (p5136-server/src/operation_gate.rs): admission and   *)
(* drain of the two kinds of wire work, requests and outbound batches.     *)
(*                                                                         *)
(* This module has the state of the gate and its methods; WireOperations   *)
(* gives it arbitrary clients and GracefulShutdown the server's.  Every    *)
(* method is one critical section of the state mutex, but notify_waiters   *)
(* runs after the unlock and is an action of its own: "notifying" has the  *)
(* callers between the two.  A waiter goes through the steps of the        *)
(* wait_for loops: create the Notified future, lock and read, park.        *)
(***************************************************************************)
EXTENDS Naturals

CONSTANTS
  Callers,     \* tasks that call the gate
  Waiters,     \* those that may wait on it
  MaxActive    \* usize::MAX of a counter

ASSUME GateAssumption == Waiters \subseteq Callers /\ MaxActive \in Nat \ {0}

Kinds == {"request", "outbound"}

\* What a waiter waits for: one of the three wait_for methods; the phases are
\* its progress and, at the end, what the method returned.
Waiting ==
  [on : Kinds \cup {"admission"},
   phase : {"idle", "armed", "read", "parked", "drained", "bypassed", "closed"},
   notified : BOOLEAN]

VARIABLES
  accepting,        \* accepting_requests, accepting_outbound
  active,           \* active_requests, active_outbound
  force_bypassed,
  notifying,        \* callers that have unlocked and not yet notified
  waiting           \* the wait each task is in

gate == <<accepting, active, force_bypassed, notifying, waiting>>

GateTypeOK ==
  /\ accepting \in [Kinds -> BOOLEAN]
  /\ active \in [Kinds -> 0..MaxActive]
  /\ force_bypassed \in BOOLEAN
  /\ notifying \subseteq Callers
  /\ waiting \in [Waiters -> Waiting]

GateInit ==
  /\ accepting = [k \in Kinds |-> TRUE]
  /\ active = [k \in Kinds |-> 0]
  /\ force_bypassed = FALSE
  /\ notifying = {}
  /\ waiting = [w \in Waiters |-> [on |-> "admission", phase |-> "idle", notified |-> FALSE]]
-----------------------------------------------------------------------------
\* Mutant: a guard is handed out after the phase has closed.
admits_closed(kind) == active[kind] < MaxActive

admits(kind) == accepting[kind] /\ active[kind] < MaxActive

\* try_begin that returns a guard.
try_begin(c, kind) ==
  /\ c \notin notifying
  /\ admits(kind)
  /\ active' = [active EXCEPT ![kind] = @ + 1]
  /\ UNCHANGED <<accepting, force_bypassed, notifying, waiting>>

\* try_begin that returns None: the phase is closed, or its counter is
\* exhausted, which closes it.
try_begin_refused(c, kind) ==
  /\ c \notin notifying
  /\ ~admits(kind)
  /\ accepting' = [accepting EXCEPT ![kind] = FALSE]
  /\ notifying' = IF accepting[kind] THEN notifying \cup {c} ELSE notifying
  /\ UNCHANGED <<active, force_bypassed, waiting>>

\* Mutants: nobody is told; every guard counts its requests down.
retire_silent(c, kind) ==
  /\ c \notin notifying
  /\ active[kind] # 0
  /\ active' = [active EXCEPT ![kind] = @ - 1]
  /\ UNCHANGED <<accepting, force_bypassed, notifying, waiting>>

retire_swapped(c, kind) ==
  /\ c \notin notifying
  /\ active' = [active EXCEPT !["request"] = IF @ = 0 THEN 0 ELSE @ - 1]
  /\ notifying' = IF active["request"] = 1 THEN notifying \cup {c} ELSE notifying
  /\ UNCHANGED <<accepting, force_bypassed, waiting>>

\* WireOperationGuard::drop: the last guard of its kind notifies.
retire(c, kind) ==
  /\ c \notin notifying
  /\ active[kind] # 0
  /\ active' = [active EXCEPT ![kind] = @ - 1]
  /\ notifying' = IF active[kind] = 1 THEN notifying \cup {c} ELSE notifying
  /\ UNCHANGED <<accepting, force_bypassed, waiting>>

\* close_request_admission and close_outbound_admission.
close_admission(c, kind) ==
  /\ c \notin notifying
  /\ accepting' = [accepting EXCEPT ![kind] = FALSE]
  /\ notifying' = notifying \cup {c}
  /\ UNCHANGED <<active, force_bypassed, waiting>>

force_bypass(c) ==
  /\ c \notin notifying
  /\ accepting' = [k \in Kinds |-> FALSE]
  /\ force_bypassed' = TRUE
  /\ notifying' = notifying \cup {c}
  /\ UNCHANGED <<active, waiting>>

\* Mutant: a Notified future hears of nothing before it is first awaited.
hears_when_parked(w) == waiting[w].phase = "parked"

\* A Notified future receives notify_waiters from its creation on.
hears(w) == waiting[w].phase \in {"armed", "read", "parked"}

notify_waiters(c) ==
  /\ c \in notifying
  /\ notifying' = notifying \ {c}
  /\ waiting' = [w \in Waiters |->
       IF hears(w) THEN [waiting[w] EXCEPT !.notified = TRUE] ELSE waiting[w]]
  /\ UNCHANGED <<accepting, active, force_bypassed>>
-----------------------------------------------------------------------------
\* The three wait_for loops.

\* Create the Notified future.
arm(w, on) ==
  /\ w \notin notifying
  /\ waiting' = [waiting EXCEPT ![w] = [on |-> on, phase |-> "armed", notified |-> FALSE]]
  /\ UNCHANGED <<accepting, active, force_bypassed, notifying>>

\* What the state tells waiter w: an answer, or that it has to wait.
reading(w) ==
  IF waiting[w].on = "admission"
  THEN IF accepting["request"] THEN "read" ELSE "closed"
  ELSE IF force_bypassed THEN "bypassed"
  ELSE IF active[waiting[w].on] = 0 THEN "drained" ELSE "read"

\* Lock, read and unlock.
check(w) ==
  /\ waiting[w].phase = "armed"
  /\ waiting' = [waiting EXCEPT ![w].phase = reading(w)]
  /\ UNCHANGED <<accepting, active, force_bypassed, notifying>>

\* changed.await is polled.
park(w) ==
  /\ waiting[w].phase = "read"
  /\ waiting' = [waiting EXCEPT ![w].phase = "parked"]
  /\ UNCHANGED <<accepting, active, force_bypassed, notifying>>

\* changed.await returns and the loop starts again.
wake(w) ==
  /\ waiting[w].phase = "parked"
  /\ waiting[w].notified
  /\ arm(w, waiting[w].on)

\* The wait is dropped, as select! does with the branches that lose.
abandon_wait(w) ==
  /\ waiting' = [waiting EXCEPT ![w] = [@ EXCEPT !.phase = "idle", !.notified = FALSE]]
  /\ UNCHANGED <<accepting, active, force_bypassed, notifying>>
-----------------------------------------------------------------------------
\* A waiter that has read the state and that nobody will notify still has something
\* to wait for:
\* neither the drain of the last guard, nor the close of admission, nor a
\* force bypass slips between the waiter's read and its park.
NoLostGateWakeup ==
  \A w \in Waiters :
    waiting[w].phase \in {"read", "parked"} /\ ~waiting[w].notified /\ notifying = {} =>
      reading(w) = "read"

\* The answer of a drain wait that began after its phase was closed is final:
\* the phase stays closed and no guard of it exists again, so the supervisor may
\* tear down what those guards used.
DrainIsFinal ==
  \A w \in Waiters :
    waiting[w].phase = "drained" =>
      ~accepting[waiting[w].on] /\ active[waiting[w].on] = 0
=============================================================================
