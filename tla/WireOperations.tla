--------------------------- MODULE WireOperations ---------------------------
(***************************************************************************)
(* The wire operation gate with arbitrary clients: tasks that begin and    *)
(* end operations of either kind, tasks that close a phase and wait for    *)
(* its drain, tasks that wait for the close, and an operator who bypasses  *)
(* both phases at any moment.                                              *)
(***************************************************************************)
EXTENDS WireOperationGate, FiniteSets

CONSTANTS
  Tasks,     \* tasks that perform one operation at a time
  Closers,   \* tasks that close a phase or bypass both
  None

ASSUME TasksAssumption ==
  IsFiniteSet(Tasks) /\ Tasks \cup Closers \subseteq Callers /\ None \notin Kinds

VARIABLE guard   \* the kind of operation a task holds a WireOperationGuard for

vars == <<gate, guard>>

TypeOK == GateTypeOK /\ guard \in [Tasks -> Kinds \cup {None}]

Init == GateInit /\ guard = [t \in Tasks |-> None]

\* A task that awaits does nothing else.
runs(c) == c \in Waiters => waiting[c].phase \notin {"armed", "read", "parked"}

Begin(t, kind) ==
  /\ runs(t)
  /\ guard[t] = None
  /\ \/ /\ try_begin(t, kind)
        /\ guard' = [guard EXCEPT ![t] = kind]
     \/ /\ try_begin_refused(t, kind)
        /\ UNCHANGED guard

End(t) ==
  /\ runs(t)
  /\ guard[t] # None
  /\ retire(t, guard[t])
  /\ guard' = [guard EXCEPT ![t] = None]

\* Mutant: the drain wait starts before the phase is closed.
may_await_open(w, on) == waiting[w].phase = "idle"

\* close_and_drain_request_operations and close_and_drain_outbound_operations
\* close the phase before they wait for it.
may_await(w, on) == waiting[w].phase = "idle" /\ (on \in Kinds => ~accepting[on])

Await(w, on) ==
  /\ may_await(w, on)
  /\ arm(w, on)
  /\ UNCHANGED guard

CloseAdmission(c, kind) == runs(c) /\ close_admission(c, kind) /\ UNCHANGED guard
ForceBypass(c) == runs(c) /\ force_bypass(c) /\ UNCHANGED guard
NotifyWaiters(c) == notify_waiters(c) /\ UNCHANGED guard
Check(w) == check(w) /\ UNCHANGED guard
Park(w) == park(w) /\ UNCHANGED guard
Wake(w) == wake(w) /\ UNCHANGED guard

\* A session's wait for the close loses its select! to another branch.
AbandonWait(w) ==
  /\ waiting[w].on = "admission"
  /\ ~runs(w)
  /\ abandon_wait(w)
  /\ UNCHANGED guard

Next ==
  \/ \E t \in Tasks, kind \in Kinds : Begin(t, kind)
  \/ \E t \in Tasks : End(t)
  \/ \E w \in Waiters, on \in Kinds \cup {"admission"} : Await(w, on)
  \/ \E c \in Closers, kind \in Kinds : CloseAdmission(c, kind)
  \/ \E c \in Closers : ForceBypass(c)
  \/ \E c \in Callers : NotifyWaiters(c)
  \/ \E w \in Waiters : Check(w)
  \/ \E w \in Waiters : Park(w)
  \/ \E w \in Waiters : Wake(w)
  \/ \E w \in Waiters : AbandonWait(w)

Spec == Init /\ [][Next]_vars

\* The counters count the guards, so that "drained" speaks of the operations
\* themselves.
GuardsCounted ==
  \A k \in Kinds : active[k] = Cardinality({t \in Tasks : guard[t] = k})

\* Operations end and tasks that can run do.
Fairness ==
  /\ \A c \in Callers : WF_vars(NotifyWaiters(c))
  /\ \A t \in Tasks : WF_vars(End(t))
  /\ \A w \in Waiters : WF_vars(Check(w)) /\ WF_vars(Park(w)) /\ WF_vars(Wake(w))

FairSpec == Spec /\ Fairness

\* A drain wait comes to an end: begun after the close, it only waits for the
\* operations that were admitted before.
DrainWaitEnds ==
  \A w \in Waiters :
    (waiting[w].on \in Kinds /\ ~runs(w))
      ~> waiting[w].phase \in {"drained", "bypassed"}
=============================================================================
