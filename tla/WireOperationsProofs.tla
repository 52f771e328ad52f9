------------------------ MODULE WireOperationsProofs ------------------------
(***************************************************************************)
(* Proofs about WireOperations: the gate under arbitrary clients.  They    *)
(* hold for any number of tasks, closers and waiters.                      *)
(***************************************************************************)
EXTENDS WireOperations, TLAPS, FiniteSetTheorems

\* The initial state is well typed.
LEMMA InitType == Init => TypeOK
<1> SUFFICES ASSUME Init PROVE TypeOK
  OBVIOUS
<1>1. accepting \in [Kinds -> BOOLEAN] /\ active \in [Kinds -> 0..MaxActive]
  BY GateAssumption DEF Init, GateInit
<1>2. force_bypassed \in BOOLEAN /\ notifying \subseteq Callers
  BY DEF Init, GateInit
<1>3. [on |-> "admission", phase |-> "idle", notified |-> FALSE] \in Waiting
  BY DEF Waiting
<1>4. waiting \in [Waiters -> Waiting]
  BY <1>3 DEF Init, GateInit
<1>5. guard \in [Tasks -> Kinds \cup {None}]
  BY DEF Init
<1> QED
  BY <1>1, <1>2, <1>4, <1>5 DEF TypeOK, GateTypeOK

\* What reading the state returns is a phase of a waiter.
LEMMA ReadingType ==
  ASSUME NEW w \in Waiters
  PROVE  reading(w) \in {"read", "closed", "bypassed", "drained"}
  BY DEF reading

\* Every step keeps every variable of the gate and the guards in its type.
LEMMA StepType == TypeOK /\ [Next]_vars => TypeOK'
<1> SUFFICES ASSUME TypeOK, [Next]_vars PROVE TypeOK'
  OBVIOUS
<1> USE GateAssumption, TasksAssumption
<1>1. ASSUME NEW t \in Tasks, NEW kind \in Kinds, Begin(t, kind) PROVE TypeOK'
  <2>1. CASE try_begin(t, kind) /\ guard' = [guard EXCEPT ![t] = kind]
    <3>1. active' \in [Kinds -> 0..MaxActive]
      BY <2>1 DEF try_begin, admits, TypeOK, GateTypeOK
    <3>2. guard' \in [Tasks -> Kinds \cup {None}]
      BY <2>1 DEF TypeOK
    <3> QED
      BY <2>1, <3>1, <3>2 DEF try_begin, TypeOK, GateTypeOK
  <2>2. CASE try_begin_refused(t, kind) /\ UNCHANGED guard
    <3>1. accepting' \in [Kinds -> BOOLEAN]
      BY <2>2 DEF try_begin_refused, TypeOK, GateTypeOK
    <3>2. notifying' \subseteq Callers
      BY <2>2 DEF try_begin_refused, TypeOK, GateTypeOK
    <3> QED
      BY <2>2, <3>1, <3>2 DEF try_begin_refused, TypeOK, GateTypeOK
  <2> QED
    BY <1>1, <2>1, <2>2 DEF Begin
<1>2. ASSUME NEW t \in Tasks, End(t) PROVE TypeOK'
  <2>1. retire(t, guard[t]) /\ guard[t] \in Kinds /\ guard' = [guard EXCEPT ![t] = None]
    BY <1>2 DEF End, TypeOK
  <2>2. active' \in [Kinds -> 0..MaxActive]
    BY <2>1 DEF retire, TypeOK, GateTypeOK
  <2>3. guard' \in [Tasks -> Kinds \cup {None}]
    BY <2>1 DEF TypeOK
  <2>4. notifying' \subseteq Callers
    BY <2>1 DEF retire, TypeOK, GateTypeOK
  <2> QED
    BY <2>1, <2>2, <2>3, <2>4 DEF retire, TypeOK, GateTypeOK
<1>3. ASSUME NEW w \in Waiters, NEW on \in Kinds \cup {"admission"}, arm(w, on),
             UNCHANGED guard
      PROVE TypeOK'
  <2>1. [on |-> on, phase |-> "armed", notified |-> FALSE] \in Waiting
    BY DEF Waiting
  <2>2. waiting' \in [Waiters -> Waiting]
    BY <1>3, <2>1 DEF arm, TypeOK, GateTypeOK
  <2> QED
    BY <1>3, <2>2 DEF arm, TypeOK, GateTypeOK
<1>4. ASSUME NEW c \in Closers, NEW kind \in Kinds, CloseAdmission(c, kind) PROVE TypeOK'
  <2>1. accepting' \in [Kinds -> BOOLEAN]
    BY <1>4 DEF CloseAdmission, close_admission, TypeOK, GateTypeOK
  <2>2. notifying' \subseteq Callers
    BY <1>4 DEF CloseAdmission, close_admission, TypeOK, GateTypeOK
  <2> QED
    BY <1>4, <2>1, <2>2 DEF CloseAdmission, close_admission, TypeOK, GateTypeOK
<1>5. ASSUME NEW c \in Closers, ForceBypass(c) PROVE TypeOK'
  <2>1. accepting' \in [Kinds -> BOOLEAN]
    BY <1>5 DEF ForceBypass, force_bypass
  <2>2. notifying' \subseteq Callers
    BY <1>5 DEF ForceBypass, force_bypass, TypeOK, GateTypeOK
  <2> QED
    BY <1>5, <2>1, <2>2 DEF ForceBypass, force_bypass, TypeOK, GateTypeOK
<1>6. ASSUME NEW c \in Callers, NotifyWaiters(c) PROVE TypeOK'
  <2>1. ASSUME NEW w \in Waiters
        PROVE  [waiting[w] EXCEPT !.notified = TRUE] \in Waiting
    BY DEF Waiting, TypeOK, GateTypeOK
  <2>2. waiting' \in [Waiters -> Waiting]
    BY <1>6, <2>1 DEF NotifyWaiters, notify_waiters, TypeOK, GateTypeOK
  <2>3. notifying' \subseteq Callers
    BY <1>6 DEF NotifyWaiters, notify_waiters, TypeOK, GateTypeOK
  <2> QED
    BY <1>6, <2>2, <2>3 DEF NotifyWaiters, notify_waiters, TypeOK, GateTypeOK
<1>7. ASSUME NEW w \in Waiters, NEW phase \in {"idle", "read", "parked", "drained",
                                              "bypassed", "closed"},
             waiting' = [waiting EXCEPT ![w].phase = phase],
             UNCHANGED <<accepting, active, force_bypassed, notifying, guard>>
      PROVE  TypeOK'
  <2>1. [waiting[w] EXCEPT !.phase = phase] \in Waiting
    BY DEF Waiting, TypeOK, GateTypeOK
  <2>2. waiting' \in [Waiters -> Waiting]
    BY <1>7, <2>1 DEF TypeOK, GateTypeOK
  <2> QED
    BY <1>7, <2>2 DEF TypeOK, GateTypeOK
<1>8. CASE Next
  <2>1. CASE \E w \in Waiters, on \in Kinds \cup {"admission"} : Await(w, on)
    BY <1>3, <2>1 DEF Await
  <2>2. CASE \E w \in Waiters : Check(w)
    BY <1>7, <2>2, ReadingType DEF Check, check
  <2>3. CASE \E w \in Waiters : Park(w)
    BY <1>7, <2>3 DEF Park, park
  <2>4. ASSUME NEW w \in Waiters, Wake(w) PROVE TypeOK'
    <3>1. waiting[w].on \in Kinds \cup {"admission"}
      BY DEF TypeOK, GateTypeOK, Waiting
    <3> QED
      BY <1>3, <2>4, <3>1 DEF Wake, wake
  <2>5. ASSUME NEW w \in Waiters, AbandonWait(w) PROVE TypeOK'
    <3>1. [waiting[w] EXCEPT !.phase = "idle", !.notified = FALSE] \in Waiting
      BY DEF Waiting, TypeOK, GateTypeOK
    <3>2. waiting' = [waiting EXCEPT ![w] = [waiting[w] EXCEPT !.phase = "idle",
                                                               !.notified = FALSE]]
      BY <2>5 DEF AbandonWait, abandon_wait, TypeOK, GateTypeOK
    <3> QED
      BY <2>5, <3>1, <3>2 DEF AbandonWait, abandon_wait, TypeOK, GateTypeOK
  <2> QED
    BY <1>1, <1>2, <1>4, <1>5, <1>6, <1>8, <2>1, <2>2, <2>3, <2>4, <2>5 DEF Next
<1>9. CASE UNCHANGED vars
  BY <1>9 DEF vars, gate, TypeOK, GateTypeOK
<1> QED
  BY <1>8, <1>9

\* Type correctness of the gate and of its clients.
THEOREM TypeCorrect == Spec => []TypeOK
<1>1. Init => TypeOK
  BY InitType
<1>2. TypeOK /\ [Next]_vars => TypeOK'
  BY StepType
<1> QED
  BY <1>1, <1>2, PTL DEF Spec
-----------------------------------------------------------------------------
\* Every step keeps NoLostGateWakeup, one action at a time: a step that could make
\* a wait's reading stale leaves its caller in notifying, and notify_waiters marks
\* every wait that has been created.
LEMMA StepWakeup == TypeOK /\ NoLostGateWakeup /\ [Next]_vars => NoLostGateWakeup'
<1> SUFFICES ASSUME TypeOK, NoLostGateWakeup, [Next]_vars,
                    NEW w \in Waiters,
                    waiting'[w].phase \in {"read", "parked"},
                    ~waiting'[w].notified, notifying' = {}
             PROVE  reading(w)' = "read"
  BY DEF NoLostGateWakeup
<1>0. /\ waiting \in [Waiters -> Waiting] /\ active \in [Kinds -> 0..MaxActive]
      /\ accepting \in [Kinds -> BOOLEAN] /\ waiting[w] \in Waiting
  BY DEF TypeOK, GateTypeOK
<1>old. ASSUME waiting'[w] = waiting[w], notifying = {} PROVE reading(w) = "read"
  BY <1>old DEF NoLostGateWakeup
<1>1. ASSUME NEW t \in Tasks, NEW kind \in Kinds, try_begin(t, kind) PROVE reading(w)' = "read"
  <2>1. reading(w) = "read" /\ waiting' = waiting /\ accepting' = accepting
        /\ force_bypassed' = force_bypassed
    BY <1>1, <1>old DEF try_begin
  <2>2. ASSUME NEW k \in Kinds, active[k] # 0 PROVE active'[k] # 0
    BY <1>0, <1>1, <2>2 DEF try_begin
  <2>3. waiting[w].on \in Kinds \cup {"admission"}
    BY <1>0 DEF Waiting
  <2> QED
    BY <2>1, <2>2, <2>3 DEF reading
<1>2. ASSUME NEW t \in Tasks, NEW kind \in Kinds, try_begin_refused(t, kind)
      PROVE reading(w)' = "read"
  <2>1. notifying = {} /\ ~accepting[kind]
    BY <1>2 DEF try_begin_refused
  <2>2. accepting' = accepting
    BY <1>0, <1>2, <2>1 DEF try_begin_refused
  <2> QED
    BY <1>2, <1>old, <2>1, <2>2 DEF try_begin_refused, reading
<1>3. ASSUME NEW t \in Tasks, NEW kind \in Kinds, retire(t, kind) PROVE reading(w)' = "read"
  <2>1. notifying = {} /\ active[kind] # 1 /\ active[kind] # 0
    BY <1>3 DEF retire
  <2>2. reading(w) = "read" /\ waiting' = waiting /\ accepting' = accepting
        /\ force_bypassed' = force_bypassed
    BY <1>3, <1>old, <2>1 DEF retire
  <2>3. ASSUME NEW k \in Kinds, active[k] # 0 PROVE active'[k] # 0
    BY <1>0, <1>3, <2>1, <2>3 DEF retire
  <2>4. waiting[w].on \in Kinds \cup {"admission"}
    BY <1>0 DEF Waiting
  <2> QED
    BY <2>2, <2>3, <2>4 DEF reading
<1>4. ASSUME NEW v \in Waiters, NEW on, arm(v, on) PROVE reading(w)' = "read"
  <2>1. w # v
    BY <1>0, <1>4 DEF arm
  <2>2. waiting'[w] = waiting[w]
    BY <1>0, <1>4, <2>1 DEF arm
  <2> QED
    BY <1>4, <1>old, <2>2 DEF arm, reading
<1>5. ASSUME NEW v \in Waiters, check(v) PROVE reading(w)' = "read"
  <2>1. CASE w = v
    <3>1. waiting'[w].phase = reading(w) /\ waiting'[w].on = waiting[w].on
      BY <1>0, <1>5, <2>1 DEF check, Waiting
    <3>2. reading(w) = "read"
      BY <3>1 DEF reading
    <3> QED
      BY <1>5, <3>1, <3>2 DEF check, reading
  <2>2. CASE w # v
    <3>1. waiting'[w] = waiting[w]
      BY <1>0, <1>5, <2>2 DEF check
    <3> QED
      BY <1>5, <1>old, <3>1 DEF check, reading
  <2> QED
    BY <2>1, <2>2
<1>6. ASSUME NEW v \in Waiters, park(v) PROVE reading(w)' = "read"
  <2>1. waiting[w].phase \in {"read", "parked"} /\ ~waiting[w].notified
        /\ waiting'[w].on = waiting[w].on
    BY <1>0, <1>6 DEF park, Waiting
  <2>2. notifying = {}
    BY <1>6 DEF park
  <2>3. reading(w) = "read"
    BY <2>1, <2>2 DEF NoLostGateWakeup
  <2> QED
    BY <1>6, <2>1, <2>3 DEF park, reading
<1>7. ASSUME NEW v \in Waiters, abandon_wait(v) PROVE reading(w)' = "read"
  <2>1. w # v
    BY <1>0, <1>7 DEF abandon_wait, Waiting
  <2>2. waiting'[w] = waiting[w]
    BY <1>0, <1>7, <2>1 DEF abandon_wait
  <2> QED
    BY <1>7, <1>old, <2>2 DEF abandon_wait, reading
<1>8. ASSUME NEW c \in Callers, notify_waiters(c) PROVE FALSE
  BY <1>0, <1>8 DEF notify_waiters, hears, Waiting
<1>9. CASE Next
  <2>1. ASSUME NEW t \in Tasks, NEW kind \in Kinds, Begin(t, kind) PROVE reading(w)' = "read"
    BY <1>1, <1>2, <2>1 DEF Begin
  <2>2. ASSUME NEW t \in Tasks, End(t) PROVE reading(w)' = "read"
    <3>1. guard[t] \in Kinds /\ retire(t, guard[t])
      BY <2>2 DEF End, TypeOK
    <3> QED
      BY <1>3, <3>1
  <2>3. ASSUME NEW v \in Waiters, NEW on, Await(v, on) PROVE reading(w)' = "read"
    BY <1>4, <2>3 DEF Await
  <2>4. ASSUME NEW c, NEW kind, CloseAdmission(c, kind) PROVE FALSE
    BY <2>4 DEF CloseAdmission, close_admission
  <2>5. ASSUME NEW c, ForceBypass(c) PROVE FALSE
    BY <2>5 DEF ForceBypass, force_bypass
  <2>6. ASSUME NEW v \in Waiters, Wake(v) PROVE reading(w)' = "read"
    BY <1>4, <2>6 DEF Wake, wake
  <2>7. ASSUME NEW v \in Waiters, Check(v) PROVE reading(w)' = "read"
    BY <1>5, <2>7 DEF Check
  <2>8. ASSUME NEW v \in Waiters, Park(v) PROVE reading(w)' = "read"
    BY <1>6, <2>8 DEF Park
  <2>9. ASSUME NEW v \in Waiters, AbandonWait(v) PROVE reading(w)' = "read"
    BY <1>7, <2>9 DEF AbandonWait
  <2>10. ASSUME NEW c \in Callers, NotifyWaiters(c) PROVE FALSE
    BY <1>8, <2>10 DEF NotifyWaiters
  <2> QED
    BY <1>9, <2>1, <2>2, <2>3, <2>4, <2>5, <2>6, <2>7, <2>8, <2>9, <2>10 DEF Next
<1>10. CASE UNCHANGED vars
  BY <1>10, <1>old DEF vars, gate, reading
<1> QED
  BY <1>9, <1>10

\* wait_for_request_admission_close and the two drain waits never sleep through the
\* event they wait for.
THEOREM NoWakeupIsLost == Spec => []NoLostGateWakeup
<1>1. Init => NoLostGateWakeup
  BY DEF Init, GateInit, NoLostGateWakeup
<1>2. TypeOK /\ NoLostGateWakeup /\ [Next]_vars => NoLostGateWakeup'
  BY StepWakeup
<1> QED
  BY <1>1, <1>2, TypeCorrect, PTL DEF Spec
-----------------------------------------------------------------------------
\* The strengthening of DrainIsFinal: a drain wait in progress or answered belongs
\* to a phase that is closed, because nobody awaits an open one.
WaitsAreClosed ==
  \A w \in Waiters :
    (waiting[w].phase \in {"armed", "read", "parked", "drained"} /\ waiting[w].on \in Kinds)
      => ~accepting[waiting[w].on]

DrainedIsKind ==
  \A w \in Waiters :
    waiting[w].phase = "drained" => waiting[w].on \in Kinds /\ active[waiting[w].on] = 0

DrainInv == WaitsAreClosed /\ DrainedIsKind

LEMMA DrainInvImplies == DrainInv => DrainIsFinal
  BY DEF DrainInv, WaitsAreClosed, DrainedIsKind, DrainIsFinal

\* No method opens a phase, and none but try_begin, which needs it open, counts up.
LEMMA NeverReopens ==
  ASSUME TypeOK, [Next]_vars, NEW k \in Kinds, ~accepting[k]
  PROVE  /\ ~accepting'[k]
         /\ active[k] = 0 => active'[k] = 0
<1> USE DEF TypeOK, GateTypeOK
<1>1. ASSUME NEW t \in Tasks, NEW kind \in Kinds, Begin(t, kind)
      PROVE  ~accepting'[k] /\ (active[k] = 0 => active'[k] = 0)
  <2>1. CASE try_begin(t, kind)
    <3>1. kind # k
      BY <2>1 DEF try_begin, admits
    <3> QED
      BY <2>1, <3>1 DEF try_begin
  <2>2. CASE try_begin_refused(t, kind)
    BY <2>2 DEF try_begin_refused
  <2> QED
    BY <1>1, <2>1, <2>2 DEF Begin
<1>2. ASSUME NEW t \in Tasks, End(t)
      PROVE  ~accepting'[k] /\ (active[k] = 0 => active'[k] = 0)
  BY <1>2 DEF End, retire
<1>3. ASSUME NEW c \in Closers, NEW kind \in Kinds, CloseAdmission(c, kind)
      PROVE  ~accepting'[k] /\ (active[k] = 0 => active'[k] = 0)
  BY <1>3 DEF CloseAdmission, close_admission
<1>4. ASSUME NEW c \in Closers, ForceBypass(c)
      PROVE  ~accepting'[k] /\ (active[k] = 0 => active'[k] = 0)
  BY <1>4 DEF ForceBypass, force_bypass
<1>5. ASSUME UNCHANGED <<accepting, active>>
      PROVE  ~accepting'[k] /\ (active[k] = 0 => active'[k] = 0)
  BY <1>5
<1>6. CASE Next
  <2>1. ASSUME NEW w \in Waiters, NEW on, Await(w, on) PROVE UNCHANGED <<accepting, active>>
    BY <2>1 DEF Await, arm
  <2>2. ASSUME NEW w \in Waiters, Check(w) \/ Park(w) \/ Wake(w) \/ AbandonWait(w)
        PROVE  UNCHANGED <<accepting, active>>
    BY <2>2 DEF Check, check, Park, park, Wake, wake, arm, AbandonWait, abandon_wait
  <2>3. ASSUME NEW c \in Callers, NotifyWaiters(c) PROVE UNCHANGED <<accepting, active>>
    BY <2>3 DEF NotifyWaiters, notify_waiters
  <2> QED
    BY <1>1, <1>2, <1>3, <1>4, <1>5, <1>6, <2>1, <2>2, <2>3 DEF Next
<1>7. CASE UNCHANGED vars
  BY <1>5, <1>7 DEF vars, gate
<1> QED
  BY <1>6, <1>7

\* What a step can do to a wait: create it, answer it, or move it along.
LEMMA WaitSteps ==
  ASSUME TypeOK, [Next]_vars, NEW w \in Waiters
  PROVE  \/ /\ waiting'[w].on = waiting[w].on
            /\ waiting'[w].phase = waiting[w].phase
         \/ /\ waiting'[w].phase = "armed"
            /\ waiting'[w].on \in Kinds => ~accepting[waiting'[w].on]
         \/ /\ waiting[w].phase \in {"read", "parked"}
            /\ waiting'[w].on = waiting[w].on
            /\ waiting'[w].phase \in {"parked", "armed"}
         \/ /\ waiting[w].phase = "armed"
            /\ waiting'[w].on = waiting[w].on
            /\ waiting'[w].phase = reading(w)
            /\ UNCHANGED <<accepting, active>>
         \/ waiting'[w].phase = "idle"
<1> DEFINE Same == waiting'[w].on = waiting[w].on /\ waiting'[w].phase = waiting[w].phase
           Created == /\ waiting'[w].phase = "armed"
                      /\ waiting'[w].on \in Kinds => ~accepting[waiting'[w].on]
           Moved == /\ waiting[w].phase \in {"read", "parked"}
                    /\ waiting'[w].on = waiting[w].on
                    /\ waiting'[w].phase \in {"parked", "armed"}
           Answered == /\ waiting[w].phase = "armed"
                       /\ waiting'[w].on = waiting[w].on
                       /\ waiting'[w].phase = reading(w)
                       /\ UNCHANGED <<accepting, active>>
           Dropped == waiting'[w].phase = "idle"
           Goal == Same \/ Created \/ Moved \/ Answered \/ Dropped
<1>0. waiting \in [Waiters -> Waiting] /\ waiting[w] \in Waiting
  BY DEF TypeOK, GateTypeOK
<1>1. ASSUME UNCHANGED waiting PROVE Goal
  BY <1>1
<1>2. ASSUME NEW c \in Callers, notify_waiters(c) PROVE Goal
  BY <1>0, <1>2 DEF notify_waiters, Waiting
<1>3. ASSUME NEW v \in Waiters, NEW on, Await(v, on) PROVE Goal
  BY <1>0, <1>3 DEF Await, may_await, arm, Waiting
<1>4. ASSUME NEW v \in Waiters, check(v) PROVE Goal
  BY <1>0, <1>4 DEF check, Waiting
<1>5. ASSUME NEW v \in Waiters, park(v) PROVE Goal
  BY <1>0, <1>5 DEF park, Waiting
<1>6. ASSUME NEW v \in Waiters, wake(v) PROVE Goal
  BY <1>0, <1>6 DEF wake, arm, Waiting
<1>7. ASSUME NEW v \in Waiters, abandon_wait(v) PROVE Goal
  BY <1>0, <1>7 DEF abandon_wait, Waiting
<1>8. ASSUME Next PROVE Goal
  <2>1. ASSUME NEW t \in Tasks, NEW kind \in Kinds, Begin(t, kind) PROVE UNCHANGED waiting
    BY <2>1 DEF Begin, try_begin, try_begin_refused
  <2>2. ASSUME NEW t \in Tasks, End(t) PROVE UNCHANGED waiting
    BY <2>2 DEF End, retire
  <2>3. ASSUME NEW c, NEW kind, CloseAdmission(c, kind) PROVE UNCHANGED waiting
    BY <2>3 DEF CloseAdmission, close_admission
  <2>4. ASSUME NEW c, ForceBypass(c) PROVE UNCHANGED waiting
    BY <2>4 DEF ForceBypass, force_bypass
  <2>5. ASSUME NEW c \in Callers, NotifyWaiters(c) PROVE Goal
    BY <1>2, <2>5 DEF NotifyWaiters
  <2>6. ASSUME NEW v \in Waiters, Check(v) \/ Park(v) \/ Wake(v) \/ AbandonWait(v) PROVE Goal
    BY <1>4, <1>5, <1>6, <1>7, <2>6 DEF Check, Park, Wake, AbandonWait
  <2> HIDE DEF Goal
  <2> QED
    BY <1>1, <1>3, <1>8, <2>1, <2>2, <2>3, <2>4, <2>5, <2>6 DEF Next
<1>9. ASSUME UNCHANGED vars PROVE Goal
  BY <1>1, <1>9 DEF vars, gate
<1> QED
  BY <1>8, <1>9

\* Every step keeps the strengthened invariant.
LEMMA StepDrain == TypeOK /\ DrainInv /\ [Next]_vars => DrainInv'
<1> SUFFICES ASSUME TypeOK, DrainInv, [Next]_vars, NEW w \in Waiters
             PROVE  /\ (waiting'[w].phase \in {"armed", "read", "parked", "drained"}
                         /\ waiting'[w].on \in Kinds) => ~accepting'[waiting'[w].on]
                    /\ waiting'[w].phase = "drained" =>
                         waiting'[w].on \in Kinds /\ active'[waiting'[w].on] = 0
  BY DEF DrainInv, WaitsAreClosed, DrainedIsKind
<1>0. waiting[w] \in Waiting
  BY DEF TypeOK, GateTypeOK
<1>1. CASE /\ waiting'[w].on = waiting[w].on
           /\ waiting'[w].phase = waiting[w].phase
  BY <1>1, NeverReopens DEF DrainInv, WaitsAreClosed, DrainedIsKind
<1>2. CASE /\ waiting'[w].phase = "armed"
           /\ waiting'[w].on \in Kinds => ~accepting[waiting'[w].on]
  BY <1>2, NeverReopens
<1>3. CASE /\ waiting[w].phase \in {"read", "parked"}
           /\ waiting'[w].on = waiting[w].on
           /\ waiting'[w].phase \in {"parked", "armed"}
  BY <1>3, NeverReopens DEF DrainInv, WaitsAreClosed
<1>4. CASE /\ waiting[w].phase = "armed"
           /\ waiting'[w].on = waiting[w].on
           /\ waiting'[w].phase = reading(w)
           /\ UNCHANGED <<accepting, active>>
  <2>1. reading(w) = "drained" => waiting[w].on # "admission" /\ active[waiting[w].on] = 0
    BY DEF reading
  <2>2. waiting[w].on \in Kinds \cup {"admission"}
    BY <1>0 DEF Waiting
  <2>3. waiting[w].on \in Kinds => ~accepting[waiting[w].on]
    BY <1>4 DEF DrainInv, WaitsAreClosed
  <2> QED
    BY <1>4, <2>1, <2>2, <2>3
<1>5. CASE waiting'[w].phase = "idle"
  BY <1>5
<1> QED
  BY <1>1, <1>2, <1>3, <1>4, <1>5, WaitSteps

\* Once a drain wait of the supervisor has answered, the phase is closed for good
\* and none of its operations exists.
THEOREM DrainAnswersAreFinal == Spec => []DrainIsFinal
<1>1. Init => DrainInv
  BY DEF Init, GateInit, DrainInv, WaitsAreClosed, DrainedIsKind
<1>2. TypeOK /\ DrainInv /\ [Next]_vars => DrainInv'
  BY StepDrain
<1>3. DrainInv => DrainIsFinal
  BY DrainInvImplies
<1> QED
  BY <1>1, <1>2, <1>3, TypeCorrect, PTL DEF Spec
-----------------------------------------------------------------------------
Holders(k) == {t \in Tasks : guard[t] = k}

\* The tasks are finitely many, and so are the guards.
LEMMA HoldersFinite ==
  ASSUME NEW k PROVE IsFiniteSet(Holders(k)) /\ Cardinality(Holders(k)) \in Nat
<1>1. IsFiniteSet(Holders(k))
  BY TasksAssumption, FS_Subset DEF Holders
<1> QED
  BY <1>1, FS_CardinalityType

\* Every step keeps GuardsCounted: only try_begin hands out a guard, and retire
\* takes back the one its task holds.
LEMMA StepCounted == TypeOK /\ GuardsCounted /\ [Next]_vars => GuardsCounted'
<1> SUFFICES ASSUME TypeOK, GuardsCounted, [Next]_vars, NEW k \in Kinds
             PROVE  active'[k] = Cardinality(Holders(k)')
  BY DEF GuardsCounted, Holders
<1>0. active[k] = Cardinality(Holders(k)) /\ active \in [Kinds -> 0..MaxActive]
      /\ guard \in [Tasks -> Kinds \cup {None}]
  BY DEF GuardsCounted, Holders, TypeOK, GateTypeOK
<1>1. ASSUME UNCHANGED <<active, guard>> PROVE active'[k] = Cardinality(Holders(k)')
  BY <1>0, <1>1 DEF Holders
<1>2. ASSUME NEW t \in Tasks, NEW kind \in Kinds, guard[t] = None, try_begin(t, kind),
             guard' = [guard EXCEPT ![t] = kind]
      PROVE active'[k] = Cardinality(Holders(k)')
  <2>1. CASE kind = k
    <3>1. t \notin Holders(k)
      BY <1>2, TasksAssumption DEF Holders
    <3>2. Holders(k)' = Holders(k) \cup {t}
      BY <1>0, <1>2, <2>1 DEF Holders
    <3>3. Cardinality(Holders(k) \cup {t}) = Cardinality(Holders(k)) + 1
      BY <3>1, HoldersFinite, FS_AddElement
    <3>4. active'[k] = active[k] + 1
      BY <1>0, <1>2, <2>1 DEF try_begin
    <3> QED
      BY <1>0, <3>2, <3>3, <3>4
  <2>2. CASE kind # k
    <3>1. Holders(k)' = Holders(k)
      BY <1>0, <1>2, <2>2, TasksAssumption DEF Holders
    <3>2. active'[k] = active[k]
      BY <1>0, <1>2, <2>2 DEF try_begin
    <3> QED
      BY <1>0, <3>1, <3>2
  <2> QED
    BY <2>1, <2>2
<1>3. ASSUME NEW t \in Tasks, End(t) PROVE active'[k] = Cardinality(Holders(k)')
  <2>0. guard[t] \in Kinds /\ retire(t, guard[t]) /\ guard' = [guard EXCEPT ![t] = None]
    BY <1>0, <1>3 DEF End
  <2>1. CASE guard[t] = k
    <3>1. t \in Holders(k)
      BY <2>1 DEF Holders
    <3>2. Holders(k)' = Holders(k) \ {t}
      BY <1>0, <2>0, TasksAssumption DEF Holders
    <3>3. Cardinality(Holders(k) \ {t}) = Cardinality(Holders(k)) - 1
      BY <3>1, HoldersFinite, FS_RemoveElement
    <3>4. active'[k] = active[k] - 1
      BY <1>0, <2>0, <2>1 DEF retire
    <3> QED
      BY <1>0, <3>2, <3>3, <3>4
  <2>2. CASE guard[t] # k
    <3>1. Holders(k)' = Holders(k)
      BY <1>0, <2>0, <2>2, TasksAssumption DEF Holders
    <3>2. active'[k] = active[k]
      BY <1>0, <2>0, <2>2 DEF retire
    <3> QED
      BY <1>0, <3>1, <3>2
  <2> QED
    BY <2>1, <2>2
<1>4. CASE Next
  <2>1. ASSUME NEW t \in Tasks, NEW kind \in Kinds, Begin(t, kind)
        PROVE active'[k] = Cardinality(Holders(k)')
    BY <1>1, <1>2, <2>1 DEF Begin, try_begin_refused
  <2>2. ASSUME NEW w \in Waiters, NEW on, Await(w, on) PROVE UNCHANGED <<active, guard>>
    BY <2>2 DEF Await, arm
  <2>3. ASSUME NEW w \in Waiters, Check(w) \/ Park(w) \/ Wake(w) \/ AbandonWait(w)
        PROVE  UNCHANGED <<active, guard>>
    BY <2>3 DEF Check, check, Park, park, Wake, wake, arm, AbandonWait, abandon_wait
  <2>4. ASSUME NEW c, NEW kind, CloseAdmission(c, kind) PROVE UNCHANGED <<active, guard>>
    BY <2>4 DEF CloseAdmission, close_admission
  <2>5. ASSUME NEW c, ForceBypass(c) PROVE UNCHANGED <<active, guard>>
    BY <2>5 DEF ForceBypass, force_bypass
  <2>6. ASSUME NEW c, NotifyWaiters(c) PROVE UNCHANGED <<active, guard>>
    BY <2>6 DEF NotifyWaiters, notify_waiters
  <2> QED
    BY <1>1, <1>3, <1>4, <2>1, <2>2, <2>3, <2>4, <2>5, <2>6 DEF Next
<1>5. CASE UNCHANGED vars
  BY <1>1, <1>5 DEF vars, gate
<1> QED
  BY <1>4, <1>5

\* The counter of a phase is the number of its guards, so that a drain answers for
\* the operations and not for a number.
THEOREM CountersAreExact == Spec => []GuardsCounted
<1>1. Init => GuardsCounted
  <2> SUFFICES ASSUME Init, NEW k \in Kinds PROVE active[k] = Cardinality({t \in Tasks : guard[t] = k})
    BY DEF GuardsCounted
  <2>1. {t \in Tasks : guard[t] = k} = {} /\ active[k] = 0
    BY TasksAssumption DEF Init, GateInit
  <2> QED
    BY <2>1, FS_EmptySet
<1>2. TypeOK /\ GuardsCounted /\ [Next]_vars => GuardsCounted'
  BY StepCounted
<1> QED
  BY <1>1, <1>2, TypeCorrect, PTL DEF Spec
=============================================================================
