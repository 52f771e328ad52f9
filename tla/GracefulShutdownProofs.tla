------------------------- MODULE GracefulShutdownProofs -------------------------
(***************************************************************************)
(* The order of a graceful shutdown, for any number of sessions and any     *)
(* capacity of their queues.                                               *)
(*                                                                         *)
(* ShutdownInv is the inductive invariant.  Books ties the counters of the  *)
(* gate to the work that holds guards; with it a drained counter says that  *)
(* the work itself is done.  Mailed says which command of the supervisor    *)
(* may be on its way to the World, Talks what its answer means, Waits what  *)
(* a drain wait has seen.  Order says what each phase of the supervisor may *)
(* rely on: an admission that is closed, a World that no longer produces, a *)
(* pump that has stopped.                                                  *)
(***************************************************************************)
EXTENDS GracefulShutdown, FiniteSetTheorems, TLAPS

LEMMA CallersAre ==
    /\ Sessions \subseteq Callers /\ Sessions \subseteq Waiters
    /\ Waiters \subseteq Callers
    /\ Supervisor \in Waiters /\ Supervisor \in Callers
    /\ World \in Callers /\ Operator \in Callers
    /\ MaxActive \in Nat /\ MaxActive > 0 /\ OutboundCapacity \in Nat /\ OutboundCapacity > 0
    /\ IsFiniteSet(Sessions) /\ Supervisor \notin Sessions
BY CallersAssumption, GateAssumption

--------------------------------------------------------------------------------
(* The methods of the gate.                                                 *)

LEMMA GateBegins ==
    ASSUME GateTypeOK, NEW c \in Callers, NEW k \in Kinds, try_begin(c, k)
    PROVE  GateTypeOK' /\ active'[k] = active[k] + 1
           /\ \A j \in Kinds : j # k => active'[j] = active[j]
<1>1. active[k] + 1 \in 0 .. MaxActive
    BY CallersAre DEF try_begin, admits, GateTypeOK
<1>2. active' = [active EXCEPT ![k] = active[k] + 1]
    BY DEF try_begin
<1> QED
    BY <1>1, <1>2 DEF try_begin, GateTypeOK

LEMMA GateRefuses ==
    ASSUME GateTypeOK, NEW c \in Callers, NEW k \in Kinds, try_begin_refused(c, k)
    PROVE  GateTypeOK' /\ active' = active
BY DEF try_begin_refused, GateTypeOK

LEMMA GateRetires ==
    ASSUME GateTypeOK, NEW c \in Callers, NEW k \in Kinds, retire(c, k)
    PROVE  GateTypeOK' /\ active'[k] = active[k] - 1 /\ active[k] # 0
           /\ \A j \in Kinds : j # k => active'[j] = active[j]
<1>1. active[k] - 1 \in 0 .. MaxActive
    BY CallersAre DEF retire, GateTypeOK
<1>2. active' = [active EXCEPT ![k] = active[k] - 1]
    BY DEF retire
<1>3. notifying' \subseteq Callers
    BY DEF retire, GateTypeOK
<1> QED
    BY <1>1, <1>2, <1>3 DEF retire, GateTypeOK

LEMMA GateCloses ==
    ASSUME GateTypeOK, NEW c \in Callers, NEW k \in Kinds, close_admission(c, k)
    PROVE  GateTypeOK' /\ active' = active
BY DEF close_admission, GateTypeOK

LEMMA GateBypassed ==
    ASSUME GateTypeOK, NEW c \in Callers, force_bypass(c)
    PROVE  GateTypeOK' /\ active' = active
BY DEF force_bypass, GateTypeOK

LEMMA GateNotifies ==
    ASSUME GateTypeOK, NEW c \in Callers, notify_waiters(c)
    PROVE  /\ GateTypeOK' /\ active' = active
           /\ \A w \in Waiters : waiting'[w].on = waiting[w].on
                                 /\ waiting'[w].phase = waiting[w].phase
<1>1. ASSUME NEW w \in Waiters
      PROVE  /\ [waiting[w] EXCEPT !.notified = TRUE] \in Waiting
             /\ [waiting[w] EXCEPT !.notified = TRUE].on = waiting[w].on
             /\ [waiting[w] EXCEPT !.notified = TRUE].phase = waiting[w].phase
    BY DEF GateTypeOK, Waiting
<1>2. waiting' \in [Waiters -> Waiting]
    BY <1>1 DEF notify_waiters, GateTypeOK
<1>3. ASSUME NEW w \in Waiters
      PROVE  waiting'[w].on = waiting[w].on /\ waiting'[w].phase = waiting[w].phase
    BY <1>1 DEF notify_waiters, GateTypeOK
<1> QED
    BY <1>2, <1>3 DEF notify_waiters, GateTypeOK

\* A step of one task's wait.
LEMMA GateWaits ==
    ASSUME GateTypeOK, NEW w \in Waiters,
           \/ \E on \in Kinds \cup {"admission"} : arm(w, on)
           \/ check(w) \/ park(w) \/ wake(w) \/ abandon_wait(w)
    PROVE  /\ GateTypeOK' /\ active' = active
           /\ UNCHANGED <<accepting, force_bypassed, notifying>>
           /\ \A v \in Waiters : v # w => waiting'[v] = waiting[v]
<1> USE DEF GateTypeOK
<1>1. ASSUME NEW on \in Kinds \cup {"admission"}, arm(w, on)
      PROVE  GateTypeOK' /\ UNCHANGED <<accepting, active, force_bypassed, notifying>>
             /\ \A v \in Waiters : v # w => waiting'[v] = waiting[v]
    <2>1. [on |-> on, phase |-> "armed", notified |-> FALSE] \in Waiting
        BY DEF Waiting
    <2> QED BY <1>1, <2>1 DEF arm
<1>2. ASSUME NEW phase \in {"idle", "read", "parked", "drained", "bypassed", "closed"},
             waiting' = [waiting EXCEPT ![w].phase = phase],
             UNCHANGED <<accepting, active, force_bypassed, notifying>>
      PROVE  GateTypeOK' /\ \A v \in Waiters : v # w => waiting'[v] = waiting[v]
    <2>1. [waiting[w] EXCEPT !.phase = phase] \in Waiting
        BY DEF Waiting
    <2> QED BY <1>2, <2>1
<1>3. CASE check(w)
    <2>1. reading(w) \in {"read", "closed", "bypassed", "drained"}
        BY DEF reading
    <2> QED BY <1>2, <1>3, <2>1 DEF check
<1>4. CASE park(w)
    BY <1>2, <1>4 DEF park
<1>5. CASE wake(w)
    <2>1. waiting[w].on \in Kinds \cup {"admission"}
        BY DEF Waiting
    <2> QED BY <1>1, <1>5, <2>1 DEF wake
<1>6. CASE abandon_wait(w)
    <2>1. [waiting[w] EXCEPT !.phase = "idle", !.notified = FALSE] \in Waiting
        BY DEF Waiting
    <2> QED BY <1>6, <2>1 DEF abandon_wait
<1> QED
    BY <1>1, <1>3, <1>4, <1>5, <1>6

--------------------------------------------------------------------------------
(* The invariants.                                                          *)

\* Queue and reserved echo fit together; who holds the guard of a request; the
\* counters.
Reserved == \A s \in Sessions : queue[s] + (IF write[s] = "none" THEN 0 ELSE 1) <= OutboundCapacity

Guarded == \A s \in Sessions :
    /\ pc[s] \in {"asking", "waiting", "replied", "flushing"} => request[s]
    /\ pc[s] \in {"loop", "select", "framed", "draining", "ending", "closing", "dropping", "gone"}
          => ~request[s]
    /\ pc[s] = "writing" => (request[s] <=> resume[s] = "flushing")

Books == Reserved /\ Guarded /\ GuardsMatchWork

\* The phases that come after a drain of requests, a quiesce, and so on.
Teardown == {"sessions", "abort", "join", "world", "done"}
AfterClose == {"outbound_drain"} \cup Teardown
AfterSeal == {"close_outbound"} \cup AfterClose
AfterPump == {"profile", "completions", "producers"} \cup AfterSeal
AfterQuiesce == {"pump"} \cup AfterPump
AfterRequests == {"quiesce"} \cup AfterQuiesce

\* A phase belongs to a path, and the abandoned path has bypassed the gate.
OnPath ==
    /\ stage \in {"serving", "abandon"} => ~graceful
    /\ stage \in {"close_requests", "request_drain", "completions", "producers",
                  "close_outbound", "outbound_drain"} => graceful
    /\ stage \notin {"serving", "abandon"} /\ ~graceful => force_bypassed

Asking == {"quiesce", "producers", "sessions", "shutdown"}

\* One command of the supervisor at most is on its way, the one its phase sends; a
\* request that was cancelled is ahead of the quiesce; a stopped World has no mailbox.
Mailed ==
    /\ \A i \in 1 .. Len(mailbox) : mailbox[i].type \in Asking =>
          /\ answer = "asked"
          /\ stage = IF mailbox[i].type = "shutdown" THEN "world" ELSE mailbox[i].type
    /\ \A i, j \in 1 .. Len(mailbox) :
          mailbox[i].type \in Asking /\ mailbox[j].type \in Asking => i = j
    /\ \A i \in 1 .. Len(mailbox) : mailbox[i].type = "force_shutdown" =>
          force_bypassed \/ stage \in {"world", "done"}
    /\ graceful /\ quiescing => \A i \in 1 .. Len(mailbox) : mailbox[i].type # "request"
    /\ graceful => \A i, j \in 1 .. Len(mailbox) :
          i < j /\ mailbox[i].type = "quiesce" => mailbox[j].type # "request"
    /\ ~running => mailbox = <<>>

\* The World is stopped by force or at the end; what its answers mean.
Talks ==
    /\ ~running => force_bypassed \/ stage \in {"world", "done"}
    /\ operator \in {"bypassed", "stopped"} => force_bypassed
    /\ stage = "quiesce" /\ answer \in {"true", "false"} => quiescing
    /\ stage = "producers" /\ answer = "true" => sealed

\* The wait of the supervisor.
Waits ==
    /\ waiting[Supervisor].phase # "idle" =>
          \/ stage = "request_drain" /\ waiting[Supervisor].on = "request"
          \/ stage = "outbound_drain" /\ waiting[Supervisor].on = "outbound"
    /\ waiting[Supervisor].phase = "drained" => active[waiting[Supervisor].on] = 0
    /\ waiting[Supervisor].phase = "bypassed" => force_bypassed

\* What the phases may rely on.
Order ==
    /\ force_bypassed => \A k \in Kinds : ~accepting[k]
    /\ stage \in {"serving", "close_requests", "request_drain"} => ~quiescing
    /\ stage = "request_drain" => ~accepting["request"]
    /\ graceful /\ stage \in AfterRequests => ~accepting["request"] /\ active["request"] = 0
    /\ sealed => quiescing /\ \A s \in Sessions : write[s] = "none"
    /\ ~force_bypassed =>
          /\ stage \in AfterQuiesce \/ pump \in {"draining", "stopped"} => quiescing
          /\ pump = "stopped" => \A s \in Sessions : lane[s] = "free"
          /\ sealed => /\ pump \in {"stopped", "failed"}
                       /\ \A s \in Sessions : lane[s] # "ready"
          /\ stage \in AfterPump => pump \in {"stopped", "failed"}
          /\ stage \in AfterSeal => sealed
          /\ stage \in AfterClose <=> ~accepting["outbound"]
          /\ stage \in Teardown => active["outbound"] = 0

Phases == OnPath /\ Mailed /\ Talks /\ Waits /\ Order

ShutdownInv == TypeOK /\ Books /\ Phases

--------------------------------------------------------------------------------
(* Counting.                                                                *)

Loads == [Sessions -> 0 .. OutboundCapacity + 1]
Units(f) == UNION {{s} \X (1 .. f[s]) : s \in Sessions}

LEMMA UnitsBounded ==
    ASSUME NEW f \in Loads
    PROVE  IsFiniteSet(Units(f)) /\ Cardinality(Units(f)) \in Nat
           /\ Cardinality(Units(f)) < MaxActive
<1> DEFINE room == 1 .. OutboundCapacity + 1
<1>1. IsFiniteSet(room) /\ Cardinality(room) = OutboundCapacity + 1
    BY CallersAre, FS_Interval
<1>2. /\ IsFiniteSet(Sessions \X room)
      /\ Cardinality(Sessions \X room) = Cardinality(Sessions) * (OutboundCapacity + 1)
    BY <1>1, CallersAre, FS_Product
<1>3. Units(f) \subseteq Sessions \X room
    <2> SUFFICES ASSUME NEW s \in Sessions, NEW i \in 1 .. f[s] PROVE i \in room
        BY DEF Units
    <2>1. f[s] \in 0 .. OutboundCapacity + 1
        BY DEF Loads
    <2> QED BY <2>1, CallersAre
<1>4. IsFiniteSet(Units(f)) /\ Cardinality(Units(f)) <= Cardinality(Sessions \X room)
    BY <1>2, <1>3, FS_Subset
<1>5. Cardinality(Units(f)) \in Nat /\ Cardinality(Sessions \X room) \in Nat
    BY <1>2, <1>4, FS_CardinalityType
<1> QED
    BY <1>2, <1>4, <1>5, CallersAre, CapacityAssumption

LEMMA OneMore ==
    ASSUME NEW f \in Loads, NEW g \in Loads, NEW p \in Sessions, g[p] = f[p] + 1,
           \A s \in Sessions : s # p => g[s] = f[s]
    PROVE  Cardinality(Units(g)) = Cardinality(Units(f)) + 1
<1>1. f[p] \in Nat
    BY CallersAre DEF Loads
<1>2. <<p, f[p] + 1>> \notin Units(f)
    BY <1>1 DEF Units
<1>3. Units(g) = Units(f) \cup {<<p, f[p] + 1>>}
    <2>1. ASSUME NEW s \in Sessions, NEW i \in 1 .. g[s]
          PROVE  <<s, i>> \in Units(f) \cup {<<p, f[p] + 1>>}
        <3>1. CASE s # p
            <4>1. i \in 1 .. f[s]
                BY <3>1, <2>1
            <4> QED BY <4>1 DEF Units
        <3>2. CASE s = p
            <4>1. i \in 1 .. f[p] \/ i = f[p] + 1
                BY <3>2, <2>1, <1>1
            <4> QED BY <3>2, <4>1 DEF Units
        <3> QED BY <3>1, <3>2
    <2>2. ASSUME NEW s \in Sessions, NEW i \in 1 .. f[s] PROVE <<s, i>> \in Units(g)
        <3>1. i \in 1 .. g[s]
            BY <1>1, <2>2
        <3> QED BY <3>1 DEF Units
    <2>3. <<p, f[p] + 1>> \in Units(g)
        <3>1. f[p] + 1 \in 1 .. g[p]
            BY <1>1
        <3> QED BY <3>1 DEF Units
    <2>4. Units(g) \subseteq Units(f) \cup {<<p, f[p] + 1>>}
        BY <2>1 DEF Units
    <2>5. Units(f) \subseteq Units(g)
        BY <2>2 DEF Units
    <2> QED BY <2>3, <2>4, <2>5
<1> QED
    <2>1. IsFiniteSet(Units(f))
        BY UnitsBounded
    <2> HIDE DEF Units
    <2>2. Cardinality(Units(f) \cup {<<p, f[p] + 1>>}) = Cardinality(Units(f)) + 1
        BY <1>2, <2>1, FS_AddElement
    <2> QED BY <1>3, <2>2

LEMMA AsMany ==
    ASSUME NEW f \in Loads, NEW g \in Loads, \A s \in Sessions : g[s] = f[s]
    PROVE  Cardinality(Units(g)) = Cardinality(Units(f))
<1>1. f = g
    BY DEF Loads
<1> QED BY <1>1

\* The same counts for the sessions that hold a request.
Holders(r) == {s \in Sessions : r[s]}

LEMMA HoldersCount ==
    ASSUME NEW r \in [Sessions -> BOOLEAN]
    PROVE  /\ IsFiniteSet(Holders(r)) /\ Cardinality(Holders(r)) \in Nat
           /\ Cardinality(Holders(r)) < MaxActive
           /\ \A p \in Sessions : ~r[p] =>
                 Cardinality(Holders([r EXCEPT ![p] = TRUE])) = Cardinality(Holders(r)) + 1
           /\ \A p \in Sessions : r[p] =>
                 Cardinality(Holders([r EXCEPT ![p] = FALSE])) = Cardinality(Holders(r)) - 1
<1>1. IsFiniteSet(Holders(r)) /\ Cardinality(Holders(r)) <= Cardinality(Sessions)
    BY CallersAre, FS_Subset DEF Holders
<1>2. Cardinality(Holders(r)) \in Nat /\ Cardinality(Sessions) \in Nat
    BY <1>1, CallersAre, FS_CardinalityType
<1>3. Cardinality(Sessions) < MaxActive
    <2>1. Cardinality(Sessions) * (OutboundCapacity + 1) >= Cardinality(Sessions)
        BY <1>2, CallersAre
    <2>2. Cardinality(Sessions) * (OutboundCapacity + 1) \in Nat
        BY <1>2, CallersAre
    <2> QED BY <1>2, <2>1, <2>2, CallersAre, CapacityAssumption
<1>4. ASSUME NEW p \in Sessions, ~r[p]
      PROVE  Cardinality(Holders([r EXCEPT ![p] = TRUE])) = Cardinality(Holders(r)) + 1
    <2>1. Holders([r EXCEPT ![p] = TRUE]) = Holders(r) \cup {p} /\ p \notin Holders(r)
        BY <1>4 DEF Holders
    <2> QED BY <1>1, <2>1, FS_AddElement
<1>5. ASSUME NEW p \in Sessions, r[p]
      PROVE  Cardinality(Holders([r EXCEPT ![p] = FALSE])) = Cardinality(Holders(r)) - 1
    <2>1. Holders([r EXCEPT ![p] = FALSE]) = Holders(r) \ {p} /\ p \in Holders(r)
        BY <1>5 DEF Holders
    <2> QED BY <1>1, <2>1, FS_RemoveElement
<1>6. Cardinality(Holders(r)) < MaxActive
    BY <1>1, <1>2, <1>3, CallersAre
<1> QED
    BY <1>1, <1>2, <1>4, <1>5, <1>6

\* What the sessions hold of the gate now.
Load == [s \in Sessions |-> batches(s)]

LEMMA LoadIs ==
    ASSUME TypeOK, Reserved
    PROVE  Load \in Loads
<1> SUFFICES ASSUME NEW s \in Sessions PROVE batches(s) \in 0 .. OutboundCapacity + 1
    BY DEF Load, Loads
<1>1. queue[s] \in 0 .. OutboundCapacity
    BY DEF TypeOK
<1>2. queue[s] + (IF write[s] = "none" THEN 0 ELSE 1) <= OutboundCapacity
    BY DEF Reserved
<1> QED
    BY <1>1, <1>2, CallersAre DEF batches

LEMMA Counted ==
    GuardsMatchWork <=> /\ active["request"] = Cardinality(Holders(request))
                        /\ active["outbound"] = Cardinality(Units(Load))
<1>1. Units(Load) = UNION {{s} \X (1 .. batches(s)) : s \in Sessions}
    BY DEF Units, Load
<1> QED
    BY <1>1 DEF GuardsMatchWork, Holders

\* No counter is ever full: what is not admitted has been closed.
LEMMA NeverFull ==
    ASSUME TypeOK, Books, NEW k \in Kinds
    PROVE  active[k] < MaxActive /\ (admits(k) <=> accepting[k])
<1>1. request \in [Sessions -> BOOLEAN] /\ Load \in Loads
    BY LoadIs DEF TypeOK, Books
<1>2. active["request"] < MaxActive /\ active["outbound"] < MaxActive
    BY <1>1, Counted, HoldersCount, UnitsBounded DEF Books
<1>3. active[k] < MaxActive
    BY <1>2 DEF Kinds
<1> QED
    BY <1>3 DEF admits

\* A drained counter: the work it counted is done.
LEMMA NothingLeft ==
    ASSUME TypeOK, Books
    PROVE  /\ active["request"] = 0 => \A s \in Sessions : ~request[s]
           /\ active["outbound"] = 0 => \A s \in Sessions : queue[s] = 0 /\ pc[s] # "writing"
<1>1. request \in [Sessions -> BOOLEAN] /\ Load \in Loads
    BY LoadIs DEF TypeOK, Books
<1>2. ASSUME active["request"] = 0, NEW s \in Sessions, request[s] PROVE FALSE
    <2>1. Holders(request) = {}
        BY <1>1, <1>2, Counted, HoldersCount, FS_EmptySet DEF Books
    <2> QED BY <1>2, <2>1 DEF Holders
<1>3. ASSUME active["outbound"] = 0, NEW s \in Sessions PROVE queue[s] = 0 /\ pc[s] # "writing"
    <2>1. Units(Load) = {}
        BY <1>1, <1>3, Counted, UnitsBounded, FS_EmptySet DEF Books
    <2>2. ~(1 \in 1 .. batches(s))
        <3>1. ASSUME 1 \in 1 .. batches(s) PROVE <<s, 1>> \in Units(Load)
            <4>1. Load[s] = batches(s)
                BY DEF Load
            <4>2. 1 \in 1 .. Load[s]
                BY <3>1, <4>1
            <4> QED BY <4>2 DEF Units
        <3> QED BY <2>1, <3>1
    <2>3. batches(s) \in Nat /\ queue[s] \in Nat
        BY <1>1, CallersAre DEF Load, Loads, TypeOK
    <2> QED BY <2>2, <2>3 DEF batches
<1> QED
    BY <1>2, <1>3

--------------------------------------------------------------------------------
(* The mailbox of the World.                                                *)

CommandTypes == {"request", "closed", "quiesce", "producers", "sessions", "shutdown",
                 "force_shutdown"}

LEMMA Sent ==
    ASSUME mailbox \in Seq(Command), NEW type \in CommandTypes, NEW from \in Callers,
           Send(type, from)
    PROVE  /\ mailbox' \in Seq(Command)
           /\ Len(mailbox') = Len(mailbox) + 1
           /\ \A i \in 1 .. Len(mailbox) : mailbox'[i] = mailbox[i]
           /\ mailbox'[Len(mailbox) + 1].type = type
<1>1. [type |-> type, from |-> from] \in Command
    BY DEF Command, CommandTypes
<1> QED
    BY <1>1 DEF Send

LEMMA Taken ==
    ASSUME mailbox \in Seq(Command), mailbox # <<>>, mailbox' = Tail(mailbox)
    PROVE  /\ mailbox' \in Seq(Command)
           /\ Len(mailbox) = Len(mailbox') + 1
           /\ \A i \in 1 .. Len(mailbox') : mailbox'[i] = mailbox[i + 1]
           /\ Head(mailbox) = mailbox[1]
OBVIOUS

LEMMA Emptied ==
    ASSUME mailbox' = <<>>
    PROVE  mailbox' \in Seq(Command) /\ Len(mailbox') = 0
OBVIOUS

--------------------------------------------------------------------------------
(* Types.                                                                   *)

Stages == {"serving", "close_requests", "request_drain", "quiesce", "pump", "profile",
           "completions", "producers", "close_outbound", "outbound_drain", "sessions",
           "abort", "join", "world", "done", "abandon"}

LEMMA GracefulPath ==
    /\ DOMAIN GracefulOrder = 1 .. 14
    /\ GracefulOrder[1] = "close_requests" /\ GracefulOrder[2] = "request_drain"
    /\ GracefulOrder[3] = "quiesce" /\ GracefulOrder[4] = "pump"
    /\ GracefulOrder[5] = "profile" /\ GracefulOrder[6] = "completions"
    /\ GracefulOrder[7] = "producers" /\ GracefulOrder[8] = "close_outbound"
    /\ GracefulOrder[9] = "outbound_drain" /\ GracefulOrder[10] = "sessions"
    /\ GracefulOrder[11] = "abort" /\ GracefulOrder[12] = "join"
    /\ GracefulOrder[13] = "world" /\ GracefulOrder[14] = "done"
BY DEF GracefulOrder

LEMMA AbandonedPath ==
    /\ DOMAIN AbandonedOrder = 1 .. 9
    /\ AbandonedOrder[1] = "abandon" /\ AbandonedOrder[2] = "quiesce"
    /\ AbandonedOrder[3] = "sessions" /\ AbandonedOrder[4] = "abort"
    /\ AbandonedOrder[5] = "join" /\ AbandonedOrder[6] = "pump"
    /\ AbandonedOrder[7] = "world" /\ AbandonedOrder[8] = "profile"
    /\ AbandonedOrder[9] = "done"
BY DEF AbandonedOrder

LEMMA StagesAre ==
    Stages = {"serving"} \cup {GracefulOrder[i] : i \in DOMAIN GracefulOrder}
                         \cup {AbandonedOrder[i] : i \in DOMAIN AbandonedOrder}
<1> DEFINE G == {GracefulOrder[i] : i \in 1 .. 14}
           A == {AbandonedOrder[i] : i \in 1 .. 9}
<1>1. G = {"close_requests", "request_drain", "quiesce", "pump", "profile",
           "completions", "producers", "close_outbound", "outbound_drain", "sessions",
           "abort", "join", "world", "done"}
    <2>1. \A i \in 1 .. 14 : i = 1 \/ i = 2 \/ i = 3 \/ i = 4 \/ i = 5 \/ i = 6 \/ i = 7
                              \/ i = 8 \/ i = 9 \/ i = 10 \/ i = 11 \/ i = 12 \/ i = 13 \/ i = 14
        OBVIOUS
    <2> QED BY <2>1, GracefulPath
<1>2. A = {"abandon", "quiesce", "sessions", "abort", "join", "pump", "world", "profile", "done"}
    <2>1. \A i \in 1 .. 9 : i = 1 \/ i = 2 \/ i = 3 \/ i = 4 \/ i = 5 \/ i = 6 \/ i = 7
                              \/ i = 8 \/ i = 9
        OBVIOUS
    <2> QED BY <2>1, AbandonedPath
<1> QED
    BY <1>1, <1>2, GracefulPath, AbandonedPath DEF Stages

\* The phase that follows.
LEMMA GracefulNext ==
    ASSUME NEW n \in 1 .. 13
    PROVE  Successor(GracefulOrder, GracefulOrder[n]) = GracefulOrder[n + 1]
<1>1. \A i \in 1 .. 14 : GracefulOrder[i] = GracefulOrder[n] => i = n
    <2>1. \A i \in 1 .. 14 : i = 1 \/ i = 2 \/ i = 3 \/ i = 4 \/ i = 5 \/ i = 6 \/ i = 7
                              \/ i = 8 \/ i = 9 \/ i = 10 \/ i = 11 \/ i = 12 \/ i = 13 \/ i = 14
        OBVIOUS
    <2> QED BY <2>1, GracefulPath
<1>2. (CHOOSE i \in DOMAIN GracefulOrder : GracefulOrder[i] = GracefulOrder[n]) = n
    BY <1>1, GracefulPath
<1> QED
    BY <1>2 DEF Successor

LEMMA AbandonedNext ==
    ASSUME NEW n \in 1 .. 8
    PROVE  Successor(AbandonedOrder, AbandonedOrder[n]) = AbandonedOrder[n + 1]
<1>1. \A i \in 1 .. 9 : AbandonedOrder[i] = AbandonedOrder[n] => i = n
    <2>1. \A i \in 1 .. 9 : i = 1 \/ i = 2 \/ i = 3 \/ i = 4 \/ i = 5 \/ i = 6 \/ i = 7
                              \/ i = 8 \/ i = 9
        OBVIOUS
    <2> QED BY <2>1, AbandonedPath
<1>2. (CHOOSE i \in DOMAIN AbandonedOrder : AbandonedOrder[i] = AbandonedOrder[n]) = n
    BY <1>1, AbandonedPath
<1> QED
    BY <1>2 DEF Successor

\* Where Advance leads.
LEMMA Advances ==
    ASSUME Advance, stage \in Stages, OnPath, stage \notin {"serving", "done"}
    PROVE  /\ stage' \in Stages /\ answer' = "none" /\ graceful' = graceful
           /\ graceful =>
                \/ stage = "close_requests" /\ stage' = "request_drain"
                \/ stage = "request_drain" /\ stage' = "quiesce"
                \/ stage = "quiesce" /\ stage' = "pump"
                \/ stage = "pump" /\ stage' = "profile"
                \/ stage = "profile" /\ stage' = "completions"
                \/ stage = "completions" /\ stage' = "producers"
                \/ stage = "producers" /\ stage' = "close_outbound"
                \/ stage = "close_outbound" /\ stage' = "outbound_drain"
                \/ stage = "outbound_drain" /\ stage' = "sessions"
                \/ stage = "sessions" /\ stage' = "abort"
                \/ stage = "abort" /\ stage' = "join"
                \/ stage = "join" /\ stage' = "world"
                \/ stage = "world" /\ stage' = "done"
           /\ ~graceful =>
                \/ stage = "abandon" /\ stage' = "quiesce"
                \/ stage = "quiesce" /\ stage' = "sessions"
                \/ stage = "sessions" /\ stage' = "abort"
                \/ stage = "abort" /\ stage' = "join"
                \/ stage = "join" /\ stage' = "pump"
                \/ stage = "pump" /\ stage' = "world"
                \/ stage = "world" /\ stage' = "profile"
                \/ stage = "profile" /\ stage' = "done"
<1>0. answer' = "none" /\ graceful' = graceful
      /\ stage' = Successor(IF graceful THEN GracefulOrder ELSE AbandonedOrder, stage)
    BY DEF Advance
<1>1. CASE graceful
    <2>0. stage' = Successor(GracefulOrder, stage)
        BY <1>0, <1>1
    <2>1. stage # "abandon"
        BY <1>1 DEF OnPath
    <2>2. PICK n \in 1 .. 13 : stage = GracefulOrder[n]
        <3>1. 1 \in 1 .. 13 /\ 2 \in 1 .. 13 /\ 3 \in 1 .. 13 /\ 4 \in 1 .. 13 /\ 5 \in 1 .. 13
              /\ 6 \in 1 .. 13 /\ 7 \in 1 .. 13 /\ 8 \in 1 .. 13 /\ 9 \in 1 .. 13
              /\ 10 \in 1 .. 13 /\ 11 \in 1 .. 13 /\ 12 \in 1 .. 13 /\ 13 \in 1 .. 13
            OBVIOUS
        <3>2. stage \in {"close_requests", "request_drain", "quiesce", "pump", "profile",
                         "completions", "producers", "close_outbound", "outbound_drain",
                         "sessions", "abort", "join", "world"}
            BY <2>1 DEF Stages
        <3> QED BY <3>1, <3>2, GracefulPath
    <2>3. stage' = GracefulOrder[n + 1]
        BY <2>0, <2>2, GracefulNext
    <2>4. \/ n = 1 \/ n = 2 \/ n = 3 \/ n = 4 \/ n = 5 \/ n = 6 \/ n = 7
          \/ n = 8 \/ n = 9 \/ n = 10 \/ n = 11 \/ n = 12 \/ n = 13
        OBVIOUS
    <2> QED BY <1>0, <1>1, <2>2, <2>3, <2>4, GracefulPath DEF Stages
<1>2. CASE ~graceful
    <2>0. stage' = Successor(AbandonedOrder, stage)
        BY <1>0, <1>2
    <2>2. PICK n \in 1 .. 8 : stage = AbandonedOrder[n]
        <3>1. 1 \in 1 .. 8 /\ 2 \in 1 .. 8 /\ 3 \in 1 .. 8 /\ 4 \in 1 .. 8 /\ 5 \in 1 .. 8
              /\ 6 \in 1 .. 8 /\ 7 \in 1 .. 8 /\ 8 \in 1 .. 8
            OBVIOUS
        <3>2. stage \in {"abandon", "quiesce", "sessions", "abort", "join", "pump", "world",
                         "profile"}
            BY <1>2 DEF Stages, OnPath
        <3> QED BY <3>1, <3>2, AbandonedPath
    <2>3. stage' = AbandonedOrder[n + 1]
        BY <2>0, <2>2, AbandonedNext
    <2>4. \/ n = 1 \/ n = 2 \/ n = 3 \/ n = 4 \/ n = 5 \/ n = 6 \/ n = 7 \/ n = 8
        OBVIOUS
    <2> QED BY <1>0, <1>2, <2>2, <2>3, <2>4, AbandonedPath DEF Stages
<1> QED
    BY <1>1, <1>2

\* The types but for the gate's and the mailbox's.
Typed ==
    /\ pc \in [Sessions -> SessionPc]
    /\ resume \in [Sessions -> {"loop", "flushing", "draining"}]
    /\ request \in [Sessions -> BOOLEAN]
    /\ flush \in [Sessions -> 0 .. OutboundCapacity]
    /\ queue \in [Sessions -> 0 .. OutboundCapacity]
    /\ cancelled \in [Sessions -> BOOLEAN]
    /\ registered \subseteq Sessions
    /\ quiescing \in BOOLEAN /\ sealed \in BOOLEAN /\ running \in BOOLEAN
    /\ lane \in [Sessions -> {"free", "racing", "queued", "inflight", "ready", "failed"}]
    /\ write \in [Sessions -> {"none", "pending", "done"}]
    /\ retry \in [Sessions -> {"none", "reported", "refused"}]
    /\ pump \in {"running", "draining", "failing", "stopped", "failed"}
    /\ stage \in Stages
    /\ graceful \in BOOLEAN
    /\ answer \in {"none", "asked", "true", "false"}
    /\ shutdown_requested \in BOOLEAN /\ force_requested \in BOOLEAN
    /\ operator \in {"idle", "flagged", "bypassed", "stopped"}
    /\ transport_failed \in BOOLEAN

LEMMA TypesAre == TypeOK <=> GateTypeOK /\ Typed /\ mailbox \in Seq(Command)
BY StagesAre DEF TypeOK, Typed

\* What a session does, and what is done for one.
SessionAction(s) ==
    \/ EnterSelect(s) \/ PollAdmission(s) \/ TakeBatch(s) \/ EndWrite(s)
    \/ AdmitRequest(s) \/ SendRequest(s) \/ SnapshotQueue(s) \/ EndRequest(s)
    \/ SeeCancellation(s) \/ Unwind(s) \/ CloseRegistration(s) \/ DropQueue(s)
    \/ ReadFrame(s) \/ ConnectionEnds(s)

WorldAction(s) ==
    \/ RequestTurn(s) \/ ClosedTurn(s) \/ RaceTick(s) \/ FinalizeSettlement(s)
    \/ CompletionTurn(s) \/ ProfileJob(s) \/ PumpTakes(s) \/ PumpCompletes(s)
    \/ ReportDeadLetter(s) \/ RetryDeadLetter(s)

Framed == <<registered, quiescing, sealed, running, lane, write, retry, pump, stage, graceful,
            answer, shutdown_requested, force_requested, operator, transport_failed>>

\* A session's own steps keep the types.
LEMMA SessionTypes ==
    ASSUME Typed, NEW s \in Sessions,
           SessionAction(s)
    PROVE  Typed'
<1> USE DEF SessionPc
<1>0. OutboundCapacity \in Nat
    BY CallersAre
<1>1. ASSUME UNCHANGED Framed,
             pc' \in [Sessions -> SessionPc],
             resume' \in [Sessions -> {"loop", "flushing", "draining"}],
             request' \in [Sessions -> BOOLEAN], flush' \in [Sessions -> 0 .. OutboundCapacity],
             queue' \in [Sessions -> 0 .. OutboundCapacity], cancelled' = cancelled
      PROVE  Typed'
    BY <1>1 DEF Typed, Framed
<1> USE DEF Goto, worldvars, workvars, supvars, opvars, Framed
<1>2. CASE EnterSelect(s)
    BY <1>1, <1>2 DEF EnterSelect, Typed
<1>3. CASE PollAdmission(s)
    BY <1>1, <1>3 DEF PollAdmission, Typed
<1>4. CASE TakeBatch(s)
    <2>1. queue[s] - 1 \in 0 .. OutboundCapacity
        BY <1>0, <1>4 DEF TakeBatch, Typed
    <2>2. flush[s] > 0 => flush[s] - 1 \in 0 .. OutboundCapacity
        BY <1>0 DEF Typed
    <2>3. queue' \in [Sessions -> 0 .. OutboundCapacity]
        BY <1>4, <2>1 DEF TakeBatch, Typed
    <2>4. flush' \in [Sessions -> 0 .. OutboundCapacity]
        BY <1>4, <2>2 DEF TakeBatch, Typed
    <2>5. resume' \in [Sessions -> {"loop", "flushing", "draining"}]
        BY <1>4 DEF TakeBatch, Typed
    <2> QED BY <1>1, <1>4, <2>3, <2>4, <2>5 DEF TakeBatch, Typed
<1>5. CASE EndWrite(s)
    <2>1. pc' \in [Sessions -> SessionPc]
        BY <1>5 DEF EndWrite, Typed
    <2> QED BY <1>1, <1>5, <2>1 DEF EndWrite, Typed
<1>6. CASE AdmitRequest(s)
    BY <1>1, <1>6 DEF AdmitRequest, Typed
<1>7. CASE SendRequest(s)
    BY <1>1, <1>7 DEF SendRequest, Typed
<1>8. CASE SnapshotQueue(s)
    BY <1>1, <1>8 DEF SnapshotQueue, Typed
<1>9. CASE EndRequest(s)
    BY <1>0, <1>1, <1>9 DEF EndRequest, Typed
<1>10. CASE SeeCancellation(s)
    BY <1>1, <1>10 DEF SeeCancellation, Typed
<1>11. CASE Unwind(s)
    <2>1. pc' \in [Sessions -> SessionPc] /\ request' \in [Sessions -> BOOLEAN]
        BY <1>11 DEF Unwind, Typed
    <2>2. flush' \in [Sessions -> 0 .. OutboundCapacity]
        BY <1>0, <1>11 DEF Unwind, Typed
    <2> QED BY <1>1, <1>11, <2>1, <2>2 DEF Unwind, Typed
<1>12. CASE CloseRegistration(s)
    BY <1>1, <1>12 DEF CloseRegistration, Typed
<1>13. CASE DropQueue(s)
    <2>1. queue[s] > 0 => queue[s] - 1 \in 0 .. OutboundCapacity
        BY <1>0 DEF Typed
    <2>2. queue' \in [Sessions -> 0 .. OutboundCapacity]
        BY <1>13, <2>1 DEF DropQueue, Typed
    <2> QED BY <1>1, <1>13, <2>2 DEF DropQueue, Typed
<1>14. CASE ReadFrame(s)
    BY <1>1, <1>14 DEF ReadFrame, Typed
<1>15. CASE ConnectionEnds(s)
    BY <1>1, <1>15 DEF ConnectionEnds, Typed
<1> QED
    BY <1>2, <1>3, <1>4, <1>5, <1>6, <1>7, <1>8, <1>9, <1>10, <1>11, <1>12, <1>13, <1>14, <1>15
    DEF SessionAction

\* A batch that is published finds room in the queue.
LEMMA QueueGrows ==
    ASSUME Typed, NEW p \in Sessions, Publish(p)
    PROVE  queue' \in [Sessions -> 0 .. OutboundCapacity] /\ queue' = [queue EXCEPT ![p] = queue[p] + 1]
<1>1. queue[p] + 1 \in 0 .. OutboundCapacity
    BY CallersAre DEF Publish, has_room, Typed
<1> QED
    BY <1>1 DEF Publish, Typed

LEMMA DeliverTypes ==
    ASSUME Typed, NEW p \in Sessions, Deliver(p)
    PROVE  /\ queue' \in [Sessions -> 0 .. OutboundCapacity]
           /\ registered' \subseteq Sessions /\ cancelled' \in [Sessions -> BOOLEAN]
<1>1. CASE Publish(p) /\ UNCHANGED <<registered, cancelled>>
    BY <1>1, QueueGrows DEF Typed
<1>2. CASE registered' = registered \ {p} /\ cancelled' = [cancelled EXCEPT ![p] = TRUE]
           /\ UNCHANGED queue
    BY <1>2 DEF Typed
<1> QED
    BY <1>1, <1>2 DEF Deliver

\* The World's work on its sessions keeps the types.
LEMMA WorkTypes ==
    ASSUME Typed, Reserved, NEW s \in Sessions,
           WorldAction(s)
    PROVE  Typed'
<1>0. OutboundCapacity \in Nat
    BY CallersAre
<1> DEFINE Rest == <<resume, request, flush, quiescing, sealed, running, pump, stage, graceful,
                     answer, shutdown_requested, force_requested, operator, transport_failed>>
<1>1. ASSUME UNCHANGED Rest,
             pc' \in [Sessions -> SessionPc], queue' \in [Sessions -> 0 .. OutboundCapacity],
             cancelled' \in [Sessions -> BOOLEAN], registered' \subseteq Sessions,
             lane' \in [Sessions -> {"free", "racing", "queued", "inflight", "ready", "failed"}],
             write' \in [Sessions -> {"none", "pending", "done"}],
             retry' \in [Sessions -> {"none", "reported", "refused"}]
      PROVE  Typed'
    BY <1>1 DEF Typed
<1>a. ASSUME NEW q PROVE Answered(s, q) \in [Sessions -> SessionPc]
    BY DEF Answered, Typed, SessionPc
<1>2. CASE RequestTurn(s)
    <2>1. UNCHANGED Rest /\ retry' = retry
        BY <1>2 DEF RequestTurn, supvars, opvars
    <2>2. pc' \in [Sessions -> SessionPc]
        BY <1>2, <1>a DEF RequestTurn, Typed
    <2>3. lane' \in [Sessions -> {"free", "racing", "queued", "inflight", "ready", "failed"}]
        BY <1>2 DEF RequestTurn, Typed
    <2>4. write' \in [Sessions -> {"none", "pending", "done"}]
        BY <1>2 DEF RequestTurn, Typed
    <2>5. /\ queue' \in [Sessions -> 0 .. OutboundCapacity]
          /\ registered' \subseteq Sessions /\ cancelled' \in [Sessions -> BOOLEAN]
        <3>1. CASE DeliverNothing
            BY <3>1 DEF DeliverNothing, Typed
        <3>2. CASE \E p \in Sessions : Deliver(p)
            BY <3>2, DeliverTypes
        <3>3. CASE UNCHANGED <<queue, registered, cancelled>>
            BY <3>3 DEF Typed
        <3> QED BY <1>2, <3>1, <3>2, <3>3 DEF RequestTurn
    <2> HIDE DEF Rest
    <2>6. retry' \in [Sessions -> {"none", "reported", "refused"}]
        BY <2>1 DEF Typed
    <2> QED BY <1>1, <2>1, <2>2, <2>3, <2>4, <2>5, <2>6
<1>3. CASE ClosedTurn(s)
    <2>1. UNCHANGED Rest /\ retry' = retry /\ write' = write
        BY <1>3 DEF ClosedTurn, supvars, opvars
    <2>2. pc' \in [Sessions -> SessionPc]
        BY <1>3 DEF ClosedTurn, Typed, SessionPc
    <2>3. lane' \in [Sessions -> {"free", "racing", "queued", "inflight", "ready", "failed"}]
        BY <1>3 DEF ClosedTurn, Typed
    <2>4. queue' \in [Sessions -> 0 .. OutboundCapacity]
        <3>1. CASE UNCHANGED queue
            BY <3>1 DEF Typed
        <3>2. CASE \E p \in Sessions : Publish(p)
            BY <3>2, QueueGrows
        <3> QED BY <1>3, <3>1, <3>2 DEF ClosedTurn
    <2>5. registered' \subseteq Sessions /\ cancelled' \in [Sessions -> BOOLEAN]
        BY <1>3 DEF ClosedTurn, Typed
    <2> HIDE DEF Rest
    <2>6. /\ retry' \in [Sessions -> {"none", "reported", "refused"}]
          /\ write' \in [Sessions -> {"none", "pending", "done"}]
        BY <2>1 DEF Typed
    <2> QED BY <1>1, <2>1, <2>2, <2>3, <2>4, <2>5, <2>6
<1>4. CASE FinalizeSettlement(s)
    <2>1. queue' \in [Sessions -> 0 .. OutboundCapacity]
        BY <1>4, QueueGrows DEF FinalizeSettlement, Typed
    <2> QED BY <1>1, <1>4, <2>1 DEF FinalizeSettlement, Typed, sessionvars, worldvars, supvars, opvars
<1>5. CASE CompletionTurn(s)
    <2>1. queue' \in [Sessions -> 0 .. OutboundCapacity]
        <3>1. queue[s] + 1 \in 0 .. OutboundCapacity
            BY <1>0, <1>5 DEF CompletionTurn, Typed, Reserved
        <3> QED BY <1>5, <3>1 DEF CompletionTurn, Typed
    <2>2. pc' \in [Sessions -> SessionPc]
        BY <1>5, <1>a DEF CompletionTurn, Typed
    <2>3. UNCHANGED Rest /\ UNCHANGED <<registered, cancelled, lane, retry>>
        BY <1>5 DEF CompletionTurn, worldvars, supvars, opvars
    <2>4. write' \in [Sessions -> {"none", "pending", "done"}]
        BY <1>5 DEF CompletionTurn, Typed
    <2> HIDE DEF Rest
    <2> QED BY <1>1, <2>1, <2>2, <2>3, <2>4 DEF Typed
<1>6. CASE RaceTick(s) \/ PumpTakes(s) \/ PumpCompletes(s) \/ RetryDeadLetter(s)
    <2>1. lane' \in [Sessions -> {"free", "racing", "queued", "inflight", "ready", "failed"}]
        BY <1>6 DEF RaceTick, PumpTakes, PumpCompletes, RetryDeadLetter, Typed
    <2>2. retry' \in [Sessions -> {"none", "reported", "refused"}]
        BY <1>6 DEF RaceTick, PumpTakes, PumpCompletes, RetryDeadLetter, Typed
    <2>3. UNCHANGED Rest /\ UNCHANGED <<pc, queue, cancelled, registered, write>>
        BY <1>6 DEF RaceTick, PumpTakes, PumpCompletes, RetryDeadLetter, sessionvars, worldvars,
                    supvars, opvars
    <2> HIDE DEF Rest
    <2> QED BY <1>1, <2>1, <2>2, <2>3 DEF Typed
<1>7. CASE ProfileJob(s) \/ ReportDeadLetter(s)
    BY <1>1, <1>7 DEF ProfileJob, ReportDeadLetter, Typed, sessionvars, worldvars, supvars, opvars
<1> HIDE DEF Rest
<1> QED
    BY <1>2, <1>3, <1>4, <1>5, <1>6, <1>7 DEF WorldAction

\* How the pump ends, and what makes it end.
PumpMove ==
    \/ \E s \in Sessions : PumpErrs(s)
    \/ PumpStops \/ PumpFails \/ PumpBreaks

\* The steps of the phases: supervisor, operator, the World's answers.
PhaseStep ==
    \/ QuiesceTurn \/ ProducersTurn \/ SessionsTurn \/ ShutdownTurn \/ ForceShutdownTurn
    \/ PumpMove
    \/ ForceBypass \/ ForceStop
    \/ LeaveServing \/ LosePump \/ CloseRequests \/ DrainRequests \/ AbandonWire
    \/ AskWorld \/ HearWorld \/ HearProducers
    \/ StopPump \/ StopProfile \/ DrainCompletions
    \/ CloseOutbound \/ DrainOutbound \/ AbortSessions \/ JoinSessions \/ StopWorld

\* Where a phase may lead.
LEMMA AdvanceTypes ==
    ASSUME Typed, OnPath, stage \notin {"serving", "done"}, Advance
    PROVE  stage' \in Stages /\ graceful' \in BOOLEAN /\ answer' = "none"
BY Advances DEF Typed

LEMMA PhaseTypes ==
    ASSUME Typed, OnPath, PhaseStep
    PROVE  Typed'
<1> DEFINE Rest == <<resume, request, flush, queue, write, retry, transport_failed>>
           Supervised == stage' \in Stages /\ graceful' \in BOOLEAN
                         /\ answer' \in {"none", "asked", "true", "false"}
           Kept == <<pc, registered, quiescing, sealed, running, lane, pump, cancelled,
                     shutdown_requested, force_requested, operator>>
<1>1. ASSUME UNCHANGED <<pc, force_requested>>, UNCHANGED Rest, Supervised,
             registered' \subseteq Sessions, cancelled' \in [Sessions -> BOOLEAN],
             quiescing' \in BOOLEAN, sealed' \in BOOLEAN, running' \in BOOLEAN,
             lane' \in [Sessions -> {"free", "racing", "queued", "inflight", "ready", "failed"}],
             pump' \in {"running", "draining", "failing", "stopped", "failed"},
             shutdown_requested' \in BOOLEAN,
             operator' \in {"idle", "flagged", "bypassed", "stopped"}
      PROVE  Typed'
    BY <1>1 DEF Typed
<1>2. ASSUME UNCHANGED Rest, UNCHANGED Kept, Supervised PROVE Typed'
    BY <1>2 DEF Typed
<1> USE DEF sessionvars, worldvars, workvars, supvars, opvars, supervises
<1>3. CASE QuiesceTurn
    BY <1>1, <1>3 DEF QuiesceTurn, Typed
<1>4. CASE ProducersTurn
    <2>1. producers_drained \in BOOLEAN
        BY DEF producers_drained, Typed
    <2> QED BY <1>1, <1>4, <2>1 DEF ProducersTurn, Typed
<1>5. CASE SessionsTurn
    <2>1. lane' \in [Sessions -> {"free", "racing", "queued", "inflight", "ready", "failed"}]
        BY <1>5 DEF SessionsTurn, Typed
    <2>2. cancelled' \in [Sessions -> BOOLEAN] /\ registered' \subseteq Sessions
        BY <1>5 DEF SessionsTurn, Typed
    <2>3. answer' \in {"true", "false"} /\ UNCHANGED Rest
          /\ UNCHANGED <<pc, force_requested, quiescing, sealed, running, pump, stage, graceful,
                         shutdown_requested, operator>>
        BY <1>5 DEF SessionsTurn
    <2> HIDE DEF Rest
    <2> QED BY <1>1, <2>1, <2>2, <2>3 DEF Typed
<1>6. CASE ShutdownTurn \/ ForceShutdownTurn
    <2>1. cancelled' \in [Sessions -> BOOLEAN] /\ running' \in BOOLEAN
        BY <1>6 DEF ShutdownTurn, ForceShutdownTurn, WorldStops, Typed
    <2>2. answer' \in {"none", "asked", "true", "false"} /\ UNCHANGED Rest
          /\ UNCHANGED <<pc, force_requested, registered, quiescing, sealed, lane, pump, stage,
                         graceful, shutdown_requested, operator>>
        BY <1>6 DEF ShutdownTurn, ForceShutdownTurn, Typed
    <2> HIDE DEF Rest
    <2> QED BY <1>1, <2>1, <2>2 DEF Typed
<1>7. CASE PumpMove
    <2>1. lane' \in [Sessions -> {"free", "racing", "queued", "inflight", "ready", "failed"}]
          /\ pump' \in {"running", "draining", "failing", "stopped", "failed"}
        BY <1>7 DEF PumpMove, PumpErrs, PumpStops, PumpFails, PumpBreaks, Typed
    <2>2. UNCHANGED <<sessionvars, queue, worldvars, mailbox, write, retry, supvars, opvars>>
        BY <1>7 DEF PumpMove, PumpErrs, PumpStops, PumpFails, PumpBreaks
    <2> QED BY <1>1, <2>1, <2>2 DEF Typed
<1>8. CASE ForceBypass
    BY <1>1, <1>8 DEF ForceBypass, Typed
<1>9. CASE ForceStop
    BY <1>1, <1>9 DEF ForceStop, Typed
<1>10. CASE LeaveServing
    <2>1. GracefulOrder[1] \in Stages /\ AbandonedOrder[1] \in Stages
        BY GracefulPath, AbandonedPath DEF Stages
    <2> QED BY <1>2, <1>10, <2>1 DEF LeaveServing, Typed
<1>25. CASE LosePump
    <2>1. stage' = "abandon" /\ "abandon" \in Stages
        BY <1>25, AbandonedPath DEF LosePump, Stages
    <2>2. /\ graceful' = FALSE /\ transport_failed' = TRUE /\ answer' = answer
          /\ UNCHANGED <<resume, request, flush, queue, write, retry>> /\ UNCHANGED Kept
        BY <1>25 DEF LosePump
    <2>3. /\ stage' \in Stages /\ graceful' \in BOOLEAN /\ transport_failed' \in BOOLEAN
        BY <2>1, <2>2
    <2> QED BY <2>2, <2>3 DEF Typed
<1>11. CASE CloseRequests
    BY <1>2, <1>11, AdvanceTypes DEF CloseRequests
<1>12. CASE DrainRequests
    <2>1. CASE DrainWait("request")
        BY <1>2, <2>1 DEF DrainWait, Typed
    <2>2. CASE (Advance \/ Abandon("abandon")) /\ UNCHANGED <<supervises, mailbox>>
        <3>1. Supervised
            BY <1>12, <2>2, AdvanceTypes DEF Abandon, Stages, DrainRequests
        <3> QED BY <1>2, <2>2, <3>1
    <2> QED BY <1>12, <2>1, <2>2 DEF DrainRequests
<1>13. CASE AbandonWire
    BY <1>2, <1>13, AdvanceTypes DEF AbandonWire
<1>14. CASE AskWorld
    BY <1>2, <1>14 DEF AskWorld, Typed
<1>15. CASE HearWorld
    BY <1>2, <1>15, AdvanceTypes DEF HearWorld
<1>16. CASE HearProducers
    <2>1. Supervised
        BY <1>16, AdvanceTypes DEF HearProducers, Typed, Stages
    <2> QED BY <1>2, <1>16, <2>1 DEF HearProducers
<1>17. CASE StopPump
    <2>1. Supervised /\ pump' \in {"running", "draining", "failing", "stopped", "failed"}
        BY <1>17, AdvanceTypes DEF StopPump, Typed
    <2> QED BY <1>1, <1>17, <2>1 DEF StopPump, Typed
<1>18. CASE StopProfile
    BY <1>2, <1>18, AdvanceTypes DEF StopProfile
<1>19. CASE DrainCompletions
    BY <1>2, <1>19, AdvanceTypes DEF DrainCompletions
<1>20. CASE CloseOutbound
    BY <1>2, <1>20, AdvanceTypes DEF CloseOutbound
<1>21. CASE DrainOutbound
    <2>1. CASE DrainWait("outbound")
        BY <1>2, <2>1 DEF DrainWait, Typed
    <2>2. CASE Advance /\ UNCHANGED <<supervises, mailbox>>
        BY <1>2, <1>21, <2>2, AdvanceTypes DEF DrainOutbound
    <2> QED BY <1>21, <2>1, <2>2 DEF DrainOutbound
<1>22. CASE AbortSessions
    <2>1. Supervised
        BY <1>22, AdvanceTypes DEF AbortSessions
    <2>2. cancelled' \in [Sessions -> BOOLEAN]
        BY <1>22 DEF AbortSessions
    <2> QED BY <1>1, <1>22, <2>1, <2>2 DEF AbortSessions, Typed
<1>23. CASE JoinSessions
    BY <1>2, <1>23, AdvanceTypes DEF JoinSessions
<1>24. CASE StopWorld
    <2>1. Supervised
        BY <1>24, AdvanceTypes DEF StopWorld, Typed
    <2> QED BY <1>2, <1>24, <2>1 DEF StopWorld
<1> HIDE DEF Rest, Supervised, Kept
<1> QED
    BY <1>3, <1>4, <1>5, <1>6, <1>7, <1>8, <1>9, <1>10, <1>11, <1>12, <1>13, <1>14, <1>15,
       <1>16, <1>17, <1>18, <1>19, <1>20, <1>21, <1>22, <1>23, <1>24, <1>25 DEF PhaseStep

\* The rest of what the environment does.
Asides == RequestShutdown \/ ForceFlag \/ TransportFails \/ \E c \in Callers : NotifyWaiters(c)

LEMMA AsideTypes ==
    ASSUME Typed, Asides
    PROVE  Typed'
<1> USE DEF sessionvars, worldvars, workvars, supvars, opvars, Typed
<1>1. CASE RequestShutdown
    BY <1>1 DEF RequestShutdown
<1>2. CASE ForceFlag
    BY <1>2 DEF ForceFlag
<1>3. CASE TransportFails
    BY <1>3 DEF TransportFails
<1>4. CASE \E c \in Callers : NotifyWaiters(c)
    BY <1>4 DEF NotifyWaiters
<1> QED
    BY <1>1, <1>2, <1>3, <1>4 DEF Asides

LEMMA NextIs ==
    Next => \/ \E s \in Sessions : SessionAction(s)
            \/ \E s \in Sessions : WorldAction(s)
            \/ PhaseStep \/ Asides
<1>1. ASSUME NEW s \in Sessions, SessionStep(s) \/ ClientStep(s)
      PROVE  SessionAction(s)
    BY <1>1, Zenon DEF SessionStep, ClientStep, SessionAction
<1>2. ASSUME NEW s \in Sessions, ProfileJob(s) \/ ReportDeadLetter(s) \/ RetryDeadLetter(s)
      PROVE  WorldAction(s)
    BY <1>2, Zenon DEF WorldAction
<1>3. CommandTurn => (\E s \in Sessions : WorldAction(s)) \/ PhaseStep
    BY Zenon DEF CommandTurn, WorldAction, PhaseStep
<1>4. Heartbeat => \E s \in Sessions : WorldAction(s)
    BY Zenon DEF Heartbeat, WorldAction
<1>5. PumpStep => (\E s \in Sessions : WorldAction(s)) \/ PhaseStep
    BY Zenon DEF PumpStep, PumpMove, WorldAction, PhaseStep
<1>6. Supervise \/ ForceStep \/ PumpBreaks \/ (\E s \in Sessions : PumpErrs(s)) => PhaseStep
    BY Zenon DEF Supervise, ForceStep, PumpMove, PhaseStep
<1> QED
    BY <1>1, <1>2, <1>3, <1>4, <1>5, <1>6, Zenon DEF Next, Asides

--------------------------------------------------------------------------------
(* What a step does to the gate and the mailbox.                            *)

GateMove ==
    \/ UNCHANGED gate
    \/ \E c \in Callers, k \in Kinds :
          try_begin(c, k) \/ try_begin_refused(c, k) \/ retire(c, k) \/ close_admission(c, k)
    \/ \E c \in Callers : force_bypass(c) \/ notify_waiters(c)
    \/ \E w \in Waiters :
          \/ \E on \in Kinds \cup {"admission"} : arm(w, on)
          \/ check(w) \/ park(w) \/ wake(w) \/ abandon_wait(w)

LEMMA GateMoveTypes ==
    ASSUME GateTypeOK, GateMove
    PROVE  GateTypeOK'
<1>1. CASE UNCHANGED gate
    BY <1>1 DEF GateTypeOK, gate
<1> QED
    BY <1>1, GateBegins, GateRefuses, GateRetires, GateCloses, GateBypassed, GateNotifies,
       GateWaits DEF GateMove

LEMMA SessionGate ==
    ASSUME NEW s \in Sessions, SessionAction(s)
    PROVE  GateMove
<1>0. s \in Callers /\ s \in Waiters /\ "request" \in Kinds /\ "outbound" \in Kinds
    BY CallersAre DEF Kinds
<1>1. CASE EnterSelect(s)
    BY <1>0, <1>1 DEF EnterSelect, GateMove
<1>2. CASE PollAdmission(s)
    BY <1>0, <1>2 DEF PollAdmission, GateMove
<1>3. CASE TakeBatch(s)
    BY <1>0, <1>3 DEF TakeBatch, GateMove
<1>4. CASE EndWrite(s)
    BY <1>0, <1>4 DEF EndWrite, GateMove
<1>5. CASE AdmitRequest(s)
    BY <1>0, <1>5 DEF AdmitRequest, GateMove
<1>6. CASE SendRequest(s) \/ SnapshotQueue(s) \/ CloseRegistration(s)
    BY <1>6 DEF SendRequest, SnapshotQueue, CloseRegistration, GateMove
<1>7. CASE EndRequest(s)
    BY <1>0, <1>7 DEF EndRequest, GateMove
<1>8. CASE SeeCancellation(s) \/ ConnectionEnds(s)
    BY <1>0, <1>8 DEF SeeCancellation, ConnectionEnds, GateMove
<1>9. CASE Unwind(s)
    <2>1. retire(s, "request") \/ UNCHANGED gate
        BY <1>9 DEF Unwind, gate
    <2> QED BY <1>0, <2>1 DEF GateMove
<1>10. CASE DropQueue(s)
    <2>1. retire(s, "outbound") \/ UNCHANGED gate
        BY <1>10 DEF DropQueue, gate
    <2> QED BY <1>0, <2>1 DEF GateMove
<1>11. CASE ReadFrame(s)
    BY <1>0, <1>11 DEF ReadFrame, GateMove
<1> QED
    BY <1>1, <1>2, <1>3, <1>4, <1>5, <1>6, <1>7, <1>8, <1>9, <1>10, <1>11 DEF SessionAction

LEMMA WorldGate ==
    ASSUME NEW s \in Sessions, WorldAction(s)
    PROVE  GateMove
<1>0. World \in Callers /\ "outbound" \in Kinds
    BY CallersAre DEF Kinds
<1>1. ASSUME NEW p, Publish(p) PROVE GateMove
    BY <1>0, <1>1 DEF Publish, GateMove
<1>2. ASSUME NEW p, Deliver(p) PROVE GateMove
    BY <1>0, <1>1, <1>2 DEF Deliver, GateMove
<1>3. CASE RequestTurn(s)
    <2>1. UNCHANGED gate \/ (\E p \in Sessions : Deliver(p)) \/ try_begin(World, "outbound")
        BY <1>3 DEF RequestTurn, DeliverNothing, gate
    <2> QED BY <1>0, <1>2, <2>1 DEF GateMove
<1>4. CASE ClosedTurn(s)
    <2>1. UNCHANGED gate \/ (\E p \in Sessions : Publish(p))
        BY <1>4 DEF ClosedTurn, gate
    <2> QED BY <1>1, <2>1 DEF GateMove
<1>5. CASE FinalizeSettlement(s)
    <2>1. UNCHANGED gate \/ Publish(s)
        BY <1>5 DEF FinalizeSettlement, gate
    <2> QED BY <1>1, <2>1 DEF GateMove
<1>6. CASE CompletionTurn(s)
    BY <1>0, <1>6 DEF CompletionTurn, GateMove
<1>7. CASE RaceTick(s) \/ ProfileJob(s) \/ PumpTakes(s) \/ PumpCompletes(s)
           \/ ReportDeadLetter(s) \/ RetryDeadLetter(s)
    <2>1. UNCHANGED gate
        BY <1>7 DEF RaceTick, ProfileJob, PumpTakes, PumpCompletes, ReportDeadLetter,
                    RetryDeadLetter, gate
    <2> QED BY <2>1 DEF GateMove
<1> QED
    BY <1>3, <1>4, <1>5, <1>6, <1>7 DEF WorldAction

LEMMA PhaseGate ==
    ASSUME PhaseStep
    PROVE  GateMove
<1>0. /\ Supervisor \in Callers /\ Operator \in Callers /\ Supervisor \in Waiters
      /\ "request" \in Kinds /\ "outbound" \in Kinds
    BY CallersAre DEF Kinds
<1>1. CASE CloseRequests \/ CloseOutbound
    BY <1>0, <1>1 DEF CloseRequests, CloseOutbound, GateMove
<1>2. CASE ForceBypass \/ AbandonWire
    BY <1>0, <1>2 DEF ForceBypass, AbandonWire, GateMove
<1>3. CASE HearProducers
    <2>1. UNCHANGED gate \/ force_bypass(Supervisor)
        BY <1>3 DEF HearProducers, gate
    <2> QED BY <1>0, <2>1 DEF GateMove
<1>4. CASE DrainRequests
    BY <1>0, <1>4 DEF DrainRequests, DrainWait, GateMove
<1>5. CASE DrainOutbound
    BY <1>0, <1>5 DEF DrainOutbound, DrainWait, GateMove
<1>6. CASE \/ QuiesceTurn \/ ProducersTurn \/ SessionsTurn \/ ShutdownTurn
           \/ ForceShutdownTurn \/ PumpMove
    <2>1. UNCHANGED gate
        BY <1>6 DEF QuiesceTurn, ProducersTurn, SessionsTurn, ShutdownTurn, ForceShutdownTurn,
                    PumpMove, PumpErrs, PumpStops, PumpFails, PumpBreaks, gate
    <2> QED BY <2>1 DEF GateMove
<1>7. CASE \/ ForceStop \/ LeaveServing \/ LosePump \/ AskWorld \/ HearWorld \/ StopPump
           \/ StopProfile
    <2>1. UNCHANGED gate
        BY <1>7 DEF ForceStop, LeaveServing, LosePump, AskWorld, HearWorld, StopPump, StopProfile, gate
    <2> QED BY <2>1 DEF GateMove
<1>8. CASE DrainCompletions \/ AbortSessions \/ JoinSessions \/ StopWorld
    <2>1. UNCHANGED gate
        BY <1>8 DEF DrainCompletions, AbortSessions, JoinSessions, StopWorld, gate
    <2> QED BY <2>1 DEF GateMove
<1> QED
    BY <1>1, <1>2, <1>3, <1>4, <1>5, <1>6, <1>7, <1>8 DEF PhaseStep

LEMMA AsideGate ==
    ASSUME Asides
    PROVE  GateMove
<1>1. CASE RequestShutdown \/ ForceFlag \/ TransportFails
    <2>1. UNCHANGED gate
        BY <1>1 DEF RequestShutdown, ForceFlag, TransportFails, gate
    <2> QED BY <2>1 DEF GateMove
<1>2. CASE \E c \in Callers : NotifyWaiters(c)
    BY <1>2 DEF NotifyWaiters, GateMove
<1> QED
    BY <1>1, <1>2 DEF Asides

\* The mailbox keeps what it has, loses its head or all, or gets one command.
Mail ==
    \/ UNCHANGED mailbox
    \/ mailbox # <<>> /\ mailbox' = Tail(mailbox)
    \/ mailbox' = <<>>
    \/ \E type \in CommandTypes, from \in Callers : Send(type, from)

LEMMA MailTypes ==
    ASSUME mailbox \in Seq(Command), Mail
    PROVE  mailbox' \in Seq(Command)
BY Sent, Taken, Emptied DEF Mail

LEMMA MailMoves ==
    ASSUME Next
    PROVE  Mail
<1>0. Supervisor \in Callers /\ Operator \in Callers /\ Sessions \subseteq Callers
    BY CallersAre
<1>1. ASSUME NEW s \in Sessions, SessionAction(s) PROVE Mail
    <2>1. CASE SendRequest(s)
        BY <1>0, <2>1 DEF SendRequest, Mail, CommandTypes
    <2>2. CASE CloseRegistration(s)
        BY <1>0, <2>2 DEF CloseRegistration, Mail, CommandTypes
    <2>3. CASE ~SendRequest(s) /\ ~CloseRegistration(s)
        <3>1. UNCHANGED mailbox
            BY <1>1, <2>3 DEF SessionAction, EnterSelect, PollAdmission, TakeBatch, EndWrite,
                AdmitRequest, SnapshotQueue, EndRequest, SeeCancellation, Unwind, DropQueue,
                ReadFrame, ConnectionEnds
        <3> QED BY <3>1 DEF Mail
    <2> QED BY <2>1, <2>2, <2>3
<1>2. ASSUME NEW s \in Sessions, WorldAction(s) PROVE Mail
    <2>1. CASE RequestTurn(s) \/ ClosedTurn(s)
        BY <2>1 DEF RequestTurn, ClosedTurn, Turn, Mail
    <2>2. CASE ~RequestTurn(s) /\ ~ClosedTurn(s)
        <3>1. UNCHANGED mailbox
            BY <1>2, <2>2 DEF WorldAction, RaceTick, FinalizeSettlement, CompletionTurn,
                ProfileJob, PumpTakes, PumpCompletes, ReportDeadLetter, RetryDeadLetter
        <3> QED BY <3>1 DEF Mail
    <2> QED BY <2>1, <2>2
<1>3. ASSUME PhaseStep PROVE Mail
    <2>1. CASE QuiesceTurn \/ ProducersTurn \/ SessionsTurn
        BY <2>1 DEF QuiesceTurn, ProducersTurn, SessionsTurn, Turn, Mail
    <2>2. CASE ShutdownTurn \/ ForceShutdownTurn
        BY <2>2 DEF ShutdownTurn, ForceShutdownTurn, WorldStops, Mail
    <2>3. CASE ForceStop \/ StopWorld
        BY <1>0, <2>3 DEF ForceStop, StopWorld, Mail, CommandTypes
    <2>4. CASE AskWorld
        <3>1. (IF stage = "world" THEN "shutdown" ELSE stage) \in CommandTypes
            BY <2>4 DEF AskWorld, CommandTypes
        <3> QED BY <1>0, <2>4, <3>1 DEF AskWorld, Mail
    <2>5. CASE \/ PumpMove \/ ForceBypass \/ LeaveServing \/ LosePump \/ CloseRequests
               \/ DrainRequests \/ AbandonWire \/ HearWorld \/ HearProducers
        <3>1. UNCHANGED mailbox
            BY <2>5 DEF PumpMove, PumpErrs, PumpStops, PumpFails, PumpBreaks, ForceBypass,
                LeaveServing, LosePump, CloseRequests, DrainRequests, DrainWait, AbandonWire,
                HearWorld, HearProducers
        <3> QED BY <3>1 DEF Mail
    <2>6. CASE \/ StopPump \/ StopProfile \/ DrainCompletions \/ CloseOutbound
               \/ DrainOutbound \/ AbortSessions \/ JoinSessions
        <3>1. UNCHANGED mailbox
            BY <2>6 DEF StopPump, StopProfile, DrainCompletions, CloseOutbound, DrainOutbound,
                DrainWait, AbortSessions, JoinSessions
        <3> QED BY <3>1 DEF Mail
    <2> QED BY <1>3, <2>1, <2>2, <2>3, <2>4, <2>5, <2>6 DEF PhaseStep
<1>4. ASSUME Asides PROVE Mail
    <2>1. UNCHANGED mailbox
        BY <1>4 DEF Asides, RequestShutdown, ForceFlag, TransportFails, NotifyWaiters
    <2> QED BY <2>1 DEF Mail
<1> QED
    BY <1>1, <1>2, <1>3, <1>4, NextIs

LEMMA TypeInit ==
    ASSUME Init
    PROVE  TypeOK
<1>0. OutboundCapacity \in Nat /\ MaxActive \in Nat
    BY CallersAre
<1>1. [on |-> "admission", phase |-> "idle", notified |-> FALSE] \in Waiting
    BY DEF Waiting
<1>2. GateTypeOK
    <2>1. 0 \in 0 .. MaxActive
        BY <1>0
    <2>2. waiting \in [Waiters -> Waiting]
        BY <1>1 DEF Init, GateInit
    <2> QED BY <2>1, <2>2 DEF Init, GateInit, GateTypeOK
<1>3. Typed
    <2>1. 0 \in 0 .. OutboundCapacity
        BY <1>0
    <2>2. /\ pc \in [Sessions -> SessionPc]
          /\ resume \in [Sessions -> {"loop", "flushing", "draining"}]
          /\ request \in [Sessions -> BOOLEAN] /\ cancelled \in [Sessions -> BOOLEAN]
        BY DEF Init, SessionPc
    <2>3. flush \in [Sessions -> 0 .. OutboundCapacity] /\ queue \in [Sessions -> 0 .. OutboundCapacity]
        BY <2>1 DEF Init
    <2>4. /\ lane \in [Sessions -> {"free", "racing", "queued", "inflight", "ready", "failed"}]
          /\ write \in [Sessions -> {"none", "pending", "done"}]
          /\ retry \in [Sessions -> {"none", "reported", "refused"}]
        BY DEF Init
    <2> QED BY <2>2, <2>3, <2>4 DEF Init, Typed, Stages
<1>4. mailbox \in Seq(Command)
    BY DEF Init
<1> QED
    BY <1>2, <1>3, <1>4, TypesAre

LEMMA TypeNext ==
    ASSUME TypeOK, Reserved, OnPath, Next
    PROVE  TypeOK'
<1>1. GateTypeOK /\ Typed /\ mailbox \in Seq(Command)
    BY TypesAre
<1>2. GateTypeOK'
    BY <1>1, NextIs, SessionGate, WorldGate, PhaseGate, AsideGate, GateMoveTypes
<1>3. Typed'
    BY <1>1, NextIs, SessionTypes, WorkTypes, PhaseTypes, AsideTypes
<1>4. mailbox' \in Seq(Command)
    BY <1>1, MailMoves, MailTypes
<1>5. (GateTypeOK /\ Typed /\ mailbox \in Seq(Command) => TypeOK)'
    BY TypesAre, PTL
<1> QED
    BY <1>2, <1>3, <1>4, <1>5

--------------------------------------------------------------------------------
(* The books.                                                               *)

\* One guard more, one less, or as many.
RequestsMove ==
    \/ active'["request"] = active["request"] /\ request' = request
    \/ \E s \in Sessions : /\ active'["request"] = active["request"] + 1
                           /\ ~request[s] /\ request' = [request EXCEPT ![s] = TRUE]
    \/ \E s \in Sessions : /\ active'["request"] = active["request"] - 1
                           /\ request[s] /\ request' = [request EXCEPT ![s] = FALSE]

BatchesMove ==
    \/ /\ active'["outbound"] = active["outbound"]
       /\ \A s \in Sessions : batches(s)' = batches(s)
    \/ \E p \in Sessions : /\ active'["outbound"] = active["outbound"] + 1
                           /\ batches(p)' = batches(p) + 1
                           /\ \A s \in Sessions : s # p => batches(s)' = batches(s)
    \/ \E p \in Sessions : /\ active'["outbound"] = active["outbound"] - 1
                           /\ batches(p)' = batches(p) - 1
                           /\ \A s \in Sessions : s # p => batches(s)' = batches(s)

LEMMA Recount ==
    ASSUME TypeOK, Reserved, GuardsMatchWork, TypeOK', Reserved', RequestsMove, BatchesMove
    PROVE  GuardsMatchWork'
<1>1. active'["request"] = Cardinality(Holders(request'))
    <2>1. request \in [Sessions -> BOOLEAN]
        BY DEF TypeOK
    <2>2. active["request"] = Cardinality(Holders(request))
        BY Counted
    <2> QED BY <2>1, <2>2, HoldersCount DEF RequestsMove
<1>2. active'["outbound"] = Cardinality(Units(Load'))
    <2>1. Load \in Loads
        BY LoadIs
    <2>2. (TypeOK /\ Reserved => Load \in Loads)'
        BY LoadIs, PTL
    <2>3. Load' \in Loads
        BY <2>2 DEF Loads
    <2>4. active["outbound"] = Cardinality(Units(Load))
        BY Counted
    <2>5. \A s \in Sessions : Load[s] = batches(s) /\ Load'[s] = batches(s)'
        BY DEF Load
    <2>6. Cardinality(Units(Load)) \in Nat /\ Cardinality(Units(Load')) \in Nat
        BY <2>1, <2>3, UnitsBounded
    <2>7. CASE /\ active'["outbound"] = active["outbound"]
               /\ \A s \in Sessions : batches(s)' = batches(s)
        BY <2>1, <2>3, <2>4, <2>5, <2>7, AsMany
    <2>8. ASSUME NEW p \in Sessions, active'["outbound"] = active["outbound"] + 1,
                 batches(p)' = batches(p) + 1,
                 \A s \in Sessions : s # p => batches(s)' = batches(s)
          PROVE  active'["outbound"] = Cardinality(Units(Load'))
        <3>1. Load'[p] = Load[p] + 1 /\ \A s \in Sessions : s # p => Load'[s] = Load[s]
            BY <2>5, <2>8
        <3>2. Cardinality(Units(Load')) = Cardinality(Units(Load)) + 1
            BY <2>1, <2>3, <3>1, OneMore
        <3> QED BY <2>4, <2>8, <3>2
    <2>9. ASSUME NEW p \in Sessions, active'["outbound"] = active["outbound"] - 1,
                 batches(p)' = batches(p) - 1,
                 \A s \in Sessions : s # p => batches(s)' = batches(s)
          PROVE  active'["outbound"] = Cardinality(Units(Load'))
        <3>1. Load[p] \in Nat /\ Load'[p] \in Nat
            BY <2>1, <2>3, CallersAre DEF Loads
        <3>2. Load[p] = Load'[p] + 1 /\ \A s \in Sessions : s # p => Load[s] = Load'[s]
            BY <2>5, <2>9, <3>1
        <3>3. Cardinality(Units(Load)) = Cardinality(Units(Load')) + 1
            BY <2>1, <2>3, <3>2, OneMore
        <3> QED BY <2>4, <2>6, <2>9, <3>3
    <2> QED BY <2>7, <2>8, <2>9 DEF BatchesMove
<1>3. (active["request"] = Cardinality(Holders(request))
       /\ active["outbound"] = Cardinality(Units(Load)) => GuardsMatchWork)'
    BY Counted, PTL
<1>4. Holders(request)' = Holders(request') /\ Units(Load)' = Units(Load')
    BY DEF Holders, Units
<1> QED
    BY <1>1, <1>2, <1>3, <1>4

LEMMA BooksFrame ==
    ASSUME TypeOK, Books, TypeOK', active' = active, UNCHANGED request,
           \A s \in Sessions : UNCHANGED <<pc[s], resume[s], queue[s], write[s]>>
    PROVE  Books'
<1>1. Reserved' /\ Guarded'
    BY DEF Books, Reserved, Guarded
<1>2. RequestsMove /\ BatchesMove
    BY DEF RequestsMove, BatchesMove, batches
<1> QED
    BY <1>1, <1>2, Recount DEF Books

LEMMA BooksInit ==
    ASSUME Init
    PROVE  Books
<1>1. Reserved /\ Guarded
    BY CallersAre DEF Init, Reserved, Guarded
<1>2. Holders(request) = {}
    BY DEF Init, Holders
<1>3. Units(Load) = {}
    <2>1. \A s \in Sessions : batches(s) = 0
        BY DEF Init, batches
    <2> QED BY <2>1 DEF Units, Load
<1>4. active["request"] = 0 /\ active["outbound"] = 0
    BY DEF Init, GateInit, Kinds
<1> QED
    BY <1>1, <1>2, <1>3, <1>4, Counted, FS_EmptySet DEF Books

\* A session goes to another place of its loop, and nothing else changes.
Holding == {"asking", "waiting", "replied", "flushing"}
Free == {"loop", "select", "framed", "draining", "ending", "closing", "dropping", "gone"}

LEMMA BooksGoto ==
    ASSUME TypeOK, Books, TypeOK', NEW s \in Sessions, NEW x, Goto(s, x),
           UNCHANGED <<active, resume, request, queue, write>>,
           pc[s] # "writing", x # "writing",
           x \in Holding => request[s], x \in Free => ~request[s]
    PROVE  Books'
<1>1. /\ \A t \in Sessions : t # s => pc'[t] = pc[t]
      /\ pc'[s] = x
    BY DEF TypeOK, Goto
<1>2. Reserved'
    BY DEF Books, Reserved
<1>3. Guarded'
    BY <1>1 DEF Books, Guarded, Holding, Free
<1>4. \A t \in Sessions : batches(t)' = batches(t)
    BY <1>1 DEF batches
<1>5. RequestsMove /\ BatchesMove
    BY <1>4 DEF RequestsMove, BatchesMove
<1> QED
    BY <1>2, <1>3, <1>5, Recount DEF Books

LEMMA SessionBooks ==
    ASSUME TypeOK, Books, TypeOK', NEW s \in Sessions, SessionAction(s)
    PROVE  Books'
<1>0. /\ s \in Callers /\ s \in Waiters
      /\ request \in [Sessions -> BOOLEAN] /\ pc \in [Sessions -> SessionPc]
      /\ queue \in [Sessions -> 0 .. OutboundCapacity] /\ OutboundCapacity \in Nat
      /\ resume \in [Sessions -> {"loop", "flushing", "draining"}]
      /\ write \in [Sessions -> {"none", "pending", "done"}]
      /\ GateTypeOK /\ Reserved /\ Guarded
    BY CallersAre DEF TypeOK, Books
<1>g. /\ pc[s] \in Holding => request[s]
      /\ pc[s] \in Free => ~request[s]
      /\ pc[s] = "writing" => (request[s] <=> resume[s] = "flushing")
    BY <1>0 DEF Guarded, Holding, Free
<1>w. ASSUME (\E on : arm(s, on)) \/ check(s) \/ park(s) \/ wake(s) \/ abandon_wait(s)
             \/ UNCHANGED gate
      PROVE  active' = active
    BY <1>w DEF arm, check, park, wake, abandon_wait, gate
<1> USE DEF workvars
<1>1. CASE EnterSelect(s)
    BY <1>0, <1>1, <1>g, <1>w, BooksGoto DEF EnterSelect, Holding, Free
<1>2. CASE PollAdmission(s)
    <2>1. PICK x \in {"draining", "select"} : Goto(s, x)
        BY <1>2 DEF PollAdmission
    <2> QED BY <1>0, <1>2, <1>g, <1>w, <2>1, BooksGoto DEF PollAdmission, Holding, Free
<1>3. CASE ReadFrame(s)
    BY <1>0, <1>3, <1>g, <1>w, BooksGoto DEF ReadFrame, polls_others, Holding, Free
<1>4. CASE SendRequest(s)
    BY <1>0, <1>4, <1>g, <1>w, BooksGoto DEF SendRequest, Holding, Free
<1>5. CASE SnapshotQueue(s)
    BY <1>0, <1>5, <1>g, <1>w, BooksGoto DEF SnapshotQueue, Holding, Free
<1>6. CASE ConnectionEnds(s)
    BY <1>0, <1>6, <1>g, <1>w, BooksGoto DEF ConnectionEnds, polls_others, Holding, Free
<1>7. CASE SeeCancellation(s)
    BY <1>0, <1>7, <1>g, <1>w, BooksGoto DEF SeeCancellation, polls_others, Holding, Free
<1>8. CASE CloseRegistration(s)
    <2>1. PICK x \in {"closing", "dropping"} : Goto(s, x)
        BY <1>8 DEF CloseRegistration
    <2> QED BY <1>0, <1>8, <1>g, <1>w, <2>1, BooksGoto DEF CloseRegistration, Holding, Free
<1>9. CASE TakeBatch(s)
    <2>1. pc' = [pc EXCEPT ![s] = "writing"] /\ queue' = [queue EXCEPT ![s] = @ - 1]
          /\ UNCHANGED <<request, write>> /\ queue[s] > 0
        BY <1>9 DEF TakeBatch, Goto
    <2>2. active' = active
        BY <1>9, <1>w DEF TakeBatch
    <2>3. /\ pc[s] \in {"select", "flushing", "draining"}
          /\ resume'[s] = "flushing" <=> pc[s] = "flushing"
          /\ \A t \in Sessions : t # s => resume'[t] = resume[t]
        BY <1>0, <1>9 DEF TakeBatch, polls_others
    <2>4. Reserved'
        BY <1>0, <2>1 DEF Reserved
    <2>5. Guarded'
        BY <1>0, <1>g, <2>1, <2>3 DEF Guarded, Holding, Free
    <2>6. \A t \in Sessions : batches(t)' = batches(t)
        BY <1>0, <2>1, <2>3 DEF batches
    <2>7. RequestsMove /\ BatchesMove
        BY <2>1, <2>2, <2>6 DEF RequestsMove, BatchesMove
    <2> QED BY <2>4, <2>5, <2>7, Recount DEF Books
<1>10. CASE EndWrite(s)
    <2>1. PICK x \in {resume[s], "failing"} : pc' = [pc EXCEPT ![s] = x]
        BY <1>10 DEF EndWrite, Goto
    <2>2. /\ UNCHANGED <<request, queue, write>> /\ pc[s] = "writing"
          /\ \A t \in Sessions : t # s => resume'[t] = resume[t]
        BY <1>0, <1>10 DEF EndWrite
    <2>3. x # "writing"
        BY <1>0, <2>1
    <2>4. active'["outbound"] = active["outbound"] - 1 /\ active'["request"] = active["request"]
        BY <1>0, <1>10, GateRetires DEF EndWrite, Kinds
    <2>5. Reserved'
        BY <1>0, <2>2 DEF Reserved
    <2>6. Guarded'
        BY <1>0, <1>g, <2>1, <2>2 DEF Guarded, Holding, Free
    <2>7. batches(s)' = batches(s) - 1 /\ \A t \in Sessions : t # s => batches(t)' = batches(t)
        BY <1>0, <2>1, <2>2, <2>3 DEF batches
    <2>8. RequestsMove /\ BatchesMove
        BY <2>2, <2>4, <2>7 DEF RequestsMove, BatchesMove
    <2> QED BY <2>5, <2>6, <2>8, Recount DEF Books
<1>11. CASE AdmitRequest(s)
    <2>1. CASE try_begin(s, "request") /\ request' = [request EXCEPT ![s] = TRUE]
               /\ Goto(s, "asking")
        <3>1. UNCHANGED <<resume, queue, write>> /\ pc[s] = "framed"
              /\ pc' = [pc EXCEPT ![s] = "asking"]
            BY <1>11, <2>1 DEF AdmitRequest, Goto
        <3>2. active'["request"] = active["request"] + 1 /\ active'["outbound"] = active["outbound"]
            BY <1>0, <2>1, GateBegins DEF Kinds
        <3>3. Reserved'
            BY <1>0, <3>1 DEF Reserved
        <3>4. Guarded'
            BY <1>0, <2>1, <3>1 DEF Guarded
        <3>5. \A t \in Sessions : batches(t)' = batches(t)
            BY <1>0, <3>1 DEF batches
        <3>6. ~request[s]
            BY <1>g, <3>1 DEF Free
        <3>7. RequestsMove /\ BatchesMove
            BY <2>1, <3>2, <3>5, <3>6 DEF RequestsMove, BatchesMove
        <3> QED BY <3>3, <3>4, <3>7, Recount DEF Books
    <2>2. CASE try_begin_refused(s, "request") /\ Goto(s, "draining") /\ UNCHANGED request
        <3>1. UNCHANGED <<active, resume, queue, write>> /\ pc[s] = "framed"
            BY <1>11, <2>2 DEF AdmitRequest, try_begin_refused
        <3> QED BY <1>g, <2>2, <3>1, BooksGoto DEF Holding, Free
    <2> QED BY <1>11, <2>1, <2>2 DEF AdmitRequest
<1>12. ASSUME retire(s, "request"), request[s], request' = [request EXCEPT ![s] = FALSE],
              UNCHANGED <<resume, queue, write>>, pc[s] # "writing",
              NEW x \in Free, pc' = [pc EXCEPT ![s] = x]
       PROVE  Books'
    <2>1. active'["request"] = active["request"] - 1 /\ active'["outbound"] = active["outbound"]
        BY <1>0, <1>12, GateRetires DEF Kinds
    <2>2. Reserved'
        BY <1>0, <1>12 DEF Reserved
    <2>3. Guarded'
        BY <1>0, <1>12 DEF Guarded, Free
    <2>4. \A t \in Sessions : batches(t)' = batches(t)
        BY <1>0, <1>12 DEF batches, Free
    <2>5. RequestsMove /\ BatchesMove
        BY <1>12, <2>1, <2>4 DEF RequestsMove, BatchesMove
    <2> QED BY <2>2, <2>3, <2>5, Recount DEF Books
<1>13. CASE EndRequest(s)
    BY <1>12, <1>13, <1>g DEF EndRequest, Goto, Holding, Free
<1>14. CASE Unwind(s)
    <2>1. CASE request[s]
        BY <1>12, <1>14, <2>1 DEF Unwind, Goto, Free
    <2>2. CASE ~request[s]
        BY <1>14, <1>w, <2>2, BooksGoto DEF Unwind, Holding, Free, gate
    <2> QED BY <2>1, <2>2
<1>15. CASE DropQueue(s)
    <2>1. CASE queue[s] > 0 /\ retire(s, "outbound") /\ queue' = [queue EXCEPT ![s] = @ - 1]
               /\ UNCHANGED pc
        <3>1. UNCHANGED <<request, resume, write>>
            BY <1>15 DEF DropQueue
        <3>2. active'["outbound"] = active["outbound"] - 1 /\ active'["request"] = active["request"]
            BY <1>0, <2>1, GateRetires DEF Kinds
        <3>3. Reserved'
            BY <1>0, <2>1, <3>1 DEF Reserved
        <3>4. Guarded'
            BY <1>0, <2>1, <3>1 DEF Guarded
        <3>5. batches(s)' = batches(s) - 1 /\ \A t \in Sessions : t # s => batches(t)' = batches(t)
            BY <1>0, <2>1, <3>1 DEF batches
        <3>6. RequestsMove /\ BatchesMove
            BY <3>1, <3>2, <3>5 DEF RequestsMove, BatchesMove
        <3> QED BY <3>3, <3>4, <3>6, Recount DEF Books
    <2>2. CASE Goto(s, "gone") /\ UNCHANGED <<gate, queue>>
        BY <1>15, <1>g, <1>w, <2>2, BooksGoto DEF DropQueue, Holding, Free, gate
    <2> QED BY <1>15, <2>1, <2>2 DEF DropQueue
<1> QED
    BY <1>1, <1>2, <1>3, <1>4, <1>5, <1>6, <1>7, <1>8, <1>9, <1>10, <1>11, <1>13, <1>14, <1>15
    DEF SessionAction

\* Where the World's work lets a session go on.
Onward ==
    /\ \A t \in Sessions :
          \/ pc'[t] = pc[t]
          \/ pc[t] \in Holding /\ pc'[t] \in Holding /\ request[t]
          \/ pc[t] = "closing" /\ pc'[t] = "dropping"
    /\ \A t \in Sessions : pc'[t] = "writing" <=> pc[t] = "writing"

LEMMA OnwardIs ==
    ASSUME TypeOK, Guarded, NEW s \in Sessions,
           \/ pc' = Answered(s, "waiting") \/ pc' = pc
           \/ pc' = IF pc[s] = "closing" THEN [pc EXCEPT ![s] = "dropping"] ELSE pc
    PROVE  Onward
<1>0. pc \in [Sessions -> SessionPc]
    BY DEF TypeOK
<1>1. CASE pc' = pc
    BY <1>1 DEF Onward
<1>2. CASE pc[s] = "waiting" /\ pc' = [pc EXCEPT ![s] = "replied"]
    <2>1. request[s] /\ pc[s] \in Holding /\ pc'[s] \in Holding /\ pc'[s] # "writing"
        BY <1>0, <1>2 DEF Guarded, Holding
    <2>2. \A t \in Sessions : t # s => pc'[t] = pc[t]
        BY <1>0, <1>2
    <2>3. pc[s] # "writing"
        BY <1>2
    <2> QED BY <2>1, <2>2, <2>3 DEF Onward
<1>3. CASE pc[s] = "closing" /\ pc' = [pc EXCEPT ![s] = "dropping"]
    <2>1. pc'[s] = "dropping" /\ pc[s] # "writing"
        BY <1>0, <1>3
    <2>2. \A t \in Sessions : t # s => pc'[t] = pc[t]
        BY <1>0, <1>3
    <2> QED BY <1>3, <2>1, <2>2 DEF Onward
<1> QED
    BY <1>1, <1>2, <1>3 DEF Answered

\* What the World's work leaves of the sessions.
LEMMA BooksWork ==
    ASSUME TypeOK, Books, TypeOK', UNCHANGED <<resume, request>>,
           Onward, Reserved', active'["request"] = active["request"], BatchesMove
    PROVE  Books'
<1>1. Guarded'
    BY DEF Books, Guarded, Holding, Onward
<1>2. RequestsMove
    BY DEF RequestsMove
<1> QED
    BY <1>1, <1>2, Recount DEF Books

\* A batch enters a queue.
LEMMA PublishBooks ==
    ASSUME TypeOK, Books, NEW p \in Sessions, Publish(p), write' = write,
           Onward
    PROVE  Reserved' /\ active'["request"] = active["request"] /\ BatchesMove
<1>0. World \in Callers /\ "outbound" \in Kinds /\ "request" \in Kinds /\ GateTypeOK
      /\ queue \in [Sessions -> 0 .. OutboundCapacity] /\ OutboundCapacity \in Nat
    BY CallersAre DEF Kinds, TypeOK
<1>1. active'["outbound"] = active["outbound"] + 1 /\ active'["request"] = active["request"]
    BY <1>0, GateBegins DEF Publish
<1>2. queue' = [queue EXCEPT ![p] = @ + 1] /\ has_room(p)
    BY DEF Publish
<1>3. Reserved'
    BY <1>0, <1>2 DEF has_room, Books, Reserved
<1>4. batches(p)' = batches(p) + 1 /\ \A t \in Sessions : t # p => batches(t)' = batches(t)
    BY <1>0, <1>2 DEF batches, Onward
<1> QED
    BY <1>1, <1>3, <1>4 DEF BatchesMove

LEMMA StillBooks ==
    ASSUME TypeOK, Books, UNCHANGED <<active, queue, write>>,
           Onward
    PROVE  Reserved' /\ active'["request"] = active["request"] /\ BatchesMove
<1>1. \A t \in Sessions : batches(t)' = batches(t)
    BY DEF batches, Onward
<1> QED
    BY <1>1 DEF Books, Reserved, BatchesMove

LEMMA WorldBooks ==
    ASSUME TypeOK, Books, TypeOK', NEW s \in Sessions, WorldAction(s)
    PROVE  Books'
<1>0. /\ World \in Callers /\ "outbound" \in Kinds /\ "request" \in Kinds /\ GateTypeOK
      /\ queue \in [Sessions -> 0 .. OutboundCapacity] /\ OutboundCapacity \in Nat
      /\ write \in [Sessions -> {"none", "pending", "done"}] /\ Guarded /\ Reserved
    BY CallersAre DEF Kinds, TypeOK, Books
<1>1. CASE RequestTurn(s)
    <2>0. UNCHANGED <<resume, request>>
        BY <1>1 DEF RequestTurn
    <2>1. pc' = Answered(s, "waiting") \/ pc' = pc
        BY <1>1 DEF RequestTurn
    <2>2. Onward
        BY <1>0, <2>1, OnwardIs
    <2>3. \/ UNCHANGED <<gate, queue, write>>
          \/ \E p \in Sessions : Deliver(p) /\ write' = write
          \/ /\ write[s] = "none" /\ has_room(s) /\ try_begin(World, "outbound")
             /\ write' = [write EXCEPT ![s] = "pending"] /\ UNCHANGED queue
        BY <1>1 DEF RequestTurn, DeliverNothing
    <2>4. CASE UNCHANGED <<gate, queue, write>>
        <3>1. UNCHANGED active
            BY <2>4 DEF gate
        <3> QED BY <2>0, <2>2, <2>4, <3>1, StillBooks, BooksWork
    <2>5. ASSUME NEW p \in Sessions, Deliver(p), write' = write PROVE Books'
        <3>1. CASE Publish(p)
            BY <2>0, <2>2, <2>5, <3>1, PublishBooks, BooksWork
        <3>2. CASE ~Publish(p)
            <4>1. UNCHANGED <<active, queue>>
                BY <2>5, <3>2 DEF Deliver, gate, try_begin_refused
            <4> QED BY <2>0, <2>2, <2>5, <4>1, StillBooks, BooksWork
        <3> QED BY <3>1, <3>2
    <2>6. CASE /\ write[s] = "none" /\ has_room(s) /\ try_begin(World, "outbound")
               /\ write' = [write EXCEPT ![s] = "pending"] /\ UNCHANGED queue
        <3>1. active'["outbound"] = active["outbound"] + 1 /\ active'["request"] = active["request"]
            BY <1>0, <2>6, GateBegins
        <3>2. Reserved'
            BY <1>0, <2>6 DEF has_room, Reserved
        <3>3. batches(s)' = batches(s) + 1 /\ \A t \in Sessions : t # s => batches(t)' = batches(t)
            BY <1>0, <2>2, <2>6 DEF batches, Onward
        <3>4. BatchesMove
            BY <3>1, <3>3 DEF BatchesMove
        <3> QED BY <2>0, <2>2, <3>1, <3>2, <3>4, BooksWork
    <2> QED BY <2>3, <2>4, <2>5, <2>6
<1>2. CASE ClosedTurn(s)
    <2>0. UNCHANGED <<resume, request, write>>
        BY <1>2 DEF ClosedTurn
    <2>1. Onward
        BY <1>0, <1>2, OnwardIs DEF ClosedTurn
    <2>2. UNCHANGED <<gate, queue>> \/ \E p \in Sessions : Publish(p)
        BY <1>2 DEF ClosedTurn
    <2>3. CASE UNCHANGED <<gate, queue>>
        <3>1. UNCHANGED <<active, queue>>
            BY <2>3 DEF gate
        <3> QED BY <2>0, <2>1, <3>1, StillBooks, BooksWork
    <2>4. CASE \E p \in Sessions : Publish(p)
        BY <2>0, <2>1, <2>4, PublishBooks, BooksWork
    <2> QED BY <2>2, <2>3, <2>4
<1>3. CASE FinalizeSettlement(s)
    <2>0. UNCHANGED <<pc, resume, request, write>> /\ Onward
        BY <1>3 DEF FinalizeSettlement, sessionvars, Onward
    <2>1. CASE Publish(s)
        BY <2>0, <2>1, PublishBooks, BooksWork
    <2>2. CASE UNCHANGED <<gate, queue>>
        <3>1. UNCHANGED <<active, queue>>
            BY <2>2 DEF gate
        <3> QED BY <2>0, <3>1, StillBooks, BooksWork
    <2> QED BY <1>3, <2>1, <2>2 DEF FinalizeSettlement
<1>4. CASE CompletionTurn(s)
    <2>0. /\ UNCHANGED <<resume, request>> /\ write[s] = "done"
          /\ write' = [write EXCEPT ![s] = "none"]
        BY <1>4 DEF CompletionTurn
    <2>1. pc' = Answered(s, "waiting") \/ pc' = pc
        BY <1>4 DEF CompletionTurn
    <2>2. Onward
        BY <1>0, <2>1, OnwardIs
    <2>3. CASE queue' = [queue EXCEPT ![s] = @ + 1] /\ UNCHANGED gate
        <3>1. active' = active
            BY <2>3 DEF gate
        <3>2. Reserved'
            BY <1>0, <2>0, <2>3 DEF Reserved
        <3>3. \A t \in Sessions : batches(t)' = batches(t)
            BY <1>0, <2>0, <2>2, <2>3 DEF batches, Onward
        <3>4. BatchesMove
            BY <3>1, <3>3 DEF BatchesMove
        <3> QED BY <2>0, <2>2, <3>1, <3>2, <3>4, BooksWork
    <2>4. CASE retire(World, "outbound") /\ UNCHANGED queue
        <3>1. active'["outbound"] = active["outbound"] - 1 /\ active'["request"] = active["request"]
            BY <1>0, <2>4, GateRetires
        <3>2. Reserved'
            BY <1>0, <2>0, <2>4 DEF Reserved
        <3>3. batches(s)' = batches(s) - 1 /\ \A t \in Sessions : t # s => batches(t)' = batches(t)
            BY <1>0, <2>0, <2>2, <2>4 DEF batches, Onward
        <3>4. BatchesMove
            BY <3>1, <3>3 DEF BatchesMove
        <3> QED BY <2>0, <2>2, <3>1, <3>2, <3>4, BooksWork
    <2> QED BY <1>4, <2>3, <2>4 DEF CompletionTurn
<1>5. CASE ProfileJob(s)
    <2>0. /\ UNCHANGED <<pc, resume, request, queue, active>> /\ write[s] = "pending"
          /\ write' = [write EXCEPT ![s] = "done"] /\ Onward
        BY <1>5 DEF ProfileJob, sessionvars, gate, Onward
    <2>1. Reserved'
        BY <1>0, <2>0 DEF Reserved
    <2>2. \A t \in Sessions : batches(t)' = batches(t)
        BY <1>0, <2>0 DEF batches
    <2>3. BatchesMove
        BY <2>0, <2>2 DEF BatchesMove
    <2> QED BY <2>0, <2>1, <2>3, BooksWork
<1>6. CASE RaceTick(s) \/ PumpTakes(s) \/ PumpCompletes(s) \/ ReportDeadLetter(s)
           \/ RetryDeadLetter(s)
    <2>0. UNCHANGED <<pc, resume, request, queue, write, active>>
        BY <1>6 DEF RaceTick, PumpTakes, PumpCompletes, ReportDeadLetter, RetryDeadLetter,
                    sessionvars, gate
    <2> QED BY <2>0, BooksFrame
<1> QED
    BY <1>1, <1>2, <1>3, <1>4, <1>5, <1>6 DEF WorldAction

LEMMA PhaseBooks ==
    ASSUME TypeOK, Books, TypeOK', PhaseStep \/ Asides \/ UNCHANGED vars
    PROVE  Books'
<1>1. UNCHANGED <<pc, resume, request, queue, write>>
    <2>1. CASE QuiesceTurn \/ ProducersTurn \/ SessionsTurn \/ ShutdownTurn \/ ForceShutdownTurn
        BY <2>1 DEF QuiesceTurn, ProducersTurn, SessionsTurn, ShutdownTurn, ForceShutdownTurn,
                    sessionvars, workvars
    <2>2. CASE ForceBypass \/ ForceStop \/ LeaveServing \/ LosePump \/ CloseRequests
        BY <2>2 DEF ForceBypass, ForceStop, LeaveServing, LosePump, CloseRequests,
                    supervises, sessionvars, workvars
    <2>8. CASE PumpMove
        BY <2>8 DEF PumpMove, PumpErrs, PumpStops, PumpFails, PumpBreaks, sessionvars
    <2>3. CASE DrainRequests \/ AbandonWire \/ AskWorld \/ HearWorld \/ HearProducers
        BY <2>3 DEF DrainRequests, DrainWait, AbandonWire, AskWorld, HearWorld, HearProducers,
                    supervises, sessionvars, workvars
    <2>4. CASE StopPump \/ StopProfile \/ DrainCompletions \/ CloseOutbound \/ DrainOutbound
        BY <2>4 DEF StopPump, StopProfile, DrainCompletions, CloseOutbound, DrainOutbound,
                    DrainWait, supervises, sessionvars, workvars
    <2>5. CASE AbortSessions \/ JoinSessions \/ StopWorld
        BY <2>5 DEF AbortSessions, JoinSessions, StopWorld, supervises, sessionvars, workvars
    <2>6. CASE Asides
        BY <2>6 DEF Asides, RequestShutdown, ForceFlag, TransportFails, NotifyWaiters,
                    sessionvars, workvars
    <2>7. CASE UNCHANGED vars
        BY <2>7 DEF vars, sessionvars, workvars
    <2> QED BY <2>1, <2>2, <2>3, <2>4, <2>5, <2>6, <2>7, <2>8 DEF PhaseStep
<1>2. active' = active
    <2>1. CASE QuiesceTurn \/ ProducersTurn \/ SessionsTurn \/ ShutdownTurn \/ ForceShutdownTurn
        BY <2>1 DEF QuiesceTurn, ProducersTurn, SessionsTurn, ShutdownTurn, ForceShutdownTurn, gate
    <2>2. CASE ForceBypass \/ ForceStop \/ LeaveServing \/ LosePump \/ CloseRequests
        BY <2>2 DEF ForceBypass, ForceStop, LeaveServing, LosePump, CloseRequests, gate,
                    force_bypass, close_admission
    <2>9. CASE PumpMove
        BY <2>9 DEF PumpMove, PumpErrs, PumpStops, PumpFails, PumpBreaks, gate
    <2>3. CASE AbandonWire \/ AskWorld \/ HearWorld \/ HearProducers
        BY <2>3 DEF AbandonWire, AskWorld, HearWorld, HearProducers, gate, force_bypass
    <2>4. CASE DrainRequests \/ DrainOutbound
        BY <2>4 DEF DrainRequests, DrainOutbound, DrainWait, arm, check, park, wake, abandon_wait
    <2>5. CASE StopPump \/ StopProfile \/ DrainCompletions \/ CloseOutbound
        BY <2>5 DEF StopPump, StopProfile, DrainCompletions, CloseOutbound, gate, close_admission
    <2>6. CASE AbortSessions \/ JoinSessions \/ StopWorld
        BY <2>6 DEF AbortSessions, JoinSessions, StopWorld, gate
    <2>7. CASE Asides
        BY <2>7 DEF Asides, RequestShutdown, ForceFlag, TransportFails, NotifyWaiters,
                    notify_waiters, gate
    <2>8. CASE UNCHANGED vars
        BY <2>8 DEF vars, gate
    <2> QED BY <2>1, <2>2, <2>3, <2>4, <2>5, <2>6, <2>7, <2>8, <2>9 DEF PhaseStep
<1> QED
    BY <1>1, <1>2, BooksFrame

--------------------------------------------------------------------------------
(* What sessions, the World's work and the environment leave of the phases.  *)

Works ==
    /\ UNCHANGED <<supvars, quiescing, sealed, running, pump, force_bypassed, accepting>>
    /\ operator' = operator \/ operator' = "flagged"
    /\ \A k \in Kinds : ~accepting[k] /\ active[k] = 0 => active'[k] = 0
    /\ waiting'[Supervisor].on = waiting[Supervisor].on
    /\ waiting'[Supervisor].phase = waiting[Supervisor].phase
    /\ quiescing /\ (\A s \in Sessions : lane[s] = "free") => \A s \in Sessions : lane'[s] = "free"
    /\ pump \in {"stopped", "failed"} /\ (\A s \in Sessions : lane[s] # "ready") =>
          \A s \in Sessions : lane'[s] # "ready"
    /\ quiescing /\ (\A s \in Sessions : write[s] = "none") => \A s \in Sessions : write'[s] = "none"

\* A session's command, or one that is taken.
Letters ==
    \/ UNCHANGED mailbox
    \/ mailbox # <<>> /\ mailbox' = Tail(mailbox)
    \/ \E type \in {"request", "closed"}, from \in Callers :
          running /\ Send(type, from) /\ (type = "request" => active["request"] # 0)

LEMMA QuiescedDrained ==
    ASSUME Typed, OnPath, Order, graceful, quiescing \/ stage = "quiesce"
    PROVE  active["request"] = 0
BY DEF Typed, OnPath, Order, Stages, AfterRequests, AfterQuiesce, AfterPump, AfterSeal,
       AfterClose, Teardown

LEMMA LettersKeep ==
    ASSUME TypeOK, OnPath, Order, Mailed, Letters,
           UNCHANGED <<stage, graceful, answer, quiescing, running, force_bypassed>>
    PROVE  Mailed'
<1>0. mailbox \in Seq(Command) /\ Typed /\ Len(mailbox) \in Nat
    BY TypesAre
<1>1. CASE UNCHANGED mailbox
    BY <1>1 DEF Mailed
<1>2. CASE mailbox # <<>> /\ mailbox' = Tail(mailbox)
    <2>1. Len(mailbox') \in Nat /\ Len(mailbox) = Len(mailbox') + 1
          /\ \A i \in 1 .. Len(mailbox') : mailbox'[i] = mailbox[i + 1] /\ i + 1 \in 1 .. Len(mailbox)
        BY <1>0, <1>2, Taken
    <2>2. \A i, j \in 1 .. Len(mailbox') : i < j <=> i + 1 < j + 1
        BY <2>1
    <2>3. \A i, j \in 1 .. Len(mailbox') : i + 1 = j + 1 => i = j
        BY <2>1
    <2>4. /\ \A i \in 1 .. Len(mailbox') : mailbox'[i].type \in Asking =>
                /\ answer = "asked"
                /\ stage = IF mailbox'[i].type = "shutdown" THEN "world" ELSE mailbox'[i].type
          /\ \A i \in 1 .. Len(mailbox') : mailbox'[i].type = "force_shutdown" =>
                force_bypassed \/ stage \in {"world", "done"}
          /\ graceful /\ quiescing => \A i \in 1 .. Len(mailbox') : mailbox'[i].type # "request"
        BY <2>1 DEF Mailed
    <2>5. \A i, j \in 1 .. Len(mailbox') :
              mailbox'[i].type \in Asking /\ mailbox'[j].type \in Asking => i = j
        BY <2>1, <2>3 DEF Mailed
    <2>6. graceful => \A i, j \in 1 .. Len(mailbox') :
              i < j /\ mailbox'[i].type = "quiesce" => mailbox'[j].type # "request"
        <3> SUFFICES ASSUME graceful, NEW i \in 1 .. Len(mailbox'), NEW j \in 1 .. Len(mailbox'),
                            i < j, mailbox'[i].type = "quiesce"
                     PROVE  mailbox'[j].type # "request"
            OBVIOUS
        <3>1. i + 1 \in 1 .. Len(mailbox) /\ j + 1 \in 1 .. Len(mailbox) /\ i + 1 < j + 1
            BY <2>1
        <3>2. mailbox[i + 1].type = "quiesce" => mailbox[j + 1].type # "request"
            BY <3>1 DEF Mailed
        <3> QED BY <2>1, <3>2
    <2> QED BY <1>2, <2>4, <2>5, <2>6 DEF Mailed
<1>3. ASSUME NEW type \in {"request", "closed"}, NEW from \in Callers, running,
             Send(type, from), type = "request" => active["request"] # 0
      PROVE  Mailed'
    <2>1. /\ Len(mailbox') = Len(mailbox) + 1
          /\ \A i \in 1 .. Len(mailbox) : mailbox'[i] = mailbox[i]
          /\ mailbox'[Len(mailbox) + 1].type = type
        BY <1>0, <1>3, Sent DEF CommandTypes
    <2>2. \A i \in 1 .. Len(mailbox') :
              \/ i \in 1 .. Len(mailbox) /\ mailbox'[i] = mailbox[i]
              \/ i = Len(mailbox) + 1 /\ mailbox'[i].type = type
        <3> SUFFICES ASSUME NEW i \in 1 .. Len(mailbox'), i \notin 1 .. Len(mailbox)
                     PROVE  i = Len(mailbox) + 1
            BY <2>1
        <3> QED BY <1>0, <2>1
    <2>3. type \notin Asking /\ type # "force_shutdown" /\ type # "quiesce"
        BY DEF Asking
    <2>4. graceful /\ type = "request" =>
              ~quiescing /\ \A i \in 1 .. Len(mailbox) : mailbox[i].type # "quiesce"
        <3>1. ASSUME graceful, type = "request", NEW i \in 1 .. Len(mailbox), mailbox[i].type = "quiesce"
              PROVE  stage = "quiesce"
            BY <3>1 DEF Mailed, Asking
        <3> QED BY <1>0, <1>3, <3>1, QuiescedDrained
    <2>5. /\ \A i \in 1 .. Len(mailbox') : mailbox'[i].type \in Asking =>
                /\ answer = "asked"
                /\ stage = IF mailbox'[i].type = "shutdown" THEN "world" ELSE mailbox'[i].type
          /\ \A i \in 1 .. Len(mailbox') : mailbox'[i].type = "force_shutdown" =>
                force_bypassed \/ stage \in {"world", "done"}
        BY <2>2, <2>3 DEF Mailed
    <2>6. graceful /\ quiescing => \A i \in 1 .. Len(mailbox') : mailbox'[i].type # "request"
        BY <2>2, <2>4 DEF Mailed
    <2>7. \A i, j \in 1 .. Len(mailbox') :
              mailbox'[i].type \in Asking /\ mailbox'[j].type \in Asking => i = j
        BY <2>2, <2>3 DEF Mailed
    <2>8. graceful => \A i, j \in 1 .. Len(mailbox') :
              i < j /\ mailbox'[i].type = "quiesce" => mailbox'[j].type # "request"
        <3> SUFFICES ASSUME graceful, NEW i \in 1 .. Len(mailbox'), NEW j \in 1 .. Len(mailbox'),
                            i < j, mailbox'[i].type = "quiesce", mailbox'[j].type = "request"
                     PROVE  FALSE
            OBVIOUS
        <3>1. i \in 1 .. Len(mailbox) /\ mailbox[i].type = "quiesce"
            BY <1>0, <2>1, <2>2, <2>3
        <3>2. CASE j \in 1 .. Len(mailbox)
            BY <2>1, <3>1, <3>2 DEF Mailed
        <3>3. CASE j \notin 1 .. Len(mailbox)
            BY <2>2, <2>4, <3>1, <3>3
        <3> QED BY <3>2, <3>3
    <2> QED BY <1>3, <2>5, <2>6, <2>7, <2>8 DEF Mailed
<1> QED
    BY <1>1, <1>2, <1>3 DEF Letters

LEMMA WorksKeep ==
    ASSUME TypeOK, Phases, Works, Letters
    PROVE  Phases'
<1>0. Typed /\ GateTypeOK
    BY TypesAre
<1>1. UNCHANGED <<stage, graceful, answer, quiescing, sealed, running, pump, force_bypassed,
                  accepting>>
    BY DEF Works, supvars
<1>2. OnPath'
    BY <1>1 DEF Phases, OnPath
<1>3. Mailed'
    BY <1>1, LettersKeep DEF Phases
<1>4. Talks'
    BY <1>1 DEF Phases, Talks, Works
<1>5. Waits'
    <2>1. waiting'[Supervisor].on = waiting[Supervisor].on
          /\ waiting'[Supervisor].phase = waiting[Supervisor].phase
        BY DEF Works
    <2>2. ASSUME waiting[Supervisor].phase = "drained"
          PROVE  active'[waiting[Supervisor].on] = 0
        <3>1. waiting[Supervisor].on \in Kinds /\ active[waiting[Supervisor].on] = 0
            BY <2>2 DEF Phases, Waits, Kinds
        <3>2. ~accepting[waiting[Supervisor].on]
            BY <2>2 DEF Phases, Waits, Order, AfterClose, Kinds
        <3> QED BY <3>1, <3>2 DEF Works
    <2> QED BY <1>1, <2>1, <2>2 DEF Phases, Waits
<1>6. Order'
    <2>1. graceful /\ stage \in AfterRequests => active'["request"] = 0
        BY DEF Phases, Order, Works, Kinds
    <2>2. ~force_bypassed /\ stage \in Teardown => active'["outbound"] = 0
        BY DEF Phases, Order, Works, Kinds, AfterClose
    <2>3. sealed => \A s \in Sessions : write'[s] = "none"
        BY DEF Phases, Order, Works
    <2>4. ~force_bypassed /\ pump = "stopped" => \A s \in Sessions : lane'[s] = "free"
        BY DEF Phases, Order, Works
    <2>5. Order
        BY DEF Phases
    <2>6. ~force_bypassed /\ sealed => \A s \in Sessions : lane'[s] # "ready"
        BY DEF Phases, Order, Works
    <2> QED BY <1>1, <2>1, <2>2, <2>3, <2>4, <2>5, <2>6 DEF Order
<1> QED
    BY <1>2, <1>3, <1>4, <1>5, <1>6 DEF Phases

\* What such a step may do to the gate.
Gently ==
    /\ UNCHANGED <<force_bypassed, accepting>>
    /\ \A k \in Kinds : ~accepting[k] /\ active[k] = 0 => active'[k] = 0
    /\ waiting'[Supervisor].on = waiting[Supervisor].on
    /\ waiting'[Supervisor].phase = waiting[Supervisor].phase

LEMMA GentleGate ==
    ASSUME TypeOK, Books,
           \/ UNCHANGED gate
           \/ \E c \in Callers, k \in Kinds :
                 try_begin(c, k) \/ try_begin_refused(c, k) \/ retire(c, k)
           \/ \E c \in Callers : notify_waiters(c)
           \/ \E w \in Sessions :
                 \/ \E on \in Kinds \cup {"admission"} : arm(w, on)
                 \/ check(w) \/ park(w) \/ wake(w) \/ abandon_wait(w)
    PROVE  Gently
<1>0. GateTypeOK /\ Supervisor \in Waiters /\ Supervisor \notin Sessions /\ Sessions \subseteq Waiters
    BY CallersAre DEF TypeOK
<1>1. CASE UNCHANGED gate
    BY <1>1 DEF gate, Gently
<1>2. ASSUME NEW c \in Callers, NEW k \in Kinds, try_begin(c, k) PROVE Gently
    <2>1. accepting[k] /\ \A j \in Kinds : j # k => active'[j] = active[j]
        BY <1>0, <1>2, GateBegins DEF try_begin, admits
    <2> QED BY <1>2, <2>1 DEF try_begin, Gently
<1>3. ASSUME NEW c \in Callers, NEW k \in Kinds, try_begin_refused(c, k) PROVE Gently
    <2>1. ~accepting[k]
        BY <1>3, NeverFull DEF try_begin_refused
    <2>2. accepting' = accepting
        BY <1>0, <1>3, <2>1 DEF try_begin_refused, GateTypeOK
    <2> QED BY <1>3, <2>2 DEF try_begin_refused, Gently
<1>4. ASSUME NEW c \in Callers, NEW k \in Kinds, retire(c, k) PROVE Gently
    <2>1. active[k] # 0 /\ \A j \in Kinds : j # k => active'[j] = active[j]
        BY <1>0, <1>4, GateRetires
    <2> QED BY <1>4, <2>1 DEF retire, Gently
<1>5. ASSUME NEW c \in Callers, notify_waiters(c) PROVE Gently
    BY <1>0, <1>5, GateNotifies DEF notify_waiters, Gently
<1>6. ASSUME NEW w \in Sessions,
             \/ \E on \in Kinds \cup {"admission"} : arm(w, on)
             \/ check(w) \/ park(w) \/ wake(w) \/ abandon_wait(w)
      PROVE  Gently
    <2>1. w \in Waiters /\ w # Supervisor
        BY <1>0
    <2>2. /\ active' = active
          /\ UNCHANGED <<accepting, force_bypassed, notifying>>
          /\ \A v \in Waiters : v # w => waiting'[v] = waiting[v]
        BY <1>0, <1>6, <2>1, GateWaits
    <2>3. waiting'[Supervisor] = waiting[Supervisor]
        BY <1>0, <2>1, <2>2
    <2> QED BY <2>2, <2>3 DEF Gently
<1> QED
    BY <1>1, <1>2, <1>3, <1>4, <1>5, <1>6

LEMMA SessionWorks ==
    ASSUME TypeOK, Books, NEW s \in Sessions, SessionAction(s)
    PROVE  Works /\ Letters
<1>0. s \in Callers /\ "request" \in Kinds /\ "outbound" \in Kinds /\ "admission" \in Kinds \cup {"admission"}
    BY CallersAre DEF Kinds
<1>1. Gently
    <2>1. CASE EnterSelect(s)
        BY <1>0, <2>1, GentleGate DEF EnterSelect
    <2>2. CASE PollAdmission(s)
        BY <2>2, GentleGate DEF PollAdmission
    <2>3. CASE TakeBatch(s)
        BY <2>3, GentleGate DEF TakeBatch
    <2>4. CASE EndWrite(s)
        BY <1>0, <2>4, GentleGate DEF EndWrite
    <2>5. CASE AdmitRequest(s)
        BY <1>0, <2>5, GentleGate DEF AdmitRequest
    <2>6. CASE SendRequest(s) \/ SnapshotQueue(s) \/ CloseRegistration(s)
        BY <2>6, GentleGate DEF SendRequest, SnapshotQueue, CloseRegistration
    <2>7. CASE EndRequest(s)
        BY <1>0, <2>7, GentleGate DEF EndRequest
    <2>8. CASE SeeCancellation(s) \/ ConnectionEnds(s)
        BY <2>8, GentleGate DEF SeeCancellation, ConnectionEnds
    <2>9. CASE Unwind(s)
        <3>1. retire(s, "request") \/ UNCHANGED gate
            BY <2>9 DEF Unwind, gate
        <3> QED BY <1>0, <3>1, GentleGate
    <2>10. CASE DropQueue(s)
        <3>1. retire(s, "outbound") \/ UNCHANGED gate
            BY <2>10 DEF DropQueue, gate
        <3> QED BY <1>0, <3>1, GentleGate
    <2>11. CASE ReadFrame(s)
        BY <2>11, GentleGate DEF ReadFrame
    <2> QED
        BY <2>1, <2>2, <2>3, <2>4, <2>5, <2>6, <2>7, <2>8, <2>9, <2>10, <2>11 DEF SessionAction
<1>2. UNCHANGED <<supvars, quiescing, sealed, running, pump, operator, lane, write>>
    <2> USE DEF worldvars, workvars, opvars
    <2>1. CASE EnterSelect(s) \/ PollAdmission(s) \/ TakeBatch(s) \/ EndWrite(s) \/ AdmitRequest(s)
        BY <2>1 DEF EnterSelect, PollAdmission, TakeBatch, EndWrite, AdmitRequest
    <2>2. CASE SendRequest(s) \/ SnapshotQueue(s) \/ EndRequest(s) \/ SeeCancellation(s)
        BY <2>2 DEF SendRequest, SnapshotQueue, EndRequest, SeeCancellation
    <2>3. CASE Unwind(s) \/ CloseRegistration(s) \/ DropQueue(s) \/ ReadFrame(s) \/ ConnectionEnds(s)
        BY <2>3 DEF Unwind, CloseRegistration, DropQueue, ReadFrame, ConnectionEnds
    <2> QED BY <2>1, <2>2, <2>3 DEF SessionAction
<1>3. Letters
    <2>1. CASE SendRequest(s)
        <3>1. request[s]
            BY <2>1 DEF SendRequest, Books, Guarded
        <3>2. active["request"] # 0
            BY <3>1, NothingLeft
        <3> QED BY <1>0, <2>1, <3>2 DEF SendRequest, Letters
    <2>2. CASE CloseRegistration(s)
        BY <1>0, <2>2 DEF CloseRegistration, Letters
    <2>3. CASE ~SendRequest(s) /\ ~CloseRegistration(s)
        <3>1. UNCHANGED mailbox
            BY <2>3 DEF SessionAction, EnterSelect, PollAdmission, TakeBatch, EndWrite,
                AdmitRequest, SnapshotQueue, EndRequest, SeeCancellation, Unwind, DropQueue,
                ReadFrame, ConnectionEnds
        <3> QED BY <3>1 DEF Letters
    <2> QED BY <2>1, <2>2, <2>3
<1>4. /\ quiescing /\ (\A t \in Sessions : lane[t] = "free") => \A t \in Sessions : lane'[t] = "free"
      /\ (\A t \in Sessions : lane[t] # "ready") => \A t \in Sessions : lane'[t] # "ready"
      /\ quiescing /\ (\A t \in Sessions : write[t] = "none") => \A t \in Sessions : write'[t] = "none"
      /\ operator' = operator
      /\ UNCHANGED <<supvars, quiescing, sealed, running, pump>>
    BY <1>2
<1> QED
    BY <1>1, <1>3, <1>4 DEF Works, Gently

LEMMA WorldWorks ==
    ASSUME TypeOK, Books, NEW s \in Sessions, WorldAction(s)
    PROVE  Works /\ Letters
<1>0. World \in Callers /\ "outbound" \in Kinds
    BY CallersAre DEF Kinds
<1>1. Gently
    <2>1. ASSUME NEW p, Publish(p) PROVE Gently
        BY <1>0, <2>1, GentleGate DEF Publish
    <2>2. ASSUME NEW p, Deliver(p) PROVE Gently
        BY <1>0, <2>1, <2>2, GentleGate DEF Deliver
    <2>3. CASE RequestTurn(s)
        <3>1. UNCHANGED gate \/ (\E p \in Sessions : Deliver(p)) \/ try_begin(World, "outbound")
            BY <2>3 DEF RequestTurn, DeliverNothing, gate
        <3> QED BY <1>0, <2>2, <3>1, GentleGate
    <2>4. CASE ClosedTurn(s)
        <3>1. UNCHANGED gate \/ (\E p \in Sessions : Publish(p))
            BY <2>4 DEF ClosedTurn, gate
        <3> QED BY <2>1, <3>1, GentleGate
    <2>5. CASE FinalizeSettlement(s)
        <3>1. UNCHANGED gate \/ Publish(s)
            BY <2>5 DEF FinalizeSettlement, gate
        <3> QED BY <2>1, <3>1, GentleGate
    <2>6. CASE CompletionTurn(s)
        BY <1>0, <2>6, GentleGate DEF CompletionTurn
    <2>7. CASE RaceTick(s) \/ ProfileJob(s) \/ PumpTakes(s) \/ PumpCompletes(s)
               \/ ReportDeadLetter(s) \/ RetryDeadLetter(s)
        <3>1. UNCHANGED gate
            BY <2>7 DEF RaceTick, ProfileJob, PumpTakes, PumpCompletes, ReportDeadLetter,
                        RetryDeadLetter, gate
        <3> QED BY <3>1, GentleGate
    <2> QED BY <2>3, <2>4, <2>5, <2>6, <2>7 DEF WorldAction
<1>2. UNCHANGED <<supvars, quiescing, sealed, running, pump, operator>>
    <2> USE DEF worldvars, workvars, opvars
    <2>1. CASE RequestTurn(s) \/ ClosedTurn(s) \/ RaceTick(s) \/ FinalizeSettlement(s)
        BY <2>1 DEF RequestTurn, ClosedTurn, RaceTick, FinalizeSettlement
    <2>2. CASE CompletionTurn(s) \/ ProfileJob(s) \/ PumpTakes(s) \/ PumpCompletes(s)
        BY <2>2 DEF CompletionTurn, ProfileJob, PumpTakes, PumpCompletes
    <2>3. CASE ReportDeadLetter(s) \/ RetryDeadLetter(s)
        BY <2>3 DEF ReportDeadLetter, RetryDeadLetter
    <2> QED BY <2>1, <2>2, <2>3 DEF WorldAction
<1>3. Letters
    <2>1. CASE RequestTurn(s) \/ ClosedTurn(s)
        BY <2>1 DEF RequestTurn, ClosedTurn, Turn, Letters
    <2>2. CASE ~RequestTurn(s) /\ ~ClosedTurn(s)
        <3>1. UNCHANGED mailbox
            BY <2>2 DEF WorldAction, RaceTick, FinalizeSettlement, CompletionTurn,
                ProfileJob, PumpTakes, PumpCompletes, ReportDeadLetter, RetryDeadLetter
        <3> QED BY <3>1 DEF Letters
    <2> QED BY <2>1, <2>2
<1>4. ASSUME quiescing, \A t \in Sessions : lane[t] = "free"
      PROVE  lane' = lane
    <2>1. CASE RequestTurn(s)
        BY <1>4, <2>1 DEF RequestTurn, serves
    <2>2. CASE ClosedTurn(s)
        BY <1>4, <2>2 DEF ClosedTurn
    <2>3. CASE ~RequestTurn(s) /\ ~ClosedTurn(s)
        BY <1>4, <2>3 DEF WorldAction, RaceTick, FinalizeSettlement, CompletionTurn,
            ProfileJob, PumpTakes, PumpCompletes, ReportDeadLetter, RetryDeadLetter
    <2> QED BY <2>1, <2>2, <2>3
<1>6. ASSUME pump \in {"stopped", "failed"}, \A t \in Sessions : lane[t] # "ready"
      PROVE  \A t \in Sessions : lane'[t] # "ready"
    <2> USE DEF workvars
    <2>0. lane \in [Sessions -> {"free", "racing", "queued", "inflight", "ready", "failed"}]
        BY DEF TypeOK
    <2>1. CASE RequestTurn(s)
        BY <1>6, <2>0, <2>1 DEF RequestTurn
    <2>2. CASE ClosedTurn(s)
        BY <1>6, <2>0, <2>2 DEF ClosedTurn
    <2>3. CASE RaceTick(s) \/ FinalizeSettlement(s)
        BY <1>6, <2>0, <2>3 DEF RaceTick, FinalizeSettlement
    <2>4. CASE CompletionTurn(s) \/ ProfileJob(s) \/ PumpCompletes(s) \/ ReportDeadLetter(s)
        BY <1>6, <2>4 DEF CompletionTurn, ProfileJob, PumpCompletes, pump_ended, ReportDeadLetter
    <2>5. CASE PumpTakes(s) \/ RetryDeadLetter(s)
        BY <1>6, <2>0, <2>5 DEF PumpTakes, RetryDeadLetter
    <2> QED BY <2>1, <2>2, <2>3, <2>4, <2>5 DEF WorldAction
<1>5. ASSUME quiescing, \A t \in Sessions : write[t] = "none"
      PROVE  write' = write
    <2>1. CASE RequestTurn(s)
        BY <1>5, <2>1 DEF RequestTurn, serves
    <2>2. CASE CompletionTurn(s) \/ ProfileJob(s)
        BY <1>5, <2>2 DEF CompletionTurn, ProfileJob
    <2>3. CASE ~RequestTurn(s) /\ ~CompletionTurn(s) /\ ~ProfileJob(s)
        BY <2>3 DEF WorldAction, RaceTick, FinalizeSettlement, ClosedTurn,
            PumpTakes, PumpCompletes, ReportDeadLetter, RetryDeadLetter
    <2> QED BY <2>1, <2>2, <2>3
<1> QED
    BY <1>1, <1>2, <1>3, <1>4, <1>5, <1>6 DEF Works, Gently

LEMMA AsideWorks ==
    ASSUME TypeOK, Books, Asides
    PROVE  Works /\ Letters
<1>1. Gently
    <2>1. CASE RequestShutdown \/ ForceFlag \/ TransportFails
        <3>1. UNCHANGED gate
            BY <2>1 DEF RequestShutdown, ForceFlag, TransportFails, gate
        <3> QED BY <3>1, GentleGate
    <2>2. CASE \E c \in Callers : NotifyWaiters(c)
        BY <2>2, GentleGate DEF NotifyWaiters
    <2> QED BY <2>1, <2>2 DEF Asides
<1>2. /\ UNCHANGED <<supvars, quiescing, sealed, running, pump, lane, write, mailbox>>
      /\ operator' = operator \/ operator' = "flagged"
    BY DEF Asides, RequestShutdown, ForceFlag, TransportFails, NotifyWaiters, worldvars,
           workvars, opvars
<1> QED
    BY <1>1, <1>2 DEF Works, Gently, Letters

--------------------------------------------------------------------------------
(* The mailbox, as the phases move it.                                      *)

LEMMA PhasesInit ==
    ASSUME Init
    PROVE  Phases
<1>0. Supervisor \in Waiters
    BY CallersAre
<1>1. waiting[Supervisor].phase = "idle"
    BY <1>0 DEF Init, GateInit
<1>2. /\ stage = "serving" /\ ~graceful /\ ~quiescing /\ ~sealed /\ running /\ answer = "none"
      /\ operator = "idle" /\ pump = "running" /\ mailbox = <<>> /\ ~force_bypassed
      /\ accepting["outbound"] /\ Len(mailbox) = 0
    BY DEF Init, GateInit, Kinds
<1>3. OnPath
    BY <1>2 DEF OnPath
<1>4. Mailed
    BY <1>2 DEF Mailed
<1>5. Talks
    BY <1>2 DEF Talks
<1>6. Waits
    BY <1>1 DEF Waits
<1>7. Order
    BY <1>2 DEF Order, AfterRequests, AfterQuiesce, AfterPump, AfterSeal, AfterClose, Teardown
<1> QED
    BY <1>3, <1>4, <1>5, <1>6, <1>7 DEF Phases

\* Nothing is asked of the World.
Silent == \A i \in 1 .. Len(mailbox) : mailbox[i].type \notin Asking

LEMMA SilentIs ==
    ASSUME Mailed,
           \/ answer # "asked" \/ ~running
           \/ stage \notin {"quiesce", "producers", "sessions", "world"}
    PROVE  Silent
<1>1. CASE ~running
    <2>1. Len(mailbox) = 0
        BY <1>1 DEF Mailed
    <2> QED BY <2>1 DEF Silent
<1>2. CASE answer # "asked"
    BY <1>2 DEF Mailed, Silent
<1>3. CASE stage \notin {"quiesce", "producers", "sessions", "world"}
    BY <1>3 DEF Mailed, Silent, Asking
<1> QED
    BY <1>1, <1>2, <1>3

\* What else the mailbox relies on.
Settled ==
    /\ running' = running
    /\ force_bypassed => force_bypassed'
    /\ stage \in {"world", "done"} => force_bypassed' \/ stage' \in {"world", "done"}
    /\ graceful' /\ quiescing' => graceful /\ quiescing

\* The supervisor goes on when nothing is asked.
LEMMA MailStays ==
    ASSUME Mailed, Silent, Settled, mailbox' = mailbox
    PROVE  Mailed'
<1>1. \A i \in 1 .. Len(mailbox) : mailbox[i].type # "quiesce"
    BY DEF Silent, Asking
<1>2. \A i \in 1 .. Len(mailbox) : mailbox[i].type = "force_shutdown" =>
          force_bypassed' \/ stage' \in {"world", "done"}
    BY DEF Mailed, Settled
<1>3. graceful' /\ quiescing' => \A i \in 1 .. Len(mailbox) : mailbox[i].type # "request"
    BY DEF Mailed, Settled
<1>4. ~running' => mailbox' = <<>>
    BY DEF Mailed, Settled
<1> QED
    BY <1>1, <1>2, <1>3, <1>4 DEF Mailed, Silent

LEMMA MailEmpties ==
    ASSUME mailbox' = <<>>
    PROVE  Mailed'
<1>1. Len(mailbox') = 0
    BY Emptied
<1> QED
    BY <1>1 DEF Mailed

\* The World takes the command that was asked.
LEMMA AskTaken ==
    ASSUME mailbox \in Seq(Command), Mailed, mailbox # <<>>, mailbox' = Tail(mailbox),
           Head(mailbox).type \in Asking,
           UNCHANGED <<stage, graceful, force_bypassed, running>>,
           quiescing' = quiescing \/ Head(mailbox).type = "quiesce"
    PROVE  Mailed'
<1>1. /\ Len(mailbox') \in Nat /\ Len(mailbox) = Len(mailbox') + 1 /\ mailbox[1] = Head(mailbox)
      /\ \A i \in 1 .. Len(mailbox') : mailbox'[i] = mailbox[i + 1] /\ i + 1 \in 1 .. Len(mailbox)
      /\ 1 \in 1 .. Len(mailbox)
    BY Taken
<1>2. \A i \in 1 .. Len(mailbox') : i + 1 # 1 /\ 1 < i + 1
    BY <1>1
<1>3. \A i \in 1 .. Len(mailbox') : mailbox'[i].type \notin Asking
    BY <1>1, <1>2 DEF Mailed
<1>4. \A i \in 1 .. Len(mailbox') : mailbox'[i].type = "force_shutdown" =>
          force_bypassed' \/ stage' \in {"world", "done"}
    BY <1>1 DEF Mailed
<1>5. graceful' /\ quiescing' => \A i \in 1 .. Len(mailbox') : mailbox'[i].type # "request"
    <2>1. CASE Head(mailbox).type = "quiesce"
        BY <1>1, <1>2, <2>1 DEF Mailed
    <2>2. CASE quiescing' = quiescing
        BY <1>1, <2>2 DEF Mailed
    <2> QED BY <2>1, <2>2
<1>6. \A i \in 1 .. Len(mailbox') : mailbox'[i].type # "quiesce"
    BY <1>3 DEF Asking
<1>7. running'
    BY DEF Mailed
<1> QED
    BY <1>3, <1>4, <1>5, <1>6, <1>7 DEF Mailed

\* The supervisor asks, when nothing is asked yet.
LEMMA AskSent ==
    ASSUME mailbox \in Seq(Command), Mailed, Silent, NEW from \in Callers,
           NEW type \in {"quiesce", "producers", "sessions", "shutdown"}, Send(type, from),
           stage = IF type = "shutdown" THEN "world" ELSE type, answer' = "asked", running,
           UNCHANGED <<stage, graceful, quiescing, running, force_bypassed>>
    PROVE  Mailed'
<1>0. Len(mailbox) \in Nat /\ type \in CommandTypes
    BY DEF CommandTypes
<1>1. /\ Len(mailbox') = Len(mailbox) + 1
      /\ \A i \in 1 .. Len(mailbox) : mailbox'[i] = mailbox[i]
      /\ mailbox'[Len(mailbox) + 1].type = type
    BY <1>0, Sent
<1>2. \A i \in 1 .. Len(mailbox') :
          \/ i \in 1 .. Len(mailbox) /\ mailbox'[i] = mailbox[i]
          \/ i = Len(mailbox) + 1 /\ mailbox'[i].type = type
    BY <1>0, <1>1
<1>3. type # "request" /\ type # "force_shutdown"
    OBVIOUS
<1>4. \A i \in 1 .. Len(mailbox') : mailbox'[i].type \in Asking =>
          i = Len(mailbox) + 1 /\ mailbox'[i].type = type
    BY <1>2 DEF Silent
<1>5. \A i \in 1 .. Len(mailbox') : mailbox'[i].type = "force_shutdown" =>
          force_bypassed' \/ stage' \in {"world", "done"}
    BY <1>2, <1>3 DEF Mailed
<1>6. graceful' /\ quiescing' => \A i \in 1 .. Len(mailbox') : mailbox'[i].type # "request"
    BY <1>2, <1>3 DEF Mailed
<1>7. \A i, j \in 1 .. Len(mailbox') : i < j /\ mailbox'[i].type = "quiesce" => FALSE
    <2> SUFFICES ASSUME NEW i \in 1 .. Len(mailbox'), NEW j \in 1 .. Len(mailbox'),
                        i < j, mailbox'[i].type = "quiesce"
                 PROVE  FALSE
        OBVIOUS
    <2>1. i = Len(mailbox) + 1
        BY <1>4 DEF Asking
    <2> QED BY <1>0, <1>1, <2>1
<1>8. \A i \in 1 .. Len(mailbox') : mailbox'[i].type \in Asking =>
          answer' = "asked" /\ stage' = IF mailbox'[i].type = "shutdown" THEN "world"
                                        ELSE mailbox'[i].type
    BY <1>4
<1>9. \A i, j \in 1 .. Len(mailbox') :
          mailbox'[i].type \in Asking /\ mailbox'[j].type \in Asking => i = j
    BY <1>4
<1> QED
    BY <1>5, <1>6, <1>7, <1>8, <1>9 DEF Mailed

\* The World is told to stop at once.
LEMMA ForceSent ==
    ASSUME mailbox \in Seq(Command), Mailed, NEW from \in Callers, Send("force_shutdown", from),
           force_bypassed \/ stage \in {"world", "done"}, running,
           answer' = answer \/ Silent,
           UNCHANGED <<stage, graceful, quiescing, running, force_bypassed>>
    PROVE  Mailed'
<1>0. Len(mailbox) \in Nat /\ "force_shutdown" \in CommandTypes
    BY DEF CommandTypes
<1>1. /\ Len(mailbox') = Len(mailbox) + 1
      /\ \A i \in 1 .. Len(mailbox) : mailbox'[i] = mailbox[i]
      /\ mailbox'[Len(mailbox) + 1].type = "force_shutdown"
    BY <1>0, Sent
<1>2. \A i \in 1 .. Len(mailbox') :
          \/ i \in 1 .. Len(mailbox) /\ mailbox'[i] = mailbox[i]
          \/ i = Len(mailbox) + 1 /\ mailbox'[i].type = "force_shutdown"
    BY <1>0, <1>1
<1>3. "force_shutdown" \notin Asking
    BY DEF Asking
<1>4. \A i \in 1 .. Len(mailbox') : mailbox'[i].type \in Asking =>
          /\ i \in 1 .. Len(mailbox) /\ mailbox'[i] = mailbox[i] /\ answer' = answer
    BY <1>2, <1>3 DEF Silent
<1>5. \A i \in 1 .. Len(mailbox') : mailbox'[i].type \in Asking =>
          answer' = "asked" /\ stage' = IF mailbox'[i].type = "shutdown" THEN "world"
                                        ELSE mailbox'[i].type
    BY <1>4 DEF Mailed
<1>6. \A i, j \in 1 .. Len(mailbox') :
          mailbox'[i].type \in Asking /\ mailbox'[j].type \in Asking => i = j
    BY <1>4 DEF Mailed
<1>7. graceful' /\ quiescing' => \A i \in 1 .. Len(mailbox') : mailbox'[i].type # "request"
    BY <1>2 DEF Mailed
<1>8. graceful' => \A i, j \in 1 .. Len(mailbox') :
          i < j /\ mailbox'[i].type = "quiesce" => mailbox'[j].type # "request"
    <2> SUFFICES ASSUME graceful, NEW i \in 1 .. Len(mailbox'), NEW j \in 1 .. Len(mailbox'),
                        i < j, mailbox'[i].type = "quiesce", mailbox'[j].type = "request"
                 PROVE  FALSE
        OBVIOUS
    <2>1. /\ i \in 1 .. Len(mailbox) /\ mailbox'[i] = mailbox[i]
          /\ j \in 1 .. Len(mailbox) /\ mailbox'[j] = mailbox[j]
        BY <1>2
    <2> QED BY <2>1 DEF Mailed
<1> QED
    BY <1>5, <1>6, <1>7, <1>8 DEF Mailed

--------------------------------------------------------------------------------
(* Each phase leaves the next what it relies on.                            *)

LEMMA WaitsStay ==
    ASSUME Waits, UNCHANGED <<waiting, active>>, force_bypassed => force_bypassed',
           stage' = stage \/ stage \notin {"request_drain", "outbound_drain"}
    PROVE  Waits'
<1>1. CASE waiting[Supervisor].phase = "idle"
    BY <1>1 DEF Waits
<1>2. CASE stage' = stage
    BY <1>2 DEF Waits
<1> QED
    BY <1>1, <1>2 DEF Waits

\* The World's turns.
LEMMA TurnKeeps ==
    ASSUME TypeOK, Books, Phases, QuiesceTurn \/ ProducersTurn \/ SessionsTurn
    PROVE  Phases'
<1>0. /\ OnPath /\ Mailed /\ Talks /\ Waits /\ Order /\ mailbox \in Seq(Command)
      /\ GateTypeOK /\ Typed
    BY TypesAre DEF Phases
<1>1. ASSUME NEW type \in {"quiesce", "producers", "sessions"}, Turn(type, Supervisor)
      PROVE  /\ mailbox # <<>> /\ mailbox' = Tail(mailbox) /\ Head(mailbox).type = type
             /\ running /\ stage = type /\ answer = "asked"
    <2>1. mailbox # <<>> /\ mailbox' = Tail(mailbox) /\ Head(mailbox).type = type /\ running
        BY <1>1 DEF Turn
    <2>2. Head(mailbox) = mailbox[1] /\ 1 \in 1 .. Len(mailbox)
        BY <1>0, <2>1
    <2> QED BY <1>0, <2>1, <2>2 DEF Mailed, Asking
<1>2. CASE QuiesceTurn
    <2>1. /\ mailbox # <<>> /\ mailbox' = Tail(mailbox) /\ Head(mailbox).type = "quiesce"
          /\ stage = "quiesce"
        BY <1>1, <1>2 DEF QuiesceTurn
    <2>2. /\ quiescing' = TRUE /\ answer' = "true"
          /\ UNCHANGED <<stage, graceful, sealed, running, lane, write, pump, operator,
                         accepting, active, force_bypassed, waiting>>
        BY <1>2 DEF QuiesceTurn, workvars, opvars, gate
    <2>3. OnPath'
        BY <1>0, <2>2 DEF OnPath
    <2>4. Mailed'
        BY <1>0, <2>1, <2>2, AskTaken DEF Asking
    <2>5. Talks'
        BY <1>0, <2>1, <2>2 DEF Talks
    <2>6. Waits'
        BY <1>0, <2>2, WaitsStay
    <2>7. Order'
        BY <1>0, <2>1, <2>2 DEF Order
    <2> QED BY <2>3, <2>4, <2>5, <2>6, <2>7 DEF Phases
<1>3. CASE ProducersTurn
    <2>1. /\ mailbox # <<>> /\ mailbox' = Tail(mailbox) /\ Head(mailbox).type = "producers"
          /\ stage = "producers"
        BY <1>1, <1>3 DEF ProducersTurn
    <2>2. /\ quiescing /\ sealed' = producers_drained
          /\ answer' = IF producers_drained THEN "true" ELSE "false"
          /\ UNCHANGED <<stage, graceful, quiescing, running, lane, write, pump, operator,
                         accepting, active, force_bypassed, waiting>>
        BY <1>3 DEF ProducersTurn, workvars, opvars, gate
    <2>3. OnPath'
        BY <1>0, <2>2 DEF OnPath
    <2>4. Mailed'
        BY <1>0, <2>1, <2>2, AskTaken DEF Asking
    <2>5. Talks'
        BY <1>0, <2>1, <2>2 DEF Talks
    <2>6. Waits'
        BY <1>0, <2>2, WaitsStay
    <2>7. sealed => sealed'
        BY <2>2 DEF producers_drained
    <2>8. sealed' => \A s \in Sessions : write[s] = "none"
        BY <1>0, <2>2 DEF producers_drained, Order
    <2>10. ~force_bypassed /\ sealed' =>
              pump \in {"stopped", "failed"} /\ \A s \in Sessions : lane[s] # "ready"
        BY <1>0, <2>1, <2>2 DEF producers_drained, Order, AfterPump
    <2>9. Order'
        BY <1>0, <2>2, <2>7, <2>8, <2>10 DEF Order
    <2> QED BY <2>3, <2>4, <2>5, <2>6, <2>9 DEF Phases
<1>4. CASE SessionsTurn
    <2>1. /\ mailbox # <<>> /\ mailbox' = Tail(mailbox) /\ Head(mailbox).type = "sessions"
          /\ stage = "sessions"
        BY <1>1, <1>4 DEF SessionsTurn
    <2>2. UNCHANGED <<stage, graceful, quiescing, sealed, running, write, pump, operator,
                      accepting, active, force_bypassed, waiting>>
        BY <1>4 DEF SessionsTurn, opvars, gate
    <2>3. OnPath'
        BY <1>0, <2>2 DEF OnPath
    <2>4. Mailed'
        BY <1>0, <2>1, <2>2, AskTaken DEF Asking
    <2>5. Talks'
        BY <1>0, <2>1, <2>2 DEF Talks
    <2>6. Waits'
        BY <1>0, <2>2, WaitsStay
    <2>7. (\A s \in Sessions : lane[s] = "free") => \A s \in Sessions : lane'[s] = "free"
        BY <1>4 DEF SessionsTurn
    <2>9. (\A s \in Sessions : lane[s] # "ready") => \A s \in Sessions : lane'[s] # "ready"
        BY <1>4 DEF SessionsTurn
    <2>8. Order'
        BY <1>0, <2>2, <2>7, <2>9 DEF Order
    <2> QED BY <2>3, <2>4, <2>5, <2>6, <2>8 DEF Phases
<1> QED
    BY <1>2, <1>3, <1>4

LEMMA StopKeeps ==
    ASSUME TypeOK, Books, Phases, ShutdownTurn \/ ForceShutdownTurn
    PROVE  Phases'
<1>0. /\ OnPath /\ Mailed /\ Talks /\ Waits /\ Order /\ mailbox \in Seq(Command)
      /\ GateTypeOK /\ Typed
    BY TypesAre DEF Phases
<1>1. /\ mailbox # <<>> /\ running
      /\ Head(mailbox) = mailbox[1] /\ 1 \in 1 .. Len(mailbox)
    BY <1>0 DEF ShutdownTurn, ForceShutdownTurn
<1>2. UNCHANGED <<stage, graceful, quiescing, sealed, lane, write, pump, operator,
                  accepting, active, force_bypassed, waiting>>
    BY DEF ShutdownTurn, ForceShutdownTurn, supvars, workvars, opvars, gate
<1>3. OnPath'
    BY <1>0, <1>2 DEF OnPath
<1>4. Waits'
    BY <1>0, <1>2, WaitsStay
<1>5. Order'
    BY <1>0, <1>2 DEF Order
<1>6. CASE ShutdownTurn
    <2>1. stage = "world" /\ Head(mailbox).type \in Asking
        BY <1>0, <1>1, <1>6 DEF ShutdownTurn, Mailed, Asking
    <2>2. Mailed'
        <3>1. CASE WorldStops
            BY <3>1, MailEmpties DEF WorldStops
        <3>2. CASE mailbox' = Tail(mailbox) /\ UNCHANGED running
            BY <1>0, <1>1, <1>2, <2>1, <3>2, AskTaken
        <3> QED BY <1>6, <3>1, <3>2 DEF ShutdownTurn
    <2>3. Talks'
        BY <1>0, <1>2, <2>1 DEF Talks
    <2> QED BY <1>3, <1>4, <1>5, <2>2, <2>3 DEF Phases
<1>7. CASE ForceShutdownTurn
    <2>1. force_bypassed \/ stage \in {"world", "done"}
        BY <1>0, <1>1, <1>7 DEF ForceShutdownTurn, Mailed
    <2>2. Mailed' /\ answer' = answer
        BY <1>7, MailEmpties DEF ForceShutdownTurn, WorldStops, supvars
    <2>3. Talks'
        BY <1>0, <1>2, <2>1, <2>2 DEF Talks
    <2> QED BY <1>3, <1>4, <1>5, <2>2, <2>3 DEF Phases
<1> QED
    BY <1>6, <1>7

\* The operator and the pump.
LEMMA OperatorKeeps ==
    ASSUME TypeOK, Books, Phases, PumpMove \/ ForceBypass \/ ForceStop
    PROVE  Phases'
<1>0. /\ OnPath /\ Mailed /\ Talks /\ Waits /\ Order /\ mailbox \in Seq(Command)
      /\ GateTypeOK /\ Typed
    BY TypesAre DEF Phases
<1>1. CASE PumpStops
    <2>1. /\ pump = "draining" /\ (\A s \in Sessions : lane[s] = "free") /\ pump' = "stopped"
          /\ UNCHANGED <<stage, graceful, answer, quiescing, sealed, running, lane, write,
                         operator, mailbox, accepting, active, force_bypassed, waiting>>
        BY <1>1 DEF PumpStops, pump_may_stop, supvars, worldvars, opvars, gate
    <2>2. OnPath' /\ Mailed' /\ Talks'
        BY <1>0, <2>1 DEF OnPath, Mailed, Talks
    <2>3. Waits'
        BY <1>0, <2>1, WaitsStay
    <2>5. Order'
        BY <1>0, <2>1 DEF Order
    <2> QED BY <2>2, <2>3, <2>5 DEF Phases
<1>4. ASSUME NEW s \in Sessions, PumpErrs(s) PROVE Phases'
    <2>1. /\ pump \notin {"stopped", "failed"} /\ pump' = "failing"
          /\ UNCHANGED <<stage, graceful, answer, quiescing, sealed, running, write,
                         operator, mailbox, accepting, active, force_bypassed, waiting>>
        BY <1>4 DEF PumpErrs, pump_ended, supvars, worldvars, opvars, gate
    <2>2. OnPath' /\ Mailed' /\ Talks'
        BY <1>0, <2>1 DEF OnPath, Mailed, Talks
    <2>3. Waits'
        BY <1>0, <2>1, WaitsStay
    <2>5. Order'
        BY <1>0, <2>1 DEF Order
    <2> QED BY <2>2, <2>3, <2>5 DEF Phases
<1>5. CASE PumpFails \/ PumpBreaks
    <2>1. /\ pump' = "failed"
          /\ UNCHANGED <<stage, graceful, answer, quiescing, sealed, running, lane, write,
                         operator, mailbox, accepting, active, force_bypassed, waiting>>
        BY <1>5 DEF PumpFails, PumpBreaks, supvars, worldvars, opvars, gate
    <2>2. OnPath' /\ Mailed' /\ Talks'
        BY <1>0, <2>1 DEF OnPath, Mailed, Talks
    <2>3. Waits'
        BY <1>0, <2>1, WaitsStay
    <2>5. Order'
        BY <1>0, <2>1 DEF Order
    <2> QED BY <2>2, <2>3, <2>5 DEF Phases
<1>2. CASE ForceBypass
    <2>1. /\ force_bypassed' = TRUE /\ accepting' = [k \in Kinds |-> FALSE]
          /\ UNCHANGED <<stage, graceful, answer, quiescing, sealed, running, lane, write,
                         mailbox, active, waiting, pump>>
        BY <1>2 DEF ForceBypass, force_bypass, supvars, worldvars, workvars
    <2>2. OnPath' /\ Mailed' /\ Talks'
        BY <1>0, <2>1 DEF OnPath, Mailed, Talks
    <2>3. Waits'
        BY <1>0, <2>1, WaitsStay
    <2>4. \A k \in Kinds : ~accepting'[k]
        BY <2>1
    <2>5. ~accepting'["request"]
        BY <2>4 DEF Kinds
    <2>6. Order'
        BY <1>0, <2>1, <2>4, <2>5 DEF Order
    <2> QED BY <2>2, <2>3, <2>6 DEF Phases
<1>3. CASE ForceStop
    <2>1. /\ operator = "bypassed"
          /\ IF running THEN Send("force_shutdown", Operator) ELSE UNCHANGED mailbox
          /\ UNCHANGED <<stage, graceful, answer, quiescing, sealed, running, lane, write,
                         accepting, active, force_bypassed, waiting, pump>>
        BY <1>3 DEF ForceStop, supvars, worldvars, workvars, gate
    <2>2. force_bypassed
        BY <1>0, <2>1 DEF Talks
    <2>3. Operator \in Callers
        BY CallersAre
    <2>4. Mailed'
        <3>1. CASE running
            BY <1>0, <2>1, <2>2, <2>3, <3>1, ForceSent
        <3>2. CASE ~running
            BY <1>0, <2>1, <3>2 DEF Mailed
        <3> QED BY <3>1, <3>2
    <2>5. OnPath' /\ Talks'
        BY <1>0, <2>1, <2>2 DEF OnPath, Talks
    <2>6. Waits'
        BY <1>0, <2>1, WaitsStay
    <2>7. Order'
        BY <1>0, <2>1 DEF Order
    <2> QED BY <2>4, <2>5, <2>6, <2>7 DEF Phases
<1> QED
    BY <1>1, <1>2, <1>3, <1>4, <1>5 DEF PumpMove

LEMMA LeaveKeeps ==
    ASSUME TypeOK, Books, Phases, LeaveServing \/ LosePump \/ AskWorld
    PROVE  Phases'
<1>0. /\ OnPath /\ Mailed /\ Talks /\ Waits /\ Order /\ mailbox \in Seq(Command)
      /\ GateTypeOK /\ Typed
    BY TypesAre DEF Phases
<1>1. CASE LeaveServing \/ LosePump
    <2>1. /\ stage = "serving"
          /\ stage' = IF graceful' THEN "close_requests" ELSE "abandon"
          /\ UNCHANGED <<answer, quiescing, sealed, running, lane, write, pump, operator,
                         mailbox, accepting, active, force_bypassed, waiting>>
        <3>1. stage' = IF graceful' THEN GracefulOrder[1] ELSE AbandonedOrder[1]
            BY <1>1 DEF LeaveServing, LosePump
        <3>2. stage' = IF graceful' THEN "close_requests" ELSE "abandon"
            BY <3>1, GracefulPath, AbandonedPath
        <3> QED BY <1>1, <3>2 DEF LeaveServing, LosePump, supervises, worldvars, workvars,
                                  opvars, gate
    <2>2. ~quiescing
        BY <1>0, <2>1 DEF Order
    <2>3. OnPath'
        BY <2>1 DEF OnPath
    <2>4. Mailed'
        <3>1. Silent
            BY <1>0, <2>1, SilentIs
        <3>2. Settled
            BY <2>1, <2>2 DEF Settled
        <3> QED BY <1>0, <2>1, <3>1, <3>2, MailStays
    <2>5. Talks'
        BY <1>0, <2>1 DEF Talks
    <2>6. Waits'
        BY <1>0, <2>1, WaitsStay
    <2>7. Order'
        BY <1>0, <2>1, <2>2 DEF Order, AfterRequests, AfterQuiesce, AfterPump, AfterSeal,
                                AfterClose, Teardown
    <2> QED BY <2>3, <2>4, <2>5, <2>6, <2>7 DEF Phases
<1>2. CASE AskWorld
    <2>1. /\ stage \in {"quiesce", "producers", "sessions", "world"}
          /\ answer = "none" /\ answer' = "asked" /\ running
          /\ Send(IF stage = "world" THEN "shutdown" ELSE stage, Supervisor)
          /\ UNCHANGED <<stage, graceful, quiescing, sealed, running, lane, write, pump,
                         operator, accepting, active, force_bypassed, waiting>>
        BY <1>2 DEF AskWorld, supervises, worldvars, workvars, opvars, gate
    <2>2. OnPath' /\ Talks'
        BY <1>0, <2>1 DEF OnPath, Talks
    <2>3. Mailed'
        <3>1. Silent /\ Supervisor \in Callers
            BY <1>0, <2>1, SilentIs, CallersAre
        <3>2. PICK type \in {"quiesce", "producers", "sessions", "shutdown"} :
                  Send(type, Supervisor) /\ stage = IF type = "shutdown" THEN "world" ELSE type
            BY <2>1
        <3> QED BY <1>0, <2>1, <3>1, <3>2, AskSent
    <2>4. Waits'
        BY <1>0, <2>1, WaitsStay
    <2>5. Order'
        BY <1>0, <2>1 DEF Order
    <2> QED BY <2>2, <2>3, <2>4, <2>5 DEF Phases
<1> QED
    BY <1>1, <1>2

\* The supervisor goes on to the next phase and asks nothing; what it did to the gate
\* and to the pump is left to its step.
Forward ==
    /\ answer' = "none"
    /\ UNCHANGED <<graceful, quiescing, sealed, running, lane, write, operator, mailbox,
                   active, waiting>>

LEMMA ForwardKeeps ==
    ASSUME TypeOK, Phases, Forward, OnPath', Order', Silent, force_bypassed => force_bypassed',
           stage \notin {"request_drain", "outbound_drain"},
           stage \in {"world", "done"} => force_bypassed' \/ stage' \in {"world", "done"}
    PROVE  Phases'
<1>1. Mailed /\ Talks /\ Waits
    BY DEF Phases
<1>2. Settled
    BY DEF Settled, Forward
<1>3. Mailed'
    BY <1>1, <1>2, MailStays DEF Forward
<1>4. Talks'
    BY <1>1 DEF Talks, Forward
<1>5. Waits'
    BY <1>1, WaitsStay DEF Forward
<1> QED
    BY <1>3, <1>4, <1>5 DEF Phases

LEMMA DrainKeeps ==
    ASSUME TypeOK, Books, Phases, DrainRequests \/ DrainOutbound
    PROVE  Phases'
<1>0. /\ OnPath /\ Mailed /\ Talks /\ Waits /\ Order /\ mailbox \in Seq(Command)
      /\ GateTypeOK /\ Typed /\ Supervisor \in Waiters
    BY TypesAre, CallersAre DEF Phases
<1>1. Silent
    BY <1>0, SilentIs DEF DrainRequests, DrainOutbound
<1>2. waiting \in [Waiters -> Waiting]
    BY <1>0 DEF GateTypeOK
<1>3. ASSUME NEW kind \in Kinds, DrainWait(kind),
             \/ stage = "request_drain" /\ kind = "request"
             \/ stage = "outbound_drain" /\ kind = "outbound"
      PROVE  Phases'
    <2>1. UNCHANGED <<stage, graceful, answer, quiescing, sealed, running, lane, write, pump,
                      operator, mailbox>>
        BY <1>3 DEF DrainWait, supervises, worldvars, workvars, opvars, supvars
    <2>2. UNCHANGED <<accepting, active, force_bypassed>>
        BY <1>3 DEF DrainWait, arm, check, park, wake
    <2>3. OnPath' /\ Mailed' /\ Talks'
        BY <1>0, <2>1, <2>2 DEF OnPath, Mailed, Talks
    <2>4. Order'
        BY <1>0, <2>1, <2>2 DEF Order
    <2>5. Waits'
        <3>1. CASE arm(Supervisor, kind)
            <4>1. waiting'[Supervisor] = [on |-> kind, phase |-> "armed", notified |-> FALSE]
                BY <1>0, <1>2, <3>1 DEF arm
            <4> QED BY <1>3, <2>1, <4>1 DEF Waits
        <3>2. CASE check(Supervisor)
            <4>1. /\ waiting'[Supervisor].phase = reading(Supervisor)
                  /\ waiting'[Supervisor].on = waiting[Supervisor].on
                  /\ waiting[Supervisor].phase = "armed"
                BY <1>0, <1>2, <3>2 DEF check, Waiting
            <4>2. waiting[Supervisor].on = kind
                BY <1>0, <1>3, <4>1 DEF Waits
            <4>3. /\ reading(Supervisor) = "bypassed" => force_bypassed
                  /\ reading(Supervisor) = "drained" => active[kind] = 0
                BY <4>2 DEF reading, Kinds
            <4> QED BY <1>3, <2>1, <2>2, <4>1, <4>2, <4>3 DEF Waits
        <3>3. CASE park(Supervisor)
            <4>1. /\ waiting'[Supervisor].phase = "parked"
                  /\ waiting'[Supervisor].on = waiting[Supervisor].on
                  /\ waiting[Supervisor].phase = "read"
                BY <1>0, <1>2, <3>3 DEF park, Waiting
            <4> QED BY <1>0, <2>1, <4>1 DEF Waits
        <3>4. CASE wake(Supervisor)
            <4>1. /\ waiting'[Supervisor] =
                       [on |-> waiting[Supervisor].on, phase |-> "armed", notified |-> FALSE]
                  /\ waiting[Supervisor].phase = "parked"
                BY <1>0, <1>2, <3>4 DEF wake, arm
            <4> QED BY <1>0, <2>1, <4>1 DEF Waits
        <3> QED BY <1>3, <3>1, <3>2, <3>3, <3>4 DEF DrainWait
    <2> QED BY <2>3, <2>4, <2>5 DEF Phases
<1>4. ASSUME abandon_wait(Supervisor)
      PROVE  /\ waiting'[Supervisor].phase = "idle"
             /\ UNCHANGED <<accepting, active, force_bypassed>>
    BY <1>0, <1>2, <1>4 DEF abandon_wait, Waiting
<1>5. ASSUME waiting'[Supervisor].phase = "idle" PROVE Waits'
    BY <1>5 DEF Waits
<1>6. ASSUME stage = "request_drain", waiting[Supervisor].phase \in {"drained", "bypassed"},
             abandon_wait(Supervisor), UNCHANGED <<supervises, mailbox>>,
             IF waiting[Supervisor].phase = "drained" /\ ~force_requested
             THEN Advance ELSE Abandon("abandon")
      PROVE  Phases'
    <2>1. /\ UNCHANGED <<quiescing, sealed, running, lane, write, pump, operator, mailbox>>
          /\ UNCHANGED <<accepting, active, force_bypassed>> /\ Waits'
        BY <1>4, <1>5, <1>6 DEF supervises, worldvars, workvars, opvars
    <2>2. graceful
        BY <1>0, <1>6 DEF OnPath
    <2>3. CASE waiting[Supervisor].phase = "drained" /\ Advance
        <3>1. stage' = "quiesce" /\ answer' = "none" /\ graceful' = graceful
            BY <1>0, <1>6, <2>2, <2>3, Advances DEF Typed
        <3>2. active["request"] = 0 /\ ~accepting["request"]
            BY <1>0, <1>6, <2>3 DEF Waits, Order
        <3>3. OnPath' /\ Talks'
            BY <1>0, <1>6, <2>1, <2>2, <3>1 DEF OnPath, Talks
        <3>4. Settled
            BY <1>6, <2>1, <3>1 DEF Settled
        <3>5. Mailed'
            BY <1>0, <1>1, <2>1, <3>4, MailStays
        <3>6. Order'
            BY <1>0, <1>6, <2>1, <3>1, <3>2 DEF Order, AfterQuiesce, AfterPump, AfterSeal,
                                                 AfterClose, Teardown
        <3> QED BY <2>1, <3>3, <3>5, <3>6 DEF Phases
    <2>4. CASE Abandon("abandon")
        <3>1. stage' = "abandon" /\ answer' = "none" /\ ~graceful'
            BY <2>4 DEF Abandon
        <3>3. OnPath' /\ Talks'
            BY <1>0, <1>6, <2>1, <3>1 DEF OnPath, Talks
        <3>4. Settled
            BY <1>6, <2>1, <3>1 DEF Settled
        <3>5. Mailed'
            BY <1>0, <1>1, <2>1, <3>4, MailStays
        <3>6. Order'
            BY <1>0, <1>6, <2>1, <3>1 DEF Order, AfterRequests, AfterQuiesce, AfterPump,
                                          AfterSeal, AfterClose, Teardown
        <3> QED BY <2>1, <3>3, <3>5, <3>6 DEF Phases
    <2> QED BY <1>6, <2>3, <2>4
<1>7. ASSUME stage = "outbound_drain", waiting[Supervisor].phase \in {"drained", "bypassed"},
             abandon_wait(Supervisor), UNCHANGED <<supervises, mailbox>>, Advance
      PROVE  Phases'
    <2>1. /\ UNCHANGED <<quiescing, sealed, running, lane, write, pump, operator, mailbox>>
          /\ UNCHANGED <<accepting, active, force_bypassed>> /\ Waits'
        BY <1>4, <1>5, <1>7 DEF supervises, worldvars, workvars, opvars
    <2>2. graceful
        BY <1>0, <1>7 DEF OnPath
    <2>3. stage' = "sessions" /\ answer' = "none" /\ graceful' = graceful
        BY <1>0, <1>7, <2>2, Advances DEF Typed
    <2>4. force_bypassed \/ active["outbound"] = 0
        BY <1>0, <1>7 DEF Waits
    <2>5. OnPath' /\ Talks'
        BY <1>0, <1>7, <2>1, <2>2, <2>3 DEF OnPath, Talks
    <2>6. Settled
        BY <1>7, <2>1, <2>3 DEF Settled
    <2>7. Mailed'
        BY <1>0, <1>1, <2>1, <2>6, MailStays
    <2>8. Order'
        BY <1>0, <1>7, <2>1, <2>3, <2>4 DEF Order, AfterRequests, AfterQuiesce, AfterPump,
                                            AfterSeal, AfterClose, Teardown
    <2> QED BY <2>1, <2>5, <2>7, <2>8 DEF Phases
<1>8. "request" \in Kinds /\ "outbound" \in Kinds
    BY DEF Kinds
<1>9. CASE DrainRequests
    BY <1>3, <1>6, <1>8, <1>9 DEF DrainRequests
<1>10. CASE DrainOutbound
    BY <1>3, <1>7, <1>8, <1>10 DEF DrainOutbound
<1> QED
    BY <1>9, <1>10

LEMMA SupervisorKeeps ==
    ASSUME TypeOK, Books, Phases,
           \/ CloseRequests \/ AbandonWire \/ HearWorld \/ HearProducers
           \/ StopPump \/ StopProfile \/ DrainCompletions
           \/ CloseOutbound \/ AbortSessions \/ JoinSessions \/ StopWorld
    PROVE  Phases'
<1>0. OnPath /\ Mailed /\ Talks /\ Waits /\ Order /\ mailbox \in Seq(Command)
      /\ GateTypeOK /\ Typed /\ stage \in Stages
    BY TypesAre DEF Phases, Typed
<1> USE DEF AfterRequests, AfterQuiesce, AfterPump, AfterSeal, AfterClose, Teardown
<1>1. CASE CloseRequests
    <2>1. stage = "close_requests" /\ Advance /\ graceful
        BY <1>0, <1>1 DEF CloseRequests, OnPath
    <2>2. stage' = "request_drain" /\ graceful' = graceful
        BY <1>0, <2>1, Advances
    <2>3. Forward /\ UNCHANGED <<pump, force_bypassed>>
        BY <1>1, <2>1 DEF CloseRequests, close_admission, Forward, Advance, supervises, worldvars,
                          workvars, opvars
    <2>4. ~accepting'["request"] /\ accepting'["outbound"] = accepting["outbound"]
        BY <1>0, <1>1 DEF CloseRequests, close_admission, GateTypeOK, Kinds
    <2>5. OnPath'
        BY <2>1, <2>2 DEF OnPath
    <2>6. force_bypassed' => \A k \in Kinds : ~accepting'[k]
        BY <1>0, <2>3, <2>4 DEF Order, Kinds
    <2>7. Order'
        BY <1>0, <2>1, <2>2, <2>3, <2>4, <2>6 DEF Order, Forward
    <2>8. Silent
        BY <1>0, <2>1, SilentIs
    <2> QED BY <2>1, <2>2, <2>3, <2>5, <2>7, <2>8, ForwardKeeps
<1>2. CASE AbandonWire
    <2>1. stage = "abandon" /\ Advance /\ ~graceful
        BY <1>0, <1>2 DEF AbandonWire, OnPath
    <2>2. stage' = "quiesce" /\ graceful' = graceful
        BY <1>0, <2>1, Advances
    <2>3. Forward /\ UNCHANGED pump /\ force_bypassed' /\ \A k \in Kinds : ~accepting'[k]
        BY <1>2, <2>1 DEF AbandonWire, force_bypass, Forward, Advance, supervises, worldvars,
                          workvars, opvars
    <2>4. OnPath'
        BY <2>1, <2>2, <2>3 DEF OnPath
    <2>5. Order'
        BY <1>0, <2>1, <2>2, <2>3 DEF Order, Forward
    <2>6. Silent
        BY <1>0, <2>1, SilentIs
    <2> QED BY <2>1, <2>2, <2>3, <2>4, <2>5, <2>6, ForwardKeeps
<1>3. CASE HearWorld
    <2>1. stage \in {"quiesce", "sessions"} /\ Advance /\ (answer \in {"true", "false"} \/ ~running)
        BY <1>3 DEF HearWorld
    <2>2. /\ graceful' = graceful
          /\ \/ graceful /\ stage = "quiesce" /\ stage' = "pump"
             \/ ~graceful /\ stage = "quiesce" /\ stage' = "sessions"
             \/ stage = "sessions" /\ stage' = "abort"
        BY <1>0, <2>1, Advances
    <2>3. Forward /\ UNCHANGED <<pump, force_bypassed, accepting>>
        BY <1>3, <2>1 DEF HearWorld, gate, Forward, Advance, supervises, worldvars, workvars, opvars
    <2>4. OnPath'
        BY <1>0, <2>1, <2>2, <2>3 DEF OnPath
    <2>5. stage = "quiesce" => quiescing \/ force_bypassed
        BY <1>0, <2>1 DEF Talks
    <2>6. ~graceful => force_bypassed
        BY <1>0, <2>1 DEF OnPath
    <2>7. Order'
        <3>1. CASE force_bypassed
            BY <1>0, <2>2, <2>3, <3>1 DEF Order, Forward
        <3>2. CASE ~force_bypassed
            BY <1>0, <2>2, <2>3, <2>5, <2>6, <3>2 DEF Order, Forward
        <3> QED BY <3>1, <3>2
    <2>8. Silent
        BY <1>0, <2>1, SilentIs
    <2> QED BY <2>1, <2>2, <2>3, <2>4, <2>7, <2>8, ForwardKeeps
<1>4. CASE HearProducers
    <2>0. stage = "producers" /\ graceful
        BY <1>0, <1>4 DEF HearProducers, OnPath
    <2>1. CASE answer = "true" /\ Advance /\ UNCHANGED gate
        <3>1. stage' = "close_outbound" /\ graceful' = graceful
            BY <1>0, <2>0, <2>1, Advances
        <3>2. Forward /\ UNCHANGED <<pump, force_bypassed, accepting>>
            BY <1>4, <2>1 DEF HearProducers, gate, Forward, Advance, supervises, worldvars,
                              workvars, opvars
        <3>3. OnPath'
            BY <2>0, <3>1 DEF OnPath
        <3>4. sealed
            BY <1>0, <2>0, <2>1 DEF Talks
        <3>5. Order'
            BY <1>0, <2>0, <3>1, <3>2, <3>4 DEF Order, Forward
        <3>6. Silent
            BY <1>0, <2>1, SilentIs
        <3> QED BY <2>0, <3>1, <3>2, <3>3, <3>5, <3>6, ForwardKeeps
    <2>2. CASE answer = "false" /\ answer' = "none" /\ UNCHANGED <<gate, stage, graceful>>
        <3>1. Forward /\ UNCHANGED <<pump, force_bypassed, accepting>>
            BY <1>4, <2>2 DEF HearProducers, gate, Forward, supervises, worldvars, workvars, opvars
        <3>2. OnPath' /\ Order'
            BY <1>0, <2>2, <3>1 DEF OnPath, Order, Forward
        <3>3. Silent
            BY <1>0, <2>2, SilentIs
        <3> QED BY <2>0, <3>1, <3>2, <3>3, ForwardKeeps
    <2>3. CASE /\ (answer = "none" /\ force_requested) \/ (~running /\ answer # "true")
               /\ force_bypass(Supervisor)
               /\ stage' = "sessions" /\ answer' = "none" /\ UNCHANGED graceful
        <3>1. Forward /\ UNCHANGED pump /\ force_bypassed' /\ \A k \in Kinds : ~accepting'[k]
            BY <1>4, <2>3 DEF HearProducers, force_bypass, Forward, supervises, worldvars,
                              workvars, opvars
        <3>2. OnPath'
            BY <2>0, <2>3 DEF OnPath
        <3>3. Order'
            BY <1>0, <2>0, <2>3, <3>1 DEF Order, Forward, Kinds
        <3>4. Silent
            BY <1>0, <2>3, SilentIs
        <3> QED BY <2>0, <2>3, <3>1, <3>2, <3>3, <3>4, ForwardKeeps
    <2> QED BY <1>4, <2>1, <2>2, <2>3 DEF HearProducers
<1>5. CASE StopPump
    <2>0. /\ stage = "pump"
          /\ UNCHANGED <<quiescing, sealed, running, lane, write, operator, mailbox,
                         active, waiting, accepting, force_bypassed>>
        BY <1>5 DEF StopPump, gate, worldvars, opvars
    <2>1. CASE pump = "running" /\ pump' = "draining" /\ UNCHANGED supvars
        <3>1. UNCHANGED <<stage, graceful, answer>>
            BY <2>1 DEF supvars
        <3>2. OnPath' /\ Mailed' /\ Talks'
            BY <1>0, <2>0, <3>1 DEF OnPath, Mailed, Talks
        <3>3. Waits'
            BY <1>0, <2>0, <3>1, WaitsStay
        <3>4. Order'
            BY <1>0, <2>0, <2>1, <3>1 DEF Order
        <3> QED BY <3>2, <3>3, <3>4 DEF Phases
    <2>2. CASE pump \in {"stopped", "failed"} /\ Advance /\ UNCHANGED pump
        <3>1. /\ graceful' = graceful
              /\ \/ graceful /\ stage' = "profile"
                 \/ ~graceful /\ stage' = "world"
            BY <1>0, <2>0, <2>2, Advances
        <3>2. Forward
            BY <2>0, <2>2 DEF Forward, Advance
        <3>3. OnPath'
            BY <1>0, <2>0, <3>1 DEF OnPath
        <3>4. ~graceful => force_bypassed
            BY <1>0, <2>0 DEF OnPath
        <3>5. Order'
            <4>1. CASE force_bypassed
                BY <1>0, <2>0, <3>1, <3>2, <4>1 DEF Order, Forward
            <4>2. CASE ~force_bypassed
                BY <1>0, <2>0, <2>2, <3>1, <3>2, <3>4, <4>2 DEF Order, Forward
            <4> QED BY <4>1, <4>2
        <3>6. Silent
            BY <1>0, <2>0, SilentIs
        <3> QED BY <2>0, <3>1, <3>2, <3>3, <3>5, <3>6, ForwardKeeps
    <2> QED BY <1>5, <2>1, <2>2 DEF StopPump, pump_ended
<1>6. CASE StopProfile \/ DrainCompletions
    <2>1. Advance /\ stage \in {"profile", "completions"}
        BY <1>6 DEF StopProfile, DrainCompletions
    <2>2. /\ graceful' = graceful
          /\ \/ graceful /\ stage = "profile" /\ stage' = "completions"
             \/ graceful /\ stage = "completions" /\ stage' = "producers"
             \/ ~graceful /\ stage = "profile" /\ stage' = "done"
        BY <1>0, <2>1, Advances
    <2>3. Forward /\ UNCHANGED <<pump, force_bypassed, accepting>>
        BY <1>6, <2>1 DEF StopProfile, DrainCompletions, gate, Forward, Advance, supervises,
                          worldvars, workvars, opvars
    <2>4. OnPath'
        BY <1>0, <2>1, <2>2, <2>3 DEF OnPath
    <2>5. ~graceful => force_bypassed
        BY <1>0, <2>1 DEF OnPath
    <2>6. Order'
        <3>1. CASE force_bypassed
            BY <1>0, <2>2, <2>3, <3>1 DEF Order, Forward
        <3>2. CASE ~force_bypassed
            BY <1>0, <2>2, <2>3, <2>5, <3>2 DEF Order, Forward
        <3> QED BY <3>1, <3>2
    <2>7. Silent
        BY <1>0, <2>1, SilentIs
    <2> QED BY <2>1, <2>2, <2>3, <2>4, <2>6, <2>7, ForwardKeeps
<1>7. CASE CloseOutbound
    <2>1. stage = "close_outbound" /\ Advance /\ graceful
        BY <1>0, <1>7 DEF CloseOutbound, OnPath
    <2>2. stage' = "outbound_drain" /\ graceful' = graceful
        BY <1>0, <2>1, Advances
    <2>3. Forward /\ UNCHANGED <<pump, force_bypassed>>
        BY <1>7, <2>1 DEF CloseOutbound, close_admission, Forward, Advance, supervises, worldvars,
                          workvars, opvars
    <2>4. ~accepting'["outbound"] /\ accepting'["request"] = accepting["request"]
        BY <1>0, <1>7 DEF CloseOutbound, close_admission, GateTypeOK, Kinds
    <2>5. OnPath'
        BY <2>1, <2>2 DEF OnPath
    <2>6. force_bypassed' => \A k \in Kinds : ~accepting'[k]
        BY <1>0, <2>3, <2>4 DEF Order, Kinds
    <2>7. Order'
        BY <1>0, <2>1, <2>2, <2>3, <2>4, <2>6 DEF Order, Forward
    <2>8. Silent
        BY <1>0, <2>1, SilentIs
    <2> QED BY <2>1, <2>2, <2>3, <2>5, <2>7, <2>8, ForwardKeeps
<1>8. CASE AbortSessions \/ JoinSessions
    <2>1. Advance /\ stage \in {"abort", "join"}
        BY <1>8 DEF AbortSessions, JoinSessions
    <2>2. /\ graceful' = graceful
          /\ \/ stage = "abort" /\ stage' = "join"
             \/ graceful /\ stage = "join" /\ stage' = "world"
             \/ ~graceful /\ stage = "join" /\ stage' = "pump"
        BY <1>0, <2>1, Advances
    <2>3. Forward /\ UNCHANGED <<pump, force_bypassed, accepting>>
        BY <1>8, <2>1 DEF AbortSessions, JoinSessions, gate, Forward, Advance, supervises,
                          worldvars, workvars, opvars
    <2>4. OnPath'
        BY <1>0, <2>1, <2>2, <2>3 DEF OnPath
    <2>5. ~graceful => force_bypassed
        BY <1>0, <2>1 DEF OnPath
    <2>6. Order'
        <3>1. CASE force_bypassed
            BY <1>0, <2>2, <2>3, <3>1 DEF Order, Forward
        <3>2. CASE ~force_bypassed
            BY <1>0, <2>2, <2>3, <2>5, <3>2 DEF Order, Forward
        <3> QED BY <3>1, <3>2
    <2>7. Silent
        BY <1>0, <2>1, SilentIs
    <2> QED BY <2>1, <2>2, <2>3, <2>4, <2>6, <2>7, ForwardKeeps
<1>9. CASE StopWorld
    <2>0. /\ stage = "world"
          /\ UNCHANGED <<quiescing, sealed, running, lane, write, pump, operator, active, waiting,
                         accepting, force_bypassed>>
        BY <1>9 DEF StopWorld, gate, supervises, worldvars, workvars, opvars
    <2>1. CASE /\ answer = "false" /\ running /\ Send("force_shutdown", Supervisor)
               /\ answer' = "asked" /\ UNCHANGED <<stage, graceful>>
        <3>1. Silent /\ Supervisor \in Callers
            BY <1>0, <2>1, SilentIs, CallersAre
        <3>2. Mailed'
            BY <1>0, <2>0, <2>1, <3>1, ForceSent
        <3>3. OnPath' /\ Talks' /\ Order'
            BY <1>0, <2>0, <2>1 DEF OnPath, Talks, Order
        <3>4. Waits'
            BY <1>0, <2>0, <2>1, WaitsStay
        <3> QED BY <3>2, <3>3, <3>4 DEF Phases
    <2>2. CASE ~running /\ Advance /\ UNCHANGED mailbox
        <3>1. /\ graceful' = graceful
              /\ \/ graceful /\ stage' = "done"
                 \/ ~graceful /\ stage' = "profile"
            BY <1>0, <2>0, <2>2, Advances
        <3>2. Forward
            BY <2>0, <2>2 DEF Forward, Advance
        <3>3. OnPath'
            BY <1>0, <2>0, <3>1 DEF OnPath
        <3>4. ~graceful => force_bypassed
            BY <1>0, <2>0 DEF OnPath
        <3>5. Order'
            <4>1. CASE force_bypassed
                BY <1>0, <2>0, <3>1, <3>2, <4>1 DEF Order, Forward
            <4>2. CASE ~force_bypassed
                BY <1>0, <2>0, <3>1, <3>2, <3>4, <4>2 DEF Order, Forward
            <4> QED BY <4>1, <4>2
        <3>6. Silent
            BY <1>0, <2>2, SilentIs
        <3> QED BY <2>0, <3>1, <3>2, <3>3, <3>4, <3>5, <3>6, ForwardKeeps
    <2> QED BY <1>9, <2>1, <2>2 DEF StopWorld
<1> QED
    BY <1>1, <1>2, <1>3, <1>4, <1>5, <1>6, <1>7, <1>8, <1>9

LEMMA PhaseKeeps ==
    ASSUME TypeOK, Books, Phases, PhaseStep
    PROVE  Phases'
BY TurnKeeps, StopKeeps, OperatorKeeps, LeaveKeeps, DrainKeeps, SupervisorKeeps DEF PhaseStep

--------------------------------------------------------------------------------
(* The theorems.                                                            *)

LEMMA BooksNext ==
    ASSUME TypeOK, Books, TypeOK', Next
    PROVE  Books'
BY NextIs, SessionBooks, WorldBooks, PhaseBooks

LEMMA PhasesNext ==
    ASSUME TypeOK, Books, Phases, Next
    PROVE  Phases'
<1>1. ASSUME NEW s \in Sessions, SessionAction(s) \/ WorldAction(s) PROVE Phases'
    BY <1>1, SessionWorks, WorldWorks, WorksKeep
<1>2. ASSUME Asides PROVE Phases'
    BY <1>2, AsideWorks, WorksKeep
<1>3. ASSUME PhaseStep PROVE Phases'
    BY <1>3, PhaseKeeps
<1> QED
    BY <1>1, <1>2, <1>3, NextIs

LEMMA ShutdownStutters ==
    ASSUME ShutdownInv, UNCHANGED vars
    PROVE  ShutdownInv'
<1>1. TypeOK'
    BY DEF ShutdownInv, vars, gate, sessionvars, worldvars, workvars, supvars, opvars,
           TypeOK, GateTypeOK
<1>2. Books'
    BY <1>1, PhaseBooks DEF ShutdownInv
<1>3. /\ UNCHANGED <<supvars, quiescing, sealed, running, pump, force_bypassed, accepting>>
      /\ UNCHANGED <<operator, active, waiting, lane, write, mailbox>>
    BY DEF vars, gate, worldvars, workvars, opvars
<1>4. Works /\ Letters
    BY <1>3 DEF Works, Letters
<1>5. Phases'
    BY <1>4, WorksKeep DEF ShutdownInv
<1> QED
    BY <1>1, <1>2, <1>5 DEF ShutdownInv

LEMMA ShutdownInvariant == Spec => []ShutdownInv
<1>1. Init => ShutdownInv
    BY TypeInit, BooksInit, PhasesInit DEF ShutdownInv
<1>2. ShutdownInv /\ [Next]_vars => ShutdownInv'
    <2>1. ASSUME ShutdownInv, Next PROVE ShutdownInv'
        <3>1. TypeOK /\ Books /\ Phases /\ Reserved /\ OnPath
            BY <2>1 DEF ShutdownInv, Books, Phases
        <3>2. TypeOK'
            BY <2>1, <3>1, TypeNext
        <3> QED BY <2>1, <3>1, <3>2, BooksNext, PhasesNext DEF ShutdownInv
    <2> QED BY <2>1, ShutdownStutters
<1> QED
    BY <1>1, <1>2, PTL DEF Spec

\* The state of the shutdown keeps its types: the supervisor never runs off the end of
\* either of its paths, and no queue outgrows its capacity, reserved echoes included.
THEOREM ShutdownTyped == Spec => []TypeOK
<1>1. ShutdownInv => TypeOK
    BY DEF ShutdownInv
<1> QED
    BY <1>1, ShutdownInvariant, PTL

\* The counters of the wire operation gate are the work itself: the requests that
\* sessions hold and the batches queued, being written or reserved, whatever is
\* cancelled, fails or is dropped.
THEOREM GuardsAreWork == Spec => []GuardsMatchWork
<1>1. ShutdownInv => GuardsMatchWork
    BY DEF ShutdownInv, Books
<1> QED
    BY <1>1, ShutdownInvariant, PTL

\* A World that quiesces on the graceful path has served every request: none is in
\* progress, and none that was cancelled is still in its mailbox.
THEOREM RequestsAreServed == Spec => []RequestsFinishBeforeQuiesce
<1>1. ASSUME ShutdownInv PROVE RequestsFinishBeforeQuiesce
    <2>1. TypeOK /\ Books /\ OnPath /\ Mailed /\ Order /\ Typed /\ mailbox \in Seq(Command)
        BY <1>1, TypesAre DEF ShutdownInv, Phases
    <2>2. ASSUME quiescing, graceful PROVE \A s \in Sessions : ~request[s]
        BY <2>1, <2>2, QuiescedDrained, NothingLeft
    <2>3. ASSUME quiescing, graceful PROVE \A i \in DOMAIN mailbox : mailbox[i].type # "request"
        BY <2>1, <2>3 DEF Mailed
    <2> QED BY <2>2, <2>3 DEF RequestsFinishBeforeQuiesce
<1> QED
    BY <1>1, ShutdownInvariant, PTL

\* When the graceful path closes outbound admission nothing is left that would still
\* publish: the pump has ended, every accepted profile write has completed and no
\* durable reward waits.  A lane that is still taken is left by a pump that failed.
THEOREM SealFollowsProducers == Spec => []SealedAfterProducers
<1>1. ASSUME ShutdownInv PROVE SealedAfterProducers
    <2>1. Order
        BY <1>1 DEF ShutdownInv, Phases
    <2>2. ASSUME ~accepting["outbound"], ~force_bypassed
          PROVE  /\ pump \in {"stopped", "failed"}
                 /\ \A s \in Sessions : /\ write[s] = "none" /\ lane[s] # "ready"
                                        /\ lane[s] # "free" => pump = "failed"
        <3>1. stage \in AfterClose
            BY <2>1, <2>2 DEF Order
        <3>2. sealed
            BY <2>1, <2>2, <3>1 DEF Order, AfterSeal
        <3> QED BY <2>1, <2>2, <3>2 DEF Order
    <2> QED BY <2>2 DEF SealedAfterProducers, pump_ended
<1> QED
    BY <1>1, ShutdownInvariant, PTL

\* The graceful path tears sessions down only when every batch published to them has
\* left its queue and is written.
THEOREM PublicationsAreWritten == Spec => []PublicationsWrittenBeforeTeardown
<1>1. ASSUME ShutdownInv PROVE PublicationsWrittenBeforeTeardown
    <2>1. TypeOK /\ Books /\ Order
        BY <1>1 DEF ShutdownInv, Phases
    <2>2. ASSUME stage \in Teardown, ~force_bypassed
          PROVE  \A s \in Sessions : queue[s] = 0 /\ pc[s] # "writing"
        BY <2>1, <2>2, NothingLeft DEF Order
    <2> QED BY <2>2 DEF PublicationsWrittenBeforeTeardown, Teardown
<1> QED
    BY <1>1, ShutdownInvariant, PTL
================================================================================
