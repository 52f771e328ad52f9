-------------------------- MODULE GracefulShutdown --------------------------
(***************************************************************************)
(* Graceful and forced shutdown of the server: the supervisor's phases     *)
(* (p5136-server/src/runtime.rs), the login sessions (session.rs), the     *)
(* World actor's part (world.rs) and the wire operation gate they share.   *)
(*                                                                         *)
(* A session here is authenticated and has one outbound queue.  Outbound   *)
(* batches are counted, not named: what matters is that each holds a guard *)
(* of the gate from its reservation to its write or drop.  A session's     *)
(* lane is its player's race, from the start of loading until the durable  *)
(* reward is published; a session's write is an accepted profile write     *)
(* with the echo it reserved in the queue.  Retries of a reward are left   *)
(* out: an attempt becomes durable or terminal, or breaks the pump.        *)
(***************************************************************************)
EXTENDS WireOperationGate, Sequences, FiniteSets

CONSTANTS
  Sessions,          \* registered login sessions
  Talkers,           \* the sessions whose clients send requests
  Asks,              \* what a request may ask for: "publish", "race", "write"
  Supervisor, World, Operator,
  Mishaps,           \* what may go wrong: "connection", "transport", "pump", "force"
  OutboundCapacity   \* SESSION_OUTBOUND_CAPACITY

ASSUME CallersAssumption ==
  /\ IsFiniteSet(Sessions)
  /\ Supervisor \notin Sessions
  /\ Callers = Sessions \cup {Supervisor, World, Operator}
  /\ Waiters = Sessions \cup {Supervisor}
  /\ Talkers \subseteq Sessions
  /\ OutboundCapacity \in Nat \ {0}

\* MaxActive is usize::MAX: the queues are full before a counter is.
ASSUME CapacityAssumption == MaxActive > Cardinality(Sessions) * (OutboundCapacity + 1)

SessionPc ==
  {"loop", "select", "framed", "asking", "waiting", "replied", "flushing", "writing",
   "draining", "failing", "ending", "closing", "dropping", "gone"}

\* Phases of the supervisor, in the order of finish_graceful_core_runtimes and
\* of finish_abandoned_core_runtimes.
GracefulOrder ==
  <<"close_requests", "request_drain", "quiesce", "pump", "profile", "completions",
    "producers", "close_outbound", "outbound_drain", "sessions", "abort", "join",
    "world", "done">>
AbandonedOrder ==
  <<"abandon", "quiesce", "sessions", "abort", "join", "pump", "world", "profile", "done">>

VARIABLES
  pc,            \* where each session task is
  resume,        \* where it goes on after the write in progress
  request,       \* it holds the guard of a request
  flush,         \* batches of the flushed prefix still to write
  queue,         \* batches in its outbound channel
  cancelled,     \* its cancellation has fired
  registered,    \* sessions the World knows
  mailbox,       \* the World's command mailbox
  quiescing, sealed, running,       \* of the World
  lane, write,   \* per session: race lane, accepted profile write
  retry,         \* what the operator was told of a lane's dead letter
  pump,          \* the reward pump; "stopped" is Ok, "failed" is Err
  stage, graceful, answer,          \* the supervisor, and the reply it awaits
  shutdown_requested, force_requested, operator,
  transport_failed

sessionvars == <<pc, resume, request, flush, cancelled>>
worldvars == <<registered, quiescing, sealed, running>>
workvars == <<lane, write, pump, retry>>
supvars == <<stage, graceful, answer>>
opvars == <<shutdown_requested, force_requested, operator, transport_failed>>
vars == <<gate, sessionvars, queue, worldvars, mailbox, workvars, supvars, opvars>>

Command == [type : {"request", "closed", "quiesce", "producers", "sessions", "shutdown",
                    "force_shutdown"},
            from : Callers]

TypeOK ==
  /\ GateTypeOK
  /\ pc \in [Sessions -> SessionPc]
  /\ resume \in [Sessions -> {"loop", "flushing", "draining"}]
  /\ request \in [Sessions -> BOOLEAN]
  /\ flush \in [Sessions -> 0..OutboundCapacity]
  /\ queue \in [Sessions -> 0..OutboundCapacity]
  /\ cancelled \in [Sessions -> BOOLEAN]
  /\ registered \subseteq Sessions
  /\ mailbox \in Seq(Command)
  /\ quiescing \in BOOLEAN /\ sealed \in BOOLEAN /\ running \in BOOLEAN
  /\ lane \in [Sessions -> {"free", "racing", "queued", "inflight", "ready", "failed"}]
  /\ write \in [Sessions -> {"none", "pending", "done"}]
  /\ retry \in [Sessions -> {"none", "reported", "refused"}]
  /\ pump \in {"running", "draining", "failing", "stopped", "failed"}
  /\ stage \in {"serving"} \cup {GracefulOrder[i] : i \in DOMAIN GracefulOrder}
                           \cup {AbandonedOrder[i] : i \in DOMAIN AbandonedOrder}
  /\ graceful \in BOOLEAN
  /\ answer \in {"none", "asked", "true", "false"}
  /\ shutdown_requested \in BOOLEAN /\ force_requested \in BOOLEAN
  /\ operator \in {"idle", "flagged", "bypassed", "stopped"}
  /\ transport_failed \in BOOLEAN

Init ==
  /\ GateInit
  /\ pc = [s \in Sessions |-> "loop"]
  /\ resume = [s \in Sessions |-> "loop"]
  /\ request = [s \in Sessions |-> FALSE]
  /\ flush = [s \in Sessions |-> 0]
  /\ queue = [s \in Sessions |-> 0]
  /\ cancelled = [s \in Sessions |-> FALSE]
  /\ registered = Sessions
  /\ mailbox = <<>>
  /\ quiescing = FALSE /\ sealed = FALSE /\ running = TRUE
  /\ lane = [s \in Sessions |-> "free"]
  /\ write = [s \in Sessions |-> "none"]
  /\ retry = [s \in Sessions |-> "none"]
  /\ pump = "running"
  /\ stage = "serving" /\ graceful = FALSE /\ answer = "none"
  /\ shutdown_requested = FALSE /\ force_requested = FALSE /\ operator = "idle"
  /\ transport_failed = FALSE

Send(type, from) == mailbox' = Append(mailbox, [type |-> type, from |-> from])
-----------------------------------------------------------------------------
\* A login session task: run_registered_session.  The World's replies, its
\* cancellation and the client are the environment of these steps.

Goto(s, where) == pc' = [pc EXCEPT ![s] = where]

\* The head of the read loop creates the wait for the close of admission.
EnterSelect(s) ==
  /\ pc[s] = "loop"
  /\ arm(s, "admission")
  /\ Goto(s, "select")
  /\ UNCHANGED <<resume, request, flush, cancelled, queue, worldvars, mailbox, workvars,
                 supvars, opvars>>

\* select! polls the wait for the close first.
PollAdmission(s) ==
  /\ pc[s] = "select"
  /\ check(s) \/ park(s) \/ wake(s)
  /\ Goto(s, IF waiting'[s].phase = "closed" THEN "draining" ELSE "select")
  /\ UNCHANGED <<resume, request, flush, cancelled, queue, worldvars, mailbox, workvars,
                 supvars, opvars>>

\* The other branches are polled when the first has nothing to tell.
polls_others(s) ==
  pc[s] = "select" /\ waiting[s].phase = "parked" /\ ~waiting[s].notified

ReadFrame(s) ==
  /\ s \in Talkers
  /\ polls_others(s)
  /\ ~cancelled[s]
  /\ abandon_wait(s)
  /\ Goto(s, "framed")
  /\ UNCHANGED <<resume, request, flush, cancelled, queue, worldvars, mailbox, workvars,
                 supvars, opvars>>

\* A batch leaves the queue of a session that is reading, flushing or draining.
TakeBatch(s) ==
  /\ ~cancelled[s]
  /\ queue[s] > 0
  /\ queue' = [queue EXCEPT ![s] = @ - 1]
  /\ Goto(s, "writing")
  /\ \/ /\ polls_others(s)
        /\ abandon_wait(s)
        /\ resume' = [resume EXCEPT ![s] = "loop"]
        /\ UNCHANGED flush
     \/ /\ pc[s] = "flushing" /\ flush[s] > 0
        /\ resume' = [resume EXCEPT ![s] = "flushing"]
        /\ flush' = [flush EXCEPT ![s] = @ - 1]
        /\ UNCHANGED gate
     \/ /\ pc[s] = "draining"
        /\ resume' = [resume EXCEPT ![s] = "draining"]
        /\ UNCHANGED <<flush, gate>>
  /\ UNCHANGED <<request, cancelled, worldvars, mailbox, workvars, supvars, opvars>>

\* write_outbound_batch returns and the batch drops its guard; a failed or
\* cancelled write ends the session.
EndWrite(s) ==
  /\ pc[s] = "writing"
  /\ retire(s, "outbound")
  /\ \/ ~cancelled[s] /\ Goto(s, resume[s])
     \/ Goto(s, "failing")
  /\ resume' = [resume EXCEPT ![s] = "loop"]
  /\ UNCHANGED <<request, flush, cancelled, queue, worldvars, mailbox, workvars,
                 supvars, opvars>>

\* Request admission of a decoded frame.
AdmitRequest(s) ==
  /\ pc[s] = "framed"
  /\ \/ /\ try_begin(s, "request")
        /\ request' = [request EXCEPT ![s] = TRUE]
        /\ Goto(s, "asking")
     \/ /\ try_begin_refused(s, "request")
        /\ Goto(s, "draining")
        /\ UNCHANGED request
  /\ UNCHANGED <<resume, flush, cancelled, queue, worldvars, mailbox, workvars, supvars, opvars>>

\* The request becomes a command of the World.
SendRequest(s) ==
  /\ pc[s] = "asking"
  /\ ~cancelled[s]
  /\ running
  /\ Send("request", s)
  /\ Goto(s, "waiting")
  /\ UNCHANGED <<gate, resume, request, flush, cancelled, queue, worldvars, workvars,
                 supvars, opvars>>

\* After its own reply the session writes the prefix of the queue it finds.
SnapshotQueue(s) ==
  /\ pc[s] = "replied"
  /\ ~cancelled[s]
  /\ flush' = [flush EXCEPT ![s] = queue[s]]
  /\ Goto(s, "flushing")
  /\ UNCHANGED <<gate, resume, request, cancelled, queue, worldvars, mailbox, workvars,
                 supvars, opvars>>

\* The flushed prefix is written: the request's guard is dropped.
EndRequest(s) ==
  /\ pc[s] = "flushing"
  /\ flush[s] = 0 \/ queue[s] = 0
  /\ retire(s, "request")
  /\ request' = [request EXCEPT ![s] = FALSE]
  /\ flush' = [flush EXCEPT ![s] = 0]
  /\ Goto(s, "loop")
  /\ UNCHANGED <<resume, cancelled, queue, worldvars, mailbox, workvars, supvars, opvars>>

\* The connection breaks, a deadline passes, or the request fails.
ConnectionEnds(s) ==
  /\ "connection" \in Mishaps
  /\ pc[s] \in {"framed", "asking", "waiting", "replied", "flushing"} \/ polls_others(s)
  /\ IF pc[s] = "select" THEN abandon_wait(s) ELSE UNCHANGED gate
  /\ Goto(s, "failing")
  /\ UNCHANGED <<resume, request, flush, cancelled, queue, worldvars, mailbox, workvars,
                 supvars, opvars>>

\* The session sees its cancellation, or that the World is gone.
SeeCancellation(s) ==
  /\ \/ cancelled[s] /\ pc[s] \in {"framed", "asking", "waiting", "replied", "flushing",
                                   "draining"}
     \/ cancelled[s] /\ polls_others(s)
     \/ ~running /\ pc[s] \in {"asking", "waiting"}
  /\ IF pc[s] = "select" THEN abandon_wait(s) ELSE UNCHANGED gate
  /\ Goto(s, "failing")
  /\ UNCHANGED <<resume, request, flush, cancelled, queue, worldvars, mailbox, workvars,
                 supvars, opvars>>

\* run_registered_session unwinds and drops the operation it holds.
Unwind(s) ==
  /\ pc[s] = "failing"
  /\ \/ /\ request[s]
        /\ retire(s, "request")
        /\ request' = [request EXCEPT ![s] = FALSE]
     \/ /\ ~request[s]
        /\ UNCHANGED <<gate, request>>
  /\ Goto(s, "ending")
  /\ flush' = [flush EXCEPT ![s] = 0]
  /\ UNCHANGED <<resume, cancelled, queue, worldvars, mailbox, workvars, supvars, opvars>>

\* SessionRegistration::close.
CloseRegistration(s) ==
  /\ \/ /\ pc[s] = "ending" /\ running
        /\ Send("closed", s)
        /\ Goto(s, "closing")
     \/ /\ pc[s] \in {"ending", "closing"} /\ ~running
        /\ Goto(s, "dropping")
        /\ UNCHANGED mailbox
  /\ UNCHANGED <<gate, resume, request, flush, cancelled, queue, worldvars, workvars,
                 supvars, opvars>>

\* The receiver is dropped with what is still queued.
DropQueue(s) ==
  /\ pc[s] = "dropping"
  /\ \/ /\ queue[s] > 0
        /\ retire(s, "outbound")
        /\ queue' = [queue EXCEPT ![s] = @ - 1]
        /\ UNCHANGED pc
     \/ /\ queue[s] = 0
        /\ Goto(s, "gone")
        /\ UNCHANGED <<gate, queue>>
  /\ UNCHANGED <<resume, request, flush, cancelled, worldvars, mailbox, workvars, supvars, opvars>>
-----------------------------------------------------------------------------
\* The World actor.

Turn(type, from) ==
  /\ running
  /\ mailbox # <<>>
  /\ Head(mailbox) = [type |-> type, from |-> from]
  /\ mailbox' = Tail(mailbox)

\* A slot of the channel is free; a pending write has reserved one.
has_room(p) == queue[p] + (IF write[p] = "none" THEN 0 ELSE 1) < OutboundCapacity

\* A batch with its guard enters the queue of p.
Publish(p) ==
  /\ p \in registered
  /\ has_room(p)
  /\ try_begin(World, "outbound")
  /\ queue' = [queue EXCEPT ![p] = @ + 1]

\* deliver: a recipient that cannot take the batch is closed.
Deliver(p) ==
  \/ /\ Publish(p)
     /\ UNCHANGED <<registered, cancelled>>
  \/ /\ p \in registered
     /\ ~(has_room(p) /\ admits("outbound"))
     /\ IF admits("outbound") THEN UNCHANGED gate ELSE try_begin_refused(World, "outbound")
     /\ registered' = registered \ {p}
     /\ cancelled' = [cancelled EXCEPT ![p] = TRUE]
     /\ UNCHANGED queue

DeliverNothing == UNCHANGED <<gate, queue, registered, cancelled>>

Answered(s, turned) == IF pc[s] = turned THEN [pc EXCEPT ![s] = "replied"] ELSE pc

\* admit_command_during_quiesce rejects what could produce new work.
serves == ~quiescing

\* The command of a request: refused while quiescing; otherwise it publishes,
\* starts a race, or registers a profile write whose completion will answer.
RequestTurn(s) ==
  /\ Turn("request", s)
  /\ \/ /\ ~serves
        /\ DeliverNothing
        /\ pc' = Answered(s, "waiting")
        /\ UNCHANGED <<lane, write>>
     \/ /\ serves
        /\ DeliverNothing \/ ("publish" \in Asks /\ \E p \in Sessions : Deliver(p))
        /\ pc' = Answered(s, "waiting")
        /\ UNCHANGED <<lane, write>>
     \/ /\ serves
        /\ "race" \in Asks
        /\ s \in registered
        /\ lane[s] = "free"
        /\ lane' = [lane EXCEPT ![s] = "racing"]
        /\ pc' = Answered(s, "waiting")
        /\ DeliverNothing
        /\ UNCHANGED write
     \/ /\ serves
        /\ "write" \in Asks
        /\ s \in registered
        /\ write[s] = "none"
        /\ has_room(s)
        /\ try_begin(World, "outbound")
        /\ write' = [write EXCEPT ![s] = "pending"]
        /\ UNCHANGED <<pc, lane, queue, registered, cancelled>>
  /\ UNCHANGED <<resume, request, flush, quiescing, sealed, running, pump, retry, supvars, opvars>>

\* SessionClosed: peers are told unless the World quiesces, and the player's room
\* may dissolve while it is still loading.
ClosedTurn(s) ==
  /\ Turn("closed", s)
  /\ registered' = registered \ {s}
  /\ cancelled' = [cancelled EXCEPT ![s] = TRUE]
  /\ pc' = IF pc[s] = "closing" THEN [pc EXCEPT ![s] = "dropping"] ELSE pc
  /\ \/ UNCHANGED <<gate, queue>>
     \/ ~quiescing /\ \E p \in Sessions \ {s} : Publish(p)
  /\ \/ UNCHANGED lane
     \/ lane[s] = "racing" /\ lane' = [lane EXCEPT ![s] = "free"]
  /\ UNCHANGED <<resume, request, flush, quiescing, sealed, running, write, pump, retry,
                 supvars, opvars>>

\* advance_loading: the race reaches its settlement deadline and its rewards are
\* queued, or loading is abandoned.  Frozen by quiesce.
RaceTick(s) ==
  /\ running /\ ~quiescing
  /\ lane[s] = "racing"
  /\ \E phase \in {"queued", "free"} : lane' = [lane EXCEPT ![s] = phase]
  /\ UNCHANGED <<gate, sessionvars, queue, worldvars, mailbox, write, pump, retry, supvars, opvars>>

\* try_finalize_settlement, from the heartbeat or from the producer barrier: the
\* durable result is published, when its recipient can take it, and the lane is
\* released.
FinalizeSettlement(s) ==
  /\ running
  /\ ~quiescing \/ (mailbox # <<>> /\ Head(mailbox).type = "producers" /\ ~sealed)
  /\ lane[s] = "ready"
  /\ \/ /\ Publish(s)
     \/ /\ s \notin registered
        /\ UNCHANGED <<gate, queue>>
  /\ lane' = [lane EXCEPT ![s] = "free"]
  /\ UNCHANGED <<sessionvars, worldvars, mailbox, write, pump, retry, supvars, opvars>>

\* The completion of a profile write: the echo is published or dropped, and the
\* request, if it is still there, is answered.  A stopped World drops the echo.
CompletionTurn(s) ==
  /\ write[s] = "done"
  /\ write' = [write EXCEPT ![s] = "none"]
  /\ \/ /\ running /\ s \in registered
        /\ queue' = [queue EXCEPT ![s] = @ + 1]
        /\ UNCHANGED gate
     \/ /\ ~(running /\ s \in registered)
        /\ retire(World, "outbound")
        /\ UNCHANGED queue
  /\ pc' = IF running THEN Answered(s, "waiting") ELSE pc
  /\ UNCHANGED <<resume, request, flush, cancelled, worldvars, mailbox, lane, pump, retry,
                 supvars, opvars>>

QuiesceTurn ==
  /\ Turn("quiesce", Supervisor)
  /\ quiescing' = TRUE
  /\ answer' = "true"
  /\ UNCHANGED <<gate, sessionvars, queue, registered, sealed, running, workvars, stage,
                 graceful, opvars>>

\* drain_outbound_producers_once first tries to publish every ready result; then
\* nothing is left that could publish.  An operation of an identity lives as long as
\* its request.
publishable(s) ==
  lane[s] = "ready" /\ (s \notin registered \/ (has_room(s) /\ admits("outbound")))

producers_drained ==
  sealed \/ \A s \in Sessions : lane[s] # "ready" /\ write[s] = "none" /\ ~request[s]

ProducersTurn ==
  /\ Turn("producers", Supervisor)
  /\ quiescing
  /\ sealed \/ \A s \in Sessions : ~publishable(s)
  /\ sealed' = producers_drained
  /\ answer' = IF producers_drained THEN "true" ELSE "false"
  /\ UNCHANGED <<gate, sessionvars, queue, registered, quiescing, running, workvars, stage,
                 graceful, opvars>>

\* drain_sessions_for_shutdown.
SessionsTurn ==
  /\ Turn("sessions", Supervisor)
  /\ \/ /\ \E s \in Sessions : request[s]
        /\ answer' = "false"
        /\ UNCHANGED <<cancelled, registered, lane>>
     \/ /\ \A s \in Sessions : ~request[s]
        /\ answer' = "true"
        /\ cancelled' = [s \in Sessions |-> cancelled[s] \/ s \in registered]
        /\ registered' = {}
        /\ \E dissolved \in SUBSET {s \in Sessions : lane[s] = "racing"} :
             lane' = [s \in Sessions |-> IF s \in dissolved THEN "free" ELSE lane[s]]
  /\ UNCHANGED <<gate, pc, resume, request, flush, queue, quiescing, sealed, running, write,
                 pump, retry, stage, graceful, opvars>>

\* The actor ends: its mailbox is lost and every session sees it.
WorldStops ==
  /\ running' = FALSE
  /\ mailbox' = <<>>
  /\ cancelled' = [s \in Sessions |-> TRUE]

\* WorldCommand::Shutdown.
ShutdownTurn ==
  LET drained == \A s \in Sessions : lane[s] = "free" /\ write[s] = "none" /\ ~request[s]
  IN /\ running
     /\ mailbox # <<>>
     /\ Head(mailbox).type = "shutdown"
     /\ \/ /\ drained
           /\ WorldStops
           /\ answer' = "true"
        \/ /\ ~drained
           /\ mailbox' = Tail(mailbox)
           /\ answer' = "false"
           /\ UNCHANGED <<running, cancelled>>
     /\ UNCHANGED <<gate, pc, resume, request, flush, queue, registered, quiescing, sealed,
                    workvars, stage, graceful, opvars>>

\* WorldCommand::ForceShutdown.
ForceShutdownTurn ==
  /\ running
  /\ mailbox # <<>>
  /\ Head(mailbox).type = "force_shutdown"
  /\ WorldStops
  /\ UNCHANGED <<gate, pc, resume, request, flush, queue, registered, quiescing, sealed,
                 workvars, supvars, opvars>>

\* The call of the gate that task c made has returned: it has notified, and c goes on.
returned(c) == c \notin notifying

\* A turn of the World: a command, or what the heartbeat and a completion bring.
CommandTurn ==
  /\ returned(World)
  /\ \/ \E s \in Sessions : RequestTurn(s) \/ ClosedTurn(s)
     \/ QuiesceTurn \/ ProducersTurn \/ SessionsTurn
     \/ ShutdownTurn \/ ForceShutdownTurn

Heartbeat ==
  /\ returned(World)
  /\ \E s \in Sessions : RaceTick(s) \/ FinalizeSettlement(s) \/ CompletionTurn(s)
-----------------------------------------------------------------------------
\* The profile runtime and the reward pump.

ProfileJob(s) ==
  /\ write[s] = "pending"
  /\ write' = [write EXCEPT ![s] = "done"]
  /\ UNCHANGED <<gate, sessionvars, queue, worldvars, mailbox, lane, pump, retry, supvars, opvars>>

pump_ended == pump \in {"stopped", "failed"}

\* take_due_reward_tasks, which a pump that retains an error no longer calls.
PumpTakes(s) ==
  /\ running
  /\ pump \in {"running", "draining"}
  /\ lane[s] = "queued"
  /\ lane' = [lane EXCEPT ![s] = "inflight"]
  /\ UNCHANGED <<gate, sessionvars, queue, worldvars, mailbox, write, pump, retry, supvars, opvars>>

PumpCompletes(s) ==
  /\ ~pump_ended
  /\ lane[s] = "inflight"
  /\ \E phase \in {"ready", "failed"} : lane' = [lane EXCEPT ![s] = phase]
  /\ UNCHANGED <<gate, sessionvars, queue, worldvars, mailbox, write, pump, retry, supvars, opvars>>

\* A worker panics or meets an infrastructure failure: the pump retains the error.
\* Its settlement becomes a dead letter, or is queued again when its lease is over.
PumpErrs(s) ==
  /\ "pump" \in Mishaps
  /\ ~pump_ended
  /\ lane[s] = "inflight"
  /\ \E phase \in {"failed", "queued"} : lane' = [lane EXCEPT ![s] = phase]
  /\ pump' = "failing"
  /\ UNCHANGED <<gate, sessionvars, queue, worldvars, mailbox, write, retry, supvars, opvars>>

\* Mutant: a draining pump does not look at the lanes.
pump_may_stop_early == pump = "draining"

pump_may_stop == pump = "draining" /\ \A s \in Sessions : lane[s] = "free"

\* run_reward_persistence returns Ok: its drain finds no lane.
PumpStops ==
  /\ pump_may_stop
  /\ pump' = "stopped"
  /\ UNCHANGED <<gate, sessionvars, queue, worldvars, mailbox, lane, write, retry, supvars, opvars>>

\* It returns the error it retains once its workers are done, whatever lanes are
\* queued or failed; or the World is gone.
PumpFails ==
  /\ ~pump_ended
  /\ ~running \/ (pump = "failing" /\ \A s \in Sessions : lane[s] # "inflight")
  /\ pump' = "failed"
  /\ UNCHANGED <<gate, sessionvars, queue, worldvars, mailbox, lane, write, retry, supvars, opvars>>

\* It returns at once the error of a World that hands out no task, and its workers
\* are aborted with their lanes in flight.
PumpBreaks ==
  /\ "pump" \in Mishaps
  /\ pump \in {"running", "draining"}
  /\ pump' = "failed"
  /\ UNCHANGED <<gate, sessionvars, queue, worldvars, mailbox, lane, write, retry, supvars, opvars>>
-----------------------------------------------------------------------------
\* The operator, through ServerHandle.

RequestShutdown ==
  /\ ~shutdown_requested
  /\ shutdown_requested' = TRUE
  /\ UNCHANGED <<gate, sessionvars, queue, worldvars, mailbox, workvars, supvars,
                 force_requested, operator, transport_failed>>

\* shutdown() returns the dead letter of a lane it finds while it waits.
ReportDeadLetter(s) ==
  /\ shutdown_requested
  /\ running
  /\ lane[s] = "failed"
  /\ retry[s] = "none"
  /\ retry' = [retry EXCEPT ![s] = "reported"]
  /\ UNCHANGED <<gate, sessionvars, queue, worldvars, mailbox, lane, write, pump, supvars, opvars>>

\* retry_reward_dead_letter, which admit_command_during_quiesce refuses.
RetryDeadLetter(s) ==
  /\ running
  /\ lane[s] = "failed"
  /\ retry[s] = "reported"
  /\ \/ /\ serves
        /\ lane' = [lane EXCEPT ![s] = "queued"]
        /\ retry' = [retry EXCEPT ![s] = "none"]
     \/ /\ ~serves
        /\ retry' = [retry EXCEPT ![s] = "refused"]
        /\ UNCHANGED lane
  /\ UNCHANGED <<gate, sessionvars, queue, worldvars, mailbox, write, pump, supvars, opvars>>

\* force_shutdown: the flag, the bypass, then the shutdown signal and the command.
ForceFlag ==
  /\ "force" \in Mishaps
  /\ operator = "idle"
  /\ operator' = "flagged"
  /\ force_requested' = TRUE
  /\ UNCHANGED <<gate, sessionvars, queue, worldvars, mailbox, workvars, supvars,
                 shutdown_requested, transport_failed>>

ForceBypass ==
  /\ operator = "flagged"
  /\ operator' = "bypassed"
  /\ force_bypass(Operator)
  /\ UNCHANGED <<sessionvars, queue, worldvars, mailbox, workvars, supvars,
                 shutdown_requested, force_requested, transport_failed>>

\* Mutant: the World is left to the supervisor.
ForceStop_unsent ==
  /\ operator = "bypassed"
  /\ operator' = "stopped"
  /\ shutdown_requested' = TRUE
  /\ UNCHANGED <<gate, sessionvars, queue, worldvars, mailbox, workvars, supvars,
                 force_requested, transport_failed>>

ForceStop ==
  /\ operator = "bypassed"
  /\ operator' = "stopped"
  /\ shutdown_requested' = TRUE
  /\ IF running THEN Send("force_shutdown", Operator) ELSE UNCHANGED mailbox
  /\ UNCHANGED <<gate, sessionvars, queue, worldvars, workvars, supvars, force_requested,
                 transport_failed>>

TransportFails ==
  /\ "transport" \in Mishaps
  /\ stage = "serving"
  /\ ~transport_failed
  /\ transport_failed' = TRUE
  /\ UNCHANGED <<gate, sessionvars, queue, worldvars, mailbox, workvars, supvars,
                 shutdown_requested, force_requested, operator>>
-----------------------------------------------------------------------------
\* The supervisor.

\* Mutant: sessions are drained while batches are still queued.
Successor_skips_drain(order, now) ==
  IF now = "close_outbound" /\ order = GracefulOrder THEN "sessions"
  ELSE order[(CHOOSE i \in DOMAIN order : order[i] = now) + 1]

\* The phase that follows in one of the two orders.
Successor(order, now) == order[(CHOOSE i \in DOMAIN order : order[i] = now) + 1]

Advance ==
  /\ stage' = Successor(IF graceful THEN GracefulOrder ELSE AbandonedOrder, stage)
  /\ answer' = "none"
  /\ UNCHANGED graceful

Abandon(next) ==
  /\ stage' = next
  /\ graceful' = FALSE
  /\ answer' = "none"

supervises == <<sessionvars, queue, worldvars, workvars, opvars>>

\* The select! loop of run_supervisor ends, and finish_supervisor chooses a path.
LeaveServing ==
  /\ stage = "serving"
  /\ shutdown_requested \/ ~running \/ transport_failed
  /\ graceful' = (~transport_failed /\ ~force_requested /\ running)
  /\ stage' = IF graceful' THEN GracefulOrder[1] ELSE AbandonedOrder[1]
  /\ UNCHANGED <<gate, supervises, mailbox, answer>>

\* The pump ended while the server was serving: unexpected_reward_exit.
LosePump ==
  /\ stage = "serving"
  /\ pump_ended /\ running
  /\ transport_failed' = TRUE
  /\ stage' = AbandonedOrder[1]
  /\ graceful' = FALSE
  /\ UNCHANGED <<gate, sessionvars, queue, worldvars, mailbox, workvars, answer,
                 shutdown_requested, force_requested, operator>>

CloseRequests ==
  /\ stage = "close_requests"
  /\ close_admission(Supervisor, "request")
  /\ Advance
  /\ UNCHANGED <<supervises, mailbox>>

CloseOutbound ==
  /\ stage = "close_outbound"
  /\ close_admission(Supervisor, "outbound")
  /\ Advance
  /\ UNCHANGED <<supervises, mailbox>>

\* The two drain waits.
DrainWait(kind) ==
  /\ \/ waiting[Supervisor].phase = "idle" /\ arm(Supervisor, kind)
     \/ check(Supervisor)
     \/ park(Supervisor)
     \/ wake(Supervisor)
  /\ UNCHANGED <<supervises, mailbox, supvars>>

DrainRequests ==
  /\ stage = "request_drain"
  /\ \/ DrainWait("request")
     \/ /\ waiting[Supervisor].phase \in {"drained", "bypassed"}
        /\ abandon_wait(Supervisor)
        /\ IF waiting[Supervisor].phase = "drained" /\ ~force_requested
           THEN Advance ELSE Abandon("abandon")
        /\ UNCHANGED <<supervises, mailbox>>

DrainOutbound ==
  /\ stage = "outbound_drain"
  /\ \/ DrainWait("outbound")
     \/ /\ waiting[Supervisor].phase \in {"drained", "bypassed"}
        /\ abandon_wait(Supervisor)
        /\ Advance
        /\ UNCHANGED <<supervises, mailbox>>

\* abandon_wire_operations.
AbandonWire ==
  /\ stage = "abandon"
  /\ force_bypass(Supervisor)
  /\ Advance
  /\ UNCHANGED <<supervises, mailbox>>

\* A command to the World and its reply, or the World's end.
AskWorld ==
  /\ stage \in {"quiesce", "producers", "sessions", "world"}
  /\ answer = "none"
  /\ running
  /\ stage \in {"producers", "world"} => ~force_requested
  /\ Send(IF stage = "world" THEN "shutdown" ELSE stage, Supervisor)
  /\ answer' = "asked"
  /\ UNCHANGED <<gate, supervises, stage, graceful>>

HearWorld ==
  /\ stage \in {"quiesce", "sessions"}
  /\ answer \in {"true", "false"} \/ ~running
  /\ Advance
  /\ UNCHANGED <<gate, supervises, mailbox>>

\* drain_world_outbound_producers; when it fails the wire work is abandoned and
\* the path goes on without the outbound drain.
HearProducers ==
  /\ stage = "producers"
  /\ \/ /\ answer = "true"
        /\ Advance
        /\ UNCHANGED gate
     \/ /\ answer = "false"
        /\ answer' = "none"
        /\ UNCHANGED <<gate, stage, graceful>>
     \/ /\ (answer = "none" /\ force_requested) \/ (~running /\ answer # "true")
        /\ force_bypass(Supervisor)
        /\ stage' = "sessions"
        /\ answer' = "none"
        /\ UNCHANGED graceful
  /\ UNCHANGED <<supervises, mailbox>>

\* stop_reward_runtime: an error of the pump is kept for the end, and the path goes on.
StopPump ==
  /\ stage = "pump"
  /\ \/ /\ pump = "running"
        /\ pump' = "draining"
        /\ UNCHANGED supvars
     \/ /\ pump_ended
        /\ Advance
        /\ UNCHANGED pump
  /\ UNCHANGED <<gate, sessionvars, queue, worldvars, mailbox, lane, write, retry, opvars>>

\* ProfileIoRuntime::shutdown waits for every accepted job.  The job of a worker
\* that was aborted ends unheard.
StopProfile ==
  /\ stage = "profile"
  /\ \A s \in Sessions : write[s] # "pending" /\ (lane[s] = "inflight" => pump_ended)
  /\ Advance
  /\ UNCHANGED <<gate, supervises, mailbox>>

\* drain_myroom_completions.
DrainCompletions ==
  /\ stage = "completions"
  /\ ~running \/ \A s \in Sessions : write[s] # "done"
  /\ Advance
  /\ UNCHANGED <<gate, supervises, mailbox>>

AbortSessions ==
  /\ stage = "abort"
  /\ cancelled' = [s \in Sessions |-> TRUE]
  /\ Advance
  /\ UNCHANGED <<gate, pc, resume, request, flush, queue, worldvars, mailbox, workvars, opvars>>

JoinSessions ==
  /\ stage = "join"
  /\ \A s \in Sessions : pc[s] = "gone"
  /\ Advance
  /\ UNCHANGED <<gate, supervises, mailbox>>

\* stop_world_runtime: a refused shutdown is forced; then the actor is joined.
StopWorld ==
  /\ stage = "world"
  /\ \/ /\ answer = "false"
        /\ running
        /\ Send("force_shutdown", Supervisor)
        /\ answer' = "asked"
        /\ UNCHANGED <<stage, graceful>>
     \/ /\ ~running
        /\ Advance
        /\ UNCHANGED mailbox
  /\ UNCHANGED <<gate, supervises>>

Supervise ==
  /\ returned(Supervisor)
  /\ \/ LeaveServing \/ LosePump \/ CloseRequests \/ DrainRequests \/ AbandonWire
     \/ AskWorld \/ HearWorld \/ HearProducers
     \/ StopPump \/ StopProfile \/ DrainCompletions
     \/ CloseOutbound \/ DrainOutbound
     \/ AbortSessions \/ JoinSessions \/ StopWorld

NotifyWaiters(c) ==
  /\ notify_waiters(c)
  /\ UNCHANGED <<sessionvars, queue, worldvars, mailbox, workvars, supvars, opvars>>

\* What a session task does by itself once it can run, and what its client does.
SessionStep(s) ==
  /\ returned(s)
  /\ \/ EnterSelect(s) \/ PollAdmission(s) \/ TakeBatch(s) \/ EndWrite(s)
     \/ AdmitRequest(s) \/ SendRequest(s) \/ SnapshotQueue(s) \/ EndRequest(s)
     \/ SeeCancellation(s) \/ Unwind(s) \/ CloseRegistration(s) \/ DropQueue(s)

ClientStep(s) == returned(s) /\ (ReadFrame(s) \/ ConnectionEnds(s))

PumpStep ==
  \/ \E s \in Sessions : PumpTakes(s) \/ PumpCompletes(s)
  \/ PumpStops \/ PumpFails

\* force_shutdown, once it has been called.
ForceStep == ForceBypass \/ (returned(Operator) /\ ForceStop)

Next ==
  \/ \E s \in Sessions :
       \/ SessionStep(s) \/ ClientStep(s)
       \/ ProfileJob(s) \/ PumpErrs(s)
       \/ ReportDeadLetter(s) \/ RetryDeadLetter(s)
  \/ CommandTurn \/ Heartbeat \/ PumpStep \/ PumpBreaks \/ Supervise
  \/ RequestShutdown \/ ForceFlag \/ ForceStep \/ TransportFails
  \/ \E c \in Callers : NotifyWaiters(c)

Spec == Init /\ [][Next]_vars

\* Tasks that can run do, writes to clients end (session_write_timeout), profile
\* jobs end, races and settlements proceed when the World lets them.  Nothing
\* obliges a client to send a frame or to leave, or the operator to shut down;
\* force_shutdown runs to its end once called.
Fairness ==
  /\ \A s \in Sessions : WF_vars(SessionStep(s)) /\ WF_vars(ProfileJob(s))
  /\ WF_vars(CommandTurn) /\ WF_vars(Heartbeat)
  /\ WF_vars(PumpStep)
  /\ WF_vars(Supervise)
  /\ WF_vars(ForceStep)
  /\ \A c \in Callers : WF_vars(NotifyWaiters(c))

FairSpec == Spec /\ Fairness
-----------------------------------------------------------------------------
\* The batches that hold a guard for session s: queued, being written, reserved by
\* an accepted profile write.
batches(s) ==
  queue[s] + (IF pc[s] = "writing" THEN 1 ELSE 0) + (IF write[s] = "none" THEN 0 ELSE 1)

\* The counters of the gate count exactly the requests in progress and the batches
\* reserved, queued or being written, through every cancellation, failed write,
\* superseded completion and dropped queue.
GuardsMatchWork ==
  /\ active["request"] = Cardinality({s \in Sessions : request[s]})
  /\ active["outbound"] = Cardinality(UNION {{s} \X (1..batches(s)) : s \in Sessions})

\* On the graceful path every admitted request is served by a World that still
\* produces: when quiesce takes effect no request is in progress and no command of
\* a cancelled request is left in the mailbox.
RequestsFinishBeforeQuiesce ==
  (quiescing /\ graceful) =>
    /\ \A s \in Sessions : ~request[s]
    /\ \A i \in DOMAIN mailbox : mailbox[i].type # "request"

\* Outbound publication is closed, on the graceful path, only when nothing is left
\* that would publish: no accepted profile write and no durable reward, although the
\* producer barrier looks at neither queued rewards nor the pump.  A race or reward
\* still outstanding is one that a pump which ended in an error leaves behind, and
\* nobody will ever make it durable.
SealedAfterProducers ==
  (graceful /\ ~accepting["outbound"] /\ ~force_bypassed) =>
    /\ pump_ended
    /\ \A s \in Sessions : /\ write[s] = "none" /\ lane[s] # "ready"
                          /\ lane[s] # "free" => pump = "failed"

\* The graceful path cancels no session while a batch published to it is queued or
\* being written, unless the operator forces: every publication is written, or was
\* dropped with its own connection.
PublicationsWrittenBeforeTeardown ==
  (graceful /\ stage \in {"sessions", "abort", "join", "world", "done"} /\ ~force_bypassed) =>
    \A s \in Sessions : queue[s] = 0 /\ pc[s] # "writing"

\* A graceful shutdown ends.
GracefulShutdownEnds ==
  (shutdown_requested /\ ~transport_failed) ~> (stage = "done" \/ transport_failed)

\* A shutdown ends whatever the clients, the World and the rewards do, be it
\* graceful, forced, or the cleanup after a transport or the pump has failed.  One
\* thing can hold it up, and only until the operator forces it: a pump that drains
\* and waits for a reward lane which stays taken.
ShutdownEnds ==
  (shutdown_requested \/ force_requested \/ transport_failed) ~>
    \/ stage = "done"
    \/ [](stage = "pump" /\ ~force_requested /\ \E s \in Sessions : lane[s] # "free")

=============================================================================
