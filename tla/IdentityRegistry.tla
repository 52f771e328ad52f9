-------------------------- MODULE IdentityRegistry --------------------------
(***************************************************************************)
(* The identity registry of the World actor (p5136-server/src/identity.rs) *)
(* with the World glue that drives it (claim capacity, channel migration,  *)
(* session close, the one-second expiry sweep, shutdown drain) and the     *)
(* tasks outside the actor that hold operation leases and migration        *)
(* tickets.                                                                *)
(*                                                                         *)
(* Every actor turn is one action.  Work that runs outside the actor is    *)
(* not atomic with it: leases are retained and dropped by other tasks, and *)
(* a destination session waits for the frozen source to drain in the three *)
(* steps of wait_until_drained (check, register and check again, park).    *)
(*                                                                         *)
(* A nickname stands for its canonical key and for its user number, which  *)
(* the registry allocates once per key.  A token stands for the migration  *)
(* token together with the channel it was issued for: both are compared    *)
(* for equality and nothing else.                                          *)
(***************************************************************************)
EXTENDS Integers, FiniteSets, Sequences

CONSTANTS
  Nicknames,         \* canonical nickname keys
  Sessions,          \* TCP sessions; ids are never reused
  Tasks,             \* slots for operations that hold a lease
  Tokens,            \* migration token and channel
  SourceIp,          \* SourceIp[s]: the peer address of session s
  None,              \* Rust's None
  IdentityCapacity,  \* World::identity_capacity
  MigrationTtl,      \* MIGRATION_TTL, in clock ticks
  ClockLag,          \* how old a clock sample a command may carry
  MaxRetainDepth,    \* how deep try_retain nests
  MaxGeneration,     \* u64::MAX of next_generation
  MaxTransferId,     \* u64::MAX of next_transfer_id
  MaxClock,          \* the last representable Instant
  MaxArrivalEpoch,   \* u64::MAX of the UDP arrival clock
  IngressCapacity    \* the UDP ingress mailbox

ASSUME ConstantsAssumption ==
  /\ IsFiniteSet(Nicknames) /\ IsFiniteSet(Tasks)
  /\ None \notin Sessions
  /\ IdentityCapacity \in Nat /\ MigrationTtl \in Nat \ {0}
  /\ ClockLag \in Nat /\ MaxRetainDepth \in Nat
  /\ MaxGeneration \in Nat \ {0} /\ MaxTransferId \in Nat \ {0}
  /\ MaxClock \in Nat /\ MaxArrivalEpoch \in Nat /\ IngressCapacity \in Nat

Generations == 1..MaxGeneration
TransferIds == 1..MaxTransferId

\* IdentityOperationGate::OPEN and ::RETIRED; any other state is the transfer
\* that froze the gate.  RETIRED is the value no transfer id ever takes.
OPEN == 0
RETIRED == MaxTransferId

MigrationPermit ==
  [source_generation : Generations, source_session : Sessions,
   token : Tokens, expires_at : 0..MaxClock]

ActiveIdentity ==
  [generation : Generations, owner : Sessions \cup {None},
   permit : MigrationPermit \cup {None},
   transfer_in_progress : TransferIds \cup {None}]

DeferredRelease == [nickname : Nicknames, generation : Generations]

\* A ticket and the place its holder has reached: the three steps of
\* wait_until_drained, the profile load, and the completion mailbox.
MigrationPreflight ==
  [transfer_id : TransferIds, nickname : Nicknames, token : Tokens,
   source_generation : Generations, source_session : Sessions,
   source_state : Sessions \cup {None}, expires_at : 0..MaxClock,
   phase : {"check", "recheck", "parked", "loading", "ready", "aborted"},
   notified : BOOLEAN]

Lease == [generation : Generations, depth : 0..MaxRetainDepth]

Datagram ==
  [nickname : Nicknames, arrival_epoch : 0..MaxArrivalEpoch, generation : 0..MaxGeneration]

\* An Option is a value of its type or None, never both.
ASSUME NoneAssumption ==
  /\ None \notin ActiveIdentity /\ None \notin MigrationPermit /\ None \notin TransferIds
  /\ None \notin DeferredRelease /\ None \notin MigrationPreflight /\ None \notin Lease

VARIABLES
  \* --- the registry, owned by the World actor
  active,             \* active_by_name
  session_bindings,   \* the nickname and generation a session was bound to
  deferred_releases,  \* generations waiting for their last operation
  next_generation, next_transfer_id,
  \* --- the per-generation operation gates, shared with other tasks
  gate_state, active_operations, activated_udp_epoch,
  \* --- the rest of the World
  sessions,           \* registered sessions
  quiescing,
  announced,          \* the generation the sidecars were last told of, or 0
  clock, arrival_epoch, ingress,
  \* --- other tasks
  lease,              \* the operation a task holds
  preflight           \* the migration ticket of a destination session

registry == <<active, session_bindings, next_generation, next_transfer_id>>
retained == <<deferred_releases, gate_state, announced>>
world    == <<sessions, quiescing, clock>>
udp      == <<arrival_epoch, ingress, activated_udp_epoch>>
tasks    == <<active_operations, lease, preflight>>
vars     == <<registry, retained, world, udp, tasks>>

TypeOK ==
  /\ active \in [Nicknames -> ActiveIdentity \cup {None}]
  /\ session_bindings \in [Sessions -> DeferredRelease \cup {None}]
  /\ deferred_releases \subseteq DeferredRelease
  /\ next_generation \in Generations
  /\ next_transfer_id \in TransferIds
  /\ gate_state \in [Generations -> 0..MaxTransferId]
  /\ active_operations \in [Generations -> Nat]
  /\ activated_udp_epoch \in [Generations -> 0..MaxArrivalEpoch]
  /\ sessions \subseteq Sessions
  /\ quiescing \in BOOLEAN
  /\ announced \in [Nicknames -> 0..MaxGeneration]
  /\ clock \in 0..MaxClock
  /\ arrival_epoch \in 0..MaxArrivalEpoch
  /\ ingress \in Seq(Datagram)
  /\ lease \in [Tasks -> Lease \cup {None}]
  /\ preflight \in [Sessions -> MigrationPreflight \cup {None}]

Init ==
  /\ active = [n \in Nicknames |-> None]
  /\ session_bindings = [s \in Sessions |-> None]
  /\ deferred_releases = {}
  /\ next_generation = 1
  /\ next_transfer_id = 1
  /\ gate_state = [g \in Generations |-> OPEN]
  /\ active_operations = [g \in Generations |-> 0]
  /\ activated_udp_epoch = [g \in Generations |-> 0]
  /\ sessions = Sessions
  /\ quiescing = FALSE
  /\ announced = [n \in Nicknames |-> 0]
  /\ clock = 0
  /\ arrival_epoch = 0
  /\ ingress = <<>>
  /\ lease = [t \in Tasks |-> None]
  /\ preflight = [s \in Sessions |-> None]
-----------------------------------------------------------------------------
\* Helpers of the actor turns.

IsActive(n) == active[n] # None

\* The generation whose World state the nickname still holds, or 0.
Retained(n) ==
  IF IsActive(n) THEN active[n].generation
  ELSE IF \E d \in deferred_releases : d.nickname = n
       THEN (CHOOSE d \in deferred_releases : d.nickname = n).generation
       ELSE 0

is_drained(g) == active_operations[g] = 0

\* Mutant: release without waiting for the operations.
Drained_at_once(deferred) == deferred

Drained(deferred) == {d \in deferred : is_drained(d.generation)}

\* retire_drained on the gate of every entry of ds.
Retire(gates, ds) ==
  [g \in Generations |-> IF \E d \in ds : d.generation = g THEN RETIRED ELSE gates[g]]

\* IdentityLifecycleEvent::Release of every entry of ds.
Forget(told, ds) ==
  [n \in Nicknames |->
     IF \E d \in ds : d.nickname = n /\ d.generation = told[n] THEN 0 ELSE told[n]]

\* Mutant: the sidecars are told of the release when the session goes, not when
\* the last operation does.
Flush_release_early(deferred, gates, told) ==
  /\ deferred_releases' = deferred \ Drained(deferred)
  /\ gate_state' = Retire(gates, Drained(deferred))
  /\ announced' = Forget(told, deferred)

\* flush_identity_lifecycle, which ends every command turn: release the
\* deferred generations whose last operation has retired, then tell the
\* sidecars.  The arguments are the turn's own results.
Flush(deferred, gates, told) ==
  /\ deferred_releases' = deferred \ Drained(deferred)
  /\ gate_state' = Retire(gates, Drained(deferred))
  /\ announced' = Forget(told, Drained(deferred))

FlushOnly == Flush(deferred_releases, gate_state, announced)

\* reopen_exact on a set of (generation, transfer) pairs.
Reopen(gates, frozen) ==
  [g \in Generations |-> IF <<g, gates[g]>> \in frozen THEN OPEN ELSE gates[g]]

\* Mutant: nobody notifies the drain waiters.
Notify_forgotten(tickets, gs) == tickets

\* notify_waiters on the gate of every generation in gs: every holder of a
\* ticket that has registered its Notified is woken.
Notify(tickets, gs) ==
  [s \in Sessions |->
     IF /\ tickets[s] # None
        /\ tickets[s].source_generation \in gs
        /\ tickets[s].phase \in {"recheck", "parked"}
     THEN [tickets[s] EXCEPT !.notified = TRUE]
     ELSE tickets[s]]

\* UdpArrivalClock::increment saturates.
Increment(epoch) == IF epoch < MaxArrivalEpoch THEN epoch + 1 ELSE epoch

\* The clock samples a command may carry when its turn comes.
Samples == {t \in 0..clock : t + ClockLag >= clock}

\* session s is the current owner of the nickname it is bound to, which is not
\* being transferred.
authorize(s) ==
  /\ session_bindings[s] # None
  /\ LET n == session_bindings[s].nickname
     IN /\ IsActive(n)
        /\ active[n].owner = s
        /\ active[n].generation = session_bindings[s].generation
        /\ active[n].transfer_in_progress = None

\* validate_migration for destination d, at time t.
validate_migration(d, n, token, t) ==
  /\ session_bindings[d] = None
  /\ IsActive(n)
  /\ active[n].permit # None
  /\ t < active[n].permit.expires_at
  /\ active[n].permit.token = token
  /\ SourceIp[active[n].permit.source_session] = SourceIp[d]
  /\ active[n].permit.source_generation = active[n].generation
  /\ active[n].owner \in {None, active[n].permit.source_session}

\* MigrationSourceState::permits_current.
permits_current(source_state, owner, permit_source) ==
  IF source_state = None
  THEN owner = None
  ELSE source_state = permit_source /\ owner \in {None, source_state}

\* Mutants: a disconnect is deferred whether or not the permit is usable; the
\* sweep only visits identities that still have an owner.
permit_usable_always(n, t) == TRUE
permit_due_owned(n, t) ==
  active[n].owner # None /\ active[n].permit # None /\ t >= active[n].permit.expires_at

\* The latest permit of n can still be redeemed at time t, or is due at t.
permit_usable(n, t) == active[n].permit # None /\ active[n].permit.expires_at > t
permit_due(n, t) == active[n].permit # None /\ t >= active[n].permit.expires_at

\* The fields by which a ticket recognises the permit it was minted from.
exact_permit(p, ticket) ==
  /\ p # None
  /\ p.source_generation = ticket.source_generation
  /\ p.source_session = ticket.source_session
  /\ p.token = ticket.token
  /\ p.expires_at = ticket.expires_at

\* Mutant: the commit trusts the clock of the preflight.
validate_preflighted_stale_clock(d, ticket) ==
  LET n == ticket.nickname
  IN /\ validate_migration(d, n, ticket.token, ticket.expires_at - 1)
     /\ exact_permit(active[n].permit, ticket)
     /\ active[n].transfer_in_progress = ticket.transfer_id
     /\ is_drained(ticket.source_generation)
     /\ next_generation < MaxGeneration

validate_preflighted_migration(d, ticket) ==
  LET n == ticket.nickname
  IN /\ validate_migration(d, n, ticket.token, clock)
     /\ permits_current(ticket.source_state, active[n].owner,
                        active[n].permit.source_session)
     /\ exact_permit(active[n].permit, ticket)
     /\ active[n].transfer_in_progress = ticket.transfer_id
     /\ active[n].generation = ticket.source_generation
     /\ gate_state[ticket.source_generation] = ticket.transfer_id
     /\ is_drained(ticket.source_generation)
     /\ next_generation < MaxGeneration
-----------------------------------------------------------------------------
\* World commands on behalf of a session.

\* ClaimIdentity: a first flush frees what has drained, the arrival clock moves
\* on whether or not the claim succeeds, then the claim itself.
claim_accepted(s, n, deferred) ==
  /\ Cardinality({m \in Nicknames : IsActive(m)}) + Cardinality(deferred) < IdentityCapacity
  /\ session_bindings[s] = None
  /\ ~IsActive(n)
  /\ \A d \in deferred : d.nickname # n
  /\ next_generation < MaxGeneration

ClaimIdentity(s, n) ==
  /\ ~quiescing
  /\ s \in sessions
  /\ arrival_epoch' = Increment(arrival_epoch)
  /\ deferred_releases' = deferred_releases \ Drained(deferred_releases)
  /\ gate_state' = Retire(gate_state, Drained(deferred_releases))
  /\ LET g == next_generation
         told == Forget(announced, Drained(deferred_releases))
     IN \/ /\ claim_accepted(s, n, deferred_releases \ Drained(deferred_releases))
           /\ active' = [active EXCEPT ![n] =
                           [generation |-> g, owner |-> s, permit |-> None,
                            transfer_in_progress |-> None]]
           /\ session_bindings' = [session_bindings EXCEPT ![s] =
                                     [nickname |-> n, generation |-> g]]
           /\ activated_udp_epoch' = [activated_udp_epoch EXCEPT ![g] = arrival_epoch']
           /\ next_generation' = g + 1
           /\ announced' = [told EXCEPT ![n] = g]
        \/ /\ ~claim_accepted(s, n, deferred_releases \ Drained(deferred_releases))
           /\ announced' = told
           /\ UNCHANGED <<active, session_bindings, activated_udp_epoch, next_generation>>
  /\ UNCHANGED <<next_transfer_id, world, ingress, tasks>>

\* AdmitIdentityOperation: task t starts an operation of session s.
AdmitOperation(s, t) ==
  LET g == session_bindings[s].generation
  IN /\ ~quiescing
     /\ lease[t] = None
     /\ authorize(s)
     /\ gate_state[g] = OPEN
     /\ lease' = [lease EXCEPT ![t] = [generation |-> g, depth |-> 0]]
     /\ active_operations' = [active_operations EXCEPT ![g] = @ + 1]
     /\ FlushOnly
     /\ UNCHANGED <<registry, world, udp, preflight>>

\* BeginMigration: replace any permit of this generation.
BeginMigration(s, token, t) ==
  LET n == session_bindings[s].nickname
  IN /\ ~quiescing
     /\ authorize(s)
     /\ t + MigrationTtl <= MaxClock
     /\ active' = [active EXCEPT ![n].permit =
                     [source_generation |-> session_bindings[s].generation,
                      source_session |-> s, token |-> token,
                      expires_at |-> t + MigrationTtl]]
     /\ FlushOnly
     /\ UNCHANGED <<session_bindings, next_generation, next_transfer_id, world, udp, tasks>>

\* PreflightMigration: validate, freeze the source's gate, mint a ticket.
PreflightMigration(d, n, token, t) ==
  LET source == active[n]
      id == next_transfer_id
  IN /\ ~quiescing
     /\ d \in sessions
     /\ preflight[d] = None
     /\ validate_migration(d, n, token, t)
     /\ source.transfer_in_progress = None
     /\ next_transfer_id < MaxTransferId
     /\ gate_state[source.generation] = OPEN
     /\ next_transfer_id' = id + 1
     /\ active' = [active EXCEPT ![n].transfer_in_progress = id]
     /\ Flush(deferred_releases, [gate_state EXCEPT ![source.generation] = id], announced)
     /\ preflight' = [preflight EXCEPT ![d] =
          [transfer_id |-> id, nickname |-> n, token |-> token,
           source_generation |-> source.permit.source_generation,
           source_session |-> source.permit.source_session,
           source_state |-> source.owner,
           expires_at |-> source.permit.expires_at,
           phase |-> "check", notified |-> FALSE]]
     /\ UNCHANGED <<session_bindings, next_generation, world, udp, active_operations, lease>>
-----------------------------------------------------------------------------
\* Completions of a migration ticket, in the World actor.

\* Mutant: an abort is recognised by its generation alone.
abort_applies_by_generation(ticket) ==
  IsActive(ticket.nickname) /\ active[ticket.nickname].generation = ticket.source_generation

\* abort_preflighted_migration takes effect only for the exact transfer.
abort_applies(ticket) ==
  LET n == ticket.nickname
  IN /\ IsActive(n)
     /\ exact_permit(active[n].permit, ticket)
     /\ active[n].generation = ticket.source_generation
     /\ active[n].transfer_in_progress = ticket.transfer_id
     /\ gate_state[ticket.source_generation] = ticket.transfer_id

\* The ticket of d is consumed; its freeze is undone if it is still the one in
\* force.
abort_preflighted_migration(d) ==
  LET ticket == preflight[d]
      g == ticket.source_generation
      rest == [preflight EXCEPT ![d] = None]
  IN \/ /\ abort_applies(ticket)
        /\ active' = [active EXCEPT ![ticket.nickname].transfer_in_progress = None]
        /\ Flush(deferred_releases, Reopen(gate_state, {<<g, ticket.transfer_id>>}), announced)
        /\ preflight' = Notify(rest, {g})
     \/ /\ ~abort_applies(ticket)
        /\ preflight' = rest
        /\ FlushOnly
        /\ UNCHANGED active

\* MigrationProfileCompletion::Aborted.
AbortMigration(d) ==
  /\ preflight[d] # None
  /\ preflight[d].phase = "aborted"
  /\ abort_preflighted_migration(d)
  /\ UNCHANGED <<session_bindings, next_generation, next_transfer_id, world, udp,
                 active_operations, lease>>

\* MigrationProfileCompletion::Ready whose destination closed meanwhile, or whose
\* ticket no longer validates.
RejectMigration(d) ==
  /\ preflight[d] # None
  /\ preflight[d].phase = "ready"
  /\ ~ (d \in sessions /\ validate_preflighted_migration(d, preflight[d]))
  /\ abort_preflighted_migration(d)
  /\ UNCHANGED <<session_bindings, next_generation, next_transfer_id, world, udp,
                 active_operations, lease>>

\* MigrationProfileCompletion::Ready that prepares its replacement generation
\* and then fails in another subsystem: the number is burned.
BurnMigration(d) ==
  /\ preflight[d] # None
  /\ preflight[d].phase = "ready"
  /\ d \in sessions
  /\ validate_preflighted_migration(d, preflight[d])
  /\ next_generation' = next_generation + 1
  /\ abort_preflighted_migration(d)
  /\ UNCHANGED <<session_bindings, next_transfer_id, world, udp, active_operations, lease>>

\* MigrationProfileCompletion::Ready: retire the drained source generation and
\* publish the replacement, in one turn.
CommitMigration(d) ==
  LET ticket == preflight[d]
      n == ticket.nickname
      old == ticket.source_generation
      new == next_generation
  IN /\ ticket # None
     /\ ticket.phase = "ready"
     /\ d \in sessions
     /\ validate_preflighted_migration(d, ticket)
     /\ next_generation' = new + 1
     /\ arrival_epoch' = Increment(arrival_epoch)
     /\ activated_udp_epoch' = [activated_udp_epoch EXCEPT ![new] = arrival_epoch']
     /\ active' = [active EXCEPT ![n] =
                     [generation |-> new, owner |-> d, permit |-> None,
                      transfer_in_progress |-> None]]
     /\ session_bindings' = [session_bindings EXCEPT ![d] =
                               [nickname |-> n, generation |-> new]]
     /\ Flush(deferred_releases, [gate_state EXCEPT ![old] = RETIRED],
              [announced EXCEPT ![n] = IF @ = old THEN new ELSE @])
     /\ preflight' = [preflight EXCEPT ![d] = None]
     /\ UNCHANGED <<next_transfer_id, world, ingress, active_operations, lease>>
-----------------------------------------------------------------------------
\* Releasing identities.

\* The release of the active identities of ns, at once: reopen a frozen gate,
\* then release the drained ones and defer the others.  Every removal is
\* followed by a flush, so the drained entries never stay in the list.
ReleaseActive(ns) ==
  LET gone == {[nickname |-> n, generation |-> active[n].generation] : n \in ns}
      frozen == {<<active[n].generation, active[n].transfer_in_progress>> : n \in ns}
  IN Flush(deferred_releases \cup gone, Reopen(gate_state, frozen), announced)

\* SessionClosed.  A session whose request still holds the ticket ends that
\* request first (CancelMigration).
CloseSession(s) ==
  LET bound == session_bindings[s]
      n == bound.nickname
      current == /\ bound # None
                 /\ IsActive(n)
                 /\ active[n].owner = s
                 /\ active[n].generation = bound.generation
  IN /\ s \in sessions
     /\ preflight[s] # None => preflight[s].phase \in {"ready", "aborted"}
     /\ sessions' = sessions \ {s}
     /\ session_bindings' = [session_bindings EXCEPT ![s] = None]
     /\ \/ /\ ~current                    \* Unauthenticated or Stale
           /\ FlushOnly
           /\ UNCHANGED <<active, preflight>>
        \/ /\ current /\ permit_usable(n, clock)        \* Deferred
           /\ active' = [active EXCEPT ![n].owner = None]
           /\ FlushOnly
           /\ UNCHANGED preflight
        \/ /\ current /\ ~permit_usable(n, clock)       \* Released or Draining
           /\ active' = [active EXCEPT ![n] = None]
           /\ ReleaseActive({n})
           /\ preflight' = IF active[n].transfer_in_progress = None THEN preflight
                           ELSE Notify(preflight, {active[n].generation})
     /\ UNCHANGED <<next_generation, next_transfer_id, quiescing, clock, udp,
                    active_operations, lease>>

\* expire_migrations at time t: every due permit is dropped and its freeze
\* undone; an ownerless identity goes with its permit.
expire_migrations(t) ==
  LET due == {n \in Nicknames : IsActive(n) /\ permit_due(n, t)}
      frozen == {n \in due : active[n].transfer_in_progress # None}
      ownerless == {n \in due : active[n].owner = None}
      gone == {[nickname |-> n, generation |-> active[n].generation] : n \in ownerless}
  IN /\ active' = [n \in Nicknames |->
                     IF n \in ownerless THEN None
                     ELSE IF n \in due
                          THEN [active[n] EXCEPT !.permit = None,
                                                 !.transfer_in_progress = None]
                          ELSE active[n]]
     /\ Flush(deferred_releases \cup gone,
              Reopen(gate_state, {<<active[n].generation, active[n].transfer_in_progress>> :
                                    n \in frozen}),
              announced)
     /\ preflight' = Notify(preflight, {active[n].generation : n \in frozen})

\* The one-second maintenance tick of the actor loop.
MigrationExpiry ==
  /\ ~quiescing
  /\ expire_migrations(clock)
  /\ UNCHANGED <<session_bindings, next_generation, next_transfer_id, world, udp,
                 active_operations, lease>>

\* Any other command turn: it ends in the flush.
CommandTurn ==
  /\ FlushOnly
  /\ UNCHANGED <<registry, world, udp, tasks>>

Quiesce ==
  /\ ~quiescing
  /\ quiescing' = TRUE
  /\ FlushOnly
  /\ UNCHANGED <<registry, sessions, clock, udp, tasks>>

\* DrainOutboundProducers: every permit is expired as if its TTL were over, or
\* only the due ones when the clock cannot represent that Instant.  Once every
\* producer is drained the turn is a plain flush, which CommandTurn covers.
DrainOutboundProducers ==
  /\ quiescing
  /\ expire_migrations(IF clock + MigrationTtl <= MaxClock THEN clock + MigrationTtl
                       ELSE clock)
  /\ UNCHANGED <<session_bindings, next_generation, next_transfer_id, world, udp,
                 active_operations, lease>>

\* DrainSessions: refused while an accepted operation is outstanding; then every
\* session and every active identity goes at once, frozen or not.
DrainSessions ==
  LET all == {n \in Nicknames : IsActive(n)}
      gone == {[nickname |-> n, generation |-> active[n].generation] : n \in all}
  IN /\ quiescing
     /\ sessions # {}
     /\ \A n \in all : is_drained(active[n].generation)
     /\ \A d \in deferred_releases : is_drained(d.generation)
     /\ sessions' = {}
     /\ session_bindings' = [s \in Sessions |-> None]
     /\ active' = [n \in Nicknames |-> None]
     /\ Flush(deferred_releases \cup gone, gate_state, announced)
     /\ UNCHANGED <<next_generation, next_transfer_id, quiescing, clock, udp, tasks>>
-----------------------------------------------------------------------------
\* UDP: reader tasks stamp datagrams, the actor admits them later.

\* A reader task receives a datagram whose account header names n.  The
\* generation recorded is the one the sender was speaking to; the code has no
\* such field, it is there for DatagramKeepsItsGeneration.
ReceiveDatagram(n) ==
  /\ Len(ingress) < IngressCapacity
  /\ arrival_epoch' = Increment(arrival_epoch)
  /\ ingress' = Append(ingress,
       [nickname |-> n, arrival_epoch |-> arrival_epoch',
        generation |-> IF IsActive(n) THEN active[n].generation ELSE 0])
  /\ UNCHANGED <<registry, retained, world, activated_udp_epoch, tasks>>

\* Mutant: no arrival epoch.
udp_admitted_any_epoch(datagram) ==
  LET n == datagram.nickname
  IN /\ ~quiescing
     /\ IsActive(n)
     /\ active[n].owner # None
     /\ active[n].transfer_in_progress = None

udp_admitted(datagram) ==
  LET n == datagram.nickname
  IN /\ ~quiescing
     /\ IsActive(n)
     /\ active[n].owner # None
     /\ active[n].transfer_in_progress = None
     /\ datagram.arrival_epoch > activated_udp_epoch[active[n].generation]
     /\ gate_state[active[n].generation] = OPEN

\* dispatch_udp_ingress of an admitted datagram by task t.
AdmitUdpOperation(t) ==
  /\ ingress # <<>>
  /\ lease[t] = None
  /\ udp_admitted(Head(ingress))
  /\ LET g == active[Head(ingress).nickname].generation
     IN /\ lease' = [lease EXCEPT ![t] = [generation |-> g, depth |-> 0]]
        /\ active_operations' = [active_operations EXCEPT ![g] = @ + 1]
  /\ ingress' = Tail(ingress)
  /\ UNCHANGED <<registry, retained, world, arrival_epoch, activated_udp_epoch, preflight>>

DropDatagram ==
  /\ ingress # <<>>
  /\ ~udp_admitted(Head(ingress))
  /\ ingress' = Tail(ingress)
  /\ UNCHANGED <<registry, retained, world, arrival_epoch, activated_udp_epoch, tasks>>
-----------------------------------------------------------------------------
\* Tasks outside the actor.

\* try_retain: task t splits its operation into a branch run by task u.
RetainLease(t, u) ==
  LET g == lease[t].generation
  IN /\ lease[t] # None
     /\ lease[t].depth < MaxRetainDepth
     /\ lease[u] = None
     /\ gate_state[g] # RETIRED
     /\ lease' = [lease EXCEPT ![u] = [generation |-> g, depth |-> lease[t].depth + 1]]
     /\ active_operations' = [active_operations EXCEPT ![g] = @ + 1]
     /\ UNCHANGED <<registry, retained, world, udp, preflight>>

\* Dropping a lease releases its gate; the last one notifies the waiters.
DropLease(t) ==
  LET g == lease[t].generation
  IN /\ lease[t] # None
     /\ active_operations[g] # 0
     /\ lease' = [lease EXCEPT ![t] = None]
     /\ active_operations' = [active_operations EXCEPT ![g] = @ - 1]
     /\ preflight' = IF active_operations[g] = 1 THEN Notify(preflight, {g}) ELSE preflight
     /\ UNCHANGED <<registry, retained, world, udp>>

\* One check of wait_until_drained by the ticket holder: the transfer is gone,
\* the source is drained, or the wait goes on.
CheckDrained(d) ==
  LET ticket == preflight[d]
      frozen == gate_state[ticket.source_generation] = ticket.transfer_id
      drained == is_drained(ticket.source_generation)
  IN /\ ticket # None
     /\ ticket.phase \in {"check", "recheck"}
     /\ \/ /\ ~frozen
           /\ preflight' = [preflight EXCEPT ![d].phase = "aborted"]
        \/ /\ frozen /\ drained
           /\ preflight' = [preflight EXCEPT ![d].phase = "loading"]
        \/ /\ frozen /\ ~drained /\ ticket.phase = "check"
           /\ preflight' = [preflight EXCEPT ![d].phase = "recheck", ![d].notified = FALSE]
        \/ /\ frozen /\ ~drained /\ ticket.phase = "recheck"
           /\ preflight' = [preflight EXCEPT ![d].phase = "parked"]
     /\ UNCHANGED <<registry, retained, world, udp, active_operations, lease>>

\* notified.await returns.
Wake(d) ==
  /\ preflight[d] # None
  /\ preflight[d].phase = "parked"
  /\ preflight[d].notified
  /\ preflight' = [preflight EXCEPT ![d].phase = "check"]
  /\ UNCHANGED <<registry, retained, world, udp, active_operations, lease>>

\* The profile is loaded and the ticket handed to the actor.
SubmitMigration(d) ==
  /\ preflight[d] # None
  /\ preflight[d].phase = "loading"
  /\ preflight' = [preflight EXCEPT ![d].phase = "ready"]
  /\ UNCHANGED <<registry, retained, world, udp, active_operations, lease>>

\* The request fails or its future is dropped: the ticket reports itself
\* aborted from its destructor.
CancelMigration(d) ==
  /\ preflight[d] # None
  /\ preflight[d].phase \in {"check", "recheck", "parked", "loading"}
  /\ preflight' = [preflight EXCEPT ![d].phase = "aborted"]
  /\ UNCHANGED <<registry, retained, world, udp, active_operations, lease>>

Tick ==
  /\ clock < MaxClock
  /\ clock' = clock + 1
  /\ UNCHANGED <<registry, retained, sessions, quiescing, udp, tasks>>
-----------------------------------------------------------------------------
Next ==
  \/ \E s \in Sessions, n \in Nicknames : ClaimIdentity(s, n)
  \/ \E s \in Sessions, t \in Tasks : AdmitOperation(s, t)
  \/ \E s \in Sessions, token \in Tokens, t \in Samples : BeginMigration(s, token, t)
  \/ \E d \in Sessions, n \in Nicknames, token \in Tokens, t \in Samples :
       PreflightMigration(d, n, token, t)
  \/ \E d \in Sessions : AbortMigration(d)
  \/ \E d \in Sessions : RejectMigration(d)
  \/ \E d \in Sessions : BurnMigration(d)
  \/ \E d \in Sessions : CommitMigration(d)
  \/ \E s \in Sessions : CloseSession(s)
  \/ MigrationExpiry
  \/ CommandTurn
  \/ Quiesce
  \/ DrainOutboundProducers
  \/ DrainSessions
  \/ \E n \in Nicknames : ReceiveDatagram(n)
  \/ \E t \in Tasks : AdmitUdpOperation(t)
  \/ DropDatagram
  \/ \E t, u \in Tasks : RetainLease(t, u)
  \/ \E t \in Tasks : DropLease(t)
  \/ \E d \in Sessions : CheckDrained(d)
  \/ \E d \in Sessions : Wake(d)
  \/ \E d \in Sessions : SubmitMigration(d)
  \/ \E d \in Sessions : CancelMigration(d)
  \/ Tick

Spec == Init /\ [][Next]_vars
-----------------------------------------------------------------------------
\* What the registry promises.

\* An operation that was admitted and has not finished pins its generation: the
\* generation is still the one its nickname holds, and its gate is not retired.
\* A migration commits, and a release reaches the rooms and sidecars, only
\* after the last operation of the old generation has dropped its lease.
OperationsPinGeneration ==
  \A t \in Tasks : lease[t] # None =>
    /\ \E n \in Nicknames : Retained(n) = lease[t].generation
    /\ gate_state[lease[t].generation] # RETIRED

\* A nickname never has two generations at once: while a disconnected generation
\* drains no login takes its name, and World capacity counts both kinds.
OneGenerationPerNickname ==
  /\ \A n \in Nicknames :
       /\ IsActive(n) => \A d \in deferred_releases : d.nickname # n
       /\ \A d, e \in deferred_releases : d.nickname = n /\ e.nickname = n => d = e
  /\ Cardinality({n \in Nicknames : Retained(n) # 0}) <= IdentityCapacity

\* Outside an actor turn the sidecars have been told of exactly the generation
\* the registry retains: Announce, Advance and Release reach them in order,
\* and Release waits for the last operation.
SidecarsTrackRegistry ==
  \A n \in Nicknames : announced[n] = Retained(n)

\* World and sidecars know a nickname by the same one generation, until its last
\* operation has ended.
GenerationsAgree == OneGenerationPerNickname /\ SidecarsTrackRegistry

\* The freeze recorded on the identity and the state of its shared gate agree,
\* and exactly one live ticket answers for every freeze, so that a cancelled,
\* failed or stale migration can neither leave an identity frozen nor thaw
\* somebody else's freeze.
FreezeHasOneTicket ==
  \A n \in Nicknames : IsActive(n) =>
    /\ gate_state[active[n].generation] =
         (IF active[n].transfer_in_progress = None THEN OPEN
          ELSE active[n].transfer_in_progress)
    /\ active[n].transfer_in_progress # None =>
         /\ active[n].permit # None
         /\ \E d \in Sessions :
              /\ preflight[d] # None
              /\ preflight[d].transfer_id = active[n].transfer_in_progress
              /\ preflight[d].nickname = n
              /\ preflight[d].source_generation = active[n].generation
              /\ \A e \in Sessions \ {d} :
                   preflight[e] # None =>
                     preflight[e].transfer_id # active[n].transfer_in_progress

\* An identity without an owner always has the permit of its own generation, so
\* the migration or the expiry sweep will find it; an owner is bound to exactly
\* the identity it owns.
OwnershipIsRecoverable ==
  \A n \in Nicknames : IsActive(n) =>
    /\ active[n].permit # None => active[n].permit.source_generation = active[n].generation
    /\ active[n].owner = None => active[n].permit # None
    /\ active[n].owner # None =>
         session_bindings[active[n].owner] =
           [nickname |-> n, generation |-> active[n].generation]

\* The wake-up of a drain waiter is never lost: a ticket holder parked without a
\* pending notification still has something to wait for.  wait_until_drained
\* registers before its second check and both the last lease and the end of the
\* freeze notify.
NoLostDrainWakeup ==
  \A d \in Sessions :
    preflight[d] # None /\ preflight[d].phase = "parked" /\ ~preflight[d].notified =>
      /\ gate_state[preflight[d].source_generation] = preflight[d].transfer_id
      /\ ~is_drained(preflight[d].source_generation)

\* Ownership moves to another session only by spending a permit of the current
\* generation, before its deadline, for the same peer address; a generation
\* number is never reused.
OwnershipMovesByPermit ==
  [][\A n \in Nicknames :
       LET p == active[n].permit
       IN (IsActive(n) /\ active'[n] # None /\ active'[n].owner \notin {active[n].owner, None}) =>
            /\ active[n].generation < active'[n].generation
            /\ \A m \in Nicknames : Retained(m) < active'[n].generation
            /\ p # None
            /\ p.source_generation = active[n].generation
            /\ clock < p.expires_at
            /\ SourceIp[p.source_session] = SourceIp[active'[n].owner]
            /\ active'[n].permit = None]_vars

\* A datagram the actor admits works on the generation its sender spoke to when
\* it arrived, however long it sat in the ingress mailbox.
DatagramKeepsItsGeneration ==
  [][\A t \in Tasks :
       (ingress # <<>> /\ ingress' = Tail(ingress) /\ lease[t] = None /\ lease'[t] # None) =>
         lease'[t].generation = Head(ingress).generation]_vars

\* The registry implements the abstract generation fence: the generation a
\* nickname holds turns over only while no admitted operation works on it.
Fence == INSTANCE GenerationFence WITH
  holder <- [n \in Nicknames |-> Retained(n)],
  busy <- [t \in Tasks |-> IF lease[t] = None THEN 0 ELSE lease[t].generation],
  unused <- next_generation

ImplementsFence == Fence!Spec
-----------------------------------------------------------------------------
\* Fairness: time passes, the actor loop serves its timer, which its select!
\* prefers to every mailbox, and the mailbox the ticket holders report to;
\* admitted operations terminate, and the task that holds a ticket runs.
\* Commands are not fair: nobody has to log in or migrate, and the supervisor
\* drains the producers only once the reward pump has been joined, or never.
Fairness ==
  /\ WF_vars(Tick)
  /\ WF_vars(MigrationExpiry)
  /\ \A t \in Tasks : WF_vars(DropLease(t))
  /\ \A d \in Sessions : /\ WF_vars(CheckDrained(d))
                          /\ WF_vars(Wake(d))
                          /\ WF_vars(SubmitMigration(d))
                          /\ WF_vars(AbortMigration(d))
                          /\ WF_vars(RejectMigration(d))
                          /\ WF_vars(BurnMigration(d) \/ CommitMigration(d))

FairSpec == Spec /\ Fairness

\* Every migration request comes to an end: the wait for the source to drain,
\* the profile load and the completion all make progress, even when the permit
\* expires, the source disconnects or the server quiesces meanwhile.
MigrationRequestEnds ==
  \A d \in Sessions : preflight[d] # None ~> preflight[d] = None

\* Generation g of nickname n is retained without a session.
Orphaned(n, g) == Retained(n) = g /\ (IsActive(n) => active[n].owner = None)

\* While the server runs, a generation that lost its last session is released in
\* the end, whether it waits for a migration, for its permit to expire or for
\* its operations.  Quiescing freezes the timer, so after it the same follows
\* only if the supervisor gets to drain the producers and keeps asking.
OwnerlessIsReleased ==
  \A n \in Nicknames, g \in Generations :
    /\ Orphaned(n, g) ~> (Retained(n) # g \/ quiescing)
    /\ WF_vars(DrainOutboundProducers) => (Orphaned(n, g) ~> Retained(n) # g)
=============================================================================
