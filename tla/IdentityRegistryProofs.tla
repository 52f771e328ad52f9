---------------------- MODULE IdentityRegistryProofs ----------------------
(***************************************************************************)
(* Proofs about IdentityRegistry: the state stays well typed, an admitted  *)
(* operation pins its generation, the registry keeps its promises about    *)
(* ownership, freezes, tickets, sidecars and queued datagrams, and it      *)
(* implements GenerationFence.                                             *)
(*                                                                         *)
(* OperationsPinGeneration is not inductive: that a gate counts no         *)
(* operation must mean that no task holds a lease of its generation        *)
(* (LeasesCounted), and the generation that a turn retires must not be     *)
(* held by another nickname or by a second entry of the same one (Apart).  *)
(*                                                                         *)
(* FenceInvariant extends PinInvariant by what the sidecars were told, the *)
(* bindings and permits of owners, the gate and ticket of each freeze, and *)
(* the wait of a parked ticket holder.  The generation a nickname holds is *)
(* written HeldBy so that it can be followed through the flush of a turn.  *)
(***************************************************************************)
EXTENDS IdentityRegistry, FiniteSetTheorems, TLAPS

Tickets == [Sessions -> MigrationPreflight \cup {None}]
Gates == [Generations -> 0..MaxTransferId]
Told == [Nicknames -> 0..MaxGeneration]
Bindings == [Sessions -> DeferredRelease \cup {None}]
Actives == [Nicknames -> ActiveIdentity \cup {None}]
-----------------------------------------------------------------------------
(* Types of the helpers. *)

LEMMA RetiredType == RETIRED \in 0..MaxTransferId /\ OPEN \in 0..MaxTransferId
BY ConstantsAssumption DEF RETIRED, OPEN

LEMMA GenerationType == Generations \subseteq Nat /\ Generations \subseteq 0..MaxGeneration
BY ConstantsAssumption DEF Generations

LEMMA TransferIdType == TransferIds \subseteq 0..MaxTransferId
BY ConstantsAssumption DEF TransferIds

LEMMA NotifyType ==
  ASSUME NEW tickets \in Tickets, NEW gs
  PROVE Notify(tickets, gs) \in Tickets
<1>1. ASSUME NEW p \in MigrationPreflight
      PROVE [p EXCEPT !.notified = TRUE] \in MigrationPreflight
  BY <1>1 DEF MigrationPreflight
<1>. QED BY <1>1 DEF Tickets, Notify

LEMMA ReopenType ==
  ASSUME NEW gates \in Gates, NEW frozen
  PROVE Reopen(gates, frozen) \in Gates
BY RetiredType DEF Gates, Reopen

LEMMA FlushType ==
  ASSUME NEW deferred \in SUBSET DeferredRelease, NEW gates \in Gates, NEW told \in Told,
         Flush(deferred, gates, told)
  PROVE /\ deferred_releases' \in SUBSET DeferredRelease
        /\ gate_state' \in Gates
        /\ announced' \in Told
<1>1. deferred_releases' \in SUBSET DeferredRelease
  BY DEF Flush
<1>2. gate_state' \in Gates
  BY RetiredType DEF Flush, Gates, Retire
<1>3. announced' \in Told
  BY ConstantsAssumption DEF Flush, Told, Forget
<1>. QED BY <1>1, <1>2, <1>3

LEMMA IncrementType ==
  ASSUME NEW epoch \in 0..MaxArrivalEpoch
  PROVE Increment(epoch) \in 0..MaxArrivalEpoch
BY ConstantsAssumption DEF Increment

(* The typing of the variables that Flush and the tickets change. *)
LEMMA TypeParts ==
  ASSUME TypeOK
  PROVE /\ deferred_releases \in SUBSET DeferredRelease
        /\ gate_state \in Gates
        /\ announced \in Told
        /\ preflight \in Tickets
        /\ active \in Actives
        /\ session_bindings \in Bindings
BY DEF TypeOK, Gates, Told, Tickets, Actives, Bindings
-----------------------------------------------------------------------------
(* Every action keeps the types. *)

LEMMA ClaimIdentityType ==
  ASSUME TypeOK, NEW s \in Sessions, NEW n \in Nicknames, ClaimIdentity(s, n)
  PROVE TypeOK'
<1>1. arrival_epoch' \in 0..MaxArrivalEpoch
  BY IncrementType DEF TypeOK, ClaimIdentity
<1>3. /\ deferred_releases' \subseteq DeferredRelease
      /\ gate_state' \in Gates
  BY RetiredType, TypeParts DEF ClaimIdentity, Retire, Gates
<1>4. Forget(announced, Drained(deferred_releases)) \in Told
  BY TypeParts, ConstantsAssumption DEF Forget, Told
<1>5. CASE claim_accepted(s, n, deferred_releases \ Drained(deferred_releases))
  <2>1. next_generation \in Generations /\ next_generation + 1 \in Generations
    <3>1. next_generation \in Generations
      BY DEF TypeOK
    <3>2. next_generation < MaxGeneration
      BY <1>5 DEF claim_accepted
    <3>3. MaxGeneration \in Nat
      BY ConstantsAssumption
    <3>. QED BY <3>1, <3>2, <3>3 DEF Generations
  <2>2. active' \in Actives
    BY <1>5, <2>1, TypeParts DEF ClaimIdentity, Actives, ActiveIdentity
  <2>3. session_bindings' \in Bindings
    <3>1. session_bindings' =
            [session_bindings EXCEPT ![s] = [nickname |-> n, generation |-> next_generation]]
      BY <1>5 DEF ClaimIdentity
    <3>. QED BY <2>1, <3>1, TypeParts DEF Bindings, DeferredRelease
  <2>4. activated_udp_epoch' \in [Generations -> 0..MaxArrivalEpoch]
    BY <1>1, <1>5, <2>1 DEF TypeOK, ClaimIdentity
  <2>5. announced' \in Told
    BY <1>4, <1>5, <2>1, GenerationType DEF ClaimIdentity, Told
  <2>6. next_generation' \in Generations
    BY <1>5, <2>1 DEF ClaimIdentity
  <2>. QED
    BY <1>1, <1>3, <2>2, <2>3, <2>4, <2>5, <2>6
    DEF TypeOK, ClaimIdentity, Actives, Told, Gates, Bindings, world, tasks
<1>6. CASE ~claim_accepted(s, n, deferred_releases \ Drained(deferred_releases))
  BY <1>1, <1>3, <1>4, <1>6 DEF TypeOK, ClaimIdentity, Told, Gates, world, tasks
<1>. QED BY <1>5, <1>6

LEMMA AdmitOperationType ==
  ASSUME TypeOK, NEW s \in Sessions, NEW t \in Tasks, AdmitOperation(s, t)
  PROVE TypeOK'
<1>1. session_bindings[s].generation \in Generations
  BY DEF TypeOK, AdmitOperation, authorize, DeferredRelease
<1>2. lease' \in [Tasks -> Lease \cup {None}]
  BY <1>1, ConstantsAssumption DEF TypeOK, AdmitOperation, Lease
<1>3. active_operations' \in [Generations -> Nat]
  <2>. DEFINE g == session_bindings[s].generation
  <2>1. active_operations' = [active_operations EXCEPT ![g] = @ + 1]
    BY DEF AdmitOperation
  <2>2. active_operations \in [Generations -> Nat]
    BY DEF TypeOK
  <2>3. g \in Generations
    BY <1>1
  <2>. HIDE DEF g
  <2>. QED BY <2>1, <2>2, <2>3
<1>4. deferred_releases' \in SUBSET DeferredRelease /\ gate_state' \in Gates /\ announced' \in Told
  BY FlushType, TypeParts DEF AdmitOperation, FlushOnly
<1>. QED BY <1>2, <1>3, <1>4 DEF TypeOK, AdmitOperation, registry, world, udp, Gates, Told

LEMMA BeginMigrationPermit ==
  ASSUME TypeOK, NEW s \in Sessions, NEW token \in Tokens, NEW t \in Samples,
         BeginMigration(s, token, t)
  PROVE /\ session_bindings[s].nickname \in Nicknames
        /\ active[session_bindings[s].nickname] \in ActiveIdentity
        /\ \E p \in MigrationPermit :
             active' = [active EXCEPT ![session_bindings[s].nickname].permit = p]
<1>. DEFINE n == session_bindings[s].nickname
            p == [source_generation |-> session_bindings[s].generation,
                  source_session |-> s, token |-> token, expires_at |-> t + MigrationTtl]
<1>1. n \in Nicknames /\ session_bindings[s].generation \in Generations /\ active[n] \in ActiveIdentity
  BY DEF TypeOK, BeginMigration, authorize, DeferredRelease, IsActive
<1>2. t + MigrationTtl \in 0..MaxClock
  <2>1. t \in Nat /\ MigrationTtl \in Nat /\ MaxClock \in Nat
    <3>1. t \in 0..clock
      BY DEF Samples
    <3>. QED BY <3>1, ConstantsAssumption
  <2>2. t + MigrationTtl <= MaxClock
    BY DEF BeginMigration
  <2>. QED BY <2>1, <2>2
<1>3. p \in MigrationPermit
  BY <1>1, <1>2 DEF MigrationPermit
<1>4. active' = [active EXCEPT ![n].permit = p]
  BY DEF BeginMigration
<1>. QED BY <1>1, <1>3, <1>4

LEMMA BeginMigrationType ==
  ASSUME TypeOK, NEW s \in Sessions, NEW token \in Tokens, NEW t \in Samples,
         BeginMigration(s, token, t)
  PROVE TypeOK'
<1>1. active' \in Actives
  <2>. DEFINE n == session_bindings[s].nickname
  <2>1. PICK p \in MigrationPermit : active' = [active EXCEPT ![n].permit = p]
    BY BeginMigrationPermit
  <2>2. n \in Nicknames /\ active[n] \in ActiveIdentity
    BY BeginMigrationPermit
  <2>. HIDE DEF n
  <2>. QED BY <2>1, <2>2, TypeParts DEF Actives, ActiveIdentity
<1>2. deferred_releases' \in SUBSET DeferredRelease /\ gate_state' \in Gates /\ announced' \in Told
  BY FlushType, TypeParts DEF BeginMigration, FlushOnly
<1>. QED BY <1>1, <1>2 DEF TypeOK, BeginMigration, world, udp, tasks, Gates, Told, Actives

LEMMA PreflightMigrationType ==
  ASSUME TypeOK, NEW d \in Sessions, NEW n \in Nicknames, NEW token \in Tokens,
         NEW t \in Samples, PreflightMigration(d, n, token, t)
  PROVE TypeOK'
<1>. DEFINE id == next_transfer_id
            g == active[n].generation
            ticket == [transfer_id |-> id, nickname |-> n, token |-> token,
                       source_generation |-> active[n].permit.source_generation,
                       source_session |-> active[n].permit.source_session,
                       source_state |-> active[n].owner,
                       expires_at |-> active[n].permit.expires_at,
                       phase |-> "check", notified |-> FALSE]
<1>1. active[n] \in ActiveIdentity /\ active[n].permit \in MigrationPermit
  BY DEF TypeOK, PreflightMigration, validate_migration, IsActive, ActiveIdentity
<1>2. id \in TransferIds /\ id + 1 \in TransferIds
  <2>1. id < MaxTransferId
    BY DEF PreflightMigration
  <2>. QED BY <2>1, ConstantsAssumption DEF TypeOK, TransferIds
<1>3. g \in Generations
  BY <1>1 DEF ActiveIdentity
<1>4. ticket \in MigrationPreflight
  BY <1>1, <1>2 DEF MigrationPreflight, MigrationPermit, ActiveIdentity
<1>5. preflight' \in Tickets
  BY <1>4, TypeParts DEF PreflightMigration, Tickets
<1>6. active' \in Actives
  <2>1. active' = [active EXCEPT ![n].transfer_in_progress = id]
    BY DEF PreflightMigration
  <2>. QED BY <1>1, <1>2, <2>1, TypeParts DEF Actives, ActiveIdentity
<1>7. [gate_state EXCEPT ![g] = id] \in Gates
  BY <1>2, <1>3, TransferIdType, TypeParts DEF Gates
<1>8. deferred_releases' \in SUBSET DeferredRelease /\ gate_state' \in Gates /\ announced' \in Told
  BY <1>7, FlushType, TypeParts DEF PreflightMigration
<1>. QED
  BY <1>2, <1>5, <1>6, <1>8
  DEF TypeOK, PreflightMigration, world, udp, Gates, Told, Actives, Tickets

LEMMA AbortType ==
  ASSUME TypeOK, NEW d \in Sessions, preflight[d] # None, abort_preflighted_migration(d)
  PROVE /\ active' \in Actives
        /\ deferred_releases' \in SUBSET DeferredRelease
        /\ gate_state' \in Gates
        /\ announced' \in Told
        /\ preflight' \in Tickets
<1>. DEFINE ticket == preflight[d]
            rest == [preflight EXCEPT ![d] = None]
<1>1. ticket \in MigrationPreflight /\ rest \in Tickets
  BY TypeParts DEF Tickets
<1>2. CASE abort_applies(ticket)
  <2>1. active[ticket.nickname] \in ActiveIdentity
    BY <1>1, <1>2, TypeParts DEF abort_applies, IsActive, MigrationPreflight, Actives
  <2>2. active' = [active EXCEPT ![ticket.nickname].transfer_in_progress = None]
    BY <1>2 DEF abort_preflighted_migration
  <2>3. active' \in Actives
    BY <1>1, <2>1, <2>2, TypeParts DEF Actives, ActiveIdentity, MigrationPreflight
  <2>4. preflight' \in Tickets
    BY <1>1, <1>2, NotifyType DEF abort_preflighted_migration
  <2>. QED BY <1>2, <2>3, <2>4, FlushType, ReopenType, TypeParts DEF abort_preflighted_migration
<1>3. CASE ~abort_applies(ticket)
  BY <1>1, <1>3, FlushType, TypeParts DEF abort_preflighted_migration, FlushOnly
<1>. QED BY <1>2, <1>3

LEMMA AbortMigrationType ==
  ASSUME TypeOK, NEW d \in Sessions, AbortMigration(d)
  PROVE TypeOK'
BY AbortType DEF AbortMigration, TypeOK, world, udp, Gates, Told, Actives, Tickets

LEMMA RejectMigrationType ==
  ASSUME TypeOK, NEW d \in Sessions, RejectMigration(d)
  PROVE TypeOK'
BY AbortType DEF RejectMigration, TypeOK, world, udp, Gates, Told, Actives, Tickets

LEMMA BurnMigrationType ==
  ASSUME TypeOK, NEW d \in Sessions, BurnMigration(d)
  PROVE TypeOK'
<1>1. next_generation' \in Generations
  BY ConstantsAssumption
  DEF TypeOK, BurnMigration, validate_preflighted_migration, Generations
<1>. QED
  BY <1>1, AbortType DEF BurnMigration, TypeOK, world, udp, Gates, Told, Actives, Tickets

LEMMA CommitMigrationType ==
  ASSUME TypeOK, NEW d \in Sessions, CommitMigration(d)
  PROVE TypeOK'
<1>. DEFINE n == preflight[d].nickname
            old == preflight[d].source_generation
            new == next_generation
<1>1. n \in Nicknames /\ old \in Generations
  BY TypeParts DEF CommitMigration, Tickets, MigrationPreflight
<1>2. new \in Generations /\ new + 1 \in Generations
  <2>1. new < MaxGeneration
    BY DEF CommitMigration, validate_preflighted_migration
  <2>. QED BY <2>1, ConstantsAssumption DEF TypeOK, Generations
<1>3. arrival_epoch' \in 0..MaxArrivalEpoch
  BY IncrementType DEF TypeOK, CommitMigration
<1>4. activated_udp_epoch' \in [Generations -> 0..MaxArrivalEpoch]
  BY <1>2, <1>3 DEF TypeOK, CommitMigration
<1>5. active' \in Actives
  BY <1>1, <1>2, TypeParts DEF CommitMigration, Actives, ActiveIdentity
<1>6. session_bindings' \in Bindings
  BY <1>1, <1>2, TypeParts DEF CommitMigration, Bindings, DeferredRelease
<1>7. [gate_state EXCEPT ![old] = RETIRED] \in Gates
  BY <1>1, RetiredType, TypeParts DEF Gates
<1>8. [announced EXCEPT ![n] = IF @ = old THEN new ELSE @] \in Told
  BY <1>1, <1>2, GenerationType, TypeParts DEF Told
<1>9. deferred_releases' \in SUBSET DeferredRelease /\ gate_state' \in Gates /\ announced' \in Told
  BY <1>7, <1>8, FlushType, TypeParts DEF CommitMigration
<1>10. preflight' \in Tickets
  BY TypeParts DEF CommitMigration, Tickets
<1>11. next_generation' \in Generations
  BY <1>2 DEF CommitMigration
<1>. QED
  BY <1>3, <1>4, <1>5, <1>6, <1>9, <1>10, <1>11
  DEF TypeOK, CommitMigration, world, Gates, Told, Actives, Tickets, Bindings

LEMMA CloseSessionType ==
  ASSUME TypeOK, NEW s \in Sessions, CloseSession(s)
  PROVE TypeOK'
<1>. DEFINE bound == session_bindings[s]
            n == bound.nickname
            current == /\ bound # None
                       /\ IsActive(n)
                       /\ active[n].owner = s
                       /\ active[n].generation = bound.generation
<1>1. session_bindings' \in Bindings /\ sessions' \subseteq Sessions
  BY TypeParts DEF TypeOK, CloseSession, Bindings
<1>2. /\ active' \in Actives
      /\ deferred_releases' \in SUBSET DeferredRelease
      /\ gate_state' \in Gates
      /\ announced' \in Told
      /\ preflight' \in Tickets
  <2>1. CASE ~current
    BY <2>1, FlushType, TypeParts DEF CloseSession, FlushOnly
  <2>2. CASE current
    <3>1. n \in Nicknames /\ active[n] \in ActiveIdentity
      BY <2>2, TypeParts DEF TypeOK, DeferredRelease, IsActive, Actives
    <3>2. CASE permit_usable(n, clock)
      <4>1. active' = [active EXCEPT ![n].owner = None]
        BY <2>2, <3>2 DEF CloseSession
      <4>2. active' \in Actives
        BY <3>1, <4>1, TypeParts DEF Actives, ActiveIdentity
      <4>. QED
        BY <2>2, <3>2, <4>2, FlushType, TypeParts DEF CloseSession, FlushOnly
    <3>3. CASE ~permit_usable(n, clock)
      <4>1. active' = [active EXCEPT ![n] = None] /\ ReleaseActive({n})
        BY <2>2, <3>3 DEF CloseSession
      <4>2. active' \in Actives
        BY <3>1, <4>1, TypeParts DEF Actives
      <4>3. preflight' \in Tickets
        BY <2>2, <3>3, NotifyType, TypeParts DEF CloseSession
      <4>4. {[nickname |-> m, generation |-> active[m].generation] : m \in {n}} \subseteq DeferredRelease
        BY <3>1 DEF DeferredRelease, ActiveIdentity
      <4>. QED
        BY <4>1, <4>2, <4>3, <4>4, FlushType, ReopenType, TypeParts DEF ReleaseActive
    <3>. QED BY <3>2, <3>3
  <2>. QED BY <2>1, <2>2
<1>. QED
  BY <1>1, <1>2 DEF TypeOK, CloseSession, udp, Gates, Told, Actives, Tickets, Bindings

LEMMA ExpireType ==
  ASSUME TypeOK, NEW t, expire_migrations(t)
  PROVE /\ active' \in Actives
        /\ deferred_releases' \in SUBSET DeferredRelease
        /\ gate_state' \in Gates
        /\ announced' \in Told
        /\ preflight' \in Tickets
<1>. DEFINE due == {n \in Nicknames : IsActive(n) /\ permit_due(n, t)}
            ownerless == {n \in due : active[n].owner = None}
            gone == {[nickname |-> n, generation |-> active[n].generation] : n \in ownerless}
<1>1. \A n \in due : active[n] \in ActiveIdentity
  BY TypeParts DEF Actives, IsActive
<1>2. active' \in Actives
  <2>1. active' = [n \in Nicknames |->
                     IF n \in ownerless THEN None
                     ELSE IF n \in due
                          THEN [active[n] EXCEPT !.permit = None,
                                                 !.transfer_in_progress = None]
                          ELSE active[n]]
    BY DEF expire_migrations
  <2>2. \A n \in due : [active[n] EXCEPT !.permit = None,
                                         !.transfer_in_progress = None] \in ActiveIdentity
    BY <1>1 DEF ActiveIdentity
  <2>. HIDE DEF due, ownerless
  <2>. QED BY <2>1, <2>2, TypeParts DEF Actives
<1>3. gone \in SUBSET DeferredRelease
  BY <1>1 DEF DeferredRelease, ActiveIdentity
<1>4. preflight' \in Tickets
  BY NotifyType, TypeParts DEF expire_migrations
<1>5. deferred_releases \cup gone \in SUBSET DeferredRelease
  BY <1>3, TypeParts
<1>. QED BY <1>2, <1>4, <1>5, FlushType, ReopenType, TypeParts DEF expire_migrations

LEMMA MigrationExpiryType ==
  ASSUME TypeOK, MigrationExpiry
  PROVE TypeOK'
BY ExpireType DEF MigrationExpiry, TypeOK, world, udp, Gates, Told, Actives, Tickets

LEMMA DrainOutboundProducersType ==
  ASSUME TypeOK, DrainOutboundProducers
  PROVE TypeOK'
BY ExpireType DEF DrainOutboundProducers, TypeOK, world, udp, Gates, Told, Actives, Tickets

LEMMA CommandTurnType ==
  ASSUME TypeOK, CommandTurn
  PROVE TypeOK'
BY FlushType, TypeParts
DEF CommandTurn, FlushOnly, TypeOK, registry, world, udp, tasks, Gates, Told

LEMMA QuiesceType ==
  ASSUME TypeOK, Quiesce
  PROVE TypeOK'
BY FlushType, TypeParts
DEF Quiesce, FlushOnly, TypeOK, registry, udp, tasks, Gates, Told

LEMMA DrainSessionsType ==
  ASSUME TypeOK, DrainSessions
  PROVE TypeOK'
<1>. DEFINE all == {n \in Nicknames : IsActive(n)}
            gone == {[nickname |-> n, generation |-> active[n].generation] : n \in all}
<1>1. gone \in SUBSET DeferredRelease
  BY TypeParts DEF DeferredRelease, ActiveIdentity, IsActive, Actives
<1>2. deferred_releases \cup gone \in SUBSET DeferredRelease
  BY <1>1, TypeParts
<1>3. deferred_releases' \in SUBSET DeferredRelease /\ gate_state' \in Gates /\ announced' \in Told
  BY <1>2, FlushType, TypeParts DEF DrainSessions
<1>4. active' \in Actives /\ session_bindings' \in Bindings /\ sessions' \subseteq Sessions
  BY DEF DrainSessions, Actives, Bindings
<1>. QED
  BY <1>3, <1>4 DEF DrainSessions, TypeOK, udp, tasks, Gates, Told, Actives, Bindings

LEMMA IngressTailType ==
  ASSUME TypeOK, ingress # <<>>
  PROVE /\ Tail(ingress) \in Seq(Datagram)
        /\ Head(ingress).nickname \in Nicknames
<1>1. Tail(ingress) \in Seq(Datagram) /\ Head(ingress) \in Datagram
  BY DEF TypeOK
<1>. QED BY <1>1 DEF Datagram

LEMMA ReceiveDatagramType ==
  ASSUME TypeOK, NEW n \in Nicknames, ReceiveDatagram(n)
  PROVE TypeOK'
<1>1. arrival_epoch' \in 0..MaxArrivalEpoch
  BY IncrementType DEF TypeOK, ReceiveDatagram
<1>2. (IF IsActive(n) THEN active[n].generation ELSE 0) \in 0..MaxGeneration
  <2>1. IsActive(n) => active[n].generation \in Generations
    BY TypeParts DEF IsActive, Actives, ActiveIdentity
  <2>2. 0 \in 0..MaxGeneration
    BY ConstantsAssumption
  <2>. QED BY <2>1, <2>2, GenerationType
<1>3. ingress' \in Seq(Datagram)
  BY <1>1, <1>2 DEF TypeOK, ReceiveDatagram, Datagram
<1>. QED
  BY <1>1, <1>3 DEF TypeOK, ReceiveDatagram, registry, retained, world, tasks

LEMMA AdmitUdpOperationType ==
  ASSUME TypeOK, NEW t \in Tasks, AdmitUdpOperation(t)
  PROVE TypeOK'
<1>. DEFINE g == active[Head(ingress).nickname].generation
<1>1. g \in Generations
  BY IngressTailType, TypeParts DEF AdmitUdpOperation, udp_admitted, IsActive, Actives, ActiveIdentity
<1>2. lease' \in [Tasks -> Lease \cup {None}]
  BY <1>1, ConstantsAssumption DEF TypeOK, AdmitUdpOperation, Lease
<1>3. active_operations' \in [Generations -> Nat]
  <2>1. active_operations' = [active_operations EXCEPT ![g] = @ + 1]
    BY DEF AdmitUdpOperation
  <2>. HIDE DEF g
  <2>. QED BY <1>1, <2>1 DEF TypeOK
<1>. QED
  BY <1>2, <1>3, IngressTailType
  DEF TypeOK, AdmitUdpOperation, registry, retained, world

LEMMA DropDatagramType ==
  ASSUME TypeOK, DropDatagram
  PROVE TypeOK'
BY IngressTailType DEF TypeOK, DropDatagram, registry, retained, world, tasks

LEMMA RetainLeaseType ==
  ASSUME TypeOK, NEW t \in Tasks, NEW u \in Tasks, RetainLease(t, u)
  PROVE TypeOK'
<1>1. lease[t] \in Lease /\ lease[t].depth < MaxRetainDepth
  BY DEF TypeOK, RetainLease
<1>2. lease[t].generation \in Generations /\ lease[t].depth + 1 \in 0..MaxRetainDepth
  BY <1>1, ConstantsAssumption DEF Lease
<1>3. lease' \in [Tasks -> Lease \cup {None}]
  BY <1>2 DEF TypeOK, RetainLease, Lease
<1>4. active_operations' \in [Generations -> Nat]
  <2>. DEFINE g == lease[t].generation
  <2>1. active_operations' = [active_operations EXCEPT ![g] = @ + 1]
    BY DEF RetainLease
  <2>2. active_operations \in [Generations -> Nat]
    BY DEF TypeOK
  <2>3. g \in Generations
    BY <1>2
  <2>. HIDE DEF g
  <2>. QED BY <2>1, <2>2, <2>3
<1>. QED
  BY <1>3, <1>4 DEF TypeOK, RetainLease, registry, retained, world, udp

LEMMA DropLeaseType ==
  ASSUME TypeOK, NEW t \in Tasks, DropLease(t)
  PROVE TypeOK'
<1>1. lease[t].generation \in Generations
  BY DEF TypeOK, DropLease, Lease
<1>2. lease' \in [Tasks -> Lease \cup {None}]
  BY DEF TypeOK, DropLease
<1>3. active_operations' \in [Generations -> Nat]
  BY <1>1 DEF TypeOK, DropLease
<1>4. preflight' \in Tickets
  BY NotifyType, TypeParts DEF DropLease
<1>. QED
  BY <1>2, <1>3, <1>4 DEF TypeOK, DropLease, registry, retained, world, udp, Tickets

LEMMA PhaseType ==
  ASSUME TypeOK, NEW d \in Sessions, preflight[d] # None,
         NEW phase \in {"check", "recheck", "parked", "loading", "ready", "aborted"}
  PROVE /\ [preflight EXCEPT ![d].phase = phase] \in Tickets
        /\ [preflight EXCEPT ![d].phase = phase, ![d].notified = FALSE] \in Tickets
<1>1. preflight[d] \in MigrationPreflight
  BY TypeParts DEF Tickets
<1>. QED BY <1>1, TypeParts DEF Tickets, MigrationPreflight

LEMMA TicketStepType ==
  ASSUME TypeOK, NEW d \in Sessions,
         CheckDrained(d) \/ Wake(d) \/ SubmitMigration(d) \/ CancelMigration(d)
  PROVE TypeOK'
<1>1. preflight' \in Tickets
  BY PhaseType DEF CheckDrained, Wake, SubmitMigration, CancelMigration
<1>. QED
  BY <1>1
  DEF TypeOK, CheckDrained, Wake, SubmitMigration, CancelMigration, registry, retained,
      world, udp, Tickets

LEMMA TickType ==
  ASSUME TypeOK, Tick
  PROVE TypeOK'
BY ConstantsAssumption DEF TypeOK, Tick, registry, retained, udp, tasks

LEMMA InitType ==
  ASSUME Init
  PROVE TypeOK
<1>1. /\ 1 \in Generations /\ 1 \in TransferIds
      /\ 0 \in 0..MaxTransferId /\ 0 \in 0..MaxArrivalEpoch
      /\ 0 \in 0..MaxGeneration /\ 0 \in 0..MaxClock
  BY ConstantsAssumption DEF Generations, TransferIds
<1>2. <<>> \in Seq(Datagram)
  OBVIOUS
<1>3. /\ active \in Actives /\ session_bindings \in Bindings
      /\ deferred_releases \subseteq DeferredRelease
      /\ lease \in [Tasks -> Lease \cup {None}] /\ preflight \in Tickets
  BY DEF Init, Actives, Bindings, Tickets
<1>4. /\ gate_state \in Gates /\ announced \in Told
      /\ active_operations \in [Generations -> Nat]
      /\ activated_udp_epoch \in [Generations -> 0..MaxArrivalEpoch]
  BY <1>1 DEF Init, Gates, Told, OPEN
<1>. QED
  BY <1>1, <1>2, <1>3, <1>4 DEF Init, TypeOK, Actives, Bindings, Tickets, Gates, Told

LEMMA NextType ==
  ASSUME TypeOK, [Next]_vars
  PROVE TypeOK'
<1>1. CASE UNCHANGED vars
  BY <1>1 DEF TypeOK, vars, registry, retained, world, udp, tasks
<1>2. CASE Next
  BY <1>2, ClaimIdentityType, AdmitOperationType, BeginMigrationType,
     PreflightMigrationType, AbortMigrationType, RejectMigrationType, BurnMigrationType,
     CommitMigrationType, CloseSessionType, MigrationExpiryType, CommandTurnType,
     QuiesceType, DrainOutboundProducersType, DrainSessionsType, ReceiveDatagramType,
     AdmitUdpOperationType, DropDatagramType, RetainLeaseType, DropLeaseType,
     TicketStepType, TickType
  DEF Next
<1>. QED BY <1>1, <1>2

\* The registry, its gates, leases, tickets and counters stay well typed: in
\* particular no allocator overflows (the checked_add of the id allocators, the
\* deadline of BeginMigration) and no ticket outlives the permit fields it copied.
THEOREM TypeCorrect == Spec => []TypeOK
<1>. QED BY InitType, NextType, PTL DEF Spec
-----------------------------------------------------------------------------
(* An admitted operation pins its generation.                               *)

Holders(g) == {t \in Tasks : lease[t] # None /\ lease[t].generation = g}

\* A gate counts the leases of its generation.
LeasesCounted == \A g \in Generations : active_operations[g] = Cardinality(Holders(g))

\* The active identities act and the deferred releases ds hold different
\* generations, all allocated, at most one for each nickname.
Apart(act, ds, next) ==
  /\ \A n \in Nicknames : act[n] # None =>
       /\ act[n].generation < next
       /\ \A m \in Nicknames : act[m] # None /\ act[m].generation = act[n].generation => m = n
       /\ \A d \in ds : d.nickname # n /\ d.generation # act[n].generation
  /\ \A d \in ds : d.generation < next
  /\ \A d, e \in ds : d.nickname = e.nickname \/ d.generation = e.generation => d = e

\* Every lease of ls is of a generation that act or ds holds and gates keeps.
Pinned(act, ds, gates, ls) ==
  \A t \in Tasks : ls[t] # None =>
    /\ gates[ls[t].generation] # RETIRED
    /\ \/ \E n \in Nicknames : act[n] # None /\ act[n].generation = ls[t].generation
       \/ \E d \in ds : d.generation = ls[t].generation

PinInvariant ==
  /\ TypeOK
  /\ LeasesCounted
  /\ Apart(active, deferred_releases, next_generation)
  /\ Pinned(active, deferred_releases, gate_state, lease)
-----------------------------------------------------------------------------
LEMMA HoldersFinite == \A g : IsFiniteSet(Holders(g))
BY ConstantsAssumption, FS_Subset DEF Holders

LEMMA DrainedHasNoHolder ==
  ASSUME TypeOK, LeasesCounted, NEW g \in Generations, is_drained(g), NEW t \in Tasks,
         lease[t] # None
  PROVE lease[t].generation # g
<1>1. Cardinality(Holders(g)) = 0
  BY DEF LeasesCounted, is_drained
<1>2. Holders(g) = {}
  BY <1>1, HoldersFinite, FS_EmptySet
<1>. QED BY <1>2 DEF Holders

LEMMA RetiredIsNotOpen == RETIRED # OPEN
BY ConstantsAssumption DEF RETIRED, OPEN

\* The flush that ends a turn keeps Apart and Pinned, provided that no lease
\* left by the turn is of a deferred generation that counts no operation.
LEMMA FlushKeeps ==
  ASSUME NEW ds \in SUBSET DeferredRelease, NEW gates, NEW act, NEW ls, NEW next,
         ls \in [Tasks -> Lease \cup {None}],
         Apart(act, ds, next), Pinned(act, ds, gates, ls),
         \A t \in Tasks, d \in ds :
           ls[t] # None /\ is_drained(d.generation) => ls[t].generation # d.generation
  PROVE /\ Apart(act, ds \ Drained(ds), next)
        /\ Pinned(act, ds \ Drained(ds), Retire(gates, Drained(ds)), ls)
<1>1. Apart(act, ds \ Drained(ds), next)
  BY DEF Apart
<1>2. Pinned(act, ds \ Drained(ds), Retire(gates, Drained(ds)), ls)
  <2>. SUFFICES ASSUME NEW t \in Tasks, ls[t] # None
                PROVE /\ Retire(gates, Drained(ds))[ls[t].generation] # RETIRED
                      /\ \/ \E n \in Nicknames :
                              act[n] # None /\ act[n].generation = ls[t].generation
                         \/ \E d \in ds \ Drained(ds) : d.generation = ls[t].generation
    BY DEF Pinned
  <2>1. ls[t].generation \in Generations
    BY DEF Lease
  <2>2. \A d \in Drained(ds) : d.generation # ls[t].generation
    BY DEF Drained
  <2>3. gates[ls[t].generation] # RETIRED
    BY DEF Pinned
  <2>4. Retire(gates, Drained(ds))[ls[t].generation] # RETIRED
    BY <2>1, <2>2, <2>3 DEF Retire
  <2>. QED BY <2>2, <2>4 DEF Pinned
<1>. QED BY <1>1, <1>2

\* A turn that leaves the leases alone and ends in the flush.
LEMMA TurnKeeps ==
  ASSUME PinInvariant, TypeOK', UNCHANGED <<lease, active_operations>>,
         NEW ds \in SUBSET DeferredRelease, NEW gates,
         deferred_releases' = ds \ Drained(ds),
         gate_state' = Retire(gates, Drained(ds)),
         Apart(active', ds, next_generation'),
         Pinned(active', ds, gates, lease)
  PROVE PinInvariant'
<1>1. \A t \in Tasks, d \in ds :
        lease[t] # None /\ is_drained(d.generation) => lease[t].generation # d.generation
  BY DrainedHasNoHolder DEF PinInvariant, DeferredRelease
<1>2. /\ Apart(active', ds \ Drained(ds), next_generation')
      /\ Pinned(active', ds \ Drained(ds), Retire(gates, Drained(ds)), lease)
  BY <1>1, FlushKeeps DEF PinInvariant, TypeOK
<1>3. LeasesCounted'
  BY DEF PinInvariant, LeasesCounted, Holders
<1>4. Apart(active', deferred_releases', next_generation')
  BY <1>2
<1>5. Pinned(active', deferred_releases', gate_state', lease')
  BY <1>2
<1>. QED BY <1>3, <1>4, <1>5 DEF PinInvariant, Apart, Pinned
-----------------------------------------------------------------------------
\* gates retires nothing that was not retired already.
Spared(gates) == \A g \in Generations : gates[g] = RETIRED => gate_state[g] = RETIRED

LEMMA ReopenSpares ==
  ASSUME NEW frozen
  PROVE Spared(Reopen(gate_state, frozen))
BY RetiredIsNotOpen DEF Spared, Reopen

\* act and gone come from active by moving some of its identities to gone.
Moved(act, gone) ==
  /\ \A n \in Nicknames : act[n] # None =>
       /\ active[n] # None
       /\ act[n].generation = active[n].generation
       /\ \A d \in gone : d.nickname # n
  /\ \A n \in Nicknames : active[n] # None /\ act[n] = None =>
       \E d \in gone : d.generation = active[n].generation
  /\ \A d \in gone :
       /\ active[d.nickname] # None
       /\ d.generation = active[d.nickname].generation

LEMMA MoveKeeps ==
  ASSUME PinInvariant, NEW act, NEW gone \in SUBSET DeferredRelease, NEW gates,
         Moved(act, gone), Spared(gates)
  PROVE /\ Apart(act, deferred_releases \cup gone, next_generation)
        /\ Pinned(act, deferred_releases \cup gone, gates, lease)
<1>. DEFINE ds == deferred_releases \cup gone
<1>1. \A d \in gone : d.nickname \in Nicknames /\ \A e \in gone : d.nickname = e.nickname => d = e
  BY DEF DeferredRelease, Moved
<1>2. \A n \in Nicknames : act[n] # None =>
        /\ act[n].generation < next_generation
        /\ \A m \in Nicknames : act[m] # None /\ act[m].generation = act[n].generation => m = n
        /\ \A d \in ds : d.nickname # n /\ d.generation # act[n].generation
  BY <1>1 DEF PinInvariant, Apart, Moved
<1>3. \A d \in ds : d.generation < next_generation
  BY <1>1 DEF PinInvariant, Apart, Moved
<1>4. \A d, e \in ds : d.nickname = e.nickname \/ d.generation = e.generation => d = e
  BY <1>1 DEF PinInvariant, Apart, Moved
<1>5. Apart(act, ds, next_generation)
  BY <1>2, <1>3, <1>4 DEF Apart
<1>6. Pinned(act, ds, gates, lease)
  <2>. SUFFICES ASSUME NEW t \in Tasks, lease[t] # None
                PROVE /\ gates[lease[t].generation] # RETIRED
                      /\ \/ \E n \in Nicknames :
                              act[n] # None /\ act[n].generation = lease[t].generation
                         \/ \E d \in ds : d.generation = lease[t].generation
    BY DEF Pinned
  <2>1. lease[t].generation \in Generations
    BY DEF PinInvariant, TypeOK, Lease
  <2>2. gates[lease[t].generation] # RETIRED
    BY <2>1 DEF PinInvariant, Pinned, Spared
  <2>3. CASE \E d \in deferred_releases : d.generation = lease[t].generation
    BY <2>2, <2>3
  <2>4. CASE \E n \in Nicknames : active[n] # None /\ active[n].generation = lease[t].generation
    BY <2>2, <2>4 DEF Moved
  <2>. QED BY <2>3, <2>4 DEF PinInvariant, Pinned
<1>. QED BY <1>5, <1>6

\* A turn that moves identities to the deferred releases, and no more.
LEMMA MoveTurnKeeps ==
  ASSUME PinInvariant, TypeOK', UNCHANGED <<lease, active_operations>>,
         NEW gone \in SUBSET DeferredRelease, NEW gates, NEW told,
         next_generation' >= next_generation,
         Moved(active', gone), Spared(gates),
         Flush(deferred_releases \cup gone, gates, told)
  PROVE PinInvariant'
<1>1. /\ Apart(active', deferred_releases \cup gone, next_generation)
      /\ Pinned(active', deferred_releases \cup gone, gates, lease)
  BY MoveKeeps
<1>2. Apart(active', deferred_releases \cup gone, next_generation')
  <2>1. next_generation \in Nat /\ next_generation' \in Nat
    BY GenerationType DEF PinInvariant, TypeOK
  <2>2. \A n \in Nicknames : active'[n] # None => active'[n].generation \in Nat
    BY GenerationType DEF TypeOK, ActiveIdentity
  <2>3. \A d \in deferred_releases \cup gone : d.generation \in Nat
    BY GenerationType DEF PinInvariant, TypeOK, DeferredRelease
  <2>. QED BY <1>1, <2>1, <2>2, <2>3 DEF Apart
<1>3. deferred_releases \cup gone \in SUBSET DeferredRelease
  BY DEF PinInvariant, TypeOK
<1>. QED BY <1>1, <1>2, <1>3, TurnKeeps DEF Flush

\* act has the identities of active, each under its generation.
SameIdentities(act) ==
  \A n \in Nicknames : /\ act[n] # None <=> active[n] # None
                       /\ active[n] # None => act[n].generation = active[n].generation

LEMMA SameIdentitiesMove ==
  ASSUME NEW act, SameIdentities(act)
  PROVE Moved(act, {})
BY DEF SameIdentities, Moved

\* A turn that changes no identity's generation.
LEMMA QuietTurnKeeps ==
  ASSUME PinInvariant, TypeOK', UNCHANGED <<lease, active_operations>>,
         NEW gates, NEW told,
         next_generation' >= next_generation,
         SameIdentities(active'),
         Spared(gates),
         Flush(deferred_releases, gates, told)
  PROVE PinInvariant'
<1>1. Moved(active', {})
  BY SameIdentitiesMove
<1>2. deferred_releases \cup {} = deferred_releases
  OBVIOUS
<1>. QED BY <1>1, <1>2, MoveTurnKeeps

LEMMA StillSpared == Spared(gate_state)
BY DEF Spared

LEMMA UnchangedIdentities ==
  ASSUME active' = active
  PROVE SameIdentities(active')
BY DEF SameIdentities

\* One identity changes, and keeps its generation.
LEMMA OneIdentityChanges ==
  ASSUME TypeOK, NEW n \in Nicknames, active[n] # None, NEW a \in ActiveIdentity,
         a.generation = active[n].generation, active' = [active EXCEPT ![n] = a]
  PROVE /\ active'[n] = a /\ \A m \in Nicknames \ {n} : active'[m] = active[m]
        /\ SameIdentities(active')
<1>1. active'[n] = a /\ \A m \in Nicknames \ {n} : active'[m] = active[m]
  BY TypeParts DEF Actives
<1>. QED BY <1>1, NoneAssumption DEF SameIdentities
-----------------------------------------------------------------------------
LEMMA BeginMigrationPins ==
  ASSUME PinInvariant, TypeOK', NEW s \in Sessions, NEW token \in Tokens, NEW t \in Samples,
         BeginMigration(s, token, t)
  PROVE PinInvariant'
<1>. DEFINE n == session_bindings[s].nickname
<1>1. n \in Nicknames /\ active[n] \in ActiveIdentity
  BY BeginMigrationPermit DEF PinInvariant
<1>2. PICK p \in MigrationPermit : active' = [active EXCEPT ![n].permit = p]
  BY BeginMigrationPermit DEF PinInvariant
<1>3. SameIdentities(active')
  <2>. DEFINE a == [active[n] EXCEPT !.permit = p]
  <2>1. a \in ActiveIdentity /\ a.generation = active[n].generation
    BY <1>1 DEF ActiveIdentity
  <2>2. active' = [active EXCEPT ![n] = a] /\ active[n] # None
    BY <1>1, <1>2, NoneAssumption
  <2>. HIDE DEF n, a
  <2>. QED BY <1>1, <2>1, <2>2, OneIdentityChanges DEF PinInvariant
<1>4. next_generation' >= next_generation
  BY GenerationType DEF BeginMigration, PinInvariant, TypeOK
<1>. QED
  BY <1>3, <1>4, StillSpared, QuietTurnKeeps DEF BeginMigration, FlushOnly, tasks

LEMMA CommandTurnPins ==
  ASSUME PinInvariant, TypeOK', CommandTurn \/ Quiesce
  PROVE PinInvariant'
<1>1. next_generation' >= next_generation
  BY GenerationType DEF CommandTurn, Quiesce, registry, PinInvariant, TypeOK
<1>. QED
  BY <1>1, StillSpared, UnchangedIdentities, QuietTurnKeeps
  DEF CommandTurn, Quiesce, FlushOnly, registry, tasks

LEMMA PreflightMigrationPins ==
  ASSUME PinInvariant, TypeOK', NEW d \in Sessions, NEW n \in Nicknames,
         NEW token \in Tokens, NEW t \in Samples, PreflightMigration(d, n, token, t)
  PROVE PinInvariant'
<1>. DEFINE id == next_transfer_id
            g == active[n].generation
<1>1. active[n] \in ActiveIdentity /\ g \in Generations
  BY DEF PinInvariant, TypeOK, PreflightMigration, validate_migration, IsActive, ActiveIdentity
<1>2. id \in TransferIds /\ id # RETIRED
  <2>1. id < MaxTransferId /\ id \in TransferIds
    BY DEF PreflightMigration, PinInvariant, TypeOK
  <2>. QED BY <2>1, ConstantsAssumption DEF TransferIds, RETIRED
<1>3. Spared([gate_state EXCEPT ![g] = id])
  BY <1>1, <1>2, TypeParts DEF PinInvariant, Spared, Gates
<1>4. active' = [active EXCEPT ![n].transfer_in_progress = id]
  BY DEF PreflightMigration
<1>5. SameIdentities(active')
  <2>. DEFINE a == [active[n] EXCEPT !.transfer_in_progress = id]
  <2>1. a \in ActiveIdentity /\ a.generation = active[n].generation
    BY <1>1, <1>2 DEF ActiveIdentity
  <2>2. active' = [active EXCEPT ![n] = a] /\ active[n] # None
    BY <1>1, <1>4, NoneAssumption
  <2>. HIDE DEF a
  <2>. QED BY <2>1, <2>2, OneIdentityChanges DEF PinInvariant
<1>6. next_generation' >= next_generation
  BY GenerationType DEF PreflightMigration, PinInvariant, TypeOK
<1>. QED
  BY <1>3, <1>5, <1>6, QuietTurnKeeps DEF PreflightMigration

LEMMA AbortPins ==
  ASSUME PinInvariant, TypeOK', UNCHANGED <<lease, active_operations>>,
         NEW d \in Sessions, preflight[d] # None, abort_preflighted_migration(d),
         next_generation' >= next_generation
  PROVE PinInvariant'
<1>. DEFINE ticket == preflight[d]
            n == ticket.nickname
<1>1. CASE abort_applies(ticket)
  <2>1. n \in Nicknames
    BY TypeParts DEF PinInvariant, Tickets, MigrationPreflight
  <2>2. active[n] \in ActiveIdentity
    BY <1>1, <2>1, TypeParts DEF PinInvariant, abort_applies, IsActive, Actives
  <2>3. active' = [active EXCEPT ![n].transfer_in_progress = None]
    BY <1>1 DEF abort_preflighted_migration
  <2>4. SameIdentities(active')
    <3>. DEFINE a == [active[n] EXCEPT !.transfer_in_progress = None]
    <3>1. a \in ActiveIdentity /\ a.generation = active[n].generation
      BY <2>2 DEF ActiveIdentity
    <3>2. active' = [active EXCEPT ![n] = a] /\ active[n] # None
      BY <2>2, <2>3, NoneAssumption
    <3>. HIDE DEF n, a
    <3>. QED BY <2>1, <3>1, <3>2, OneIdentityChanges DEF PinInvariant
  <2>. QED
    BY <1>1, <2>4, ReopenSpares, QuietTurnKeeps DEF abort_preflighted_migration
<1>2. CASE ~abort_applies(ticket)
  BY <1>2, StillSpared, UnchangedIdentities, QuietTurnKeeps
  DEF abort_preflighted_migration, FlushOnly
<1>. QED BY <1>1, <1>2

LEMMA CompletionPins ==
  ASSUME PinInvariant, TypeOK', NEW d \in Sessions,
         AbortMigration(d) \/ RejectMigration(d) \/ BurnMigration(d)
  PROVE PinInvariant'
<1>1. next_generation' >= next_generation
  BY GenerationType DEF AbortMigration, RejectMigration, BurnMigration, PinInvariant, TypeOK
<1>. QED BY <1>1, AbortPins DEF AbortMigration, RejectMigration, BurnMigration

\* A closed session's identity that waits for its migration keeps its generation.
LEMMA DeferredCloseSame ==
  ASSUME TypeOK, NEW n \in Nicknames, active[n] # None,
         active' = [active EXCEPT ![n].owner = None]
  PROVE /\ active'[n] = [active[n] EXCEPT !.owner = None]
        /\ \A m \in Nicknames \ {n} : active'[m] = active[m]
        /\ SameIdentities(active')
<1>. DEFINE a == [active[n] EXCEPT !.owner = None]
<1>1. a \in ActiveIdentity /\ a.generation = active[n].generation
  BY TypeParts DEF Actives, ActiveIdentity
<1>2. active' = [active EXCEPT ![n] = a]
  OBVIOUS
<1>3. /\ active'[n] = a /\ \A m \in Nicknames \ {n} : active'[m] = active[m]
      /\ SameIdentities(active')
  <2>. HIDE DEF a
  <2>. QED BY <1>1, <1>2, OneIdentityChanges
<1>. QED BY <1>3

\* One identity is released.
LEMMA ReleaseMoves ==
  ASSUME TypeOK, NEW n \in Nicknames, active[n] # None, active' = [active EXCEPT ![n] = None],
         NEW gone,
         gone = {[nickname |-> m, generation |-> active[m].generation] : m \in {n}}
  PROVE /\ active'[n] = None /\ \A m \in Nicknames \ {n} : active'[m] = active[m]
        /\ gone \in SUBSET DeferredRelease /\ Moved(active', gone)
<1>1. active'[n] = None /\ \A m \in Nicknames \ {n} : active'[m] = active[m]
  BY TypeParts DEF Actives
<1>2. active[n] \in ActiveIdentity
  BY TypeParts DEF Actives
<1>3. gone \in SUBSET DeferredRelease
  BY <1>2 DEF DeferredRelease, ActiveIdentity
<1>4. \A d \in gone : d.nickname = n /\ d.generation = active[n].generation
  OBVIOUS
<1>5. [nickname |-> n, generation |-> active[n].generation] \in gone
  OBVIOUS
<1>. QED BY <1>1, <1>3, <1>4, <1>5 DEF Moved

LEMMA CloseSessionPins ==
  ASSUME PinInvariant, TypeOK', NEW s \in Sessions, CloseSession(s)
  PROVE PinInvariant'
<1>. DEFINE bound == session_bindings[s]
            n == bound.nickname
            current == /\ bound # None
                       /\ IsActive(n)
                       /\ active[n].owner = s
                       /\ active[n].generation = bound.generation
            frozen == {<<active[m].generation, active[m].transfer_in_progress>> : m \in {n}}
            gone == {[nickname |-> m, generation |-> active[m].generation] : m \in {n}}
<1>0. next_generation' >= next_generation /\ UNCHANGED <<lease, active_operations>>
  BY GenerationType DEF CloseSession, PinInvariant, TypeOK
<1>1. CASE ~current
  BY <1>0, <1>1, StillSpared, UnchangedIdentities, QuietTurnKeeps DEF CloseSession, FlushOnly
<1>2. CASE current
  <2>1. n \in Nicknames /\ active[n] # None
    BY <1>2, TypeParts DEF PinInvariant, TypeOK, DeferredRelease, IsActive
  <2>2. CASE permit_usable(n, clock)
    <3>1. active' = [active EXCEPT ![n].owner = None] /\ FlushOnly
      BY <1>2, <2>2 DEF CloseSession
    <3>2. SameIdentities(active')
      <4>. HIDE DEF n
      <4>. QED BY <2>1, <3>1, DeferredCloseSame DEF PinInvariant
    <3>. QED BY <1>0, <3>1, <3>2, StillSpared, QuietTurnKeeps DEF FlushOnly
  <2>3. CASE ~permit_usable(n, clock)
    <3>1. active' = [active EXCEPT ![n] = None] /\ ReleaseActive({n})
      BY <1>2, <2>3 DEF CloseSession
    <3>2. Flush(deferred_releases \cup gone, Reopen(gate_state, frozen), announced)
      BY <3>1 DEF ReleaseActive
    <3>3. gone \in SUBSET DeferredRelease /\ Moved(active', gone)
      <4>. HIDE DEF n
      <4>. QED BY <2>1, <3>1, ReleaseMoves DEF PinInvariant
    <3>. HIDE DEF gone, frozen
    <3>. QED BY <1>0, <3>2, <3>3, ReopenSpares, MoveTurnKeeps
  <2>. QED BY <2>2, <2>3
<1>. QED BY <1>1, <1>2

\* The sweep releases the identities without an owner whose permit is due.
Due(t) == {n \in Nicknames : IsActive(n) /\ permit_due(n, t)}
Ownerless(t) == {n \in Due(t) : active[n].owner = None}
Thawed(t) == {n \in Due(t) : active[n].transfer_in_progress # None}
Releases(ns) == {[nickname |-> n, generation |-> active[n].generation] : n \in ns}
Freezes(ns) == {<<active[n].generation, active[n].transfer_in_progress>> : n \in ns}

LEMMA ExpireMoves ==
  ASSUME TypeOK, NEW t, expire_migrations(t)
  PROVE /\ Releases(Ownerless(t)) \in SUBSET DeferredRelease
        /\ Moved(active', Releases(Ownerless(t)))
        /\ Flush(deferred_releases \cup Releases(Ownerless(t)),
                 Reopen(gate_state, Freezes(Thawed(t))), announced)
        /\ \A n \in Ownerless(t) : active'[n] = None
        /\ \A n \in Due(t) \ Ownerless(t) :
             active'[n] = [active[n] EXCEPT !.permit = None, !.transfer_in_progress = None]
        /\ \A n \in Nicknames \ Due(t) : active'[n] = active[n]
<1>. DEFINE due == Due(t)
            freeze == Freezes(Thawed(t))
            ownerless == Ownerless(t)
            gone == Releases(ownerless)
<1>. USE DEF Due, Thawed, Freezes, Ownerless, Releases
<1>1. \A n \in due : n \in Nicknames /\ active[n] # None /\ active[n] \in ActiveIdentity
  BY TypeParts DEF Actives, IsActive
<1>2. gone \in SUBSET DeferredRelease
  BY <1>1 DEF DeferredRelease, ActiveIdentity
<1>3. \A n \in ownerless : active'[n] = None
  BY DEF expire_migrations
<1>4. \A n \in due \ ownerless : active'[n] # None /\ active'[n].generation = active[n].generation
  <2>. SUFFICES ASSUME NEW n \in due \ ownerless
                PROVE active'[n] # None /\ active'[n].generation = active[n].generation
    OBVIOUS
  <2>1. active'[n] = [active[n] EXCEPT !.permit = None, !.transfer_in_progress = None]
    BY DEF expire_migrations
  <2>2. active[n] \in ActiveIdentity
    BY <1>1
  <2>. HIDE DEF due, ownerless
  <2>3. active'[n] \in ActiveIdentity /\ active'[n].generation = active[n].generation
    BY <2>1, <2>2 DEF ActiveIdentity
  <2>. QED BY <2>3, NoneAssumption
<1>5. \A n \in Nicknames \ due : active'[n] = active[n]
  BY DEF expire_migrations
<1>6. \A d \in gone : \E n \in ownerless : d.nickname = n /\ d.generation = active[n].generation
  OBVIOUS
<1>7. \A n \in ownerless : [nickname |-> n, generation |-> active[n].generation] \in gone
  OBVIOUS
<1>8. Flush(deferred_releases \cup gone, Reopen(gate_state, freeze), announced)
  BY DEF expire_migrations
<1>9. ownerless \subseteq due /\ due \subseteq Nicknames
  OBVIOUS
<1>10. \A n \in due \ ownerless :
         active'[n] = [active[n] EXCEPT !.permit = None, !.transfer_in_progress = None]
  BY DEF expire_migrations
<1>. HIDE DEF due, freeze, ownerless, gone, Due, Thawed, Freezes, Ownerless, Releases
<1>11. Moved(active', gone)
  <2>1. ASSUME NEW n \in Nicknames, active'[n] # None
        PROVE n \notin ownerless /\ active[n] # None /\ active'[n].generation = active[n].generation
    <3>1. n \notin ownerless
      BY <1>3, <2>1
    <3>2. CASE n \in due
      BY <3>1, <3>2, <1>1, <1>4
    <3>3. CASE n \notin due
      BY <2>1, <3>1, <3>3, <1>5
    <3>. QED BY <3>2, <3>3
  <2>2. ASSUME NEW n \in Nicknames, active'[n] # None
        PROVE \A d \in gone : d.nickname # n
    BY <2>1, <2>2, <1>6
  <2>3. ASSUME NEW n \in Nicknames, active[n] # None, active'[n] = None
        PROVE \E d \in gone : d.generation = active[n].generation
    <3>1. n \in ownerless
      <4>1. n \in due
        BY <2>3, <1>5
      <4>. QED BY <4>1, <2>3, <1>4
    <3>. QED BY <3>1, <1>7
  <2>4. ASSUME NEW d \in gone
        PROVE active[d.nickname] # None /\ d.generation = active[d.nickname].generation
    <3>1. PICK n \in ownerless : d.nickname = n /\ d.generation = active[n].generation
      BY <1>6, <2>4
    <3>2. active[n] # None
      BY <1>1, <1>9, <3>1
    <3>. QED BY <3>1, <3>2
  <2>. QED BY <2>1, <2>2, <2>3, <2>4 DEF Moved
<1>. QED BY <1>2, <1>3, <1>5, <1>8, <1>10, <1>11 DEF due, freeze, ownerless, gone

LEMMA ExpirePins ==
  ASSUME PinInvariant, TypeOK', UNCHANGED <<lease, active_operations, next_generation>>,
         NEW t, expire_migrations(t)
  PROVE PinInvariant'
<1>1. next_generation' >= next_generation
  BY GenerationType DEF PinInvariant, TypeOK
<1>. QED BY <1>1, ExpireMoves, ReopenSpares, MoveTurnKeeps DEF PinInvariant

LEMMA SweepPins ==
  ASSUME PinInvariant, TypeOK', MigrationExpiry \/ DrainOutboundProducers
  PROVE PinInvariant'
BY ExpirePins DEF MigrationExpiry, DrainOutboundProducers

LEMMA DrainMoves ==
  ASSUME TypeOK, DrainSessions
  PROVE LET gone == Releases({n \in Nicknames : IsActive(n)})
        IN /\ gone \in SUBSET DeferredRelease /\ Moved(active', gone)
           /\ Flush(deferred_releases \cup gone, gate_state, announced)
           /\ UNCHANGED <<lease, active_operations, next_generation>>
<1>. DEFINE all == {n \in Nicknames : IsActive(n)}
            gone == Releases(all)
<1>1. gone \in SUBSET DeferredRelease
  BY TypeParts DEF Releases, DeferredRelease, ActiveIdentity, IsActive, Actives
<1>2. \A n \in Nicknames : active'[n] = None
  BY DEF DrainSessions
<1>3. \A d \in gone : \E n \in Nicknames :
        d.nickname = n /\ active[n] # None /\ d.generation = active[n].generation
  BY DEF Releases, IsActive
<1>4. \A n \in Nicknames : active[n] # None =>
        [nickname |-> n, generation |-> active[n].generation] \in gone
  BY DEF Releases, IsActive
<1>5. /\ Flush(deferred_releases \cup gone, gate_state, announced)
      /\ UNCHANGED <<lease, active_operations, next_generation>>
  BY DEF DrainSessions, Releases, tasks
<1>. HIDE DEF gone
<1>6. Moved(active', gone)
  BY <1>2, <1>3, <1>4 DEF Moved
<1>. QED BY <1>1, <1>5, <1>6 DEF gone

LEMMA DrainSessionsPins ==
  ASSUME PinInvariant, TypeOK', DrainSessions
  PROVE PinInvariant'
<1>. DEFINE gone == Releases({n \in Nicknames : IsActive(n)})
<1>1. /\ gone \in SUBSET DeferredRelease /\ Moved(active', gone)
      /\ Flush(deferred_releases \cup gone, gate_state, announced)
      /\ UNCHANGED <<lease, active_operations, next_generation>>
  BY DrainMoves DEF PinInvariant
<1>2. next_generation' >= next_generation
  BY <1>1, GenerationType DEF PinInvariant, TypeOK
<1>. HIDE DEF gone
<1>. QED BY <1>1, <1>2, StillSpared, MoveTurnKeeps

LEMMA ClaimIdentityPins ==
  ASSUME PinInvariant, TypeOK', NEW s \in Sessions, NEW n \in Nicknames, ClaimIdentity(s, n)
  PROVE PinInvariant'
<1>. DEFINE ds == deferred_releases \ Drained(deferred_releases)
            gates == Retire(gate_state, Drained(deferred_releases))
            g == next_generation
<1>1. UNCHANGED <<lease, active_operations>> /\ deferred_releases' = ds /\ gate_state' = gates
  BY DEF ClaimIdentity, tasks
<1>2. \A t \in Tasks, d \in deferred_releases :
        lease[t] # None /\ is_drained(d.generation) => lease[t].generation # d.generation
  BY DrainedHasNoHolder DEF PinInvariant, TypeOK, DeferredRelease
<1>3. Apart(active, ds, g) /\ Pinned(active, ds, gates, lease)
  BY <1>2, FlushKeeps DEF PinInvariant, TypeOK
<1>4. LeasesCounted'
  BY <1>1 DEF PinInvariant, LeasesCounted, Holders
<1>5. Apart(active', ds, next_generation') /\ Pinned(active', ds, gates, lease)
  <2>1. CASE ~claim_accepted(s, n, ds)
    BY <1>3, <2>1 DEF ClaimIdentity
  <2>2. CASE claim_accepted(s, n, ds)
    <3>1. active[n] = None /\ \A d \in ds : d.nickname # n
      BY <2>2 DEF claim_accepted, IsActive
    <3>2. active' = [active EXCEPT ![n] = [generation |-> g, owner |-> s, permit |-> None,
                                           transfer_in_progress |-> None]]
      BY <2>2 DEF ClaimIdentity
    <3>3. active'[n].generation = g /\ \A m \in Nicknames \ {n} : active'[m] = active[m]
      BY <3>2, TypeParts DEF PinInvariant, Actives
    <3>4. next_generation' = g + 1 /\ g \in Nat
      BY <2>2, GenerationType DEF ClaimIdentity, PinInvariant, TypeOK
    <3>5. \A m \in Nicknames : active[m] # None =>
            active[m].generation \in Nat /\ active[m].generation < g
      BY <1>3, GenerationType, TypeParts DEF PinInvariant, Apart, Actives, ActiveIdentity
    <3>6. \A d \in ds : d.generation \in Nat /\ d.generation < g
      BY <1>3, GenerationType DEF PinInvariant, TypeOK, Apart, DeferredRelease
    <3>7. \A m \in Nicknames : active'[m] # None =>
            /\ active'[m].generation < next_generation'
            /\ \A k \in Nicknames :
                 active'[k] # None /\ active'[k].generation = active'[m].generation => k = m
            /\ \A d \in ds : d.nickname # m /\ d.generation # active'[m].generation
      <4>. HIDE DEF ds, g
      <4>. QED BY <1>3, <3>1, <3>3, <3>4, <3>5, <3>6 DEF Apart
    <3>8. \A d \in ds : d.generation < next_generation'
      <4>. HIDE DEF ds, g
      <4>. QED BY <3>4, <3>6
    <3>9. Apart(active', ds, next_generation')
      BY <1>3, <3>7, <3>8 DEF Apart
    <3>10. Pinned(active', ds, gates, lease)
      BY <1>3, <3>1, <3>3 DEF Pinned
    <3>. QED BY <3>9, <3>10
  <2>. QED BY <2>1, <2>2
<1>6. Apart(active', deferred_releases', next_generation')
  BY <1>1, <1>5
<1>7. Pinned(active', deferred_releases', gate_state', lease')
  BY <1>1, <1>5
<1>. QED BY <1>4, <1>6, <1>7 DEF PinInvariant, Apart, Pinned

LEMMA CommitMigrationPins ==
  ASSUME PinInvariant, TypeOK', NEW d \in Sessions, CommitMigration(d)
  PROVE PinInvariant'
<1>. DEFINE ticket == preflight[d]
            n == ticket.nickname
            old == ticket.source_generation
            new == next_generation
            gates == [gate_state EXCEPT ![old] = RETIRED]
            ds == deferred_releases
<1>1. n \in Nicknames /\ old \in Generations
  BY TypeParts DEF CommitMigration, PinInvariant, Tickets, MigrationPreflight
<1>2. active[n] # None /\ active[n].generation = old /\ is_drained(old)
  BY DEF CommitMigration, validate_preflighted_migration, validate_migration, IsActive
<1>3. /\ UNCHANGED <<lease, active_operations>>
      /\ deferred_releases' = ds \ Drained(ds)
      /\ gate_state' = Retire(gates, Drained(ds))
  BY DEF CommitMigration, Flush
<1>4. \A t \in Tasks : lease[t] # None => lease[t].generation # old
  BY <1>1, <1>2, DrainedHasNoHolder DEF PinInvariant
<1>5. active'[n].generation = new /\ \A m \in Nicknames \ {n} : active'[m] = active[m]
  <2>1. active' = [active EXCEPT ![n] = [generation |-> new, owner |-> d, permit |-> None,
                                         transfer_in_progress |-> None]]
    BY DEF CommitMigration
  <2>2. active \in Actives
    BY TypeParts DEF PinInvariant
  <2>. HIDE DEF n, new
  <2>. QED BY <1>1, <2>1, <2>2 DEF Actives
<1>6. next_generation' = new + 1 /\ new \in Nat
  BY GenerationType DEF CommitMigration, PinInvariant, TypeOK
<1>7. \A m \in Nicknames : active[m] # None =>
        active[m].generation \in Nat /\ active[m].generation < new
  BY GenerationType, TypeParts DEF PinInvariant, Apart, Actives, ActiveIdentity
<1>8. \A e \in ds : e.generation \in Nat /\ e.generation < new
  BY GenerationType DEF PinInvariant, TypeOK, Apart, DeferredRelease
<1>9. Apart(active, ds, new)
  BY DEF PinInvariant
<1>10. Apart(active', ds, next_generation')
  <2>. HIDE DEF n, old, new, ds
  <2>1. \A m \in Nicknames : active'[m] # None =>
          /\ active'[m].generation < next_generation'
          /\ \A k \in Nicknames :
               active'[k] # None /\ active'[k].generation = active'[m].generation => k = m
          /\ \A e \in ds : e.nickname # m /\ e.generation # active'[m].generation
    <3>. SUFFICES ASSUME NEW m \in Nicknames, active'[m] # None
                  PROVE /\ active'[m].generation < next_generation'
                        /\ \A k \in Nicknames :
                             active'[k] # None /\ active'[k].generation = active'[m].generation
                               => k = m
                        /\ \A e \in ds : e.nickname # m /\ e.generation # active'[m].generation
      OBVIOUS
    <3>1. CASE m = n
      BY <1>1, <1>2, <1>5, <1>6, <1>7, <1>8, <1>9, <3>1 DEF Apart
    <3>2. CASE m # n
      BY <1>1, <1>2, <1>5, <1>6, <1>7, <1>8, <1>9, <3>2 DEF Apart
    <3>. QED BY <3>1, <3>2
  <2>2. \A e \in ds : e.generation < next_generation'
    BY <1>6, <1>8
  <2>. QED BY <1>9, <2>1, <2>2 DEF Apart
<1>11. Pinned(active', ds, gates, lease)
  <2>. SUFFICES ASSUME NEW t \in Tasks, lease[t] # None
                PROVE /\ gates[lease[t].generation] # RETIRED
                      /\ \/ \E m \in Nicknames :
                              active'[m] # None /\ active'[m].generation = lease[t].generation
                         \/ \E e \in ds : e.generation = lease[t].generation
    BY DEF Pinned
  <2>1. lease[t].generation \in Generations /\ lease[t].generation # old
    BY <1>4 DEF PinInvariant, TypeOK, Lease
  <2>2. gates[lease[t].generation] # RETIRED
    BY <2>1, TypeParts DEF PinInvariant, Pinned, Gates
  <2>. HIDE DEF n, old, new, gates
  <2>. QED BY <1>2, <1>5, <2>1, <2>2 DEF PinInvariant, Pinned
<1>12. ds \in SUBSET DeferredRelease
  BY DEF PinInvariant, TypeOK
<1>. HIDE DEF ds, gates
<1>. QED BY <1>3, <1>10, <1>11, <1>12, TurnKeeps
-----------------------------------------------------------------------------
\* A lease more or a lease less.

LEMMA LeaseAdded ==
  ASSUME PinInvariant, NEW t \in Tasks, NEW g \in Generations, NEW depth \in 0..MaxRetainDepth,
         lease[t] = None,
         lease' = [lease EXCEPT ![t] = [generation |-> g, depth |-> depth]],
         active_operations' = [active_operations EXCEPT ![g] = @ + 1]
  PROVE /\ LeasesCounted'
        /\ \A u \in Tasks : lease'[u] # None =>
             lease'[u].generation = g \/ (lease[u] # None /\ lease'[u] = lease[u])
<1>1. [generation |-> g, depth |-> depth] # None
  BY NoneAssumption DEF Lease
<1>2. /\ lease'[t] # None /\ lease'[t].generation = g
      /\ \A u \in Tasks \ {t} : lease'[u] = lease[u]
  BY <1>1 DEF PinInvariant, TypeOK
<1>3. ASSUME NEW h \in Generations PROVE active_operations'[h] = Cardinality(Holders(h)')
  <2>1. CASE h = g
    <3>1. Holders(h)' = Holders(h) \cup {t} /\ t \notin Holders(h)
      BY <1>2, <2>1 DEF Holders
    <3>2. Cardinality(Holders(h)') = Cardinality(Holders(h)) + 1
      BY <3>1, HoldersFinite, FS_AddElement
    <3>3. active_operations'[h] = active_operations[h] + 1
      BY <2>1 DEF PinInvariant, TypeOK
    <3>. QED BY <3>2, <3>3 DEF PinInvariant, LeasesCounted
  <2>2. CASE h # g
    <3>1. Holders(h)' = Holders(h)
      BY <1>2, <2>2 DEF Holders
    <3>. QED BY <2>2, <3>1 DEF PinInvariant, TypeOK, LeasesCounted
  <2>. QED BY <2>1, <2>2
<1>4. LeasesCounted'
  BY <1>3 DEF LeasesCounted
<1>5. \A u \in Tasks : lease'[u] # None =>
        lease'[u].generation = g \/ (lease[u] # None /\ lease'[u] = lease[u])
  BY <1>2
<1>. QED BY <1>4, <1>5

LEMMA AdmitOperationPins ==
  ASSUME PinInvariant, TypeOK', NEW s \in Sessions, NEW t \in Tasks, AdmitOperation(s, t)
  PROVE PinInvariant'
<1>. DEFINE n == session_bindings[s].nickname
            g == session_bindings[s].generation
            ds == deferred_releases
<1>1. n \in Nicknames /\ g \in Generations /\ 0 \in 0..MaxRetainDepth
  BY ConstantsAssumption, TypeParts
  DEF PinInvariant, Bindings, AdmitOperation, authorize, DeferredRelease
<1>2. active[n] # None /\ active[n].generation = g /\ gate_state[g] # RETIRED
  BY RetiredIsNotOpen DEF AdmitOperation, authorize, IsActive
<1>3. /\ LeasesCounted'
      /\ \A u \in Tasks : lease'[u] # None =>
           lease'[u].generation = g \/ (lease[u] # None /\ lease'[u] = lease[u])
  BY <1>1, LeaseAdded DEF AdmitOperation
<1>4. Apart(active, ds, next_generation) /\ Pinned(active, ds, gate_state, lease')
  BY <1>1, <1>2, <1>3 DEF PinInvariant, Pinned
<1>5. \A u \in Tasks, d \in ds :
        lease'[u] # None /\ is_drained(d.generation) => lease'[u].generation # d.generation
  <2>. SUFFICES ASSUME NEW u \in Tasks, NEW d \in ds, lease'[u] # None, is_drained(d.generation)
                PROVE lease'[u].generation # d.generation
    OBVIOUS
  <2>1. d.generation \in Generations
    BY DEF PinInvariant, TypeOK, DeferredRelease
  <2>2. d.generation # g
    BY <1>1, <1>2 DEF PinInvariant, Apart
  <2>3. lease[u] # None => lease[u].generation # d.generation
    BY <2>1, DrainedHasNoHolder DEF PinInvariant
  <2>. QED BY <1>3, <2>2, <2>3
<1>6. /\ Apart(active, ds \ Drained(ds), next_generation)
      /\ Pinned(active, ds \ Drained(ds), Retire(gate_state, Drained(ds)), lease')
  BY <1>4, <1>5, FlushKeeps DEF PinInvariant, TypeOK
<1>7. /\ active' = active /\ next_generation' = next_generation
      /\ deferred_releases' = ds \ Drained(ds)
      /\ gate_state' = Retire(gate_state, Drained(ds))
  BY DEF AdmitOperation, FlushOnly, Flush, registry
<1>8. Apart(active', deferred_releases', next_generation')
  BY <1>6, <1>7
<1>9. Pinned(active', deferred_releases', gate_state', lease')
  BY <1>6, <1>7
<1>. QED BY <1>3, <1>8, <1>9 DEF PinInvariant, Apart, Pinned

LEMMA AdmitUdpOperationPins ==
  ASSUME PinInvariant, TypeOK', NEW t \in Tasks, AdmitUdpOperation(t)
  PROVE PinInvariant'
<1>. DEFINE n == Head(ingress).nickname
            g == active[n].generation
<1>1. n \in Nicknames /\ 0 \in 0..MaxRetainDepth
  BY ConstantsAssumption, IngressTailType DEF PinInvariant, AdmitUdpOperation
<1>2. active[n] # None /\ g \in Generations /\ gate_state[g] # RETIRED
  BY <1>1, RetiredIsNotOpen, TypeParts
  DEF PinInvariant, AdmitUdpOperation, udp_admitted, IsActive, Actives, ActiveIdentity
<1>3. /\ lease[t] = None
      /\ lease' = [lease EXCEPT ![t] = [generation |-> g, depth |-> 0]]
      /\ active_operations' = [active_operations EXCEPT ![g] = @ + 1]
      /\ UNCHANGED <<active, deferred_releases, next_generation, gate_state>>
  BY DEF AdmitUdpOperation, registry, retained
<1>. HIDE DEF g
<1>4. /\ LeasesCounted'
      /\ \A u \in Tasks : lease'[u] # None =>
           lease'[u].generation = g \/ (lease[u] # None /\ lease'[u] = lease[u])
  BY <1>1, <1>2, <1>3, LeaseAdded
<1>5. Pinned(active, deferred_releases, gate_state, lease')
  BY <1>1, <1>2, <1>4 DEF PinInvariant, Pinned, g
<1>. QED BY <1>3, <1>4, <1>5 DEF PinInvariant, Apart, Pinned

LEMMA RetainLeasePins ==
  ASSUME PinInvariant, TypeOK', NEW t \in Tasks, NEW u \in Tasks, RetainLease(t, u)
  PROVE PinInvariant'
<1>. DEFINE g == lease[t].generation
            depth == lease[t].depth + 1
<1>1. lease[t] # None /\ lease[t] \in Lease /\ lease[t].depth < MaxRetainDepth
  BY DEF RetainLease, PinInvariant, TypeOK
<1>2. g \in Generations /\ depth \in 0..MaxRetainDepth
  BY <1>1, ConstantsAssumption DEF Lease
<1>3. /\ lease[u] = None
      /\ lease' = [lease EXCEPT ![u] = [generation |-> g, depth |-> depth]]
      /\ active_operations' = [active_operations EXCEPT ![g] = @ + 1]
      /\ UNCHANGED <<active, deferred_releases, next_generation, gate_state>>
  BY DEF RetainLease, registry, retained
<1>. HIDE DEF g, depth
<1>4. /\ LeasesCounted'
      /\ \A v \in Tasks : lease'[v] # None =>
           lease'[v].generation = g \/ (lease[v] # None /\ lease'[v] = lease[v])
  BY <1>2, <1>3, LeaseAdded
<1>5. Pinned(active, deferred_releases, gate_state, lease')
  BY <1>1, <1>4 DEF PinInvariant, Pinned, g
<1>. QED BY <1>3, <1>4, <1>5 DEF PinInvariant, Apart, Pinned

LEMMA DropLeasePins ==
  ASSUME PinInvariant, TypeOK', NEW t \in Tasks, DropLease(t)
  PROVE PinInvariant'
<1>. DEFINE g == lease[t].generation
<1>1. lease[t] # None /\ g \in Generations
  BY DEF DropLease, PinInvariant, TypeOK, Lease
<1>2. /\ lease' = [lease EXCEPT ![t] = None]
      /\ active_operations' = [active_operations EXCEPT ![g] = @ - 1]
      /\ UNCHANGED <<active, deferred_releases, next_generation, gate_state>>
  BY DEF DropLease, registry, retained
<1>3. lease'[t] = None /\ \A u \in Tasks \ {t} : lease'[u] = lease[u]
  BY <1>2 DEF PinInvariant, TypeOK
<1>4. ASSUME NEW h \in Generations PROVE active_operations'[h] = Cardinality(Holders(h)')
  <2>1. CASE h = g
    <3>1. Holders(h)' = Holders(h) \ {t} /\ t \in Holders(h)
      BY <1>1, <1>3, <2>1 DEF Holders
    <3>2. Cardinality(Holders(h)') = Cardinality(Holders(h)) - 1
      BY <3>1, HoldersFinite, FS_RemoveElement
    <3>3. active_operations'[h] = active_operations[h] - 1
      BY <1>1, <1>2, <2>1 DEF PinInvariant, TypeOK
    <3>. QED BY <3>2, <3>3 DEF PinInvariant, LeasesCounted
  <2>2. CASE h # g
    <3>1. Holders(h)' = Holders(h)
      BY <1>3, <2>2 DEF Holders
    <3>. QED BY <1>2, <2>2, <3>1 DEF PinInvariant, TypeOK, LeasesCounted
  <2>. QED BY <2>1, <2>2
<1>5. LeasesCounted'
  BY <1>4 DEF LeasesCounted
<1>6. Pinned(active, deferred_releases, gate_state, lease')
  BY <1>3 DEF PinInvariant, Pinned
<1>. QED BY <1>2, <1>5, <1>6 DEF PinInvariant, Apart, Pinned

LEMMA OtherStepPins ==
  ASSUME PinInvariant, TypeOK',
         UNCHANGED <<active, deferred_releases, next_generation, gate_state, lease,
                     active_operations>>
  PROVE PinInvariant'
BY DEF PinInvariant, LeasesCounted, Holders, Apart, Pinned
-----------------------------------------------------------------------------
LEMMA InitPins ==
  ASSUME Init
  PROVE PinInvariant
<1>1. TypeOK
  BY InitType
<1>2. LeasesCounted
  <2>1. \A g \in Generations : Holders(g) = {} /\ active_operations[g] = 0
    BY DEF Init, Holders
  <2>. QED BY <2>1, FS_EmptySet DEF LeasesCounted
<1>3. Apart(active, deferred_releases, next_generation)
  BY DEF Init, Apart
<1>4. Pinned(active, deferred_releases, gate_state, lease)
  BY DEF Init, Pinned
<1>. QED BY <1>1, <1>2, <1>3, <1>4 DEF PinInvariant

LEMMA NextPins ==
  ASSUME PinInvariant, [Next]_vars
  PROVE PinInvariant'
<1>1. TypeOK'
  BY NextType DEF PinInvariant
<1>2. CASE UNCHANGED vars
  BY <1>1, <1>2, OtherStepPins DEF vars, registry, retained, tasks
<1>3. CASE \E n \in Nicknames : ReceiveDatagram(n)
  BY <1>1, <1>3, OtherStepPins DEF ReceiveDatagram, registry, retained, tasks
<1>4. CASE DropDatagram \/ Tick
  BY <1>1, <1>4, OtherStepPins DEF DropDatagram, Tick, registry, retained, tasks
<1>5. CASE \E d \in Sessions :
             CheckDrained(d) \/ Wake(d) \/ SubmitMigration(d) \/ CancelMigration(d)
  BY <1>1, <1>5, OtherStepPins
  DEF CheckDrained, Wake, SubmitMigration, CancelMigration, registry, retained
<1>. QED
  BY <1>1, <1>2, <1>3, <1>4, <1>5, ClaimIdentityPins, AdmitOperationPins, BeginMigrationPins,
     PreflightMigrationPins, CompletionPins, CommitMigrationPins, CloseSessionPins,
     SweepPins, CommandTurnPins, DrainSessionsPins, AdmitUdpOperationPins, RetainLeasePins,
     DropLeasePins
  DEF Next

\* Apart makes Retained the generation that pins the lease.
LEMMA PinImpliesRetained ==
  ASSUME PinInvariant
  PROVE OperationsPinGeneration
<1>. SUFFICES ASSUME NEW t \in Tasks, lease[t] # None
              PROVE /\ \E n \in Nicknames : Retained(n) = lease[t].generation
                    /\ gate_state[lease[t].generation] # RETIRED
  BY DEF OperationsPinGeneration
<1>1. gate_state[lease[t].generation] # RETIRED
  BY DEF PinInvariant, Pinned
<1>2. CASE \E n \in Nicknames : active[n] # None /\ active[n].generation = lease[t].generation
  BY <1>1, <1>2 DEF Retained, IsActive
<1>3. CASE \E d \in deferred_releases : d.generation = lease[t].generation
  <2>1. PICK d \in deferred_releases : d.generation = lease[t].generation
    BY <1>3
  <2>2. d.nickname \in Nicknames
    BY DEF PinInvariant, TypeOK, DeferredRelease
  <2>3. active[d.nickname] = None
    BY <2>2 DEF PinInvariant, Apart
  <2>4. \A e \in deferred_releases : e.nickname = d.nickname => e = d
    BY DEF PinInvariant, Apart
  <2>5. (CHOOSE e \in deferred_releases : e.nickname = d.nickname) = d
    BY <2>4
  <2>. QED BY <1>1, <2>1, <2>2, <2>3, <2>5 DEF Retained, IsActive
<1>. QED BY <1>1, <1>2, <1>3 DEF PinInvariant, Pinned

\* An admitted operation pins its generation: whatever disconnects, expires,
\* migrates or shuts down meanwhile, the nickname still holds the generation the
\* operation was admitted on and its gate is not retired, until its lease drops.
THEOREM OperationsPinned == Spec => []OperationsPinGeneration
<1>. QED BY InitPins, NextPins, PinImpliesRetained, PTL DEF Spec
-----------------------------------------------------------------------------
(* Ownership, freezes, tickets, sidecars and queued datagrams, and that the *)
(* registry implements GenerationFence.                                     *)

\* The generation n holds in the active identities act and the deferred ones ds.
HeldBy(act, ds, n) ==
  IF act[n] # None THEN act[n].generation
  ELSE IF \E d \in ds : d.nickname = n
       THEN (CHOOSE d \in ds : d.nickname = n).generation
       ELSE 0

\* The sidecars know what is held.
Tracks(told, act, ds) == \A n \in Nicknames : told[n] = HeldBy(act, ds, n)

\* An owner is bound to what it owns; without one there is a permit.
Owned(act, bindings) ==
  \A n \in Nicknames : act[n] # None =>
    /\ act[n].permit # None => act[n].permit.source_generation = act[n].generation
    /\ act[n].owner = None => act[n].permit # None
    /\ act[n].owner # None =>
         bindings[act[n].owner] = [nickname |-> n, generation |-> act[n].generation]

\* The ticket of a freeze, which its abort will recognise.
Answers(ticket, a, n) ==
  /\ ticket # None
  /\ ticket.transfer_id = a.transfer_in_progress
  /\ ticket.nickname = n
  /\ exact_permit(a.permit, ticket)

\* Gate and identity agree on a freeze, and a ticket answers for it.
Frozen(act, gates, tickets) ==
  \A n \in Nicknames : act[n] # None =>
    /\ gates[act[n].generation] =
         (IF act[n].transfer_in_progress = None THEN OPEN ELSE act[n].transfer_in_progress)
    /\ act[n].transfer_in_progress # None => \E d \in Sessions : Answers(tickets[d], act[n], n)

\* Transfer numbers are used once, and so are generations.
OneTicketEach(tickets, next) ==
  \A d \in Sessions : tickets[d] # None =>
    /\ tickets[d].transfer_id < next
    /\ \A e \in Sessions :
         tickets[e] # None /\ tickets[e].transfer_id = tickets[d].transfer_id => e = d

Untouched(gates, next) == \A g \in Generations : g >= next => gates[g] = OPEN

\* Who is parked without a notification waits for an operation and a freeze.
Waiting(tickets, gates, operations) ==
  \A d \in Sessions :
    tickets[d] # None /\ tickets[d].phase = "parked" /\ ~tickets[d].notified =>
      /\ gates[tickets[d].source_generation] = tickets[d].transfer_id
      /\ operations[tickets[d].source_generation] # 0

\* World capacity counts the names that hold a generation.
WithinCapacity(act, ds) ==
  Cardinality({n \in Nicknames : HeldBy(act, ds, n) # 0}) <= IdentityCapacity

FenceInvariant ==
  /\ PinInvariant
  /\ Tracks(announced, active, deferred_releases)
  /\ WithinCapacity(active, deferred_releases)
  /\ Owned(active, session_bindings)
  /\ Frozen(active, gate_state, preflight)
  /\ OneTicketEach(preflight, next_transfer_id)
  /\ Untouched(gate_state, next_generation)
  /\ Waiting(preflight, gate_state, active_operations)
-----------------------------------------------------------------------------
(* Generations held.                                                        *)

\* What HeldBy returns when identities and releases are apart.
LEMMA HeldByFacts ==
  ASSUME NEW act, NEW ds \in SUBSET DeferredRelease, NEW next, Apart(act, ds, next)
  PROVE /\ \A n \in Nicknames : act[n] # None => HeldBy(act, ds, n) = act[n].generation
        /\ \A d \in ds : HeldBy(act, ds, d.nickname) = d.generation
        /\ \A n \in Nicknames : act[n] = None /\ (\A d \in ds : d.nickname # n) =>
             HeldBy(act, ds, n) = 0
<1>1. ASSUME NEW d \in ds PROVE HeldBy(act, ds, d.nickname) = d.generation
  <2>1. d.nickname \in Nicknames
    BY DEF DeferredRelease
  <2>2. act[d.nickname] = None /\ \A e \in ds : e.nickname = d.nickname => e = d
    BY <2>1 DEF Apart
  <2>3. (CHOOSE e \in ds : e.nickname = d.nickname) = d
    BY <2>2
  <2>. QED BY <2>2, <2>3 DEF HeldBy
<1>. QED BY <1>1 DEF HeldBy

LEMMA RetainedIsHeld == \A n \in Nicknames : Retained(n) = HeldBy(active, deferred_releases, n)
BY DEF Retained, HeldBy, IsActive

\* The flush releases what has drained, and nobody else notices.
LEMMA FlushHolds ==
  ASSUME NEW act, NEW ds \in SUBSET DeferredRelease, NEW next, Apart(act, ds, next),
         NEW n \in Nicknames
  PROVE \/ /\ HeldBy(act, ds \ Drained(ds), n) = HeldBy(act, ds, n)
           /\ \A d \in Drained(ds) : d.nickname # n
        \/ /\ HeldBy(act, ds \ Drained(ds), n) = 0
           /\ act[n] = None
           /\ \E d \in Drained(ds) : d.nickname = n /\ d.generation = HeldBy(act, ds, n)
<1>. DEFINE rest == ds \ Drained(ds)
<1>1. Drained(ds) \subseteq ds /\ rest \in SUBSET DeferredRelease
  BY DEF Drained
<1>2. Apart(act, rest, next)
  BY <1>1 DEF Apart
<1>. HIDE DEF rest
<1>3. CASE act[n] # None
  <2>1. HeldBy(act, rest, n) = HeldBy(act, ds, n)
    BY <1>3 DEF HeldBy
  <2>2. \A d \in Drained(ds) : d.nickname # n
    BY <1>1, <1>3 DEF Apart
  <2>. QED BY <2>1, <2>2 DEF rest
<1>4. CASE act[n] = None /\ \E d \in Drained(ds) : d.nickname = n
  <2>1. PICK d \in Drained(ds) : d.nickname = n
    BY <1>4
  <2>2. \A e \in rest : e.nickname # n
    BY <1>1, <2>1 DEF Apart, rest
  <2>3. HeldBy(act, rest, n) = 0
    BY <1>1, <1>2, <1>4, <2>2, HeldByFacts
  <2>4. HeldBy(act, ds, n) = d.generation
    BY <1>1, <2>1, HeldByFacts
  <2>. QED BY <1>4, <2>1, <2>3, <2>4 DEF rest
<1>5. CASE act[n] = None /\ \A d \in Drained(ds) : d.nickname # n
  <2>1. CASE \E d \in rest : d.nickname = n
    <3>1. PICK d \in rest : d.nickname = n
      BY <2>1
    <3>2. d \in ds
      BY <3>1 DEF rest
    <3>3. HeldBy(act, rest, n) = d.generation
      BY <1>1, <1>2, <3>1, HeldByFacts
    <3>4. HeldBy(act, ds, n) = d.generation
      BY <3>1, <3>2, HeldByFacts
    <3>. QED BY <1>5, <3>3, <3>4 DEF rest
  <2>2. CASE \A d \in rest : d.nickname # n
    <3>1. \A d \in ds : d.nickname # n
      BY <1>5, <2>2 DEF rest
    <3>2. HeldBy(act, rest, n) = 0 /\ HeldBy(act, ds, n) = 0
      BY <1>1, <1>2, <1>5, <2>2, <3>1, HeldByFacts
    <3>. QED BY <1>5, <3>2 DEF rest
  <2>. QED BY <2>1, <2>2
<1>. QED BY <1>3, <1>4, <1>5

\* The flush tells the sidecars exactly that.
LEMMA FlushTracks ==
  ASSUME NEW act, NEW ds \in SUBSET DeferredRelease, NEW next, Apart(act, ds, next),
         NEW told, Tracks(told, act, ds)
  PROVE Tracks(Forget(told, Drained(ds)), act, ds \ Drained(ds))
<1>. SUFFICES ASSUME NEW n \in Nicknames
              PROVE Forget(told, Drained(ds))[n] = HeldBy(act, ds \ Drained(ds), n)
  BY DEF Tracks
<1>1. told[n] = HeldBy(act, ds, n)
  BY DEF Tracks
<1>2. Forget(told, Drained(ds))[n] =
        IF \E d \in Drained(ds) : d.nickname = n /\ d.generation = told[n] THEN 0 ELSE told[n]
  BY DEF Forget
<1>. QED BY <1>1, <1>2, FlushHolds

\* The flush retires gates that no active identity, no fresh generation and no
\* waiting ticket needs.
LEMMA FlushRetires ==
  ASSUME NEW act, NEW ds \in SUBSET DeferredRelease, NEW next, Apart(act, ds, next),
         act \in Actives, next \in Nat, NEW gates, NEW tickets \in Tickets
  PROVE /\ Frozen(act, gates, tickets) => Frozen(act, Retire(gates, Drained(ds)), tickets)
        /\ Untouched(gates, next) => Untouched(Retire(gates, Drained(ds)), next)
        /\ Waiting(tickets, gates, active_operations) =>
             Waiting(tickets, Retire(gates, Drained(ds)), active_operations)
<1>1. Drained(ds) \subseteq ds /\ \A d \in Drained(ds) :
        d.generation \in Generations /\ active_operations[d.generation] = 0
  BY DEF Drained, is_drained, DeferredRelease
<1>2. ASSUME NEW g \in Generations, \A d \in Drained(ds) : d.generation # g
      PROVE Retire(gates, Drained(ds))[g] = gates[g]
  BY <1>2 DEF Retire
<1>3. ASSUME Frozen(act, gates, tickets) PROVE Frozen(act, Retire(gates, Drained(ds)), tickets)
  <2>1. ASSUME NEW n \in Nicknames, act[n] # None
        PROVE Retire(gates, Drained(ds))[act[n].generation] = gates[act[n].generation]
    <3>1. act[n].generation \in Generations
      BY <2>1 DEF Actives, ActiveIdentity
    <3>2. \A d \in Drained(ds) : d.generation # act[n].generation
      BY <1>1, <2>1 DEF Apart
    <3>. QED BY <1>2, <3>1, <3>2
  <2>. QED BY <1>3, <2>1 DEF Frozen
<1>4. ASSUME Untouched(gates, next) PROVE Untouched(Retire(gates, Drained(ds)), next)
  <2>1. \A d \in Drained(ds) : d.generation \in Nat /\ d.generation < next
    BY <1>1, GenerationType DEF Apart
  <2>2. \A g \in Generations : g \in Nat
    BY GenerationType
  <2>. QED BY <1>2, <1>4, <2>1, <2>2 DEF Untouched
<1>5. ASSUME Waiting(tickets, gates, active_operations)
      PROVE Waiting(tickets, Retire(gates, Drained(ds)), active_operations)
  <2>. SUFFICES ASSUME NEW d \in Sessions, tickets[d] # None, tickets[d].phase = "parked",
                       ~tickets[d].notified
                PROVE /\ Retire(gates, Drained(ds))[tickets[d].source_generation]
                           = tickets[d].transfer_id
                      /\ active_operations[tickets[d].source_generation] # 0
    BY DEF Waiting
  <2>1. tickets[d].source_generation \in Generations
    BY DEF Tickets, MigrationPreflight
  <2>2. /\ gates[tickets[d].source_generation] = tickets[d].transfer_id
        /\ active_operations[tickets[d].source_generation] # 0
    BY <1>5 DEF Waiting
  <2>. QED BY <1>1, <1>2, <2>1, <2>2
<1>. QED BY <1>3, <1>4, <1>5
-----------------------------------------------------------------------------
(* Turns.                                                                   *)

\* Whoever holds less is within the capacity too.
LEMMA CapacityKept ==
  ASSUME NEW act, NEW ds, NEW act2, NEW ds2, WithinCapacity(act, ds),
         \A n \in Nicknames : HeldBy(act2, ds2, n) # 0 => HeldBy(act, ds, n) # 0
  PROVE WithinCapacity(act2, ds2)
<1>. DEFINE S == {n \in Nicknames : HeldBy(act, ds, n) # 0}
            T == {n \in Nicknames : HeldBy(act2, ds2, n) # 0}
<1>1. IsFiniteSet(S) /\ T \subseteq S
  BY ConstantsAssumption, FS_Subset
<1>. HIDE DEF S, T
<1>2. Cardinality(T) <= Cardinality(S)
  BY <1>1, FS_Subset
<1>3. Cardinality(S) \in Nat /\ Cardinality(T) \in Nat
  BY <1>1, FS_Subset, FS_CardinalityType
<1>4. Cardinality(S) <= IdentityCapacity
  BY DEF WithinCapacity, S
<1>5. Cardinality(T) <= IdentityCapacity
  BY <1>2, <1>3, <1>4, ConstantsAssumption
<1>. QED BY <1>5 DEF WithinCapacity, T

\* Moving identities to the deferred releases changes nobody's generation.
LEMMA MoveHolds ==
  ASSUME NEW act, NEW ds \in SUBSET DeferredRelease, NEW gone \in SUBSET DeferredRelease,
         NEW next, Apart(active, ds, next), Apart(act, ds \cup gone, next), Moved(act, gone),
         NEW n \in Nicknames
  PROVE HeldBy(act, ds \cup gone, n) = HeldBy(active, ds, n)
<1>1. ds \cup gone \in SUBSET DeferredRelease
  OBVIOUS
<1>2. CASE act[n] # None
  BY <1>2 DEF HeldBy, Moved
<1>3. CASE act[n] = None /\ active[n] # None
  <2>1. PICK d \in gone : d.generation = active[n].generation
    BY <1>3 DEF Moved
  <2>2. d.nickname \in Nicknames /\ active[d.nickname] # None
        /\ active[d.nickname].generation = d.generation
    BY DEF DeferredRelease, Moved
  <2>3. d.nickname = n
    BY <1>3, <2>1, <2>2 DEF Apart
  <2>4. HeldBy(act, ds \cup gone, n) = d.generation
    BY <1>1, <2>3, HeldByFacts
  <2>. QED BY <1>3, <2>1, <2>4 DEF HeldBy
<1>4. CASE act[n] = None /\ active[n] = None
  <2>1. \A d \in gone : d.nickname # n
    BY <1>4 DEF Moved
  <2>2. CASE \E d \in ds : d.nickname = n
    <3>1. PICK d \in ds : d.nickname = n
      BY <2>2
    <3>2. HeldBy(active, ds, n) = d.generation
      BY <3>1, HeldByFacts
    <3>3. HeldBy(act, ds \cup gone, n) = d.generation
      BY <1>1, <3>1, HeldByFacts
    <3>. QED BY <3>2, <3>3
  <2>3. CASE \A d \in ds : d.nickname # n
    <3>1. HeldBy(active, ds, n) = 0
      BY <1>4, <2>3, HeldByFacts
    <3>2. \A d \in ds \cup gone : d.nickname # n
      BY <2>1, <2>3
    <3>3. HeldBy(act, ds \cup gone, n) = 0
      BY <1>1, <1>4, <3>2, HeldByFacts
    <3>. QED BY <3>1, <3>3
  <2>. QED BY <2>2, <2>3
<1>. QED BY <1>2, <1>3, <1>4

\* What a turn does to the generations held: it may release one that has drained.
Releasing ==
  \A n \in Nicknames :
    \/ Retained(n)' = Retained(n)
    \/ Retained(n)' = 0 /\ Retained(n) \in Generations /\ is_drained(Retained(n))

\* A flush after which nothing else happens.
LEMMA TurnFence ==
  ASSUME PinInvariant', NEW ds \in SUBSET DeferredRelease, NEW gates, NEW told,
         Flush(ds, gates, told),
         Apart(active', ds, next_generation'),
         Tracks(told, active', ds), WithinCapacity(active', ds),
         Owned(active', session_bindings'), Frozen(active', gates, preflight'),
         OneTicketEach(preflight', next_transfer_id'), Untouched(gates, next_generation'),
         Waiting(preflight', gates, active_operations),
         \A g \in Generations : active_operations[g] # 0 => active_operations'[g] # 0
  PROVE FenceInvariant'
<1>1. /\ deferred_releases' = ds \ Drained(ds)
      /\ gate_state' = Retire(gates, Drained(ds))
      /\ announced' = Forget(told, Drained(ds))
  BY DEF Flush
<1>2. active' \in Actives /\ next_generation' \in Nat /\ preflight' \in Tickets
  BY GenerationType DEF PinInvariant, TypeOK, Actives, Tickets
<1>3. Tracks(announced', active', deferred_releases')
  <2>1. Tracks(Forget(told, Drained(ds)), active', ds \ Drained(ds))
    BY FlushTracks
  <2>. QED BY <1>1, <2>1
<1>4. /\ Frozen(active', gate_state', preflight')
      /\ Untouched(gate_state', next_generation')
      /\ Waiting(preflight', gate_state', active_operations)
  <2>1. /\ Frozen(active', Retire(gates, Drained(ds)), preflight')
        /\ Untouched(Retire(gates, Drained(ds)), next_generation')
        /\ Waiting(preflight', Retire(gates, Drained(ds)), active_operations)
    BY <1>2, FlushRetires
  <2>. QED BY <1>1, <2>1
<1>5. Waiting(preflight', gate_state', active_operations')
  BY <1>2, <1>4 DEF Waiting, Tickets, MigrationPreflight
<1>6. WithinCapacity(active', deferred_releases')
  <2>1. \A n \in Nicknames :
          HeldBy(active', ds \ Drained(ds), n) # 0 => HeldBy(active', ds, n) # 0
    BY FlushHolds
  <2>2. WithinCapacity(active', ds \ Drained(ds))
    BY <2>1, CapacityKept
  <2>. QED BY <1>1, <2>2
<1>. QED
  BY <1>3, <1>4, <1>5, <1>6
  DEF FenceInvariant, Tracks, HeldBy, WithinCapacity, Owned, Frozen, Answers, exact_permit,
      OneTicketEach, Untouched, Waiting

\* A turn that moves identities to the deferred releases, and no more.
LEMMA MoveFence ==
  ASSUME FenceInvariant, PinInvariant',
         NEW gone \in SUBSET DeferredRelease, NEW gates,
         next_generation' >= next_generation, Moved(active', gone),
         Flush(deferred_releases \cup gone, gates, announced),
         Owned(active', session_bindings'), Frozen(active', gates, preflight'),
         OneTicketEach(preflight', next_transfer_id'), Untouched(gates, next_generation'),
         Waiting(preflight', gates, active_operations),
         \A g \in Generations : active_operations[g] # 0 => active_operations'[g] # 0
  PROVE FenceInvariant' /\ Releasing
<1>. DEFINE ds == deferred_releases
            all == ds \cup gone
<1>1. ds \in SUBSET DeferredRelease /\ all \in SUBSET DeferredRelease
  BY DEF FenceInvariant, PinInvariant, TypeOK
<1>2. Apart(active, ds, next_generation) /\ Apart(active', all, next_generation)
  BY StillSpared, MoveKeeps DEF FenceInvariant, PinInvariant
<1>3. Apart(active', all, next_generation')
  <2>1. next_generation \in Nat /\ next_generation' \in Nat
    BY GenerationType DEF FenceInvariant, PinInvariant, TypeOK
  <2>2. \A n \in Nicknames : active'[n] # None => active'[n].generation \in Nat
    BY GenerationType DEF PinInvariant, TypeOK, ActiveIdentity
  <2>3. \A d \in all : d.generation \in Nat
    BY <1>1, GenerationType DEF DeferredRelease
  <2>. HIDE DEF all
  <2>. QED BY <1>2, <2>1, <2>2, <2>3 DEF Apart
<1>4. \A n \in Nicknames : HeldBy(active', all, n) = HeldBy(active, ds, n)
  BY <1>1, <1>2, MoveHolds
<1>5. Tracks(announced, active', all)
  BY <1>4 DEF FenceInvariant, Tracks
<1>6. WithinCapacity(active', all)
  <2>1. \A n \in Nicknames : HeldBy(active', all, n) # 0 => HeldBy(active, ds, n) # 0
    BY <1>4
  <2>2. WithinCapacity(active, ds)
    BY DEF FenceInvariant
  <2>. HIDE DEF ds, all
  <2>. QED BY <2>1, <2>2, CapacityKept
<1>7. Flush(all, gates, announced)
  OBVIOUS
<1>8. Releasing
  <2>. SUFFICES ASSUME NEW n \in Nicknames
                PROVE \/ Retained(n)' = Retained(n)
                      \/ /\ Retained(n)' = 0
                         /\ Retained(n) \in Generations /\ is_drained(Retained(n))
    BY DEF Releasing
  <2>1. Retained(n) = HeldBy(active, ds, n) /\ Retained(n)' = HeldBy(active', all \ Drained(all), n)
    <3>1. deferred_releases' = all \ Drained(all)
      BY DEF Flush
    <3>. HIDE DEF all
    <3>. QED BY <3>1 DEF Retained, HeldBy, IsActive
  <2>2. \A d \in Drained(all) : d.generation \in Generations /\ is_drained(d.generation)
    BY <1>1 DEF Drained, DeferredRelease
  <2>. HIDE DEF ds, all
  <2>. QED BY <1>1, <1>3, <1>4, <2>1, <2>2, FlushHolds
<1>9. FenceInvariant'
  <2>. HIDE DEF all
  <2>. QED BY <1>1, <1>3, <1>5, <1>6, <1>7, TurnFence
<1>. QED BY <1>8, <1>9
-----------------------------------------------------------------------------
(* Tickets.                                                                 *)

\* Two tickets of the same transfer.
Alike(a, b) ==
  /\ a # None /\ b # None
  /\ a.transfer_id = b.transfer_id /\ a.nickname = b.nickname /\ a.token = b.token
  /\ a.source_generation = b.source_generation /\ a.source_session = b.source_session
  /\ a.expires_at = b.expires_at

LEMMA AlikeAnswers ==
  ASSUME NEW a, NEW b, Alike(a, b), NEW x, NEW n, Answers(b, x, n)
  PROVE Answers(a, x, n)
BY DEF Alike, Answers, exact_permit

LEMMA AlikeTickets ==
  ASSUME NEW old, NEW tickets, NEW next, OneTicketEach(old, next),
         \A d \in Sessions : tickets[d] = None \/ Alike(tickets[d], old[d])
  PROVE OneTicketEach(tickets, next)
BY DEF OneTicketEach, Alike

LEMMA NotifyKeeps ==
  ASSUME NEW tickets \in Tickets, NEW gs, NEW d \in Sessions
  PROVE /\ tickets[d] = None => Notify(tickets, gs)[d] = None
        /\ tickets[d] # None =>
             /\ Alike(Notify(tickets, gs)[d], tickets[d])
             /\ Notify(tickets, gs)[d].phase = tickets[d].phase
             /\ tickets[d].notified => Notify(tickets, gs)[d].notified
             /\ tickets[d].phase = "parked" /\ tickets[d].source_generation \in gs =>
                  Notify(tickets, gs)[d].notified
<1>. DEFINE ticket == tickets[d]
            woken == [ticket EXCEPT !.notified = TRUE]
<1>1. Notify(tickets, gs)[d] =
        IF /\ ticket # None /\ ticket.source_generation \in gs
           /\ ticket.phase \in {"recheck", "parked"}
        THEN woken ELSE ticket
  BY DEF Notify
<1>2. CASE ticket # None
  <2>1. ticket \in MigrationPreflight
    BY <1>2 DEF Tickets
  <2>2. woken \in MigrationPreflight /\ woken.notified /\ woken.phase = ticket.phase
        /\ woken.transfer_id = ticket.transfer_id /\ woken.nickname = ticket.nickname
        /\ woken.token = ticket.token /\ woken.expires_at = ticket.expires_at
        /\ woken.source_generation = ticket.source_generation
        /\ woken.source_session = ticket.source_session
    BY <2>1 DEF MigrationPreflight
  <2>3. woken # None
    BY <2>2, NoneAssumption
  <2>. HIDE DEF woken, ticket
  <2>4. Alike(woken, ticket) /\ Alike(ticket, ticket)
    BY <1>2, <2>2, <2>3 DEF Alike
  <2>. QED BY <1>1, <1>2, <2>2, <2>4 DEF ticket
<1>3. CASE ticket = None
  BY <1>1, <1>3
<1>. QED BY <1>2, <1>3

\* Whoever reopens a gate notifies those who wait for it.
LEMMA ReopenWaiting ==
  ASSUME NEW tickets \in Tickets, NEW gates, NEW freezes, NEW gs, NEW operations,
         Waiting(tickets, gates, operations),
         \A g \in Generations : <<g, gates[g]>> \in freezes => gates[g] = OPEN \/ g \in gs
  PROVE Waiting(Notify(tickets, gs), Reopen(gates, freezes), operations)
<1>. DEFINE T == Notify(tickets, gs)
<1>. SUFFICES ASSUME NEW d \in Sessions, T[d] # None, T[d].phase = "parked", ~T[d].notified
              PROVE /\ Reopen(gates, freezes)[T[d].source_generation] = T[d].transfer_id
                    /\ operations[T[d].source_generation] # 0
  BY DEF Waiting
<1>1. /\ tickets[d] # None /\ Alike(T[d], tickets[d]) /\ tickets[d].phase = "parked"
      /\ ~tickets[d].notified /\ tickets[d].source_generation \notin gs
  BY NotifyKeeps
<1>. HIDE DEF T
<1>. DEFINE g == tickets[d].source_generation
<1>2. g \in Generations
  BY <1>1 DEF Tickets, MigrationPreflight
<1>3. gates[g] = tickets[d].transfer_id /\ operations[g] # 0
  BY <1>1 DEF Waiting
<1>4. Reopen(gates, freezes)[g] = gates[g]
  BY <1>1, <1>2 DEF Reopen
<1>. QED BY <1>1, <1>3, <1>4 DEF Alike

\* Parts of the invariant, and types, that every step below uses.
LEMMA FenceParts ==
  ASSUME FenceInvariant
  PROVE /\ TypeOK /\ PinInvariant
        /\ Apart(active, deferred_releases, next_generation)
        /\ deferred_releases \in SUBSET DeferredRelease
        /\ active \in Actives /\ preflight \in Tickets /\ gate_state \in Gates
        /\ next_generation \in Nat /\ next_generation >= 1
        /\ \A n \in Nicknames : active[n] # None =>
             /\ active[n] \in ActiveIdentity
             /\ active[n].generation \in Generations /\ active[n].generation \in Nat
             /\ active[n].generation < next_generation
<1>1. TypeOK /\ PinInvariant /\ Apart(active, deferred_releases, next_generation)
  BY DEF FenceInvariant, PinInvariant
<1>2. next_generation \in Nat /\ next_generation >= 1
  BY <1>1 DEF TypeOK, Generations
<1>3. \A n \in Nicknames : active[n] # None =>
        active[n] \in ActiveIdentity /\ active[n].generation \in Generations
  BY <1>1, TypeParts DEF Actives, ActiveIdentity
<1>. QED BY <1>1, <1>2, <1>3, TypeParts, GenerationType DEF Apart

\* Two active identities of one generation are the same.
LEMMA ActiveApart ==
  ASSUME FenceInvariant, NEW n \in Nicknames, NEW m \in Nicknames,
         active[n] # None, active[m] # None, active[n].generation = active[m].generation
  PROVE n = m
BY FenceParts DEF Apart
-----------------------------------------------------------------------------
(* Turns that leave every generation where it is.                           *)

\* Turns that end in a flush and change no identity but n, nor any gate but one.
LEMMA SameFence ==
  ASSUME FenceInvariant, PinInvariant', NEW gates,
         next_generation' >= next_generation, SameIdentities(active'),
         Flush(deferred_releases, gates, announced),
         Owned(active', session_bindings'), Frozen(active', gates, preflight'),
         OneTicketEach(preflight', next_transfer_id'), Untouched(gates, next_generation'),
         Waiting(preflight', gates, active_operations),
         \A g \in Generations : active_operations[g] # 0 => active_operations'[g] # 0
  PROVE FenceInvariant' /\ Releasing
<1>1. deferred_releases \cup {} = deferred_releases /\ {} \in SUBSET DeferredRelease
  OBVIOUS
<1>2. Moved(active', {})
  BY SameIdentitiesMove
<1>. QED BY <1>1, <1>2, MoveFence

\* A plain flush.
LEMMA FlushFence ==
  ASSUME FenceInvariant, PinInvariant', FlushOnly,
         UNCHANGED <<active, session_bindings, next_generation, next_transfer_id, preflight>>,
         \A g \in Generations : active_operations[g] # 0 => active_operations'[g] # 0
  PROVE FenceInvariant' /\ Releasing
<1>1. next_generation' >= next_generation
  BY FenceParts
<1>. QED
  BY <1>1, UnchangedIdentities, SameFence
  DEF FlushOnly, FenceInvariant

LEMMA CommandTurnFence ==
  ASSUME FenceInvariant, PinInvariant', CommandTurn \/ Quiesce
  PROVE FenceInvariant' /\ Releasing
BY FlushFence DEF CommandTurn, Quiesce, registry, tasks

LEMMA AdmitOperationFence ==
  ASSUME FenceInvariant, PinInvariant', NEW s \in Sessions, NEW t \in Tasks,
         AdmitOperation(s, t)
  PROVE FenceInvariant' /\ Releasing
<1>. DEFINE g == session_bindings[s].generation
<1>1. active_operations' = [active_operations EXCEPT ![g] = @ + 1]
  BY DEF AdmitOperation
<1>2. \A h \in Generations : active_operations[h] # 0 => active_operations'[h] # 0
  BY <1>1, FenceParts DEF TypeOK
<1>. QED BY <1>2, FlushFence DEF AdmitOperation, registry

LEMMA BeginMigrationFence ==
  ASSUME FenceInvariant, PinInvariant', NEW s \in Sessions, NEW token \in Tokens,
         NEW t \in Samples, BeginMigration(s, token, t)
  PROVE FenceInvariant' /\ Releasing
<1>. DEFINE n == session_bindings[s].nickname
            p == [source_generation |-> session_bindings[s].generation,
                  source_session |-> s, token |-> token, expires_at |-> t + MigrationTtl]
            a == [active[n] EXCEPT !.permit = p]
<1>1. /\ n \in Nicknames /\ active[n] \in ActiveIdentity /\ active[n] # None
      /\ active[n].generation = session_bindings[s].generation
      /\ active[n].transfer_in_progress = None /\ active[n].owner = s
      /\ active' = [active EXCEPT ![n] = a]
  BY BeginMigrationPermit, FenceParts DEF BeginMigration, authorize, IsActive
<1>2. p \in MigrationPermit
  <2>1. PICK q \in MigrationPermit : active' = [active EXCEPT ![n].permit = q]
    BY BeginMigrationPermit, FenceParts
  <2>2. active'[n].permit = q /\ active'[n].permit = p
    BY <1>1, <2>1, FenceParts DEF Actives, ActiveIdentity
  <2>. QED BY <2>2
<1>3. /\ a \in ActiveIdentity /\ a.generation = active[n].generation /\ a.owner = s
      /\ a.transfer_in_progress = None /\ a.permit = p
      /\ p.source_generation = active[n].generation
  BY <1>1, <1>2 DEF ActiveIdentity
<1>. HIDE DEF a, p, n
<1>4. /\ active'[n] = a /\ \A m \in Nicknames \ {n} : active'[m] = active[m]
      /\ SameIdentities(active')
  BY <1>1, <1>3, FenceParts, OneIdentityChanges
<1>5. /\ FlushOnly /\ next_generation' >= next_generation
      /\ UNCHANGED <<session_bindings, next_generation, next_transfer_id, preflight,
                     active_operations>>
  BY FenceParts DEF BeginMigration, tasks
<1>6. Owned(active', session_bindings')
  <2>1. session_bindings' = session_bindings /\ Owned(active, session_bindings) /\ s # None
    BY <1>5, ConstantsAssumption DEF FenceInvariant
  <2>2. session_bindings[s] = [nickname |-> n, generation |-> active[n].generation]
    BY <1>1, <2>1 DEF Owned
  <2>. QED BY <1>3, <1>4, <2>1, <2>2 DEF Owned
<1>7. Frozen(active', gate_state, preflight')
  BY <1>1, <1>3, <1>4, <1>5 DEF FenceInvariant, Frozen
<1>. QED
  BY <1>4, <1>5, <1>6, <1>7, SameFence DEF FlushOnly, FenceInvariant

LEMMA PreflightMigrationFence ==
  ASSUME FenceInvariant, PinInvariant', NEW d \in Sessions, NEW n \in Nicknames,
         NEW token \in Tokens, NEW t \in Samples, PreflightMigration(d, n, token, t)
  PROVE FenceInvariant' /\ Releasing
<1>. DEFINE id == next_transfer_id
            g == active[n].generation
            permit == active[n].permit
            a == [active[n] EXCEPT !.transfer_in_progress = id]
            gates == [gate_state EXCEPT ![g] = id]
            ticket == [transfer_id |-> id, nickname |-> n, token |-> token,
                       source_generation |-> permit.source_generation,
                       source_session |-> permit.source_session,
                       source_state |-> active[n].owner,
                       expires_at |-> permit.expires_at,
                       phase |-> "check", notified |-> FALSE]
<1>1. /\ active[n] # None /\ active[n].transfer_in_progress = None /\ permit # None
      /\ permit.token = token /\ permit.source_generation = g
      /\ gate_state[g] = OPEN /\ preflight[d] = None
      /\ active' = [active EXCEPT ![n] = a] /\ preflight' = [preflight EXCEPT ![d] = ticket]
      /\ next_transfer_id' = id + 1 /\ Flush(deferred_releases, gates, announced)
      /\ UNCHANGED <<session_bindings, next_generation, active_operations>>
  BY DEF PreflightMigration, validate_migration, IsActive
<1>2. id \in TransferIds /\ id \in Nat /\ id # OPEN /\ id # None
  <2>1. id \in TransferIds
    BY FenceParts DEF TypeOK
  <2>2. id \in Nat /\ id # OPEN
    BY <2>1, ConstantsAssumption DEF TransferIds, OPEN
  <2>. QED BY <2>1, <2>2, NoneAssumption
<1>3. active[n] \in ActiveIdentity /\ g \in Generations /\ g \in Nat /\ g < next_generation
  BY <1>1, FenceParts
<1>4. /\ a \in ActiveIdentity /\ a.generation = g /\ a.owner = active[n].owner
      /\ a.transfer_in_progress = id /\ a.permit = permit
  BY <1>2, <1>3 DEF ActiveIdentity
<1>5. ticket \in MigrationPreflight /\ ticket # None
  <2>1. permit \in MigrationPermit /\ active[n].owner \in Sessions \cup {None}
    BY <1>1, <1>3 DEF ActiveIdentity
  <2>2. ticket \in MigrationPreflight
    BY <1>2, <2>1 DEF MigrationPreflight, MigrationPermit
  <2>. QED BY <2>2, NoneAssumption
<1>6. Answers(ticket, a, n) /\ ticket.transfer_id = id /\ ticket.phase = "check"
  BY <1>1, <1>4, <1>5 DEF Answers, exact_permit
<1>. HIDE DEF a, ticket, id, g, permit
<1>7. /\ active'[n] = a /\ \A m \in Nicknames \ {n} : active'[m] = active[m]
      /\ SameIdentities(active')
  BY <1>1, <1>3, <1>4, FenceParts, OneIdentityChanges DEF g
<1>8. preflight'[d] = ticket /\ \A e \in Sessions \ {d} : preflight'[e] = preflight[e]
  BY <1>1, FenceParts DEF Tickets
<1>9. gates[g] = id /\ \A h \in Generations \ {g} : gates[h] = gate_state[h]
  BY <1>3, FenceParts DEF Gates
<1>. HIDE DEF gates
<1>10. Owned(active', session_bindings')
  <2>1. /\ active'[n].permit = active[n].permit /\ active'[n].owner = active[n].owner
        /\ active'[n].generation = active[n].generation
    BY <1>4, <1>7 DEF g, permit
  <2>2. session_bindings' = session_bindings /\ Owned(active, session_bindings)
    BY <1>1 DEF FenceInvariant
  <2>3. ASSUME NEW m \in Nicknames, active'[m] # None
        PROVE /\ active[m] # None /\ active'[m].permit = active[m].permit
              /\ active'[m].owner = active[m].owner
              /\ active'[m].generation = active[m].generation
    <3>1. CASE m = n
      BY <1>1, <2>1, <3>1
    <3>2. CASE m # n
      BY <1>7, <2>3, <3>2
    <3>. QED BY <3>1, <3>2
  <2>. QED BY <2>2, <2>3 DEF Owned
<1>11. Frozen(active', gates, preflight')
  <2>1. ASSUME NEW m \in Nicknames, active'[m] # None, m # n
        PROVE /\ gates[active'[m].generation] =
                   (IF active'[m].transfer_in_progress = None THEN OPEN
                    ELSE active'[m].transfer_in_progress)
              /\ active'[m].transfer_in_progress # None =>
                   \E e \in Sessions : Answers(preflight'[e], active'[m], m)
    <3>1. active'[m] = active[m] /\ active[m] # None
      BY <1>7, <2>1
    <3>2. active[m].generation \in Generations \ {g}
      BY <1>1, <2>1, <3>1, FenceParts, ActiveApart DEF g
    <3>3. gates[active'[m].generation] = gate_state[active[m].generation]
      BY <1>9, <3>1, <3>2
    <3>4. \A e \in Sessions : Answers(preflight[e], active[m], m) => preflight'[e] = preflight[e]
      BY <1>1, <1>8 DEF Answers
    <3>. QED BY <3>1, <3>3, <3>4 DEF FenceInvariant, Frozen
  <2>2. /\ gates[active'[n].generation] = active'[n].transfer_in_progress
        /\ active'[n].transfer_in_progress # None
        /\ Answers(preflight'[d], active'[n], n)
    BY <1>2, <1>4, <1>6, <1>7, <1>8, <1>9
  <2>. QED BY <2>1, <2>2 DEF Frozen
<1>12. OneTicketEach(preflight', next_transfer_id')
  <2>1. \A e \in Sessions : preflight[e] # None =>
          preflight[e].transfer_id \in Nat /\ preflight[e].transfer_id < id
    BY TransferIdType, FenceParts, ConstantsAssumption
    DEF FenceInvariant, OneTicketEach, Tickets, MigrationPreflight, TransferIds, id
  <2>. QED BY <1>1, <1>2, <1>6, <1>8, <2>1 DEF FenceInvariant, OneTicketEach
<1>13. Untouched(gates, next_generation')
  BY <1>1, <1>3, <1>9, FenceParts DEF FenceInvariant, Untouched
<1>14. Waiting(preflight', gates, active_operations)
  <2>. SUFFICES ASSUME NEW e \in Sessions, preflight'[e] # None,
                       preflight'[e].phase = "parked", ~preflight'[e].notified
                PROVE /\ gates[preflight'[e].source_generation] = preflight'[e].transfer_id
                      /\ active_operations[preflight'[e].source_generation] # 0
    BY DEF Waiting
  <2>1. e # d /\ preflight'[e] = preflight[e]
    BY <1>6, <1>8
  <2>2. preflight[e].source_generation \in Generations /\ preflight[e].transfer_id # OPEN
    BY <2>1, FenceParts, ConstantsAssumption
    DEF Tickets, MigrationPreflight, TransferIds, OPEN
  <2>3. /\ gate_state[preflight[e].source_generation] = preflight[e].transfer_id
        /\ active_operations[preflight[e].source_generation] # 0
    BY <2>1 DEF FenceInvariant, Waiting
  <2>. QED BY <1>1, <1>9, <2>1, <2>2, <2>3
<1>15. next_generation' >= next_generation
  BY <1>1, FenceParts
<1>. QED
  BY <1>1, <1>7, <1>10, <1>11, <1>12, <1>13, <1>14, <1>15, SameFence
-----------------------------------------------------------------------------
(* Turns that end a freeze.                                                 *)

\* An abort recognises the freeze its ticket answers for, so a freeze whose
\* ticket is consumed is undone, and every other one keeps its ticket.
LEMMA AbortFence ==
  ASSUME FenceInvariant, PinInvariant', NEW d \in Sessions, preflight[d] # None,
         abort_preflighted_migration(d), next_generation' >= next_generation,
         UNCHANGED <<session_bindings, next_transfer_id, active_operations>>
  PROVE FenceInvariant' /\ Releasing
<1>. DEFINE ticket == preflight[d]
            n == ticket.nickname
            g == ticket.source_generation
            id == ticket.transfer_id
            rest == [preflight EXCEPT ![d] = None]
<1>1. /\ ticket \in MigrationPreflight /\ n \in Nicknames /\ g \in Generations
      /\ id \in TransferIds /\ id # None
  BY FenceParts, NoneAssumption DEF Tickets, MigrationPreflight
<1>2. /\ rest \in Tickets /\ rest[d] = None /\ \A e \in Sessions \ {d} : rest[e] = preflight[e]
  BY FenceParts DEF Tickets
<1>3. OneTicketEach(preflight, next_transfer_id) /\ Frozen(active, gate_state, preflight)
      /\ Owned(active, session_bindings) /\ Untouched(gate_state, next_generation)
      /\ Waiting(preflight, gate_state, active_operations)
  BY DEF FenceInvariant
<1>4. Waiting(rest, gate_state, active_operations)
  BY <1>2, <1>3 DEF Waiting
<1>5. next_generation \in Nat /\ next_generation' \in Nat /\ session_bindings' = session_bindings
      /\ next_transfer_id' = next_transfer_id /\ active_operations' = active_operations
  BY GenerationType, FenceParts DEF PinInvariant, TypeOK
<1>6. Untouched(gate_state, next_generation')
  BY <1>3, <1>5, GenerationType DEF Untouched
<1>7. CASE abort_applies(ticket)
  <2>. DEFINE a == [active[n] EXCEPT !.transfer_in_progress = None]
              gates == Reopen(gate_state, {<<g, id>>})
  <2>1. /\ active[n] # None /\ active[n].generation = g /\ active[n].transfer_in_progress = id
        /\ gate_state[g] = id
    BY <1>7 DEF abort_applies, IsActive
  <2>2. /\ active' = [active EXCEPT ![n] = a] /\ preflight' = Notify(rest, {g})
        /\ Flush(deferred_releases, gates, announced)
    BY <1>7 DEF abort_preflighted_migration
  <2>3. /\ a \in ActiveIdentity /\ a.generation = g /\ a.owner = active[n].owner
        /\ a.permit = active[n].permit /\ a.transfer_in_progress = None
    BY <1>1, <2>1, FenceParts DEF ActiveIdentity
  <2>. HIDE DEF a, ticket, n, g, id, rest
  <2>4. /\ active'[n] = a /\ \A m \in Nicknames \ {n} : active'[m] = active[m]
        /\ SameIdentities(active')
    BY <1>1, <2>1, <2>2, <2>3, FenceParts, OneIdentityChanges
  <2>5. gates[g] = OPEN /\ \A h \in Generations \ {g} : gates[h] = gate_state[h]
    BY <1>1, <2>1 DEF Reopen
  <2>6. Waiting(preflight', gates, active_operations)
    <3>1. \A h \in Generations : <<h, gate_state[h]>> \in {<<g, id>>} => h \in {g}
      OBVIOUS
    <3>. QED BY <1>2, <1>4, <2>2, <3>1, ReopenWaiting
  <2>. HIDE DEF gates
  <2>7. \A e \in Sessions : \/ preflight'[e] = None
                            \/ e # d /\ Alike(preflight'[e], preflight[e])
    BY <1>2, <2>2, NotifyKeeps
  <2>8. \A e \in Sessions \ {d} : preflight[e] # None => Alike(preflight'[e], preflight[e])
    BY <1>2, <2>2, NotifyKeeps
  <2>9. OneTicketEach(preflight', next_transfer_id')
    BY <1>3, <1>5, <2>7, AlikeTickets
  <2>10. Owned(active', session_bindings')
    <3>1. ASSUME NEW m \in Nicknames, active'[m] # None
          PROVE /\ active[m] # None /\ active'[m].permit = active[m].permit
                /\ active'[m].owner = active[m].owner
                /\ active'[m].generation = active[m].generation
      <4>1. CASE m = n
        BY <2>1, <2>3, <2>4, <4>1
      <4>2. CASE m # n
        BY <2>4, <3>1, <4>2
      <4>. QED BY <4>1, <4>2
    <3>. QED BY <1>3, <1>5, <3>1 DEF Owned
  <2>11. Frozen(active', gates, preflight')
    <3>1. ASSUME NEW m \in Nicknames, active'[m] # None, m # n
          PROVE /\ gates[active'[m].generation] =
                     (IF active'[m].transfer_in_progress = None THEN OPEN
                      ELSE active'[m].transfer_in_progress)
                /\ active'[m].transfer_in_progress # None =>
                     \E e \in Sessions : Answers(preflight'[e], active'[m], m)
      <4>1. active'[m] = active[m] /\ active[m] # None
        BY <2>4, <3>1
      <4>2. active[m].generation \in Generations \ {g}
        BY <1>1, <2>1, <3>1, <4>1, FenceParts, ActiveApart
      <4>3. gates[active'[m].generation] = gate_state[active[m].generation]
        BY <2>5, <4>1, <4>2
      <4>4. \A e \in Sessions : Answers(preflight[e], active[m], m) =>
              Answers(preflight'[e], active[m], m)
        <5>. SUFFICES ASSUME NEW e \in Sessions, Answers(preflight[e], active[m], m)
                      PROVE Answers(preflight'[e], active[m], m)
          OBVIOUS
        <5>1. preflight[e] # None /\ e # d
          BY <3>1 DEF Answers, n, ticket
        <5>. QED BY <2>8, <5>1, AlikeAnswers
      <4>. QED BY <1>3, <4>1, <4>3, <4>4 DEF Frozen
    <3>2. /\ gates[active'[n].generation] = OPEN /\ active'[n].transfer_in_progress = None
      BY <2>3, <2>4, <2>5
    <3>. QED BY <3>1, <3>2 DEF Frozen
  <2>12. Untouched(gates, next_generation')
    BY <1>1, <1>6, <2>5 DEF Untouched
  <2>. QED
    BY <1>5, <2>2, <2>4, <2>6, <2>9, <2>10, <2>11, <2>12, SameFence
<1>8. CASE ~abort_applies(ticket)
  <2>1. active' = active /\ preflight' = rest /\ FlushOnly
    BY <1>8 DEF abort_preflighted_migration
  <2>2. Frozen(active', gate_state, preflight')
    <3>1. ASSUME NEW m \in Nicknames, active[m] # None,
                 active[m].transfer_in_progress # None,
                 NEW e \in Sessions, Answers(preflight[e], active[m], m)
          PROVE Answers(rest[e], active[m], m)
      <4>1. CASE e = d
        <5>1. /\ n = m /\ id = active[m].transfer_in_progress
              /\ exact_permit(active[m].permit, ticket)
          BY <3>1, <4>1 DEF Answers
        <5>2. active[m].generation = g
          BY <1>3, <3>1, <5>1 DEF Owned, exact_permit
        <5>3. gate_state[g] = id
          BY <1>3, <3>1, <5>1, <5>2 DEF Frozen
        <5>. QED BY <1>8, <3>1, <5>1, <5>2, <5>3 DEF abort_applies, IsActive
      <4>2. CASE e # d
        BY <1>2, <3>1, <4>2
      <4>. QED BY <4>1, <4>2
    <3>. HIDE DEF rest
    <3>. QED BY <1>3, <2>1, <3>1 DEF Frozen
  <2>. HIDE DEF rest
  <2>3. OneTicketEach(preflight', next_transfer_id')
    BY <1>2, <1>3, <1>5, <2>1 DEF OneTicketEach
  <2>4. Owned(active', session_bindings') /\ Waiting(preflight', gate_state, active_operations)
    BY <1>3, <1>4, <1>5, <2>1
  <2>. QED
    BY <1>5, <1>6, <2>1, <2>2, <2>3, <2>4, UnchangedIdentities, SameFence DEF FlushOnly
<1>. QED BY <1>7, <1>8

LEMMA CompletionFence ==
  ASSUME FenceInvariant, PinInvariant', NEW d \in Sessions,
         AbortMigration(d) \/ RejectMigration(d) \/ BurnMigration(d)
  PROVE FenceInvariant' /\ Releasing
<1>1. next_generation' >= next_generation
  BY FenceParts DEF AbortMigration, RejectMigration, BurnMigration
<1>. QED BY <1>1, AbortFence DEF AbortMigration, RejectMigration, BurnMigration
-----------------------------------------------------------------------------
(* Turns that release identities.                                           *)

LEMMA CloseSessionFence ==
  ASSUME FenceInvariant, PinInvariant', NEW s \in Sessions, CloseSession(s)
  PROVE FenceInvariant' /\ Releasing
<1>. DEFINE bound == session_bindings[s]
            n == bound.nickname
            g == active[n].generation
            id == active[n].transfer_in_progress
            current == /\ bound # None
                       /\ IsActive(n)
                       /\ active[n].owner = s
                       /\ active[n].generation = bound.generation
            freezes == {<<active[m].generation, active[m].transfer_in_progress>> : m \in {n}}
            gone == {[nickname |-> m, generation |-> active[m].generation] : m \in {n}}
<1>1. /\ UNCHANGED <<next_generation, next_transfer_id, active_operations>>
      /\ next_generation' >= next_generation
      /\ session_bindings' = [session_bindings EXCEPT ![s] = None]
  BY FenceParts DEF CloseSession
<1>2. \A r \in Sessions \ {s} : session_bindings'[r] = session_bindings[r]
  BY <1>1, FenceParts DEF TypeOK
<1>3. OneTicketEach(preflight, next_transfer_id) /\ Frozen(active, gate_state, preflight)
      /\ Owned(active, session_bindings) /\ Untouched(gate_state, next_generation)
      /\ Waiting(preflight, gate_state, active_operations)
  BY DEF FenceInvariant
<1>4. \A m \in Nicknames : active[m] # None /\ active[m].owner = s =>
        current /\ m = n
  <2>. SUFFICES ASSUME NEW m \in Nicknames, active[m] # None, active[m].owner = s
                PROVE current /\ m = n
    OBVIOUS
  <2>1. bound = [nickname |-> m, generation |-> active[m].generation]
    BY <1>3, ConstantsAssumption DEF Owned
  <2>2. bound \in DeferredRelease
    BY <2>1, FenceParts DEF DeferredRelease
  <2>. QED BY <2>1, <2>2, NoneAssumption DEF IsActive
<1>5. CASE ~current
  <2>1. active' = active /\ preflight' = preflight /\ FlushOnly
    BY <1>5 DEF CloseSession
  <2>2. \A m \in Nicknames : active[m] # None => active[m].owner \in (Sessions \ {s}) \cup {None}
    BY <1>4, <1>5, FenceParts DEF ActiveIdentity
  <2>. HIDE DEF current
  <2>3. Owned(active', session_bindings')
    BY <1>2, <1>3, <2>1, <2>2 DEF Owned
  <2>. QED
    BY <1>1, <1>3, <2>1, <2>3, UnchangedIdentities, SameFence DEF FlushOnly
<1>6. CASE current
  <2>1. n \in Nicknames /\ active[n] # None /\ active[n].owner = s
    BY <1>6, FenceParts DEF TypeOK, DeferredRelease, IsActive
  <2>2. active[n] \in ActiveIdentity /\ g \in Generations
    BY <2>1, FenceParts
  <2>3. \A m \in Nicknames \ {n} : active[m] # None =>
          active[m].owner \in (Sessions \ {s}) \cup {None}
    BY <1>4, FenceParts DEF ActiveIdentity
  <2>4. CASE permit_usable(n, clock)
    <3>1. active' = [active EXCEPT ![n].owner = None] /\ FlushOnly /\ preflight' = preflight
      BY <1>6, <2>4 DEF CloseSession
    <3>2. /\ active'[n] = [active[n] EXCEPT !.owner = None]
          /\ \A m \in Nicknames \ {n} : active'[m] = active[m]
          /\ SameIdentities(active')
      <4>. HIDE DEF n
      <4>. QED BY <2>1, <3>1, FenceParts, DeferredCloseSame
    <3>3. /\ active'[n].owner = None /\ active'[n].generation = g
          /\ active'[n].permit = active[n].permit /\ active[n].permit # None
          /\ active'[n].transfer_in_progress = active[n].transfer_in_progress
      BY <2>2, <2>4, <3>2 DEF ActiveIdentity, permit_usable
    <3>4. Owned(active', session_bindings')
      <4>. SUFFICES ASSUME NEW m \in Nicknames, active'[m] # None
                    PROVE /\ active'[m].permit # None =>
                               active'[m].permit.source_generation = active'[m].generation
                          /\ active'[m].owner = None => active'[m].permit # None
                          /\ active'[m].owner # None =>
                               session_bindings'[active'[m].owner] =
                                 [nickname |-> m, generation |-> active'[m].generation]
        BY DEF Owned
      <4>1. CASE m = n
        BY <1>3, <2>1, <3>3, <4>1 DEF Owned
      <4>2. CASE m # n
        <5>1. active'[m] = active[m]
          BY <3>2, <4>2
        <5>2. active[m].owner # None => session_bindings'[active[m].owner] =
                                          session_bindings[active[m].owner]
          BY <1>2, <2>3, <4>2, <5>1
        <5>. QED BY <1>3, <5>1, <5>2 DEF Owned
      <4>. QED BY <4>1, <4>2
    <3>5. Frozen(active', gate_state, preflight')
      <4>1. \A e \in Sessions : Answers(preflight[e], active[n], n) =>
              Answers(preflight'[e], active'[n], n)
        BY <3>1, <3>3 DEF Answers
      <4>. HIDE DEF n
      <4>. QED BY <1>3, <2>1, <3>1, <3>2, <3>3, <4>1 DEF Frozen
    <3>. QED
      BY <1>1, <1>3, <3>1, <3>2, <3>4, <3>5, SameFence DEF FlushOnly
  <2>5. CASE ~permit_usable(n, clock)
    <3>1. active' = [active EXCEPT ![n] = None] /\ ReleaseActive({n})
          /\ preflight' = IF id = None THEN preflight ELSE Notify(preflight, {g})
      BY <1>6, <2>5 DEF CloseSession
    <3>. DEFINE gates == Reopen(gate_state, freezes)
    <3>2. Flush(deferred_releases \cup gone, gates, announced)
      BY <3>1 DEF ReleaseActive
    <3>3. /\ active'[n] = None /\ \A m \in Nicknames \ {n} : active'[m] = active[m]
          /\ gone \in SUBSET DeferredRelease /\ Moved(active', gone)
      <4>. HIDE DEF n
      <4>. QED BY <2>1, <3>1, FenceParts, ReleaseMoves
    <3>4. \A h \in Generations : <<h, gate_state[h]>> \in freezes => h = g /\ gate_state[h] = id
      OBVIOUS
    <3>5. \A h \in Generations \ {g} : gates[h] = gate_state[h]
      BY <3>4 DEF Reopen
    <3>6. \A h \in Generations : gates[h] = OPEN \/ gates[h] = gate_state[h]
      BY DEF Reopen
    <3>7. gate_state[g] = IF id = None THEN OPEN ELSE id
      <4>. HIDE DEF n
      <4>. QED BY <1>3, <2>1 DEF Frozen
    <3>8. Waiting(preflight', gates, active_operations)
      <4>1. CASE id = None
        <5>1. \A h \in Generations : gates[h] = gate_state[h]
          BY <3>5, <3>6, <3>7, <4>1
        <5>. HIDE DEF gates
        <5>2. \A e \in Sessions : preflight[e] # None =>
                preflight[e].source_generation \in Generations
          BY FenceParts DEF Tickets, MigrationPreflight
        <5>3. preflight' = preflight
          BY <3>1, <4>1
        <5>. QED BY <1>3, <5>1, <5>2, <5>3 DEF Waiting
      <4>2. CASE id # None
        <5>1. \A h \in Generations : <<h, gate_state[h]>> \in freezes => h \in {g}
          BY <3>4
        <5>2. preflight' = Notify(preflight, {g})
          BY <3>1, <4>2
        <5>. HIDE DEF g, freezes
        <5>. QED BY <1>3, <5>1, <5>2, FenceParts, ReopenWaiting
      <4>. QED BY <4>1, <4>2
    <3>9. \A e \in Sessions : \/ preflight'[e] = None /\ preflight[e] = None
                              \/ Alike(preflight'[e], preflight[e])
      <4>1. CASE id = None
        BY <3>1, <4>1 DEF Alike
      <4>2. CASE id # None
        <5>1. preflight' = Notify(preflight, {g})
          BY <3>1, <4>2
        <5>. HIDE DEF g
        <5>. QED BY <5>1, FenceParts, NotifyKeeps
      <4>. QED BY <4>1, <4>2
    <3>. HIDE DEF gates, freezes, gone
    <3>10. OneTicketEach(preflight', next_transfer_id')
      BY <1>1, <1>3, <3>9, AlikeTickets
    <3>11. Untouched(gates, next_generation')
      BY <1>1, <1>3, <3>6 DEF Untouched
    <3>12. Owned(active', session_bindings')
      <4>. HIDE DEF n
      <4>. QED BY <1>2, <1>3, <2>3, <3>3 DEF Owned
    <3>13. Frozen(active', gates, preflight')
      <4>1. ASSUME NEW m \in Nicknames, active'[m] # None
            PROVE /\ active'[m] = active[m] /\ active[m] # None
                  /\ gates[active[m].generation] = gate_state[active[m].generation]
        <5>1. m # n /\ active'[m] = active[m]
          BY <3>3, <4>1
        <5>2. active[m].generation \in Generations \ {g}
          BY <2>1, <4>1, <5>1, FenceParts, ActiveApart
        <5>. QED BY <3>5, <4>1, <5>1, <5>2
      <4>2. \A m \in Nicknames, e \in Sessions :
              Answers(preflight[e], active[m], m) => Answers(preflight'[e], active[m], m)
        <5>. SUFFICES ASSUME NEW m \in Nicknames, NEW e \in Sessions,
                             Answers(preflight[e], active[m], m)
                      PROVE Answers(preflight'[e], active[m], m)
          OBVIOUS
        <5>1. preflight[e] # None
          BY DEF Answers
        <5>. QED BY <3>9, <5>1, AlikeAnswers
      <4>. QED BY <1>3, <4>1, <4>2 DEF Frozen
    <3>. QED
      BY <1>1, <3>2, <3>3, <3>8, <3>10, <3>11, <3>12, <3>13, MoveFence
  <2>. QED BY <2>4, <2>5
<1>. QED BY <1>5, <1>6

LEMMA ExpireFence ==
  ASSUME FenceInvariant, PinInvariant', NEW t, expire_migrations(t),
         UNCHANGED <<session_bindings, next_generation, next_transfer_id, active_operations>>
  PROVE FenceInvariant' /\ Releasing
<1>. DEFINE gone == Releases(Ownerless(t))
            freezes == Freezes(Thawed(t))
            gates == Reopen(gate_state, freezes)
            gs == {active[n].generation : n \in Thawed(t)}
<1>1. /\ gone \in SUBSET DeferredRelease /\ Moved(active', gone)
      /\ Flush(deferred_releases \cup gone, gates, announced)
      /\ \A n \in Ownerless(t) : active'[n] = None
      /\ \A n \in Due(t) \ Ownerless(t) :
           active'[n] = [active[n] EXCEPT !.permit = None, !.transfer_in_progress = None]
      /\ \A n \in Nicknames \ Due(t) : active'[n] = active[n]
  BY FenceParts, ExpireMoves
<1>2. preflight' = Notify(preflight, gs)
  BY DEF expire_migrations, Thawed, Due
<1>3. OneTicketEach(preflight, next_transfer_id) /\ Frozen(active, gate_state, preflight)
      /\ Owned(active, session_bindings) /\ Untouched(gate_state, next_generation)
      /\ Waiting(preflight, gate_state, active_operations)
  BY DEF FenceInvariant
<1>4. \A h \in Generations : <<h, gate_state[h]>> \in freezes => h \in gs
  BY DEF Freezes
<1>5. \A h \in Generations : gates[h] = OPEN \/ gates[h] = gate_state[h]
  BY DEF Reopen
<1>6. Waiting(preflight', gates, active_operations)
  <2>. HIDE DEF freezes, gs
  <2>. QED BY <1>2, <1>3, <1>4, FenceParts, ReopenWaiting
<1>7. \A e \in Sessions : \/ preflight'[e] = None /\ preflight[e] = None
                          \/ Alike(preflight'[e], preflight[e])
  BY <1>2, FenceParts, NotifyKeeps
<1>8. OneTicketEach(preflight', next_transfer_id')
  BY <1>3, <1>7, AlikeTickets
<1>9. Untouched(gates, next_generation')
  BY <1>3, <1>5 DEF Untouched
<1>10. ASSUME NEW n \in Nicknames, active'[n] # None
       PROVE /\ active[n] # None /\ active'[n].generation = active[n].generation
             /\ active'[n].owner = active[n].owner
             /\ \/ active'[n] = active[n] /\ n \notin Due(t)
                \/ /\ n \in Due(t) /\ active[n].owner # None
                   /\ active'[n].permit = None /\ active'[n].transfer_in_progress = None
  <2>1. n \notin Ownerless(t)
    BY <1>1, <1>10
  <2>2. CASE n \in Due(t)
    <3>1. active[n] # None /\ active[n].owner # None
      BY <2>1, <2>2 DEF Due, Ownerless, IsActive
    <3>2. active'[n] = [active[n] EXCEPT !.permit = None, !.transfer_in_progress = None]
      BY <1>1, <2>1, <2>2
    <3>3. active[n] \in ActiveIdentity
      BY <3>1, FenceParts
    <3>. QED BY <2>2, <3>1, <3>2, <3>3 DEF ActiveIdentity
  <2>3. CASE n \notin Due(t)
    BY <1>1, <1>10, <2>3
  <2>. QED BY <2>2, <2>3
<1>11. Owned(active', session_bindings')
  BY <1>3, <1>10 DEF Owned
<1>12. ASSUME NEW n \in Nicknames, active'[n] # None, n \notin Due(t)
       PROVE gates[active[n].generation] = gate_state[active[n].generation]
  <2>1. active[n] # None /\ active[n].generation \in Generations
    BY <1>10, <1>12, FenceParts
  <2>2. \A m \in Thawed(t) : active[m].generation # active[n].generation
    BY <1>12, <2>1, ActiveApart DEF Thawed, Due, IsActive
  <2>3. <<active[n].generation, gate_state[active[n].generation]>> \notin freezes
    BY <2>2 DEF Freezes
  <2>. QED BY <2>1, <2>3 DEF Reopen
<1>13. ASSUME NEW n \in Nicknames, active'[n] # None, n \in Due(t)
       PROVE gates[active[n].generation] = OPEN
  <2>1. active[n] # None /\ active[n].generation \in Generations
    BY <1>10, <1>13, FenceParts
  <2>2. CASE active[n].transfer_in_progress = None
    BY <1>3, <1>5, <2>1, <2>2 DEF Frozen
  <2>3. CASE active[n].transfer_in_progress # None
    <3>1. gate_state[active[n].generation] = active[n].transfer_in_progress
      BY <1>3, <2>1, <2>3 DEF Frozen
    <3>2. <<active[n].generation, gate_state[active[n].generation]>> \in freezes
      BY <1>13, <2>3, <3>1 DEF Freezes, Thawed
    <3>. QED BY <2>1, <3>2 DEF Reopen
  <2>. QED BY <2>2, <2>3
<1>14. \A n \in Nicknames, e \in Sessions :
         Answers(preflight[e], active[n], n) => Answers(preflight'[e], active[n], n)
  <2>. SUFFICES ASSUME NEW n \in Nicknames, NEW e \in Sessions,
                       Answers(preflight[e], active[n], n)
                PROVE Answers(preflight'[e], active[n], n)
    OBVIOUS
  <2>1. preflight[e] # None
    BY DEF Answers
  <2>. QED BY <1>7, <2>1, AlikeAnswers
<1>. HIDE DEF gates, freezes, gs, gone
<1>15. Frozen(active', gates, preflight')
  <2>. SUFFICES ASSUME NEW n \in Nicknames, active'[n] # None
                PROVE /\ gates[active'[n].generation] =
                           (IF active'[n].transfer_in_progress = None THEN OPEN
                            ELSE active'[n].transfer_in_progress)
                      /\ active'[n].transfer_in_progress # None =>
                           \E d \in Sessions : Answers(preflight'[d], active'[n], n)
    BY DEF Frozen
  <2>1. CASE n \in Due(t)
    BY <1>10, <1>13, <2>1
  <2>2. CASE n \notin Due(t)
    BY <1>3, <1>10, <1>12, <1>14, <2>2 DEF Frozen
  <2>. QED BY <2>1, <2>2
<1>16. next_generation' >= next_generation
  BY FenceParts
<1>. QED
  BY <1>1, <1>6, <1>8, <1>9, <1>11, <1>15, <1>16, MoveFence

LEMMA SweepFence ==
  ASSUME FenceInvariant, PinInvariant', MigrationExpiry \/ DrainOutboundProducers
  PROVE FenceInvariant' /\ Releasing
BY ExpireFence DEF MigrationExpiry, DrainOutboundProducers

LEMMA DrainSessionsFence ==
  ASSUME FenceInvariant, PinInvariant', DrainSessions
  PROVE FenceInvariant' /\ Releasing
<1>. DEFINE gone == Releases({n \in Nicknames : IsActive(n)})
<1>1. /\ gone \in SUBSET DeferredRelease /\ Moved(active', gone)
      /\ Flush(deferred_releases \cup gone, gate_state, announced)
  BY FenceParts, DrainMoves
<1>2. /\ \A n \in Nicknames : active'[n] = None
      /\ UNCHANGED <<next_generation, next_transfer_id, preflight, active_operations>>
      /\ next_generation' >= next_generation
  BY FenceParts DEF DrainSessions, tasks
<1>3. Owned(active', session_bindings') /\ Frozen(active', gate_state, preflight')
  BY <1>2 DEF Owned, Frozen
<1>. HIDE DEF gone
<1>. QED BY <1>1, <1>2, <1>3, MoveFence DEF FenceInvariant
-----------------------------------------------------------------------------
(* Turns that hand out a generation.                                        *)

LEMMA CommitMigrationFence ==
  ASSUME FenceInvariant, PinInvariant', NEW d \in Sessions, CommitMigration(d)
  PROVE /\ FenceInvariant'
        /\ \A m \in Nicknames :
             \/ Retained(m)' = Retained(m)
             \/ /\ Retained(m) \in Generations /\ is_drained(Retained(m))
                /\ Retained(m)' = 0 \/ Retained(m)' = next_generation
        /\ next_generation' = next_generation + 1
<1>. DEFINE ticket == preflight[d]
            n == ticket.nickname
            old == ticket.source_generation
            new == next_generation
            ds == deferred_releases
            gates == [gate_state EXCEPT ![old] = RETIRED]
            told == [announced EXCEPT ![n] = IF @ = old THEN new ELSE @]
            a == [generation |-> new, owner |-> d, permit |-> None,
                  transfer_in_progress |-> None]
<1>1. /\ ticket # None /\ active[n] # None /\ active[n].generation = old /\ is_drained(old)
      /\ session_bindings[d] = None /\ new < MaxGeneration /\ next_generation' = new + 1
      /\ active' = [active EXCEPT ![n] = a]
      /\ session_bindings' = [session_bindings EXCEPT ![d] = [nickname |-> n, generation |-> new]]
      /\ preflight' = [preflight EXCEPT ![d] = None]
      /\ Flush(ds, gates, told)
      /\ UNCHANGED <<next_transfer_id, active_operations>>
  BY DEF CommitMigration, validate_preflighted_migration, validate_migration, IsActive
<1>2. n \in Nicknames /\ old \in Generations
  BY <1>1, FenceParts DEF Tickets, MigrationPreflight
<1>3. /\ OneTicketEach(preflight, next_transfer_id) /\ Frozen(active, gate_state, preflight)
      /\ Owned(active, session_bindings) /\ Untouched(gate_state, next_generation)
      /\ Waiting(preflight, gate_state, active_operations)
      /\ Tracks(announced, active, ds) /\ WithinCapacity(active, ds)
  BY DEF FenceInvariant
<1>4. new \in Generations /\ new \in Nat /\ old \in Nat /\ old < new /\ old >= 1
  BY <1>1, <1>2, FenceParts DEF TypeOK, Generations
<1>. HIDE DEF n, old, new, ds
<1>5. /\ active'[n] = a /\ \A m \in Nicknames \ {n} : active'[m] = active[m]
      /\ a.generation = new /\ a.owner = d /\ a.permit = None
      /\ a.transfer_in_progress = None
  BY <1>1, <1>2, FenceParts DEF Actives
<1>6. a # None
  <2>1. a \in ActiveIdentity
    BY <1>4 DEF ActiveIdentity
  <2>. QED BY <2>1, NoneAssumption
<1>7. /\ session_bindings'[d] = [nickname |-> n, generation |-> new]
      /\ \A s \in Sessions \ {d} : session_bindings'[s] = session_bindings[s]
  BY <1>1, FenceParts DEF TypeOK
<1>8. preflight'[d] = None /\ \A e \in Sessions \ {d} : preflight'[e] = preflight[e]
  BY <1>1, FenceParts DEF Tickets
<1>9. \A h \in Generations \ {old} : gates[h] = gate_state[h]
  BY <1>2, FenceParts DEF Gates
<1>10. \A m \in Nicknames : told[m] = IF m = n /\ announced[n] = old THEN new ELSE announced[m]
  BY FenceParts DEF TypeOK
<1>. HIDE DEF a, gates, told
<1>11. ds \in SUBSET DeferredRelease /\ Apart(active, ds, new)
       /\ \A e \in ds : e.generation \in Nat /\ e.generation < new /\ e.nickname # n
  BY <1>1, <1>2, FenceParts, GenerationType DEF Apart, ds, new, DeferredRelease
<1>12. Apart(active', ds, next_generation')
  <2>1. \A m \in Nicknames : active[m] # None =>
          active[m].generation \in Nat /\ active[m].generation < new
    BY FenceParts DEF new
  <2>2. ASSUME NEW m \in Nicknames, active'[m] # None
        PROVE /\ active'[m].generation < next_generation'
              /\ \A k \in Nicknames :
                   active'[k] # None /\ active'[k].generation = active'[m].generation => k = m
              /\ \A e \in ds : e.nickname # m /\ e.generation # active'[m].generation
    <3>1. CASE m = n
      BY <1>1, <1>4, <1>5, <1>11, <2>1, <3>1 DEF Apart
    <3>2. CASE m # n
      BY <1>1, <1>4, <1>5, <1>11, <2>1, <2>2, <3>2 DEF Apart
    <3>. QED BY <3>1, <3>2
  <2>3. \A e \in ds : e.generation < next_generation'
    BY <1>1, <1>4, <1>11
  <2>. QED BY <1>11, <2>2, <2>3 DEF Apart
<1>13. \A m \in Nicknames \ {n} : HeldBy(active', ds, m) = HeldBy(active, ds, m)
  BY <1>5 DEF HeldBy
<1>14. HeldBy(active', ds, n) = new /\ HeldBy(active, ds, n) = old
  BY <1>1, <1>2, <1>5, <1>6 DEF HeldBy
<1>15. Tracks(told, active', ds)
  BY <1>3, <1>10, <1>13, <1>14 DEF Tracks
<1>16. WithinCapacity(active', ds)
  <2>1. \A m \in Nicknames : HeldBy(active', ds, m) # 0 => HeldBy(active, ds, m) # 0
    BY <1>4, <1>13, <1>14
  <2>. QED BY <1>3, <2>1, CapacityKept
<1>17. Owned(active', session_bindings')
  <2>. SUFFICES ASSUME NEW m \in Nicknames, active'[m] # None
                PROVE /\ active'[m].permit # None =>
                           active'[m].permit.source_generation = active'[m].generation
                      /\ active'[m].owner = None => active'[m].permit # None
                      /\ active'[m].owner # None =>
                           session_bindings'[active'[m].owner] =
                             [nickname |-> m, generation |-> active'[m].generation]
    BY DEF Owned
  <2>1. CASE m = n
    BY <1>5, <1>7, <2>1, ConstantsAssumption
  <2>2. CASE m # n
    <3>1. active'[m] = active[m] /\ active[m] # None /\ active[m] \in ActiveIdentity
      BY <1>5, <2>2, FenceParts
    <3>2. active[m].owner # d
      <4>1. [nickname |-> m, generation |-> active[m].generation] # None
        <5>1. [nickname |-> m, generation |-> active[m].generation] \in DeferredRelease
          BY <3>1 DEF ActiveIdentity, DeferredRelease
        <5>. QED BY <5>1, NoneAssumption
      <4>. QED BY <1>1, <1>3, <3>1, <4>1, ConstantsAssumption DEF Owned
    <3>3. active[m].owner # None =>
            session_bindings'[active[m].owner] = session_bindings[active[m].owner]
      BY <1>7, <3>1, <3>2 DEF ActiveIdentity
    <3>. QED BY <1>3, <3>1, <3>3 DEF Owned
  <2>. QED BY <2>1, <2>2
<1>18. Frozen(active', gates, preflight')
  <2>. SUFFICES ASSUME NEW m \in Nicknames, active'[m] # None
                PROVE /\ gates[active'[m].generation] =
                           (IF active'[m].transfer_in_progress = None THEN OPEN
                            ELSE active'[m].transfer_in_progress)
                      /\ active'[m].transfer_in_progress # None =>
                           \E e \in Sessions : Answers(preflight'[e], active'[m], m)
    BY DEF Frozen
  <2>1. CASE m = n
    <3>1. gates[new] = gate_state[new]
      BY <1>4, <1>9
    <3>2. gate_state[new] = OPEN
      BY <1>3, <1>4 DEF Untouched, new
    <3>. QED BY <1>5, <2>1, <3>1, <3>2
  <2>2. CASE m # n
    <3>1. active'[m] = active[m] /\ active[m] # None
      BY <1>5, <2>2
    <3>2. active[m].generation \in Generations \ {old}
      BY <1>1, <1>2, <2>2, <3>1, FenceParts, ActiveApart
    <3>3. \A e \in Sessions : Answers(preflight[e], active[m], m) => preflight'[e] = preflight[e]
      BY <1>8, <2>2 DEF Answers, n
    <3>. QED BY <1>3, <1>9, <3>1, <3>2, <3>3 DEF Frozen
  <2>. QED BY <2>1, <2>2
<1>19. OneTicketEach(preflight', next_transfer_id')
  BY <1>1, <1>3, <1>8 DEF OneTicketEach
<1>20. Untouched(gates, next_generation')
  BY <1>1, <1>2, <1>3, <1>4, <1>9, GenerationType DEF Untouched, new
<1>21. Waiting(preflight', gates, active_operations)
  <2>. SUFFICES ASSUME NEW e \in Sessions, preflight'[e] # None,
                       preflight'[e].phase = "parked", ~preflight'[e].notified
                PROVE /\ gates[preflight'[e].source_generation] = preflight'[e].transfer_id
                      /\ active_operations[preflight'[e].source_generation] # 0
    BY DEF Waiting
  <2>1. preflight'[e] = preflight[e]
    BY <1>8
  <2>2. /\ gate_state[preflight[e].source_generation] = preflight[e].transfer_id
        /\ active_operations[preflight[e].source_generation] # 0
    BY <1>3, <2>1 DEF Waiting
  <2>3. preflight[e].source_generation \in Generations \ {old}
    BY <1>1, <2>1, <2>2, FenceParts DEF is_drained, Tickets, MigrationPreflight
  <2>. QED BY <1>9, <2>1, <2>2, <2>3
<1>22. FenceInvariant'
  BY <1>1, <1>11, <1>12, <1>15, <1>16, <1>17, <1>18, <1>19, <1>20, <1>21, TurnFence
<1>23. ASSUME NEW m \in Nicknames
       PROVE \/ Retained(m)' = Retained(m)
             \/ /\ Retained(m) \in Generations /\ is_drained(Retained(m))
                /\ Retained(m)' = 0 \/ Retained(m)' = new
  <2>1. Retained(m) = HeldBy(active, ds, m)
        /\ Retained(m)' = HeldBy(active', ds \ Drained(ds), m)
    <3>1. deferred_releases' = ds \ Drained(ds)
      BY <1>1 DEF Flush
    <3>. QED BY <3>1 DEF Retained, HeldBy, IsActive, ds
  <2>2. \A e \in Drained(ds) : e.generation \in Generations /\ is_drained(e.generation)
    BY <1>11 DEF Drained, DeferredRelease
  <2>3. CASE m = n
    BY <1>1, <1>2, <1>5, <1>6, <1>14, <2>1, <2>3 DEF HeldBy
  <2>4. CASE m # n
    BY <1>11, <1>12, <1>13, <2>1, <2>2, <2>4, FlushHolds
  <2>. QED BY <2>3, <2>4
<1>. QED BY <1>1, <1>22, <1>23 DEF new

\* What a step does to the generations held: each stays, or is released or
\* replaced by a fresh one once its operations have ended.
TurningOver ==
  \A n \in Nicknames :
    \/ Retained(n)' = Retained(n)
    \/ /\ Retained(n) = 0 \/ (Retained(n) \in Generations /\ is_drained(Retained(n)))
       /\ \/ Retained(n)' = 0
          \/ Retained(n)' = next_generation /\ next_generation' = next_generation + 1

\* A claim counts the active identities and the deferred releases; each name
\* that holds a generation is one of them.
LEMMA ClaimCapacity ==
  ASSUME FenceInvariant, NEW ds \in SUBSET deferred_releases, NEW n \in Nicknames, NEW act,
         \A m \in Nicknames \ {n} : act[m] = active[m],
         Cardinality({m \in Nicknames : IsActive(m)}) + Cardinality(ds) < IdentityCapacity
  PROVE WithinCapacity(act, ds)
<1>. DEFINE A == {m \in Nicknames : IsActive(m)}
            N == {m \in Nicknames : \E d \in ds : d.nickname = m}
            H == {m \in Nicknames : HeldBy(act, ds, m) # 0}
            f == [d \in ds |-> d.nickname]
<1>1. ds \in SUBSET DeferredRelease
  BY FenceParts
<1>2. f \in Injection(ds, Nicknames)
  <2>1. f \in [ds -> Nicknames]
    BY <1>1 DEF DeferredRelease
  <2>2. \A d, e \in ds : d.nickname = e.nickname => d = e
    BY FenceParts DEF Apart
  <2>3. IsInjective(f)
    BY <2>2 DEF IsInjective
  <2>. QED BY <2>1, <2>3 DEF Injection
<1>3. f \in Surjection(ds, N)
  <2>1. f \in [ds -> N]
    BY <1>1 DEF DeferredRelease
  <2>. QED BY <2>1 DEF Surjection
<1>4. IsFiniteSet(A) /\ IsFiniteSet(N) /\ IsFiniteSet(H) /\ IsFiniteSet(ds)
  <2>1. IsFiniteSet(ds)
    <3>. HIDE DEF f
    <3>. QED BY <1>2, ConstantsAssumption, FS_Injection
  <2>. QED BY <2>1, ConstantsAssumption, FS_Subset
<1>5. H \subseteq (A \cup N) \cup {n}
  BY DEF HeldBy, IsActive
<1>6. Cardinality(A) + Cardinality(ds) < IdentityCapacity
  OBVIOUS
<1>. HIDE DEF A, N, H, f
<1>7. Cardinality(N) <= Cardinality(ds)
  BY <1>3, <1>4, FS_Surjection
<1>8. /\ IsFiniteSet(A \cup N)
      /\ Cardinality(A \cup N) = Cardinality(A) + Cardinality(N) - Cardinality(A \cap N)
  BY <1>4, FS_Union
<1>9. /\ IsFiniteSet((A \cup N) \cup {n})
      /\ Cardinality((A \cup N) \cup {n}) \in
           {Cardinality(A \cup N), Cardinality(A \cup N) + 1}
  BY <1>8, FS_AddElement
<1>10. Cardinality(H) <= Cardinality((A \cup N) \cup {n})
  BY <1>5, <1>9, FS_Subset
<1>11. IsFiniteSet(A \cap N)
  BY <1>4, FS_Intersection
<1>12. /\ Cardinality(A) \in Nat /\ Cardinality(N) \in Nat /\ Cardinality(ds) \in Nat
       /\ Cardinality(A \cap N) \in Nat /\ Cardinality(H) \in Nat
  BY <1>4, <1>11, FS_CardinalityType
<1>13. Cardinality(H) <= IdentityCapacity
  BY <1>6, <1>7, <1>8, <1>9, <1>10, <1>12, ConstantsAssumption
<1>. QED BY <1>13 DEF WithinCapacity, H

LEMMA ClaimIdentityFence ==
  ASSUME FenceInvariant, PinInvariant', NEW s \in Sessions, NEW n \in Nicknames,
         ClaimIdentity(s, n)
  PROVE FenceInvariant' /\ TurningOver
<1>. DEFINE all == deferred_releases
            ds == all \ Drained(all)
            gates == Retire(gate_state, Drained(all))
            g == next_generation
            old == Forget(announced, Drained(all))
            told == [old EXCEPT ![n] = g]
            a == [generation |-> g, owner |-> s, permit |-> None,
                  transfer_in_progress |-> None]
<1>1. /\ deferred_releases' = ds /\ gate_state' = gates
      /\ UNCHANGED <<next_transfer_id, preflight, active_operations>>
  BY DEF ClaimIdentity, tasks
<1>2. CASE ~claim_accepted(s, n, ds)
  <2>1. FlushOnly /\ UNCHANGED <<active, session_bindings, next_generation>>
    BY <1>1, <1>2 DEF ClaimIdentity, FlushOnly, Flush
  <2>2. FenceInvariant' /\ Releasing
    BY <1>1, <2>1, FlushFence
  <2>. QED BY <2>2 DEF Releasing, TurningOver
<1>3. CASE claim_accepted(s, n, ds)
  <2>1. /\ session_bindings[s] = None /\ active[n] = None /\ \A d \in ds : d.nickname # n
        /\ g < MaxGeneration
        /\ Cardinality({m \in Nicknames : IsActive(m)}) + Cardinality(ds) < IdentityCapacity
    BY <1>3 DEF claim_accepted, IsActive
  <2>2. /\ active' = [active EXCEPT ![n] = a] /\ next_generation' = g + 1
        /\ session_bindings' =
             [session_bindings EXCEPT ![s] = [nickname |-> n, generation |-> g]]
        /\ announced' = told
    BY <1>3 DEF ClaimIdentity
  <2>3. /\ OneTicketEach(preflight, next_transfer_id) /\ Frozen(active, gate_state, preflight)
        /\ Owned(active, session_bindings) /\ Untouched(gate_state, g)
        /\ Waiting(preflight, gate_state, active_operations) /\ Tracks(announced, active, all)
    BY DEF FenceInvariant
  <2>4. g \in Generations /\ g \in Nat /\ g >= 1 /\ g < next_generation'
    BY <2>1, <2>2, FenceParts DEF TypeOK
  <2>5. all \in SUBSET DeferredRelease /\ Apart(active, all, g) /\ ds \subseteq all
        /\ active \in Actives /\ preflight \in Tickets
    BY FenceParts
  <2>6. ds = ds \ Drained(ds) /\ Drained(ds) = {}
    BY DEF Drained
  <2>7. gates = Retire(gates, Drained(ds)) /\ told = Forget(told, Drained(ds))
    BY <2>6 DEF Retire, Forget
  <2>8. Flush(ds, gates, told)
    BY <1>1, <2>2, <2>6, <2>7 DEF Flush
  <2>9. Tracks(old, active, ds) /\ Frozen(active, gates, preflight) /\ Untouched(gates, g)
        /\ Waiting(preflight, gates, active_operations)
    BY <2>3, <2>4, <2>5, FlushTracks, FlushRetires
  <2>10. \A m \in Nicknames : told[m] = IF m = n THEN g ELSE old[m]
    BY DEF Forget
  <2>11. /\ active'[n] = a /\ \A m \in Nicknames \ {n} : active'[m] = active[m]
         /\ a.generation = g /\ a.owner = s /\ a.permit = None
         /\ a.transfer_in_progress = None
    BY <2>2, <2>5 DEF Actives
  <2>12. a # None
    <3>1. a \in ActiveIdentity
      BY <2>4 DEF ActiveIdentity
    <3>. QED BY <3>1, NoneAssumption
  <2>13. /\ session_bindings'[s] = [nickname |-> n, generation |-> g]
         /\ \A d \in Sessions \ {s} : session_bindings'[d] = session_bindings[d]
    BY <2>2, FenceParts DEF TypeOK
  <2>14. \A m \in Nicknames : active[m] # None =>
           active[m].generation \in Nat /\ active[m].generation < g
    BY FenceParts
  <2>15. \A d \in all : d.generation \in Nat /\ d.generation < g
    BY <2>5, GenerationType DEF Apart, DeferredRelease
  <2>16. \A d \in Drained(all) : d.generation \in Generations /\ is_drained(d.generation)
    BY <2>5 DEF Drained, DeferredRelease
  <2>17. ds \in SUBSET DeferredRelease /\ \A d \in ds : d.generation \in Nat /\ d.generation < g
    BY <2>5, <2>15
  <2>. HIDE DEF a, told, old, ds, gates, g, all
  <2>18. Apart(active', ds, next_generation')
    <3>1. ASSUME NEW m \in Nicknames, active'[m] # None
          PROVE /\ active'[m].generation < next_generation'
                /\ \A k \in Nicknames :
                     active'[k] # None /\ active'[k].generation = active'[m].generation => k = m
                /\ \A d \in ds : d.nickname # m /\ d.generation # active'[m].generation
      <4>1. CASE m = n
        BY <2>1, <2>4, <2>11, <2>14, <2>17, <4>1
      <4>2. CASE m # n
        <5>1. active'[m] = active[m] /\ active[m] # None
          BY <2>11, <3>1, <4>2
        <5>2. active[m].generation < next_generation' /\ active[m].generation # g
          BY <2>2, <2>4, <2>14, <5>1
        <5>3. \A k \in Nicknames :
                active'[k] # None /\ active'[k].generation = active[m].generation => k = m
          BY <2>5, <2>11, <5>1, <5>2 DEF Apart
        <5>4. \A d \in ds : d.nickname # m /\ d.generation # active[m].generation
          BY <2>5, <5>1 DEF Apart
        <5>. QED BY <5>1, <5>2, <5>3, <5>4
      <4>. QED BY <4>1, <4>2
    <3>2. \A d \in ds : d.generation < next_generation'
      BY <2>2, <2>4, <2>17
    <3>3. \A d, e \in ds : d.nickname = e.nickname \/ d.generation = e.generation => d = e
      BY <2>5 DEF Apart
    <3>. QED BY <3>1, <3>2, <3>3 DEF Apart
  <2>19. \A m \in Nicknames \ {n} : HeldBy(active', ds, m) = HeldBy(active, ds, m)
    BY <2>11 DEF HeldBy
  <2>20. HeldBy(active', ds, n) = g
    BY <2>11, <2>12 DEF HeldBy
  <2>21. Tracks(told, active', ds)
    BY <2>9, <2>10, <2>19, <2>20 DEF Tracks
  <2>22. WithinCapacity(active', ds)
    BY <2>1, <2>5, <2>11, ClaimCapacity DEF all
  <2>23. Owned(active', session_bindings')
    <3>. SUFFICES ASSUME NEW m \in Nicknames, active'[m] # None
                  PROVE /\ active'[m].permit # None =>
                             active'[m].permit.source_generation = active'[m].generation
                        /\ active'[m].owner = None => active'[m].permit # None
                        /\ active'[m].owner # None =>
                             session_bindings'[active'[m].owner] =
                               [nickname |-> m, generation |-> active'[m].generation]
      BY DEF Owned
    <3>1. CASE m = n
      BY <2>11, <2>13, <3>1, ConstantsAssumption
    <3>2. CASE m # n
      <4>1. active'[m] = active[m] /\ active[m] # None /\ active[m] \in ActiveIdentity
        BY <2>11, <3>2, FenceParts
      <4>2. active[m].owner # s
        <5>1. [nickname |-> m, generation |-> active[m].generation] # None
          <6>1. [nickname |-> m, generation |-> active[m].generation] \in DeferredRelease
            BY <4>1 DEF ActiveIdentity, DeferredRelease
          <6>. QED BY <6>1, NoneAssumption
        <5>. QED BY <2>1, <2>3, <4>1, <5>1, ConstantsAssumption DEF Owned
      <4>3. active[m].owner # None =>
              session_bindings'[active[m].owner] = session_bindings[active[m].owner]
        BY <2>13, <4>1, <4>2 DEF ActiveIdentity
      <4>. QED BY <2>3, <4>1, <4>3 DEF Owned
    <3>. QED BY <3>1, <3>2
  <2>24. Frozen(active', gates, preflight')
    <3>1. gates[g] = OPEN /\ preflight' = preflight
      BY <1>1, <2>4, <2>9 DEF Untouched
    <3>2. ASSUME NEW m \in Nicknames, active'[m] # None
          PROVE /\ gates[active'[m].generation] =
                     (IF active'[m].transfer_in_progress = None THEN OPEN
                      ELSE active'[m].transfer_in_progress)
                /\ active'[m].transfer_in_progress # None =>
                     \E e \in Sessions : Answers(preflight'[e], active'[m], m)
      <4>1. CASE m = n
        BY <2>11, <3>1, <4>1
      <4>2. CASE m # n
        BY <2>9, <2>11, <3>1, <3>2, <4>2 DEF Frozen
      <4>. QED BY <4>1, <4>2
    <3>. QED BY <3>2 DEF Frozen
  <2>25. OneTicketEach(preflight', next_transfer_id')
    BY <1>1, <2>3
  <2>26. Untouched(gates, next_generation')
    BY <2>2, <2>4, <2>9, GenerationType DEF Untouched
  <2>27. Waiting(preflight', gates, active_operations)
    BY <1>1, <2>9
  <2>28. \A h \in Generations : active_operations[h] # 0 => active_operations'[h] # 0
    BY <1>1
  <2>29. FenceInvariant'
    BY <2>8, <2>17, <2>18, <2>21, <2>22, <2>23, <2>24, <2>25, <2>26, <2>27, <2>28, TurnFence
  <2>30. TurningOver
    <3>. SUFFICES ASSUME NEW m \in Nicknames
                  PROVE \/ Retained(m)' = Retained(m)
                        \/ /\ \/ Retained(m) = 0
                              \/ Retained(m) \in Generations /\ is_drained(Retained(m))
                           /\ \/ Retained(m)' = 0
                              \/ Retained(m)' = g /\ next_generation' = g + 1
      BY DEF TurningOver, g
    <3>1. Retained(m) = HeldBy(active, all, m) /\ Retained(m)' = HeldBy(active', ds, m)
      <4>1. deferred_releases' = ds
        BY <1>1 DEF ds, all, gates
      <4>. QED BY <4>1 DEF Retained, HeldBy, IsActive, all
    <3>2. \/ HeldBy(active, ds, m) = HeldBy(active, all, m)
          \/ /\ HeldBy(active, ds, m) = 0
             /\ \E d \in Drained(all) : d.generation = HeldBy(active, all, m)
      BY <2>5, FlushHolds DEF ds
    <3>3. CASE m = n
      <4>1. HeldBy(active, ds, n) = 0
        BY <2>1, <2>5 DEF HeldBy
      <4>. QED BY <2>2, <2>16, <2>20, <3>1, <3>2, <3>3, <4>1
    <3>4. CASE m # n
      BY <2>16, <2>19, <3>1, <3>2, <3>4
    <3>. QED BY <3>3, <3>4
  <2>. QED BY <2>29, <2>30
<1>. QED BY <1>2, <1>3
-----------------------------------------------------------------------------
(* Steps outside the actor.                                                 *)

\* A step that changes neither identities nor gates, and no more of a ticket
\* than the place its holder has reached.
LEMMA StillFence ==
  ASSUME FenceInvariant, PinInvariant',
         UNCHANGED <<active, session_bindings, next_generation, next_transfer_id,
                     deferred_releases, gate_state, announced>>,
         \A d \in Sessions : preflight[d] = None => preflight'[d] = None,
         \A d \in Sessions : preflight[d] # None => Alike(preflight'[d], preflight[d]),
         Waiting(preflight', gate_state, active_operations')
  PROVE FenceInvariant' /\ Releasing
<1>1. Frozen(active, gate_state, preflight')
  <2>1. \A d \in Sessions, n \in Nicknames :
          Answers(preflight[d], active[n], n) => Answers(preflight'[d], active[n], n)
    BY AlikeAnswers DEF Answers
  <2>. QED BY <2>1 DEF FenceInvariant, Frozen
<1>2. OneTicketEach(preflight', next_transfer_id)
  BY AlikeTickets DEF FenceInvariant
<1>3. \A n \in Nicknames : Retained(n)' = Retained(n)
  BY DEF Retained, IsActive
<1>4. /\ Frozen(active', gate_state', preflight')
      /\ OneTicketEach(preflight', next_transfer_id')
      /\ Waiting(preflight', gate_state', active_operations')
      /\ Tracks(announced', active', deferred_releases')
      /\ WithinCapacity(active', deferred_releases')
      /\ Owned(active', session_bindings') /\ Untouched(gate_state', next_generation')
  BY <1>1, <1>2 DEF FenceInvariant
<1>5. FenceInvariant'
  BY <1>4
  DEF FenceInvariant, Tracks, HeldBy, WithinCapacity, Owned, Frozen, Answers, exact_permit,
      OneTicketEach, Untouched, Waiting
<1>. QED BY <1>3, <1>5 DEF Releasing

LEMMA SameTicketsFence ==
  ASSUME FenceInvariant, PinInvariant',
         UNCHANGED <<active, session_bindings, next_generation, next_transfer_id,
                     deferred_releases, gate_state, announced, preflight>>,
         \A g \in Generations : active_operations[g] # 0 => active_operations'[g] # 0
  PROVE FenceInvariant' /\ Releasing
<1>1. \A d \in Sessions : preflight[d] # None => Alike(preflight'[d], preflight[d])
  BY DEF Alike
<1>2. Waiting(preflight', gate_state, active_operations')
  BY FenceParts DEF FenceInvariant, Waiting, Tickets, MigrationPreflight
<1>. QED BY <1>1, <1>2, StillFence

LEMMA LeaseStartFence ==
  ASSUME FenceInvariant, PinInvariant', NEW t \in Tasks,
         AdmitUdpOperation(t) \/ \E u \in Tasks : RetainLease(u, t)
  PROVE FenceInvariant' /\ Releasing
<1>1. /\ UNCHANGED <<active, session_bindings, next_generation, next_transfer_id,
                     deferred_releases, gate_state, announced, preflight>>
      /\ \E g : active_operations' = [active_operations EXCEPT ![g] = @ + 1]
  BY DEF AdmitUdpOperation, RetainLease, registry, retained
<1>2. \A h \in Generations : active_operations[h] # 0 => active_operations'[h] # 0
  BY <1>1, FenceParts DEF TypeOK
<1>. QED BY <1>1, <1>2, SameTicketsFence

\* The last lease of a generation notifies everybody who is parked on it.
LEMMA DropLeaseFence ==
  ASSUME FenceInvariant, PinInvariant', NEW t \in Tasks, DropLease(t)
  PROVE FenceInvariant' /\ Releasing
<1>. DEFINE g == lease[t].generation
<1>1. /\ UNCHANGED <<active, session_bindings, next_generation, next_transfer_id,
                     deferred_releases, gate_state, announced>>
      /\ active_operations' = [active_operations EXCEPT ![g] = @ - 1]
      /\ preflight' = IF active_operations[g] = 1 THEN Notify(preflight, {g}) ELSE preflight
  BY DEF DropLease, registry, retained
<1>2. preflight \in Tickets /\ active_operations \in [Generations -> Nat]
  BY FenceParts DEF TypeOK
<1>3. /\ \A d \in Sessions : preflight[d] = None => preflight'[d] = None
      /\ \A d \in Sessions : preflight[d] # None => Alike(preflight'[d], preflight[d])
  BY <1>1, <1>2, NotifyKeeps DEF Alike
<1>. HIDE DEF g
<1>4. Waiting(preflight', gate_state, active_operations')
  <2>. SUFFICES ASSUME NEW d \in Sessions, preflight'[d] # None,
                       preflight'[d].phase = "parked", ~preflight'[d].notified
                PROVE /\ gate_state[preflight'[d].source_generation] = preflight'[d].transfer_id
                      /\ active_operations'[preflight'[d].source_generation] # 0
    BY DEF Waiting
  <2>. DEFINE h == preflight[d].source_generation
  <2>1. /\ preflight[d] # None /\ Alike(preflight'[d], preflight[d])
        /\ preflight[d].phase = "parked" /\ ~preflight[d].notified
        /\ active_operations[g] = 1 => h # g
    BY <1>1, <1>2, <1>3, NotifyKeeps
  <2>2. h \in Generations
    BY <1>2, <2>1 DEF Tickets, MigrationPreflight
  <2>3. gate_state[h] = preflight[d].transfer_id /\ active_operations[h] # 0
    BY <2>1 DEF FenceInvariant, Waiting
  <2>4. active_operations'[h] # 0
    BY <1>1, <1>2, <2>1, <2>2, <2>3
  <2>. QED BY <2>1, <2>3, <2>4 DEF Alike
<1>. QED BY <1>1, <1>3, <1>4, StillFence

\* One ticket moves on.
LEMMA TicketStepFence ==
  ASSUME FenceInvariant, PinInvariant', NEW d \in Sessions,
         NEW phase \in {"check", "recheck", "parked", "loading", "ready", "aborted"},
         NEW notified \in BOOLEAN, preflight[d] # None,
         preflight' = [preflight EXCEPT ![d] = [preflight[d] EXCEPT !.phase = phase,
                                                                    !.notified = notified]],
         UNCHANGED <<registry, retained, active_operations>>,
         phase = "parked" =>
           /\ gate_state[preflight[d].source_generation] = preflight[d].transfer_id
           /\ active_operations[preflight[d].source_generation] # 0
  PROVE FenceInvariant' /\ Releasing
<1>. DEFINE old == preflight[d]
            ticket == [old EXCEPT !.phase = phase, !.notified = notified]
<1>1. old \in MigrationPreflight
  BY FenceParts DEF Tickets
<1>2. /\ ticket \in MigrationPreflight /\ ticket.phase = phase
      /\ ticket.transfer_id = old.transfer_id /\ ticket.nickname = old.nickname
      /\ ticket.token = old.token /\ ticket.expires_at = old.expires_at
      /\ ticket.source_generation = old.source_generation
      /\ ticket.source_session = old.source_session
  BY <1>1 DEF MigrationPreflight
<1>3. ticket # None
  BY <1>2, NoneAssumption
<1>4. preflight'[d] = ticket /\ \A e \in Sessions \ {d} : preflight'[e] = preflight[e]
  BY FenceParts DEF Tickets
<1>5. old # None
  OBVIOUS
<1>6. /\ UNCHANGED <<active, session_bindings, next_generation, next_transfer_id,
                     deferred_releases, gate_state, announced>>
      /\ active_operations' = active_operations
  BY DEF registry, retained
<1>7. phase = "parked" =>
        /\ gate_state[old.source_generation] = old.transfer_id
        /\ active_operations[old.source_generation] # 0
  OBVIOUS
<1>. HIDE DEF ticket
<1>8. /\ \A e \in Sessions : preflight[e] = None => preflight'[e] = None
      /\ \A e \in Sessions : preflight[e] # None => Alike(preflight'[e], preflight[e])
  BY <1>2, <1>3, <1>4, <1>5 DEF Alike
<1>9. Waiting(preflight', gate_state, active_operations')
  <2>1. Waiting(preflight, gate_state, active_operations)
    BY DEF FenceInvariant
  <2>. QED BY <1>2, <1>4, <1>6, <1>7, <2>1 DEF Waiting
<1>. QED BY <1>6, <1>8, <1>9, StillFence

LEMMA CheckDrainedFence ==
  ASSUME FenceInvariant, PinInvariant', NEW d \in Sessions, CheckDrained(d)
  PROVE FenceInvariant' /\ Releasing
<1>. DEFINE ticket == preflight[d]
<1>1. /\ ticket # None
      /\ UNCHANGED <<registry, retained, active_operations>>
      /\ \/ preflight' = [preflight EXCEPT ![d].phase = "aborted"]
         \/ preflight' = [preflight EXCEPT ![d].phase = "loading"]
         \/ preflight' = [preflight EXCEPT ![d].phase = "recheck", ![d].notified = FALSE]
         \/ /\ gate_state[ticket.source_generation] = ticket.transfer_id
            /\ active_operations[ticket.source_generation] # 0
            /\ preflight' = [preflight EXCEPT ![d].phase = "parked"]
  BY DEF CheckDrained, is_drained
<1>2. preflight \in Tickets /\ ticket \in MigrationPreflight /\ ticket.notified \in BOOLEAN
  BY <1>1, FenceParts DEF Tickets, MigrationPreflight
<1>3. \A phase : [preflight EXCEPT ![d].phase = phase] =
        [preflight EXCEPT ![d] = [preflight[d] EXCEPT !.phase = phase,
                                                      !.notified = ticket.notified]]
  BY <1>2 DEF Tickets, MigrationPreflight
<1>4. [preflight EXCEPT ![d].phase = "recheck", ![d].notified = FALSE] =
        [preflight EXCEPT ![d] = [preflight[d] EXCEPT !.phase = "recheck",
                                                      !.notified = FALSE]]
  BY <1>2 DEF Tickets, MigrationPreflight
<1>5. CASE preflight' = [preflight EXCEPT ![d].phase = "aborted"]
  BY <1>1, <1>2, <1>3, <1>5, TicketStepFence
<1>6. CASE preflight' = [preflight EXCEPT ![d].phase = "loading"]
  BY <1>1, <1>2, <1>3, <1>6, TicketStepFence
<1>7. CASE preflight' = [preflight EXCEPT ![d].phase = "recheck", ![d].notified = FALSE]
  BY <1>1, <1>2, <1>4, <1>7, TicketStepFence
<1>8. CASE /\ gate_state[ticket.source_generation] = ticket.transfer_id
           /\ active_operations[ticket.source_generation] # 0
           /\ preflight' = [preflight EXCEPT ![d].phase = "parked"]
  BY <1>1, <1>2, <1>3, <1>8, TicketStepFence
<1>. QED BY <1>1, <1>5, <1>6, <1>7, <1>8

LEMMA TicketHolderFence ==
  ASSUME FenceInvariant, PinInvariant', NEW d \in Sessions,
         Wake(d) \/ SubmitMigration(d) \/ CancelMigration(d)
  PROVE FenceInvariant' /\ Releasing
<1>1. /\ preflight[d] # None
      /\ UNCHANGED <<registry, retained, active_operations>>
      /\ \E phase \in {"check", "ready", "aborted"} :
           preflight' = [preflight EXCEPT ![d].phase = phase]
  BY DEF Wake, SubmitMigration, CancelMigration
<1>2. PICK phase \in {"check", "ready", "aborted"} :
        preflight' = [preflight EXCEPT ![d].phase = phase]
  BY <1>1
<1>3. preflight \in Tickets /\ preflight[d] \in MigrationPreflight
      /\ preflight[d].notified \in BOOLEAN
  BY <1>1, FenceParts DEF Tickets, MigrationPreflight
<1>4. preflight' = [preflight EXCEPT ![d] = [preflight[d] EXCEPT
                      !.phase = phase, !.notified = preflight[d].notified]]
  BY <1>2, <1>3 DEF Tickets, MigrationPreflight
<1>. QED BY <1>1, <1>3, <1>4, TicketStepFence

LEMMA UdpTickFence ==
  ASSUME FenceInvariant, PinInvariant',
         Tick \/ DropDatagram \/ (\E n \in Nicknames : ReceiveDatagram(n)) \/ UNCHANGED vars
  PROVE FenceInvariant' /\ Releasing
BY SameTicketsFence
DEF Tick, DropDatagram, ReceiveDatagram, vars, registry, retained, tasks
-----------------------------------------------------------------------------
LEMMA InitFence ==
  ASSUME Init
  PROVE FenceInvariant
<1>1. PinInvariant
  BY InitPins
<1>2. \A n \in Nicknames : HeldBy(active, deferred_releases, n) = 0
  BY DEF Init, HeldBy
<1>3. WithinCapacity(active, deferred_releases)
  <2>1. {n \in Nicknames : HeldBy(active, deferred_releases, n) # 0} = {}
    BY <1>2
  <2>. QED BY <2>1, FS_EmptySet, ConstantsAssumption DEF WithinCapacity
<1>. QED
  BY <1>1, <1>2, <1>3
  DEF FenceInvariant, Init, Tracks, Owned, Frozen, OneTicketEach, Untouched, Waiting

LEMMA NextFence ==
  ASSUME FenceInvariant, [Next]_vars
  PROVE FenceInvariant' /\ TurningOver
<1>1. PinInvariant'
  BY NextPins DEF FenceInvariant
<1>2. CASE \E s \in Sessions, n \in Nicknames : ClaimIdentity(s, n)
  BY <1>1, <1>2, ClaimIdentityFence
<1>3. CASE \E d \in Sessions : CommitMigration(d)
  <2>1. PICK d \in Sessions : CommitMigration(d)
    BY <1>3
  <2>. QED BY <1>1, <2>1, CommitMigrationFence DEF TurningOver
<1>4. Releasing => TurningOver
  BY DEF Releasing, TurningOver
<1>5. CASE CommandTurn \/ Quiesce
  BY <1>1, <1>4, <1>5, CommandTurnFence
<1>6. CASE \/ \E s \in Sessions, t \in Tasks : AdmitOperation(s, t)
           \/ \E s \in Sessions, token \in Tokens, t \in Samples : BeginMigration(s, token, t)
           \/ \E d \in Sessions, n \in Nicknames, token \in Tokens, t \in Samples :
                PreflightMigration(d, n, token, t)
  BY <1>1, <1>4, <1>6, AdmitOperationFence, BeginMigrationFence, PreflightMigrationFence
<1>7. CASE \E d \in Sessions : AbortMigration(d) \/ RejectMigration(d) \/ BurnMigration(d)
  BY <1>1, <1>4, <1>7, CompletionFence
<1>8. CASE \/ \E s \in Sessions : CloseSession(s)
           \/ MigrationExpiry \/ DrainOutboundProducers \/ DrainSessions
  BY <1>1, <1>4, <1>8, CloseSessionFence, SweepFence, DrainSessionsFence
<1>9. CASE \/ Tick \/ DropDatagram \/ UNCHANGED vars
           \/ \E n \in Nicknames : ReceiveDatagram(n)
  BY <1>1, <1>4, <1>9, UdpTickFence
<1>10. CASE \/ \E t \in Tasks : AdmitUdpOperation(t)
            \/ \E t, u \in Tasks : RetainLease(t, u)
            \/ \E t \in Tasks : DropLease(t)
  BY <1>1, <1>4, <1>10, LeaseStartFence, DropLeaseFence
<1>11. CASE \E d \in Sessions :
              CheckDrained(d) \/ Wake(d) \/ SubmitMigration(d) \/ CancelMigration(d)
  BY <1>1, <1>4, <1>11, CheckDrainedFence, TicketHolderFence
<1>. QED
  BY <1>2, <1>3, <1>5, <1>6, <1>7, <1>8, <1>9, <1>10, <1>11 DEF Next
-----------------------------------------------------------------------------
(* What the invariant implies.                                              *)

LEMMA FenceImpliesAgreement ==
  ASSUME FenceInvariant
  PROVE GenerationsAgree
<1>1. \A n \in Nicknames :
        /\ IsActive(n) => \A d \in deferred_releases : d.nickname # n
        /\ \A d, e \in deferred_releases : d.nickname = n /\ e.nickname = n => d = e
  BY FenceParts DEF Apart, IsActive
<1>2. Cardinality({n \in Nicknames : Retained(n) # 0}) <= IdentityCapacity
  <2>1. {n \in Nicknames : Retained(n) # 0} =
          {n \in Nicknames : HeldBy(active, deferred_releases, n) # 0}
    BY RetainedIsHeld
  <2>2. Cardinality({n \in Nicknames : HeldBy(active, deferred_releases, n) # 0})
          <= IdentityCapacity
    BY DEF FenceInvariant, WithinCapacity
  <2>. QED BY <2>1, <2>2
<1>3. SidecarsTrackRegistry
  BY RetainedIsHeld DEF FenceInvariant, Tracks, SidecarsTrackRegistry
<1>. QED BY <1>1, <1>2, <1>3 DEF GenerationsAgree, OneGenerationPerNickname

LEMMA FenceImpliesTicket ==
  ASSUME FenceInvariant
  PROVE FreezeHasOneTicket
<1>. SUFFICES ASSUME NEW n \in Nicknames, IsActive(n)
              PROVE /\ gate_state[active[n].generation] =
                         (IF active[n].transfer_in_progress = None THEN OPEN
                          ELSE active[n].transfer_in_progress)
                    /\ active[n].transfer_in_progress # None =>
                         /\ active[n].permit # None
                         /\ \E d \in Sessions :
                              /\ preflight[d] # None
                              /\ preflight[d].transfer_id = active[n].transfer_in_progress
                              /\ preflight[d].nickname = n
                              /\ preflight[d].source_generation = active[n].generation
                              /\ \A e \in Sessions \ {d} :
                                   preflight[e] # None =>
                                     preflight[e].transfer_id # active[n].transfer_in_progress
  BY DEF FreezeHasOneTicket
<1>1. /\ gate_state[active[n].generation] =
           (IF active[n].transfer_in_progress = None THEN OPEN
            ELSE active[n].transfer_in_progress)
      /\ active[n].transfer_in_progress # None =>
           \E d \in Sessions : Answers(preflight[d], active[n], n)
  BY DEF FenceInvariant, Frozen, IsActive
<1>2. ASSUME NEW d \in Sessions, Answers(preflight[d], active[n], n)
      PROVE /\ active[n].permit # None /\ preflight[d] # None
            /\ preflight[d].transfer_id = active[n].transfer_in_progress
            /\ preflight[d].nickname = n
            /\ preflight[d].source_generation = active[n].generation
            /\ \A e \in Sessions \ {d} :
                 preflight[e] # None =>
                   preflight[e].transfer_id # active[n].transfer_in_progress
  <2>1. /\ active[n].permit # None /\ preflight[d] # None
        /\ preflight[d].transfer_id = active[n].transfer_in_progress
        /\ preflight[d].nickname = n
        /\ active[n].permit.source_generation = preflight[d].source_generation
    BY <1>2 DEF Answers, exact_permit
  <2>2. active[n].permit.source_generation = active[n].generation
    BY <2>1 DEF FenceInvariant, Owned, IsActive
  <2>3. \A e \in Sessions : preflight[e] # None /\ preflight[e].transfer_id = preflight[d].transfer_id
          => e = d
    BY <2>1 DEF FenceInvariant, OneTicketEach
  <2>. QED BY <2>1, <2>2, <2>3
<1>. QED BY <1>1, <1>2

LEMMA FenceImpliesRecoverable ==
  ASSUME FenceInvariant
  PROVE OwnershipIsRecoverable
BY DEF FenceInvariant, Owned, OwnershipIsRecoverable, IsActive

LEMMA FenceImpliesWakeup ==
  ASSUME FenceInvariant
  PROVE NoLostDrainWakeup
BY DEF FenceInvariant, Waiting, NoLostDrainWakeup, is_drained

\* World and sidecars know a nickname by one generation: it has one active or
\* one draining, World capacity counts both kinds, and claim, migration and
\* release reach the sidecars in the turn that makes them true.
THEOREM SidecarsAgree == Spec => []GenerationsAgree
<1>. QED BY InitFence, NextFence, FenceImpliesAgreement, PTL DEF Spec

\* Every freeze is the gate's, has its permit and exactly one live ticket: a
\* stale, failed or cancelled migration finds nothing of somebody else's to thaw.
THEOREM FreezesAreAnswered == Spec => []FreezeHasOneTicket
<1>. QED BY InitFence, NextFence, FenceImpliesTicket, PTL DEF Spec

\* An identity without an owner keeps the permit by which a migration or the
\* sweep will find it, and an owner is bound to what it owns.
THEOREM OwnershipRecovers == Spec => []OwnershipIsRecoverable
<1>. QED BY InitFence, NextFence, FenceImpliesRecoverable, PTL DEF Spec

\* wait_until_drained registers before it checks again, and both the last lease
\* and whoever ends a freeze notify: nobody parks with nothing left to wait for.
THEOREM NoWakeupIsLost == Spec => []NoLostDrainWakeup
<1>. QED BY InitFence, NextFence, FenceImpliesWakeup, PTL DEF Spec
-----------------------------------------------------------------------------
(* Ownership moves by a permit.                                             *)

\* Every step but a commit keeps an identity under its generation, and its owner
\* unless it drops it; only a claim adds one.
LEMMA IdentitiesKept ==
  ASSUME TypeOK, [Next]_vars, \A d \in Sessions : ~CommitMigration(d)
  PROVE \A n \in Nicknames : active'[n] # None =>
          \/ /\ active[n] # None /\ active'[n].generation = active[n].generation
             /\ active'[n].owner \in {active[n].owner, None}
          \/ active[n] = None /\ \E s \in Sessions : ClaimIdentity(s, n)
<1>1. active \in Actives
  BY TypeParts
<1>2. CASE active' = active
  BY <1>2
<1>3. ASSUME NEW n \in Nicknames, NEW a, active' = [active EXCEPT ![n] = a],
             \/ a = None
             \/ /\ active[n] # None /\ a.generation = active[n].generation
                /\ a.owner \in {active[n].owner, None}
      PROVE \A m \in Nicknames : active'[m] # None =>
              /\ active[m] # None /\ active'[m].generation = active[m].generation
              /\ active'[m].owner \in {active[m].owner, None}
  BY <1>1, <1>3 DEF Actives
<1>4. CASE \E s \in Sessions, n \in Nicknames : ClaimIdentity(s, n)
  <2>1. PICK s \in Sessions, n \in Nicknames : ClaimIdentity(s, n)
    BY <1>4
  <2>2. \/ active' = active
        \/ active[n] = None /\ \E a : active' = [active EXCEPT ![n] = a]
    BY <2>1 DEF ClaimIdentity, claim_accepted, IsActive
  <2>. QED BY <1>1, <1>2, <2>1, <2>2 DEF Actives
<1>5. CASE \E s \in Sessions, token \in Tokens, t \in Samples : BeginMigration(s, token, t)
  <2>1. PICK s \in Sessions, token \in Tokens, t \in Samples : BeginMigration(s, token, t)
    BY <1>5
  <2>2. PICK p \in MigrationPermit :
          active' = [active EXCEPT ![session_bindings[s].nickname].permit = p]
    BY <2>1, BeginMigrationPermit
  <2>3. session_bindings[s].nickname \in Nicknames
        /\ active[session_bindings[s].nickname] \in ActiveIdentity
    BY <1>1, <2>1, TypeParts
    DEF BeginMigration, authorize, IsActive, Bindings, DeferredRelease, Actives
  <2>4. \A n \in Nicknames : active[n] \in ActiveIdentity =>
          /\ [active[n] EXCEPT !.permit = p].owner = active[n].owner
          /\ [active[n] EXCEPT !.permit = p].generation = active[n].generation
    BY DEF ActiveIdentity
  <2>5. active[session_bindings[s].nickname] # None
    BY <2>3, NoneAssumption
  <2>. QED BY <1>3, <2>2, <2>3, <2>4, <2>5
<1>6. CASE \E d \in Sessions, n \in Nicknames, token \in Tokens, t \in Samples :
             PreflightMigration(d, n, token, t)
  <2>1. PICK d \in Sessions, n \in Nicknames, token \in Tokens, t \in Samples :
          PreflightMigration(d, n, token, t)
    BY <1>6
  <2>2. /\ active' = [active EXCEPT ![n] =
                        [active[n] EXCEPT !.transfer_in_progress = next_transfer_id]]
        /\ active[n] # None
    BY <2>1 DEF PreflightMigration, validate_migration, IsActive
  <2>3. /\ [active[n] EXCEPT !.transfer_in_progress = next_transfer_id].owner
             = active[n].owner
        /\ [active[n] EXCEPT !.transfer_in_progress = next_transfer_id].generation
             = active[n].generation
    BY <1>1, <2>2 DEF Actives, ActiveIdentity
  <2>. QED BY <1>3, <2>2, <2>3
<1>7. CASE \E d \in Sessions : AbortMigration(d) \/ RejectMigration(d) \/ BurnMigration(d)
  <2>1. PICK d \in Sessions : preflight[d] # None /\ abort_preflighted_migration(d)
    BY <1>7 DEF AbortMigration, RejectMigration, BurnMigration
  <2>. DEFINE n == preflight[d].nickname
  <2>2. n \in Nicknames
    BY <2>1, TypeParts DEF Tickets, MigrationPreflight
  <2>3. \/ active' = active
        \/ /\ active[n] # None
           /\ active' = [active EXCEPT ![n] =
                           [active[n] EXCEPT !.transfer_in_progress = None]]
    BY <2>1 DEF abort_preflighted_migration, abort_applies, IsActive
  <2>4. active[n] # None =>
          /\ [active[n] EXCEPT !.transfer_in_progress = None].owner = active[n].owner
          /\ [active[n] EXCEPT !.transfer_in_progress = None].generation
               = active[n].generation
    BY <1>1, <2>2 DEF Actives, ActiveIdentity
  <2>. HIDE DEF n
  <2>. QED BY <1>2, <1>3, <2>2, <2>3, <2>4
<1>8. CASE \E s \in Sessions : CloseSession(s)
  <2>1. PICK s \in Sessions : CloseSession(s)
    BY <1>8
  <2>. DEFINE n == session_bindings[s].nickname
  <2>2. \/ active' = active
        \/ /\ n \in Nicknames /\ active[n] # None
           /\ \/ active' = [active EXCEPT ![n] = [active[n] EXCEPT !.owner = None]]
              \/ active' = [active EXCEPT ![n] = None]
    BY <2>1, TypeParts DEF CloseSession, IsActive, Bindings, DeferredRelease
  <2>3. n \in Nicknames /\ active[n] # None =>
          /\ [active[n] EXCEPT !.owner = None].owner = None
          /\ [active[n] EXCEPT !.owner = None].generation = active[n].generation
    BY <1>1 DEF Actives, ActiveIdentity
  <2>. HIDE DEF n
  <2>. QED BY <1>2, <1>3, <2>2, <2>3
<1>9. CASE MigrationExpiry \/ DrainOutboundProducers
  <2>1. PICK t : expire_migrations(t)
    BY <1>9 DEF MigrationExpiry, DrainOutboundProducers
  <2>2. /\ \A n \in Ownerless(t) : active'[n] = None
        /\ \A n \in Due(t) \ Ownerless(t) :
             active'[n] = [active[n] EXCEPT !.permit = None, !.transfer_in_progress = None]
        /\ \A n \in Nicknames \ Due(t) : active'[n] = active[n]
    BY <2>1, ExpireMoves
  <2>3. \A n \in Nicknames : active[n] # None =>
          LET a == [active[n] EXCEPT !.permit = None, !.transfer_in_progress = None]
          IN a.owner = active[n].owner /\ a.generation = active[n].generation
    BY <1>1 DEF Actives, ActiveIdentity
  <2>4. \A n \in Due(t) : active[n] # None
    BY DEF Due, IsActive
  <2>. QED BY <2>2, <2>3, <2>4
<1>10. CASE DrainSessions
  BY <1>10 DEF DrainSessions
<1>11. CASE \/ \E s \in Sessions, t \in Tasks : AdmitOperation(s, t)
            \/ CommandTurn \/ Quiesce \/ Tick \/ DropDatagram
            \/ \E n \in Nicknames : ReceiveDatagram(n)
            \/ \E t \in Tasks : AdmitUdpOperation(t)
            \/ \E t, u \in Tasks : RetainLease(t, u)
            \/ \E t \in Tasks : DropLease(t)
            \/ UNCHANGED vars
  BY <1>2, <1>11
  DEF AdmitOperation, CommandTurn, Quiesce, Tick, DropDatagram, ReceiveDatagram,
      AdmitUdpOperation, RetainLease, DropLease, vars, registry
<1>12. CASE \E d \in Sessions :
              CheckDrained(d) \/ Wake(d) \/ SubmitMigration(d) \/ CancelMigration(d)
  BY <1>2, <1>12 DEF CheckDrained, Wake, SubmitMigration, CancelMigration, registry
<1>. QED
  BY <1>4, <1>5, <1>6, <1>7, <1>8, <1>9, <1>10, <1>11, <1>12 DEF Next

\* The commit moves it by the permit that its ticket validated.
LEMMA CommitMoves ==
  ASSUME FenceInvariant, NEW d \in Sessions, CommitMigration(d),
         NEW n \in Nicknames, active[n] # None, active'[n] # None,
         active'[n].owner \notin {active[n].owner, None}
  PROVE LET p == active[n].permit
        IN /\ active[n].generation < active'[n].generation
           /\ active'[n].generation = next_generation
           /\ p # None
           /\ p.source_generation = active[n].generation
           /\ clock < p.expires_at
           /\ SourceIp[p.source_session] = SourceIp[active'[n].owner]
           /\ active'[n].permit = None
<1>. DEFINE a == [generation |-> next_generation, owner |-> d, permit |-> None,
                  transfer_in_progress |-> None]
<1>1. active' = [active EXCEPT ![preflight[d].nickname] = a]
  BY DEF CommitMigration
<1>2. a.generation = next_generation /\ a.owner = d /\ a.permit = None
  OBVIOUS
<1>. HIDE DEF a
<1>3. n = preflight[d].nickname /\ active'[n] = a
  BY <1>1, FenceParts DEF Actives
<1>4. /\ active[n].permit # None /\ clock < active[n].permit.expires_at
      /\ SourceIp[active[n].permit.source_session] = SourceIp[d]
      /\ active[n].permit.source_generation = active[n].generation
  BY <1>3 DEF CommitMigration, validate_preflighted_migration, validate_migration
<1>5. active[n].generation < next_generation
  BY FenceParts
<1>. QED BY <1>2, <1>3, <1>4, <1>5

LEMMA HeldApart ==
  ASSUME NEW act \in Actives, NEW ds \in SUBSET DeferredRelease, NEW next, Apart(act, ds, next),
         NEW n \in Nicknames
  PROVE /\ HeldBy(act, ds, n) = 0
           \/ (HeldBy(act, ds, n) \in Generations /\ HeldBy(act, ds, n) < next)
        /\ \A m \in Nicknames :
             HeldBy(act, ds, n) # 0 /\ HeldBy(act, ds, m) = HeldBy(act, ds, n) => m = n
<1>1. ASSUME NEW m \in Nicknames
      PROVE \/ act[m] # None /\ HeldBy(act, ds, m) = act[m].generation
            \/ /\ act[m] = None
               /\ \E d \in ds : d.nickname = m /\ HeldBy(act, ds, m) = d.generation
            \/ HeldBy(act, ds, m) = 0
  BY HeldByFacts
<1>2. \A m \in Nicknames : act[m] # None => act[m].generation \in Generations
  BY DEF Actives, ActiveIdentity
<1>3. \A d \in ds : d.generation \in Generations
  BY DEF DeferredRelease
<1>4. HeldBy(act, ds, n) = 0 \/ (HeldBy(act, ds, n) \in Generations /\ HeldBy(act, ds, n) < next)
  BY <1>1, <1>2, <1>3 DEF Apart
<1>5. ASSUME NEW m \in Nicknames,
             HeldBy(act, ds, n) # 0, HeldBy(act, ds, m) = HeldBy(act, ds, n)
      PROVE m = n
  <2>1. HeldBy(act, ds, m) # 0
    BY <1>5
  <2>2. CASE act[n] # None /\ HeldBy(act, ds, n) = act[n].generation
    <3>1. CASE act[m] # None /\ HeldBy(act, ds, m) = act[m].generation
      BY <1>5, <2>2, <3>1 DEF Apart
    <3>2. CASE \E d \in ds : d.nickname = m /\ HeldBy(act, ds, m) = d.generation
      BY <1>5, <2>2, <3>2 DEF Apart
    <3>. QED BY <1>1, <2>1, <3>1, <3>2
  <2>3. CASE \E d \in ds : d.nickname = n /\ HeldBy(act, ds, n) = d.generation
    <3>1. CASE act[m] # None /\ HeldBy(act, ds, m) = act[m].generation
      BY <1>5, <2>3, <3>1 DEF Apart
    <3>2. CASE \E d \in ds : d.nickname = m /\ HeldBy(act, ds, m) = d.generation
      BY <1>5, <2>3, <3>2 DEF Apart
    <3>. QED BY <1>1, <2>1, <3>1, <3>2
  <2>. QED BY <1>1, <1>5, <2>2, <2>3
<1>. QED BY <1>4, <1>5

LEMMA RetainedFacts ==
  ASSUME FenceInvariant, NEW n \in Nicknames
  PROVE /\ Retained(n) = 0 \/ Retained(n) \in Generations
        /\ Retained(n) < next_generation
BY FenceParts, RetainedIsHeld, HeldApart

LEMMA MovesByPermit ==
  ASSUME FenceInvariant, [Next]_vars, NEW n \in Nicknames, IsActive(n), active'[n] # None,
         active'[n].owner \notin {active[n].owner, None}
  PROVE /\ active[n].generation < active'[n].generation
        /\ \A m \in Nicknames : Retained(m) < active'[n].generation
        /\ active[n].permit # None
        /\ active[n].permit.source_generation = active[n].generation
        /\ clock < active[n].permit.expires_at
        /\ SourceIp[active[n].permit.source_session] = SourceIp[active'[n].owner]
        /\ active'[n].permit = None
<1>1. active[n] # None
  BY DEF IsActive
<1>2. PICK d \in Sessions : CommitMigration(d)
  BY <1>1, IdentitiesKept, FenceParts
<1>. QED BY <1>1, <1>2, CommitMoves, RetainedFacts

\* Ownership moves to another session only in a commit that spends a permit of
\* the current generation, before its deadline, for the same peer address.
THEOREM MigrationMovesOwnership == Spec => OwnershipMovesByPermit
<1>. DEFINE Moves ==
       \A n \in Nicknames :
         LET p == active[n].permit
         IN (IsActive(n) /\ active'[n] # None /\ active'[n].owner \notin {active[n].owner, None}) =>
              /\ active[n].generation < active'[n].generation
              /\ \A m \in Nicknames : Retained(m) < active'[n].generation
              /\ p # None
              /\ p.source_generation = active[n].generation
              /\ clock < p.expires_at
              /\ SourceIp[p.source_session] = SourceIp[active'[n].owner]
              /\ active'[n].permit = None
<1>1. FenceInvariant /\ [Next]_vars => [Moves]_vars
  BY MovesByPermit
<1>2. [][Moves]_vars => OwnershipMovesByPermit
  BY DEF OwnershipMovesByPermit
<1>. HIDE DEF Moves
<1>. QED BY <1>1, <1>2, InitFence, NextFence, PTL DEF Spec
-----------------------------------------------------------------------------
(* The registry implements GenerationFence.                                 *)

\* A lease is dropped, or starts on a generation that its nickname keeps.
LeaseStep ==
  \A t \in Tasks :
    \/ lease'[t] = lease[t]
    \/ lease'[t] = None
    \/ /\ lease[t] = None
       /\ \E n \in Nicknames : lease'[t].generation = Retained(n) /\ Retained(n)' = Retained(n)

LEMMA LeaseStarts ==
  ASSUME TypeOK, NEW t \in Tasks, NEW g, NEW depth, lease[t] = None,
         lease' = [lease EXCEPT ![t] = [generation |-> g, depth |-> depth]],
         \E n \in Nicknames : g = Retained(n) /\ Retained(n)' = Retained(n)
  PROVE LeaseStep
<1>1. lease'[t].generation = g /\ \A u \in Tasks \ {t} : lease'[u] = lease[u]
  BY DEF TypeOK
<1>. QED BY <1>1 DEF LeaseStep

LEMMA NextLease ==
  ASSUME FenceInvariant, [Next]_vars
  PROVE LeaseStep
<1>1. CASE UNCHANGED lease
  BY <1>1 DEF LeaseStep
<1>2. TypeOK
  BY FenceParts
<1>3. CASE \E s \in Sessions, t \in Tasks : AdmitOperation(s, t)
  <2>1. PICK s \in Sessions, t \in Tasks : AdmitOperation(s, t)
    BY <1>3
  <2>. DEFINE g == session_bindings[s].generation
  <2>2. PICK n \in Nicknames : active[n] # None /\ active[n].generation = g
    BY <1>2, <2>1, TypeParts DEF AdmitOperation, authorize, IsActive, Bindings, DeferredRelease
  <2>3. /\ lease[t] = None /\ active' = active
        /\ lease' = [lease EXCEPT ![t] = [generation |-> g, depth |-> 0]]
    BY <2>1 DEF AdmitOperation, registry
  <2>4. Retained(n) = g /\ Retained(n)' = Retained(n)
    BY <2>2, <2>3 DEF Retained, IsActive
  <2>. QED BY <1>2, <2>2, <2>3, <2>4, LeaseStarts
<1>4. CASE \E t \in Tasks : AdmitUdpOperation(t)
  <2>1. PICK t \in Tasks : AdmitUdpOperation(t)
    BY <1>4
  <2>. DEFINE g == active[Head(ingress).nickname].generation
  <2>2. PICK n \in Nicknames : active[n] # None /\ active[n].generation = g
    BY <1>2, <2>1, IngressTailType DEF AdmitUdpOperation, udp_admitted, IsActive
  <2>3. /\ lease[t] = None /\ active' = active
        /\ lease' = [lease EXCEPT ![t] = [generation |-> g, depth |-> 0]]
    BY <2>1 DEF AdmitUdpOperation, registry
  <2>4. Retained(n) = g /\ Retained(n)' = Retained(n)
    BY <2>2, <2>3 DEF Retained, IsActive
  <2>. QED BY <1>2, <2>2, <2>3, <2>4, LeaseStarts
<1>5. CASE \E t, u \in Tasks : RetainLease(t, u)
  <2>1. PICK t \in Tasks, u \in Tasks : RetainLease(t, u)
    BY <1>5
  <2>. DEFINE g == lease[t].generation
              depth == lease[t].depth + 1
  <2>2. /\ lease[u] = None /\ lease[t] # None /\ UNCHANGED <<active, deferred_releases>>
        /\ lease' = [lease EXCEPT ![u] = [generation |-> g, depth |-> depth]]
    BY <2>1 DEF RetainLease, registry, retained
  <2>3. PICK n \in Nicknames : Retained(n) = g
    BY <2>2, FenceParts, PinImpliesRetained DEF OperationsPinGeneration
  <2>4. Retained(n)' = Retained(n)
    BY <2>2 DEF Retained, IsActive
  <2>. HIDE DEF g, depth
  <2>. QED BY <1>2, <2>2, <2>3, <2>4, LeaseStarts
<1>6. CASE \E t \in Tasks : DropLease(t)
  <2>1. PICK t \in Tasks : lease' = [lease EXCEPT ![t] = None]
    BY <1>6 DEF DropLease
  <2>. QED BY <1>2, <2>1 DEF LeaseStep, TypeOK
<1>7. CASE \/ \E s \in Sessions, n \in Nicknames : ClaimIdentity(s, n)
           \/ \E s \in Sessions, token \in Tokens, t \in Samples : BeginMigration(s, token, t)
           \/ \E d \in Sessions, n \in Nicknames, token \in Tokens, t \in Samples :
                PreflightMigration(d, n, token, t)
           \/ \E d \in Sessions :
                AbortMigration(d) \/ RejectMigration(d) \/ BurnMigration(d) \/ CommitMigration(d)
           \/ \E s \in Sessions : CloseSession(s)
           \/ MigrationExpiry \/ DrainOutboundProducers \/ DrainSessions
  BY <1>1, <1>7
  DEF ClaimIdentity, BeginMigration, PreflightMigration, AbortMigration, RejectMigration,
      BurnMigration, CommitMigration, CloseSession, MigrationExpiry, DrainOutboundProducers,
      DrainSessions, tasks
<1>8. CASE \/ CommandTurn \/ Quiesce \/ Tick \/ DropDatagram
           \/ \E n \in Nicknames : ReceiveDatagram(n)
           \/ \E d \in Sessions :
                CheckDrained(d) \/ Wake(d) \/ SubmitMigration(d) \/ CancelMigration(d)
           \/ UNCHANGED vars
  BY <1>1, <1>8
  DEF CommandTurn, Quiesce, Tick, DropDatagram, ReceiveDatagram, CheckDrained, Wake,
      SubmitMigration, CancelMigration, vars, tasks
<1>. QED BY <1>3, <1>4, <1>5, <1>6, <1>7, <1>8 DEF Next

\* Every step of the registry is a step of the fence, or none at all.
LEMMA FenceStep ==
  ASSUME FenceInvariant, FenceInvariant', [Next]_vars
  PROVE [Fence!Next]_Fence!vars
<1>. DEFINE holder == [n \in Nicknames |-> Retained(n)]
            busy == [t \in Tasks |-> IF lease[t] = None THEN 0 ELSE lease[t].generation]
<1>1. TypeOK /\ TypeOK' /\ TurningOver /\ LeaseStep
  BY FenceParts, NextFence, NextLease DEF FenceInvariant, PinInvariant
<1>2. \A n \in Nicknames : Retained(n)' = HeldBy(active', deferred_releases', n)
  BY DEF Retained, HeldBy, IsActive
<1>3. /\ active' \in Actives /\ deferred_releases' \in SUBSET DeferredRelease
      /\ Apart(active', deferred_releases', next_generation')
  BY DEF FenceInvariant, PinInvariant, TypeOK, Actives, Apart
<1>4. /\ next_generation \in Nat /\ next_generation' \in Nat
      /\ next_generation <= next_generation' /\ next_generation' <= MaxGeneration
  <2>1. next_generation \in Nat /\ next_generation' \in Nat /\ next_generation' <= MaxGeneration
    BY <1>1 DEF TypeOK, Generations
  <2>2. next_generation' \in {next_generation, next_generation + 1}
    BY DEF Next, ClaimIdentity, BeginMigration, PreflightMigration, AbortMigration,
       RejectMigration, BurnMigration, CommitMigration, CloseSession, MigrationExpiry,
       DrainOutboundProducers, DrainSessions, AdmitOperation, CommandTurn, Quiesce, Tick,
       DropDatagram, ReceiveDatagram, AdmitUdpOperation, RetainLease, DropLease, CheckDrained,
       Wake, SubmitMigration, CancelMigration, vars, registry
  <2>. QED BY <2>1, <2>2
<1>5. \A n \in Nicknames :
        /\ Retained(n)' \in 0..MaxGeneration
        /\ \A m \in Nicknames : Retained(n)' # 0 /\ Retained(m)' = Retained(n)' => m = n
  <2>. SUFFICES ASSUME NEW n \in Nicknames
                PROVE /\ Retained(n)' \in 0..MaxGeneration
                      /\ \A m \in Nicknames :
                           Retained(n)' # 0 /\ Retained(m)' = Retained(n)' => m = n
    OBVIOUS
  <2>. DEFINE held(m) == HeldBy(active', deferred_releases', m)
  <2>1. /\ held(n) = 0 \/ held(n) \in Generations
        /\ \A m \in Nicknames : held(n) # 0 /\ held(m) = held(n) => m = n
    BY <1>3, HeldApart
  <2>2. \A m \in Nicknames : Retained(m)' = held(m)
    BY <1>2
  <2>3. 0 \in 0..MaxGeneration /\ Generations \subseteq 0..MaxGeneration
    BY GenerationType, ConstantsAssumption
  <2>. HIDE DEF held
  <2>. QED BY <2>1, <2>2, <2>3
<1>6. \A t \in Tasks : lease'[t] # None => lease'[t].generation \in 0..MaxGeneration
  BY <1>1, GenerationType DEF TypeOK, Lease
<1>7. ASSUME NEW n \in Nicknames, Retained(n)' # Retained(n)
      PROVE /\ Retained(n) = 0 \/ \A t \in Tasks : busy[t] # Retained(n)
            /\ \/ Retained(n)' = 0
               \/ /\ Retained(n)' \in next_generation .. (next_generation' - 1)
                  /\ \A m \in Nicknames \ {n} : Retained(m)' # Retained(n)'
  <2>1. /\ Retained(n) = 0 \/ (Retained(n) \in Generations /\ is_drained(Retained(n)))
        /\ \/ Retained(n)' = 0
           \/ Retained(n)' = next_generation /\ next_generation' = next_generation + 1
    BY <1>1, <1>7 DEF TurningOver
  <2>2. Retained(n) \in Generations /\ is_drained(Retained(n)) =>
          \A t \in Tasks : lease[t] # None => lease[t].generation # Retained(n)
    BY DrainedHasNoHolder DEF FenceInvariant, PinInvariant
  <2>3. Retained(n) \in Generations => Retained(n) # 0
    BY DEF Generations
  <2>4. Retained(n)' = next_generation => \A m \in Nicknames \ {n} : Retained(m)' # Retained(n)'
    BY <1>4, <1>5, FenceParts
  <2>. QED BY <1>4, <2>1, <2>2, <2>3, <2>4
<1>8. ASSUME NEW t \in Tasks, busy'[t] # busy[t]
      PROVE \/ busy'[t] = 0
            \/ /\ busy[t] = 0
               /\ \E n \in Nicknames : busy'[t] = holder[n] /\ holder'[n] = holder[n]
  <2>1. \/ lease'[t] = None
        \/ /\ lease[t] = None
           /\ \E n \in Nicknames : lease'[t].generation = Retained(n) /\ Retained(n)' = Retained(n)
    BY <1>1, <1>8 DEF LeaseStep
  <2>. QED BY <2>1
<1>9. holder' \in [Nicknames -> 0..MaxGeneration]
  BY <1>5
<1>10. busy' \in [Tasks -> 0..MaxGeneration]
  BY <1>6, ConstantsAssumption
<1>11. next_generation' \in next_generation .. MaxGeneration
  BY <1>1, <1>4 DEF TypeOK, Generations
<1>12. \A n \in Nicknames : holder'[n] # holder[n] => Fence!TurnOver(n)
  BY <1>7 DEF Fence!TurnOver, Fence!Idle
<1>13. \A t \in Tasks : busy'[t] # busy[t] => Fence!StartOrEnd(t)
  BY <1>8 DEF Fence!StartOrEnd
<1>14. Fence!Next
  BY <1>9, <1>10, <1>11, <1>12, <1>13 DEF Fence!Next
<1>. QED BY <1>14

LEMMA FenceInit ==
  ASSUME Init
  PROVE Fence!Init
BY DEF Init, Fence!Init, Retained, IsActive

\* The registry implements the abstract fence: a generation that holds a nickname
\* is released or replaced only while nobody works on it, and work starts only
\* on a generation that stays.
THEOREM RegistryImplementsFence == Spec => ImplementsFence
<1>1. Init => Fence!Init
  BY FenceInit
<1>2. FenceInvariant /\ FenceInvariant' /\ [Next]_vars => [Fence!Next]_Fence!vars
  BY FenceStep
<1>. QED
  BY <1>1, <1>2, InitFence, NextFence, PTL DEF Spec, ImplementsFence, Fence!Spec
-----------------------------------------------------------------------------
(* A queued datagram works for the generation its sender spoke to.          *)

\* A queued datagram is no younger than the arrival clock, and younger than the
\* activation of an identity only if it arrived for that very generation.
Stamped(queue, act, activated, epoch) ==
  \A i \in 1..Len(queue) :
    LET n == queue[i].nickname
    IN /\ queue[i].arrival_epoch <= epoch
       /\ act[n] # None /\ queue[i].arrival_epoch > activated[act[n].generation] =>
            queue[i].generation = act[n].generation

StampInvariant ==
  FenceInvariant /\ Stamped(ingress, active, activated_udp_epoch, arrival_epoch)

LEMMA QueueParts ==
  ASSUME TypeOK, NEW i \in 1..Len(ingress)
  PROVE /\ ingress[i] \in Datagram /\ ingress[i].nickname \in Nicknames
        /\ ingress[i].arrival_epoch \in Nat /\ arrival_epoch \in Nat
        /\ ingress[i].arrival_epoch \in 0..MaxArrivalEpoch
<1>1. ingress[i] \in Datagram
  BY DEF TypeOK
<1>2. 0..MaxArrivalEpoch \subseteq Nat
  BY ConstantsAssumption
<1>3. arrival_epoch \in Nat
  BY <1>2 DEF TypeOK
<1>4. ingress[i].nickname \in Nicknames /\ ingress[i].arrival_epoch \in 0..MaxArrivalEpoch
  BY <1>1 DEF Datagram
<1>. QED BY <1>1, <1>2, <1>3, <1>4

\* The arrival clock never goes back.
LEMMA ClockGrows ==
  ASSUME TypeOK
  PROVE Increment(arrival_epoch) >= arrival_epoch /\ Increment(arrival_epoch) \in Nat
BY ConstantsAssumption DEF TypeOK, Increment

\* Whoever is activated at the clock's next tick takes none of what is queued.
LEMMA ActivationStamps ==
  ASSUME StampInvariant, NEW n \in Nicknames, NEW a, a.generation = next_generation,
         next_generation \in Generations,
         active' = [active EXCEPT ![n] = a],
         arrival_epoch' = Increment(arrival_epoch),
         activated_udp_epoch' = [activated_udp_epoch EXCEPT ![next_generation] = arrival_epoch'],
         ingress' = ingress
  PROVE Stamped(ingress', active', activated_udp_epoch', arrival_epoch')
<1>. SUFFICES ASSUME NEW i \in 1..Len(ingress)
              PROVE LET m == ingress[i].nickname
                    IN /\ ingress[i].arrival_epoch <= arrival_epoch'
                       /\ active'[m] # None
                          /\ ingress[i].arrival_epoch > activated_udp_epoch'[active'[m].generation]
                            => ingress[i].generation = active'[m].generation
  BY DEF Stamped
<1>. DEFINE m == ingress[i].nickname
            at == ingress[i].arrival_epoch
<1>1. TypeOK /\ active \in Actives /\ activated_udp_epoch \in [Generations -> Nat]
  <2>1. TypeOK /\ active \in Actives
    BY FenceParts DEF StampInvariant
  <2>2. 0..MaxArrivalEpoch \subseteq Nat
    BY ConstantsAssumption
  <2>. QED BY <2>1, <2>2 DEF TypeOK
<1>2. /\ m \in Nicknames /\ at \in Nat /\ arrival_epoch \in Nat /\ arrival_epoch' \in Nat
      /\ at <= arrival_epoch /\ arrival_epoch <= arrival_epoch'
  BY <1>1, QueueParts, ClockGrows DEF StampInvariant, Stamped
<1>3. active[m] # None /\ at > activated_udp_epoch[active[m].generation] =>
        ingress[i].generation = active[m].generation
  BY DEF StampInvariant, Stamped
<1>4. active[m] # None => active[m].generation \in Generations \ {next_generation}
  BY <1>2, FenceParts DEF StampInvariant
<1>. HIDE DEF m, at
<1>5. CASE m = n
  <2>1. active'[m] = a /\ activated_udp_epoch'[a.generation] = arrival_epoch'
    BY <1>1, <1>2, <1>5 DEF Actives
  <2>. QED BY <1>2, <2>1 DEF m, at
<1>6. CASE m # n
  <2>1. active'[m] = active[m]
    BY <1>1, <1>2, <1>6 DEF Actives
  <2>2. active[m] # None =>
          activated_udp_epoch'[active[m].generation] = activated_udp_epoch[active[m].generation]
    BY <1>1, <1>4
  <2>. QED BY <1>2, <1>3, <2>1, <2>2 DEF m, at
<1>. QED BY <1>5, <1>6

\* Nothing else activates an identity.
LEMMA KeptStamps ==
  ASSUME StampInvariant, NEW queue,
         \A i \in 1..Len(queue) : \E j \in 1..Len(ingress) : queue[i] = ingress[j],
         \A n \in Nicknames : active'[n] # None =>
           active[n] # None /\ active'[n].generation = active[n].generation,
         arrival_epoch' \in {arrival_epoch, Increment(arrival_epoch)},
         activated_udp_epoch' = activated_udp_epoch
  PROVE Stamped(queue, active', activated_udp_epoch', arrival_epoch')
<1>. SUFFICES ASSUME NEW i \in 1..Len(queue)
              PROVE LET n == queue[i].nickname
                    IN /\ queue[i].arrival_epoch <= arrival_epoch'
                       /\ active'[n] # None
                          /\ queue[i].arrival_epoch > activated_udp_epoch'[active'[n].generation]
                            => queue[i].generation = active'[n].generation
  BY DEF Stamped
<1>1. PICK j \in 1..Len(ingress) : queue[i] = ingress[j]
  OBVIOUS
<1>. DEFINE d == ingress[j]
<1>2. /\ d.nickname \in Nicknames /\ d.arrival_epoch \in Nat /\ arrival_epoch \in Nat
      /\ arrival_epoch' \in Nat /\ arrival_epoch <= arrival_epoch'
  BY QueueParts, ClockGrows, FenceParts DEF StampInvariant
<1>3. /\ d.arrival_epoch <= arrival_epoch
      /\ active[d.nickname] # None
         /\ d.arrival_epoch > activated_udp_epoch[active[d.nickname].generation]
           => d.generation = active[d.nickname].generation
  BY DEF StampInvariant, Stamped
<1>. HIDE DEF d
<1>4. queue[i] = d
  BY <1>1 DEF d
<1>. QED BY <1>2, <1>3, <1>4

LEMMA ReceiveStamps ==
  ASSUME StampInvariant, NEW n \in Nicknames, ReceiveDatagram(n)
  PROVE Stamped(ingress', active', activated_udp_epoch', arrival_epoch')
<1>. DEFINE d == [nickname |-> n, arrival_epoch |-> arrival_epoch',
                  generation |-> IF IsActive(n) THEN active[n].generation ELSE 0]
<1>1. /\ arrival_epoch' = Increment(arrival_epoch) /\ ingress' = Append(ingress, d)
      /\ active' = active /\ activated_udp_epoch' = activated_udp_epoch
  BY DEF ReceiveDatagram, registry
<1>2. Stamped(ingress, active', activated_udp_epoch', arrival_epoch')
  BY <1>1, KeptStamps
<1>3. ingress \in Seq(Datagram) /\ arrival_epoch' \in Nat
  BY <1>1, FenceParts, ClockGrows DEF StampInvariant, TypeOK
<1>4. /\ d.nickname = n /\ d.arrival_epoch = arrival_epoch'
      /\ active'[n] # None => d.generation = active'[n].generation
  BY <1>1 DEF IsActive
<1>. HIDE DEF d
<1>5. /\ Len(ingress') = Len(ingress) + 1 /\ Len(ingress) \in Nat
      /\ \A i \in 1..Len(ingress) : ingress'[i] = ingress[i]
      /\ ingress'[Len(ingress) + 1] = d
  BY <1>1, <1>3
<1>. SUFFICES ASSUME NEW i \in 1..Len(ingress')
              PROVE LET m == ingress'[i].nickname
                    IN /\ ingress'[i].arrival_epoch <= arrival_epoch'
                       /\ active'[m] # None
                          /\ ingress'[i].arrival_epoch > activated_udp_epoch'[active'[m].generation]
                            => ingress'[i].generation = active'[m].generation
  BY DEF Stamped
<1>6. CASE i \in 1..Len(ingress)
  BY <1>2, <1>5, <1>6 DEF Stamped
<1>7. CASE i = Len(ingress) + 1
  BY <1>3, <1>4, <1>5, <1>7
<1>. QED BY <1>5, <1>6, <1>7

LEMMA TailQueue ==
  ASSUME TypeOK, ingress # <<>>, NEW i \in 1..Len(Tail(ingress))
  PROVE \E j \in 1..Len(ingress) : Tail(ingress)[i] = ingress[j]
<1>1. ingress \in Seq(Datagram) /\ Len(ingress) \in Nat
  BY DEF TypeOK
<1>2. Len(Tail(ingress)) = Len(ingress) - 1 /\ Tail(ingress)[i] = ingress[i + 1]
  BY <1>1
<1>. QED BY <1>1, <1>2

LEMMA NextStamps ==
  ASSUME StampInvariant, [Next]_vars
  PROVE StampInvariant'
<1>1. FenceInvariant' /\ TypeOK
  BY NextFence, FenceParts DEF StampInvariant
<1>2. CASE \E d \in Sessions : CommitMigration(d)
  <2>1. PICK d \in Sessions : CommitMigration(d)
    BY <1>2
  <2>. DEFINE n == preflight[d].nickname
              a == [generation |-> next_generation, owner |-> d, permit |-> None,
                    transfer_in_progress |-> None]
  <2>2. n \in Nicknames /\ a.generation = next_generation /\ next_generation \in Generations
    BY <1>1, <2>1, TypeParts DEF CommitMigration, Tickets, MigrationPreflight, TypeOK
  <2>3. /\ active' = [active EXCEPT ![n] = a]
        /\ arrival_epoch' = Increment(arrival_epoch)
        /\ activated_udp_epoch' = [activated_udp_epoch EXCEPT ![next_generation] = arrival_epoch']
        /\ ingress' = ingress
    BY <2>1 DEF CommitMigration
  <2>. HIDE DEF n, a
  <2>4. Stamped(ingress', active', activated_udp_epoch', arrival_epoch')
    BY <2>2, <2>3, ActivationStamps
  <2>. QED BY <1>1, <2>4 DEF StampInvariant, Stamped
<1>3. CASE \E s \in Sessions, n \in Nicknames : ClaimIdentity(s, n)
  <2>1. PICK s \in Sessions, n \in Nicknames : ClaimIdentity(s, n)
    BY <1>3
  <2>. DEFINE a == [generation |-> next_generation, owner |-> s, permit |-> None,
                    transfer_in_progress |-> None]
  <2>2. a.generation = next_generation /\ next_generation \in Generations
    BY <1>1 DEF TypeOK
  <2>3. /\ arrival_epoch' = Increment(arrival_epoch) /\ ingress' = ingress
        /\ \/ /\ active' = [active EXCEPT ![n] = a]
              /\ activated_udp_epoch' =
                   [activated_udp_epoch EXCEPT ![next_generation] = arrival_epoch']
           \/ UNCHANGED <<active, activated_udp_epoch>>
    BY <2>1 DEF ClaimIdentity
  <2>. HIDE DEF a
  <2>4. Stamped(ingress', active', activated_udp_epoch', arrival_epoch')
    BY <2>2, <2>3, ActivationStamps, KeptStamps
  <2>. QED BY <1>1, <2>4 DEF StampInvariant, Stamped
<1>4. CASE \E n \in Nicknames : ReceiveDatagram(n)
  <2>1. Stamped(ingress', active', activated_udp_epoch', arrival_epoch')
    BY <1>4, ReceiveStamps
  <2>. QED BY <1>1, <2>1 DEF StampInvariant, Stamped
<1>5. CASE /\ \A d \in Sessions : ~CommitMigration(d)
           /\ \A s \in Sessions, n \in Nicknames : ~ClaimIdentity(s, n)
           /\ \A n \in Nicknames : ~ReceiveDatagram(n)
  <2>1. \A n \in Nicknames : active'[n] # None =>
          active[n] # None /\ active'[n].generation = active[n].generation
    BY <1>1, <1>5, IdentitiesKept
  <2>2. /\ UNCHANGED <<arrival_epoch, activated_udp_epoch>>
        /\ ingress' = ingress \/ (ingress # <<>> /\ ingress' = Tail(ingress))
    BY <1>5
    DEF Next, BeginMigration, PreflightMigration, AbortMigration, RejectMigration,
        BurnMigration, CloseSession, MigrationExpiry, DrainOutboundProducers, DrainSessions,
        AdmitOperation, CommandTurn, Quiesce, Tick, DropDatagram, AdmitUdpOperation,
        RetainLease, DropLease, CheckDrained, Wake, SubmitMigration, CancelMigration, vars, udp
  <2>3. \A i \in 1..Len(ingress') : \E j \in 1..Len(ingress) : ingress'[i] = ingress[j]
    BY <1>1, <2>2, TailQueue
  <2>4. Stamped(ingress', active', activated_udp_epoch', arrival_epoch')
    BY <2>1, <2>2, <2>3, KeptStamps
  <2>. QED BY <1>1, <2>4 DEF StampInvariant, Stamped
<1>. QED BY <1>2, <1>3, <1>4, <1>5

LEMMA DatagramKept ==
  ASSUME StampInvariant, [Next]_vars, NEW t \in Tasks,
         ingress # <<>>, ingress' = Tail(ingress), lease[t] = None, lease'[t] # None
  PROVE lease'[t].generation = Head(ingress).generation
<1>1. TypeOK /\ ingress \in Seq(Datagram)
  BY FenceParts DEF StampInvariant, TypeOK
<1>2. ingress' # ingress
  BY <1>1
<1>3. PICK u \in Tasks : AdmitUdpOperation(u)
  BY <1>2
  DEF Next, ClaimIdentity, BeginMigration, PreflightMigration, AbortMigration,
      RejectMigration, BurnMigration, CommitMigration, CloseSession, MigrationExpiry,
      DrainOutboundProducers, DrainSessions, AdmitOperation, CommandTurn, Quiesce, Tick,
      DropDatagram, ReceiveDatagram, RetainLease, DropLease, CheckDrained,
      Wake, SubmitMigration, CancelMigration, vars, udp, tasks
<1>. DEFINE d == Head(ingress)
<1>4. /\ active[d.nickname] # None
      /\ d.arrival_epoch > activated_udp_epoch[active[d.nickname].generation]
      /\ lease' = [lease EXCEPT ![u] =
                     [generation |-> active[d.nickname].generation, depth |-> 0]]
  BY <1>3 DEF AdmitUdpOperation, udp_admitted, IsActive
<1>5. d = ingress[1] /\ 1 \in 1..Len(ingress)
  BY <1>1
<1>6. d.generation = active[d.nickname].generation
  BY <1>4, <1>5 DEF StampInvariant, Stamped
<1>. HIDE DEF d
<1>7. t = u /\ lease'[t].generation = active[d.nickname].generation
  BY <1>1, <1>4 DEF TypeOK
<1>. QED BY <1>6, <1>7 DEF d

\* However long a datagram sat in the ingress mailbox, the actor admits it for the
\* generation its sender spoke to, or not at all.
THEOREM DatagramsKeepTheirGeneration == Spec => DatagramKeepsItsGeneration
<1>. DEFINE Keeps ==
       \A t \in Tasks :
         (ingress # <<>> /\ ingress' = Tail(ingress) /\ lease[t] = None /\ lease'[t] # None) =>
           lease'[t].generation = Head(ingress).generation
<1>1. StampInvariant /\ [Next]_vars => [Keeps]_vars
  BY DatagramKept
<1>2. [][Keeps]_vars => DatagramKeepsItsGeneration
  BY DEF DatagramKeepsItsGeneration
<1>3. Init => StampInvariant
  <2>. SUFFICES ASSUME Init PROVE StampInvariant
    OBVIOUS
  <2>1. ingress = <<>> /\ Len(ingress) = 0
    BY DEF Init
  <2>2. Stamped(ingress, active, activated_udp_epoch, arrival_epoch)
    BY <2>1 DEF Stamped
  <2>. QED BY <2>2, InitFence DEF StampInvariant
<1>. HIDE DEF Keeps
<1>. QED BY <1>1, <1>2, <1>3, NextStamps, PTL DEF Spec
=============================================================================
