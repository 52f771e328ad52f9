# P5136 server: TLA+ models, model checking and proofs

This directory holds the formal models of the P5136 server (`src/crates`). They
cover the parts where the program's correctness depends on the order in which
independent tasks, clients, processes and failures act: the identity registry and
its migrations, the admission gate and graceful shutdown, the rooms and their races,
the riders' personal rooms, the UDP endpoints that follow an identity, the profile store
on disk, and the way a finished race's rewards reach that store.

- [1. The system](#1-the-system)
- [2. Modules](#2-modules)
- [3. Runs](#3-runs)
- [4. Findings](#4-findings)
- [5. Proofs](#5-proofs)
- [6. Fairness](#6-fairness)
- [7. What is not modelled](#7-what-is-not-modelled)
- [8. Plan](#8-plan)

Parse with `tlasany M.tla`, check with `tlc -config X.cfg M`, prove with
`tlapm M.tla`. `PROJECT.json` maps every definition to its source lines and lists
components, runs, mutants, hazards, findings and theorems.

## 1. The system

One process. A supervisor task (`runtime.rs`) starts everything and tears it down.
The *World* (`world.rs`) is an actor: one task owns all game state and serves a
bounded command mailbox, a one-second maintenance tick, completion mailboxes and the
UDP ingress in a biased `select!`; one turn runs to its end before the next begins.
Each TCP connection has its own session task (`session.rs`). Profile work runs on
blocking workers behind lanes (`profile_io.rs`); a reward pump (`runtime.rs`) hands
the World's reward attempts to them. Profiles live in directories that other
processes (GUI, maintenance commands) also write (`p5136-profile/src/store.rs`).

| component | state | operations | interacts through | hard part |
|---|---|---|---|---|
| identity registry (`identity.rs`, World glue) | active identities, session bindings, deferred releases, permits, shared operation gates, clocks | claim, admit, begin/preflight/commit/abort/reject/burn migration, close, sweep, drain | commands; leases and tickets held by other tasks; `Notify` | a generation ends while tasks still work on it; migrations race with expiry, disconnects and shutdown |
| wire operation gate (`operation_gate.rs`) | admission flags, two counters, bypass | begin, drop guard, close, wait for drain, bypass | mutex and `Notify`, by every session, the World and the supervisor | notifications follow the unlock; counters at their limit |
| supervisor and shutdown (`runtime.rs`) | phase of the teardown, flags | `shutdown`, `force_shutdown`, phases | World commands, joins of tasks | everyone waits on someone; force arrives at any point |
| session task (`session.rs`) | read loop, outbound queue, request guard | frames, writes, cancel, unwind | World mailbox, outbound channel | cancelled in the middle of a request or a write |
| World: loop, outbound publication (`world.rs`) | quiescing, sealed, mailboxes | quiesce, producer drain, publish, close | everything | work accepted before quiesce must still publish |
| World: settlement and rewards (`world.rs`, `runtime.rs`) | settlement per race, reward lanes, attempt ids | start, begin persistence, poll, expire, complete, finalize, retry | pump, workers, profile lanes | several attempts of one reward; credit and announcement are apart |
| profile I/O lanes (`profile_io.rs`) | lanes, job queue | admit, acquire, run | async mutex, blocking workers | a receipt keeps its lane across the mailbox |
| profile store (`store.rs`) | one directory of immutable revisions per rider | transaction, load or create, compaction | hard link, directory sync, other processes | power loss, stalled writers, compaction by others |
| profile progression (`progression.rs`) | run generation, last receipt | `apply_race_reward_once` | store transaction | retries, restarts, old runs |
| durable profile writers (`*_persistence.rs`) | accepted write per session | accept, job, completion | profile lanes, outbound reservation | accepted work during shutdown |
| UDP endpoints and relay (`udp_state.rs`, `udp_runtime.rs`) | a binding per generation and socket, arrival clock, mirror of the identities | claim, migrate, reconnect, bind, relay | mailbox of two readers, World, stored port reports | a datagram or a report older than a migration |
| protocol rooms and lobby (`world.rs`) | rooms, seats, slots, teams, AIs, master, membership map | create, join, leave, kick, lobby commands, start | World commands, identity events | long command sequences; seat, slot and team tables must agree |
| loading and racing (`world.rs`) | frozen roster, loading handshake, finishes, reward lanes | arm, ready, finish, deadlines, settle | clock, members leaving | leaving or coming back in every phase |
| MyRoom hub (`myroom_hub.rs`) | rooms by owner, seat index, known generations, password grants | enter, leave, disconnect, advance, ports, room info, protected reads | World commands, identity events, profile reads by sessions | three tables must agree; owners without a session; a read spans two turns |
| messenger, race objects (`messenger_hub.rs`, `race_object_registry.rs`) | presence, item objects | announce, spawn, collect | identity events | follow identity changes |
| codecs, catalogs, client oracle, connector, GUI, archives, native sidecar | – | – | – | parsing, I/O, user interface |

What makes them correct:

- *registry*: one generation per nickname, which stays while operations hold it;
  ownership moves only by a live permit; each freeze has one ticket that ends it; no
  drain wake-up is lost; while the server runs, nothing stays ownerless.
- *gate, shutdown*: counters equal guards; "drained" stays true; admitted requests and
  accepted work finish before the World is sealed; published batches are written
  before sessions go; a shutdown ends, or waits for a reward lane until it is forced.
- *store*: no acknowledged update is lost; a readable revision remains; retention
  holds; the directory acts as one register.
- *rooms*: seats, slots and teams agree; a master who is there; a rider in one room;
  a race has someone in it, waits for someone who is there, counts only those frozen.
- *MyRoom*: seats, rooms and generations agree; a member is retained under the generation
  that is known; a protected read was paid for with the password that is set; the
  World stops for known causes only.
- *UDP*: a rider is reached at, and shown with, an address of the current generation;
  the mirror never refuses what the registry admits.
- *rewards*: credited once, announced only when durable, lanes owned by exactly the
  races in progress, a reward the World waits for is never refused.

## 2. Modules

| module | models | proofs |
|---|---|---|
| `IdentityRegistry` | the registry, the World handlers that drive it, lease and ticket holders, the UDP arrival clock | `IdentityRegistryProofs` |
| `GenerationFence` | abstract: what the registry promises to the rest of the server | – |
| `WireOperationGate` | the gate's methods, no behaviour of its own | – |
| `WireOperations` | the gate with arbitrary clients | `WireOperationsProofs` |
| `GracefulShutdown` | supervisor, sessions, World and pump on top of `WireOperationGate` | `GracefulShutdownProofs` |
| `ProtocolRooms` | rooms, lobby commands, the race of a room from start to settlement | `ProtocolRoomsProofs` |
| `UdpEndpoints` | arrival clock, readers, mirror and routes of the UDP actor, ports a room shows | `UdpEndpointsProofs` |
| `MyRoomHub` | the hub and the World's commands on it, identities as far as it follows them | `MyRoomHubProofs` |
| `ProfileStore` | one rider's directory and the processes that write it | `ProfileStoreProofs` |
| `ProfileRegister` | abstract: one register with promises | – |
| `RewardSettlement` | settlements, attempts, pump, workers, receipts, restarts | `RewardSettlementProofs` |
| `MC...` | symmetry sets and model values for TLC | – |

`GracefulShutdown` extends `WireOperationGate`; `WireOperations` is the same gate with
any client. `IdentityRegistry` implements `GenerationFence` and `ProfileStore`
implements `ProfileRegister` (`INSTANCE ... WITH`). `RewardSettlement` treats one
store transaction as a single step with an uncertain sync; `ProfileStore` is the
argument that this is what a transaction is. `ProtocolRooms` sees an identity as a
generation, a channel and whether it has a session, and a settlement as the stages it
passes; `IdentityRegistry` and `RewardSettlement` hold the detail. `UdpEndpoints` sees an
identity as the registry's clock stamps, host and status, `MyRoomHub` as a generation and
whether a session owns it.

### IdentityRegistry

One World turn is one action: `ClaimIdentity`, `BeginMigration`, `PreflightMigration`,
`AbortMigration`, `RejectMigration`, `BurnMigration`, `CommitMigration`,
`CloseSession`, `MigrationExpiry` (the tick's sweep), `Quiesce`,
`DrainOutboundProducers`, `DrainSessions`, `AdmitUdpOperation`. `CommandTurn` is any
other command: like every turn it flushes the releases that have become possible.
`RetainLease` and `DropLease` are other tasks; `CheckDrained`, `Wake`,
`SubmitMigration` and `CancelMigration` are the steps of a destination session's wait,
with the registration between its two checks. A permit keeps its transfer flag, a
generation its gate (`gate_state`: open, retired, or the freezing transfer), exactly
as the code encodes them in one `u64`.

Abstractions: a nickname stands for its canonical key and user number; a token for the
migration token and its channel; the compare-and-swap loops inside one gate are one
step, since admission and freeze both run in the actor; sessions are all registered at
the start and never reused. A session close that the World defers for a pending
rider-equipment write (`world.rs` 7999-8021) is taken as a later close.

### WireOperationGate, WireOperations

Each method is one critical section; the `notify_waiters` that follows the unlock is
an action of its own (`notifying`). A wait creates its `Notified` future, reads under
the lock, and parks, in three actions. `MaxActive` is `usize::MAX`: an exhausted
counter closes its phase.

### GracefulShutdown

The supervisor runs through `GracefulOrder` or `AbandonedOrder`, phase by phase, as
`finish_graceful_core_runtimes` and `finish_abandoned_core_runtimes` do. A session task
has the branches of its `select!`, the flushed prefix of queued batches, and its
unwinding. Batches are counted: each holds a guard of the gate from reservation to
write or drop. A player's race is a lane of its session (racing, queued, in flight,
ready, failed), an accepted profile write has a reserved echo. The pump is running,
draining, failing (it retains an error, takes no new work and reports what is in flight),
stopped (`Ok`) or failed (`Err`): `PumpErrs` is a worker that panics or an
infrastructure failure, `PumpFails` the return of the retained error or of a World that is
gone, `PumpBreaks` any other error of the World's answers. A pump that fails leaves lanes
taken. While the server serves, its end is the end of serving (`LosePump`); on the graceful
path its error is kept and the path goes on (`StopPump`; `runtime.rs` 2017-2032).
`Talkers`, `Asks` and `Mishaps` bound the environment. Reward and pump completions are applied when they
arrive and not in mailbox order: they commute with quiesce. A fan-out reaches one
recipient per turn. Reward retries are in `RewardSettlement`.

### ProtocolRooms

One turn of the World is one action: the command and then `Commit`, the part of
`advance_loading` that needs no time, which runs at the end of every turn: it drops
those who are gone from the loading handshake, schedules the start once all are ready,
aborts a race that has no exact participant left and removes empty rooms. Deadlines
(`LoadingTimesOut`, `StartRace`, `BeginPersistence`, `Finalize`) are actions that may come
at any moment. `Exit` is the one path out of a room, used by leave, kick, disconnect,
release and a migration to another channel. `IsRoom` states what a room record holds; one
map `members` stands for `members_by_id` and `observers`, which share the player ids.

A refused command changes nothing and is no action. AI changes, closed slots, master
succession, teams, rankings and the winner follow the code's own order of choice (lowest
vacant id, blue on a tie). In team rooms slots are closed in pairs, as the code demands.

### UdpEndpoints

Two readers stamp datagrams under the clock's lock (`Receive`) and queue them; the World
takes them from either in any order (`Dispatch`, `Discard`). `Claim`, `Migrate`,
`Disconnect`, `Retire`, `Release` are the World's identity turns with their calls to the UDP
actor, `Reconnect` is `AuthorizeUdpRebind`. `mirror` is the actor's own table of identities,
`boundary` the epoch of a reconnect, `stopped` the answer that ends the World. `Send` and
`Stored` are a port report on its way through the profile writer, `Enter` and `Leave` a
room's use of the port (`advertised`). `fence` is a history variable, read by properties
only. A route of a generation that was superseded while its owner migrated stays in the
table after that owner's release, until a later generation binds: a release removes only
its exact generation. `Target` is why this does no harm, and `RoutesBehind` says so.

### MyRoomHub

One World turn is one action; the hub plans, locks and commits within it. `Enter` is
`MyRoomHub::enter`, reached by `EnterOwn`, `Reenter`, `EnterDirect` and `EnterRandom`, the
ways `myroom_entry` chooses an owner; `ExitRoom` is `Secede` and `EnterClientStage`.
`Login`, `Close`, `ExpireMigrations`, `CollectDrained`, `Migrate` and `Release` are the
identity's turns with their hub transitions, of which a login has none. A rider without a
session is "ownerless" (a permit keeps him), "draining" (an operation still holds a lease)
or "released": given up, alone or with others, and released by the World, one after the
other, before its turn ends. `RefreshPresentation` is the `GetRider` that turns
the offline binding of a visited owner into his own. Between turns a session reads a
profile: `PrepareRead` ... `PublishRead` and `RegisterInfo` ... `CompleteInfo`. A hub error
that leaves the actor loop (`MyRoomLifecycleError`) is `Halt`; nothing follows it.

A transition that others in the room see is published before it is committed, and
`Addressable` says to whom it can be: to a session, or past a rider whom a permit keeps or
who is released in this turn. Anybody else in the audience is an `AudienceIdentityMismatch`
(`Mismatch`). `Enter`, `ExitRoom`, `PeerCommand` and `Release` publish to the room; a
migration, a port, and a refreshed presentation are committed silently
(`commit_silent_myroom_transition`, `world.rs` 7590-7600, 9744-9895, 10111, 10135), and
`CompleteInfo` echoes to the writer alone. A full or closed queue refuses a command
(`commit_myroom_command_transition`) and is no action there, but stops the World when a
room-mate is released (`reserve_myroom_outbound`): the second way out of `Release`.

The three tables are `rooms`, `memberships` and `generations`; `grants`, `plans` and
`writes` are what a session is waiting for. `proven` and `served` are history variables, read
by one property only. A room revision is compared for equality alone, and only among the room
of one owner and the grants and plans for it, so the model takes the smallest that none of
these holds; the code counts up. A password is right or absent, as the policy
says. What the code refuses without an effect is no action. That a rider who enters a personal room leaves a
protocol room first is in `ProtocolRooms` (`Exit`).

### ProfileStore

A store is one process; the per-nickname mutex gives it one call at a time. The steps
are the system calls: `List` (with the clean-up of published temporaries), `Read`,
`Prepare` (a synced temporary), `Reclean` and the second listing, `RemoveVictim`,
`SyncRemovals`, `Link`, `Answer` (the directory sync and its outcome), `Unchanged`
(the confirming sync). `images` is the set of directories a power loss may leave: the
visible one and those passed through since the last sync. Damaged revisions, including
a damaged tail, exist in `Init`.

Assumption on the environment: the file system persists the operations on one
directory in order. The sixteen attempts of the code's retry loops are any number of
`Retry`s ended by `Abandon`. A temporary that outlives its writer is removed by the
next clean-up once its destination exists; this is what stops a writer that stalled
before its hard link from publishing a revision number that compaction has freed
(mutant `superseded_never`), and the comments of `transaction` do not mention it.

### RewardSettlement

A race is named by its epoch. `StartRace` takes the lanes, `Launch` and
`BeginPersistence` bring it to its rewards, `PollIssues` expires leases and hands out
attempts, `AcquireLane`, `ApplyReward`, `RejectReward` and `JobFails` are the worker,
`Complete` is the report with the lease checked again, `Finalize` announces and
releases. `RetryDeadLetter` is the operator, `Restart` and `PowerLoss` end the process
at any point and begin a new run generation. Due times and lease deadlines may fall
at any moment, so attempts of one reward overlap in every order. `profile` is what the
directory shows, `stored` what a power loss leaves.

Abstractions: the phases between start and settlement deadline are "loading" and
"racing"; pending race fan-outs and full queues are delays of `Finalize`; a panicked
worker is an infrastructure failure; receipt mismatches and missing participants are
branches no state reaches; the refresh of MyRoom after a receipt is left out; a batch
that runs past the last 64-bit attempt number, which ends the pump, is not taken.

## 3. Runs

All runs but `udp_endpoints` keep `CHECK_DEADLOCK FALSE`: the server really stops, by
shutdown, by an error that ends the actor, or at the last value of a counter.

| run | instance | states | question |
|---|---|---|---|
| `registry_safety` | 1 nickname, 4 sessions (one from another address), 2 tasks, 4 generations, transfer ids to 3, clock 0..2 | 921k | Do leases, freezes, permits, generations and releases stay consistent through migrations, disconnects, expiry and shutdown; does ownership move by permit only; does the registry implement `GenerationFence`? |
| `registry_liveness` | 1 nickname, 2 sessions, 2 tasks, 3 generations, UDP ingress of 1 with 2 arrival epochs | 60k | Do migration requests end, is what is ownerless released while the server runs (and while it quiesces, if the producer drain is reached), is a datagram admitted only for its generation? |
| `wire_operations` | 3 tasks, 2 closers, 2 waiters, counters to 2 | 259k | Is the gate exact, its drain final, its notification never lost? |
| `graceful_peers` | 2 sessions, one of which publishes to both, writes its profile and races; connections and the pump fail | 2.0M | Does accepted work finish before the World is quiesced, sealed and sessions are torn down? |
| `graceful_liveness` | 1 session that publishes, writes and races; connection, transport and pump failures, force | 475k | Does a shutdown end, graceful, forced or after a failure, unless it waits for a reward lane, and then as soon as it is forced? |
| `graceful_race` | 1 session that races, connection and transport failures, force | violation | Does a graceful shutdown end with a race in progress? |
| `rooms_lobby` | 2 racers and a referee, 1 room, a solo and a team channel, 2 seats, 1 gallery, AIs and closed slots | 381k | Do seats, slots, teams, rankings and the master stay coherent under all commands, does an armed loading end? |
| `rooms_race` | 2 racers, 2 rooms, 2 races, 2 generations, 2 channels | 767k | Is a rider in one room only, has each lane its race, each race its participants, each finish its generation? |
| `udp_endpoints` | 2 riders for 1 place, 2 hosts, 2 ports, 2 generations, 4 arrival epochs, 1 waiting datagram per reader | 2.3M | Is a rider ever reached or shown at an address of an earlier generation or before a reconnect, is the World ever refused? |
| `myroom_visits` | 3 riders who log in and 1 who is always offline, 1 visitors' seat, capacity 3, 1 migration, 2 policies, 1 resource | 519k | Do seats, rooms and generations agree after every order of visits, lost sessions and releases, are ports and protected reads current, what can stop the World? |
| `profile_store` | 2 processes, 4 updates, retention 3, revisions to 6 | 660k | Is an acknowledged update ever lost, does the directory act as a register? |
| `reward_settlement` | 2 riders, 2 runs, 2 races per run, 3 attempts, 2 failures, 2 workers | 2.2M | Is a reward credited once, announced only when durable, never refused as stale while awaited? |

Why the bounds suffice. *Registry*: sessions are the owner, the destination, a third that
interferes with either, and one from an address a permit does not cover; two tasks let a lease outlive another's; four
generations give claim, migration, second migration and the refusal at the limit; a
time to live of one tick lets a permit expire at each point of a migration. The limits
are the code's own (`checked_add`, `u64::MAX`), only smaller. *Gate*: the counters'
limit is below the number of tasks, so exhaustion happens; supervisor and session wait
at once. *Shutdown*: a queue of one batch makes it full; two sessions give every
cross-publication; the pump fails in any of its states; the single-session run adds failures
of every kind, and force at every point of a wait for a race; the gate's counters
exceed what the queues can hold, as a `usize` does. *Rooms*: two seats
make rooms full, with each half of a team grid one slot; the referee is the only rider who
is master without racing, so three riders give every succession; two rooms, two races and
two generations let a rider leave one race, come back under a new identity, and start or
join another while the first settles. *UDP*: one place for two riders makes the limit of
the mirror matter; four epochs are an activation, a datagram, a reconnect or migration, and
one more datagram, and the clock saturates at the last, as the code's does; one waiting
datagram per reader already overtakes the World's turns. *MyRoom*: a capacity of three is
reached by the three riders who log in, and passed by the hub alone when the fourth, offline
one is visited; one rider migrates and reports ports, one edits his room's policy, one reads, and all of
them move, so that a room's owner, its guest and a third who visits that guest's room are
present at once; each of the three may drain, and two may be released in one turn
(only the rider who migrates can have a permit that expires; drained leases are collected
together) while they sit in one room;
one seat is full at the first visitor, and one resource is enough since grants are kept per
rider and compared whole. *Store*: two
processes race at each system call, retention 3 of 6 revisions makes compaction
happen again and again, and a third update can free the number a stalled writer holds.
*Rewards*: two riders of one race give partial success, two races in sequence give
stale receipts, two failures give retry then dead letter, three attempts give overlap
and exhaustion, two generations give restart.

Each property has a mutant in the module it speaks of (`\* Mutant: ...`): an operator
in which a guard is dropped, a reset forgotten or an order swapped, with which TLC
finds the property violated.

## 4. Findings

1. **Graceful shutdown hangs with a race in progress** (`graceful_race`,
   `GracefulShutdownEnds`). `finish_graceful_core_runtimes` quiesces the World and then
   joins the reward pump (`runtime.rs:2017`). Unless it fails, the draining pump returns
   only when every reward lane is free; lanes are freed by `try_finalize_settlement`, and that is called
   by `advance_loading`, frozen while quiescing (`world.rs:5864`), and by
   `drain_outbound_producers_once` (`world.rs:6052`), a later phase of the same path.
   Only a failing pump or a forced shutdown ends the wait (`ShutdownEnds`). The repository's test of
   this situation calls the producer drain directly, without a pump.

What else the models show of the code; no run asks for it.

- *A reported dead letter cannot be retried.* The documentation of `ServerHandle::shutdown`
  (`runtime.rs:820-823`) tells the caller to retry it through the World and call `shutdown`
  again; the World is quiescing by then and refuses the command (`world.rs:13746`;
  `RetryDeadLetter` of `GracefulShutdown` answers "refused").
- *An owner who was visited while offline can end the actor's loop by logging in.* Visitors
  bring him into the hub under `IdentityGeneration::OFFLINE_MYROOM`. Until his `GetRider`
  replaces it (`refresh_myroom_presentation`), any other question about his membership, by
  one of his commands or datagrams or by another rider's choice of a random room, presents
  his own generation, which `membership_if_member` takes for "a stale or forged binding"
  (`myroom_hub.rs:1445-1447`), and "any error at this boundary stops the world actor"
  (`world.rs:1466-1468`). A rider between two sessions of a migration is bound as
  offline too. `Halt` with a stale generation in `MyRoomHub`.
- *Offline owners count against the hub's capacity.* It "matches the runtime admission limit"
  (`myroom_hub.rs:1244-1245`), which riders with sessions may fill; one visit more to an
  offline owner is then a hub error that stops the World.
- *A room-mate whose closed session drains stops the World.* A session closes while an
  operation holds its lease; the rider keeps his seat until the lease is dropped. A command
  that publishes to his room meanwhile, or the release of another room-mate, finds him
  neither active, nor ownerless with a permit (`identity.rs:1622-1635`), nor released in this
  turn: `AudienceIdentityMismatch` (`world.rs:12341-12346`).
- *A full queue at a release stops the World.* When a rider is released, those left in the
  rooms are told; unlike for a command, a queue of theirs that is full or closed is
  `OutboundUnavailable` (`world.rs:12364-12372`, from 12135 and 12599-12605).

`StopsHaveACause` says that the last four are the only ways by which the modelled commands,
migrations and releases stop the World through the personal rooms. In particular a room-mate
without a session whom a permit keeps is no cause, nor are several room-mates who
are released in one turn (mutant `Addressable_batch_forgotten`).

## 5. Proofs

TLAPS checks these for every value of the constants that meets the named assumptions
(`ConstantsAssumption`, `GateAssumption`, `TasksAssumption`, `CallersAssumption`,
`CapacityAssumption`, `RewardConstants`, `UdpConstants`, `HubConstants`, `StoreConstants`,
`RoomConstants`). The assumptions ask for finite sets of names and tasks and for positive
limits, of the store for a retention of at least three (it is 64, see *StoreInv*), and of
the gate that serves the sessions that a counter (a `usize`) can count more than all their
queues hold.

| theorem | statement | argument |
|---|---|---|
| `IdentityRegistryProofs!TypeCorrect` | `Spec => []TypeOK` | inductive as it stands; one lemma per action |
| `IdentityRegistryProofs!OperationsPinned` | `Spec => []OperationsPinGeneration` | `PinInvariant`, see below |
| `IdentityRegistryProofs!SidecarsAgree` | `Spec => []GenerationsAgree` | `FenceInvariant`, see below |
| `IdentityRegistryProofs!FreezesAreAnswered` | `Spec => []FreezeHasOneTicket` | `FenceInvariant` |
| `IdentityRegistryProofs!OwnershipRecovers` | `Spec => []OwnershipIsRecoverable` | `FenceInvariant` |
| `IdentityRegistryProofs!NoWakeupIsLost` | `Spec => []NoLostDrainWakeup` | `FenceInvariant` |
| `IdentityRegistryProofs!MigrationMovesOwnership` | `Spec => OwnershipMovesByPermit` | `FenceInvariant`: only a commit names a new owner |
| `IdentityRegistryProofs!DatagramsKeepTheirGeneration` | `Spec => DatagramKeepsItsGeneration` | `StampInvariant`, see below |
| `IdentityRegistryProofs!RegistryImplementsFence` | `Spec => ImplementsFence` | each step is a `TurningOver` and a `LeaseStep` |
| `WireOperationsProofs!TypeCorrect` | `Spec => []TypeOK` | inductive |
| `WireOperationsProofs!NoWakeupIsLost` | `Spec => []NoLostGateWakeup` | inductive with the type invariant |
| `WireOperationsProofs!DrainAnswersAreFinal` | `Spec => []DrainIsFinal` | `DrainInv`: a wait for a drain is always on a closed phase |
| `WireOperationsProofs!CountersAreExact` | `Spec => []GuardsCounted` | cardinality of the set of holders, one up or one down |
| `RewardSettlementProofs!NoDoubleCredit` | `Spec => []CreditedOnce` | `ReceiptsInv`, see below |
| `UdpEndpointsProofs!RelaysGoToFreshAddresses` | `Spec => []RoutesAreFresh` | `EndpointInv`, see below |
| `UdpEndpointsProofs!RoomsShowCurrentPorts` | `Spec => []AdvertisedIsCurrent` | `EndpointInv` |
| `UdpEndpointsProofs!WorldIsNeverRefused` | `Spec => []WorldGoesOn` | `EndpointInv` |
| `RewardSettlementProofs!NothingAheadOfDisk` | `Spec => []WorldNeverAhead` | `AheadInv`, see below |
| `RewardSettlementProofs!RewardsStayAcceptable` | `Spec => []CurrentRewardsAccepted` | `AcceptInv`, see below |
| `RewardSettlementProofs!RewardTyped` | `Spec => []TypeOK` | `AcceptInv` and `BoundsInv`: failures and attempt numbers stay in range |
| `MyRoomHubProofs!HubStaysSound` | `Spec => []HubIsSound` | `HubInv`, see below |
| `MyRoomHubProofs!PresenceStaysCurrent` | `Spec => []PresenceIsCurrent` | `FollowInv`, see below |
| `MyRoomHubProofs!TheWorldStopsForACause` | `Spec => []StopsHaveACause` | `FollowInv` |
| `MyRoomHubProofs!ReadsStayEntitled` | `Spec => ReadsAreEntitled` | `ReadInv`, see below |
| `MyRoomHubProofs!HubTyped` | `Spec => []TypeOK` | `ReadInv` and `ErrorTypes`: the error names a rider and a generation |
| `ProfileStoreProofs!NoPromiseIsBroken` | `Spec => []PromisesSurvive` | `StoreInv`, see below |
| `ProfileStoreProofs!DirectoriesStayBounded` | `Spec => []RetentionHolds` | `StoreInv` |
| `ProfileStoreProofs!AReadableProfileRemains` | `Spec => ReadableStaysReadable` | `StoreInv` |
| `ProfileStoreProofs!StoresImplementRegister` | `Spec => ImplementsRegister` | `StoreInv`: commit at `Link`, answer at the last sync |
| `ProtocolRoomsProofs!RoomsTyped` | `Spec => []TypeOK` | `RoomsInv`, see below |
| `ProtocolRoomsProofs!RidersHaveOneRoom` | `Spec => []MembershipCoherent` | `RoomsInv` |
| `ProtocolRoomsProofs!LanesFollowRosters` | `Spec => []LanesMatchRosters` | `RoomsInv` |
| `ProtocolRoomsProofs!RacesStayAttended` | `Spec => []RacesAreAttended` | `RoomsInv` |
| `ProtocolRoomsProofs!FinishesStayExact` | `Spec => FinishesAreExact` | `RoomsInv`: only `Finish` adds one |
| `ProtocolRoomsProofs!RoomsStayCoherent` | `Spec => []RoomsCoherent` | `CohInv`, see below |
| `GracefulShutdownProofs!ShutdownTyped` | `Spec => []TypeOK` | `ShutdownInv`, see below |
| `GracefulShutdownProofs!GuardsAreWork` | `Spec => []GuardsMatchWork` | `ShutdownInv` |
| `GracefulShutdownProofs!RequestsAreServed` | `Spec => []RequestsFinishBeforeQuiesce` | `ShutdownInv` |
| `GracefulShutdownProofs!SealFollowsProducers` | `Spec => []SealedAfterProducers` | `ShutdownInv` |
| `GracefulShutdownProofs!PublicationsAreWritten` | `Spec => []PublicationsWrittenBeforeTeardown` | `ShutdownInv` |

*OperationsPinned.* Two facts have to be added (`PinInvariant`). A gate counts exactly
the leases of its generation (`LeasesCounted`), which turns "drained" into "no lease";
and active identities and deferred releases hold different generations, all allocated,
at most one per nickname (`Apart`), so that the generation a commit, a release or the
sweep retires is held by nobody else.

*FenceInvariant.* It follows the generation of a nickname through a turn: `HeldBy` names it
for the identities and releases the turn has at hand, before the flush that ends the turn
releases what has drained. A turn that moves identities to the releases changes nobody's
generation (`MoveHolds`), the flush takes away only drained ones and tells the sidecars
of exactly those (`FlushHolds`, `FlushTracks`), and only a claim and a commit hand out a new
one. A freeze is tied to its ticket by the transfer number, and that is used once
(`OneTicketEach`); a gate of a generation not yet handed out is open (`Untouched`), or a
claim might start out frozen. A parked ticket holder still waits because whoever reopens a
gate notifies (`ReopenWaiting`), a gate is retired only when drained, and the last lease
notifies. The capacity of the World is a count of names; a claim counts active identities
and releases instead, which are no fewer since they are apart (`ClaimCapacity`). For the
refinement, a drained generation has no lease (`LeasesCounted`), so what turns over is idle,
and a generation handed out is above all that are held (`HeldApart`).

*StampInvariant.* A queued datagram is no younger than the arrival clock, and each
activation is stamped with the clock's next value; so what is younger than the activation
of an identity arrived when that very generation was there. When the clock is saturated
nothing is younger, and nothing is admitted.

*NoDoubleCredit.* A profile keeps only its last receipt, so "at most once" needs to
know that the last receipt is as new as every race ever credited. Then a key that is
not the last receipt and is not refused is newer than all of them, and was never
credited (`CreditKeepsOrder`, on the total order of run generations and epochs). The
same is kept for the profile a power loss leaves. Lanes and attempts play no part in
this argument: they matter for `CurrentRewardsAccepted`, that is, for no reward being
lost.

*NothingAheadOfDisk.* The claim "this credit is on disk" travels from the directory
sync to the worker's result, to the settlement's entry, to the settlement that is
ready, and to the riders; `AheadInv` states it for each of these places. A stale report
is dropped (`Current`), and a restart drops all claims but the announced ones. That
claims stay true needs the disk never to take a credit back: it is behind the
directory in every credit, and by `ReceiptsInv` no count passes one. Finally, an exact
retry reports success without a new credit, which is right only because the last
receipt of a profile is one it was credited for (`LastCredited`).

*AcceptInv.* An attempt that its lease gave up may still be running, and would spoil a later
reward if it left a newer receipt. The receipts of earlier runs have a lower generation; for
those of this run the reward lanes decide. A rider's lane names the one race in progress
that has him (`RacesOwnLanes`), and no worker and no receipt of this run is of a later race
than the lane's (`WorkersBehind`, `ReceiptsBehind`). A free lane says nothing but that all
epochs seen are below the next one, which the next race takes. What a settlement
goes through never changes its racers (`SameRacers`), so every step but the start and the
end of a race and of a run is one lemma (`LanesKept`).

*EndpointInv.* The mirror holds exactly the retained identities (`MirrorFollows`), so its
limit is never reached before the World's own, and it never refuses. The fence of a rider
is one of the two epochs that guard a binding, the activation or the reconnect boundary,
and no boundary is above it (`FencesExact`): since activations and reconnects are the only
turns that raise it, an admitted datagram that passes both guards is younger than the
fence. A binding is of an earlier generation or of the current one and fresh
(`RoutesBehind`); a reconnect releases the current one's, a migration makes it an earlier
one. `OutOfRooms` keeps a rider who is not there out of the rooms, so that a claim starts
with nothing shown.

*HubInv.* `HubIsSound` is inductive once the types of the tables, of the registry's
generations and of the accepted writes are added. A transition is proved in stages, as the
code builds it: the rooms that a rider has left (`Leaving`), the room with him in it, and
the generations pruned of those without a role (`Pruning`). The places of a rider are
told apart by the seat index alone: since a rider sits where the index has him, rewriting
that one place rewrites all his roles (`RolesKeepTables`). That a free seat exists and is
the least one is a fact on finite sets (`MinExists`), and so is the fresh revision.

*FollowInv.* The registry moves without asking the hub, so what ties them has to be
said: while the World runs, a generation the hub knows is the registered one or the offline
one, and of a rider who is out only the offline one (`KnownAsRegistered`); the registry is
within its limit; and a rider whose write is under way is still in his room, because a
session takes one packet at a time and only its own end removes him (`WritersStayIn`).
So a refused generation involves the offline one, a completed write is never refused, and
too many known riders include an offline one. Whom a publication is meant for sits in the
room he is informed of (`InformedMembers`), hence is registered under the very generation
the hub has, and can be missed for one reason only, that he drains (`SeatedMismatchEnds`);
a release does not disturb this for those who are released after it in the same turn.

*ReadInv.* A grant, or a read under way, is worth something as long as its rider sits in
that owner's room and the room has the revision it was made for (`Fits`); then he has given
the password for just this resource and not used it (`GrantsProven`, `PlansGranted`), and
a read under way that needs a grant has none left to be used a second time. A turn of the hub
either clears the rider's grant and plan, or leaves his room the revision it had or one that
no grant and no plan holds (`Turn`), so nothing worthless becomes good again. That covers
the ways back: a room that was closed and opened anew, a password that was changed twice,
an owner or a reader who came back under a new generation.

*StoreInv.* A snapshot is either what a load returns now, or a revision has been published
above the head it was taken under (`SnapshotFresh`); a writer who holds a temporary either
still has the newest head, or the number he will link under is taken (`LinkFirst`). So a
link that succeeds adds one request to what is shown, and every later revision holds all
that an earlier one holds (`Growing`), which is why falling back after a power loss, or
from a damaged file to an older one, loses no promise. The weak spot is a number used
twice: if a compaction removed the newest revision, a writer with an old head would
link under its number again. It does not, for two reasons. The newest revision is never a
victim (`VictimsOld`); this is where a retention of two is not enough: it leaves one slot
for old revisions, and when the newest one is damaged the slot goes to the readable one
that was loaded (`store.rs:2310-2318`; TLC finds `RetentionHolds` violated with two). And whoever is about to compact has just swept away every
temporary whose number was taken, so no writer left has a lower head than his
(`Ordered`). The limit needs that in each publication at most one new file is linked into
the room that compaction made (`RoomLeft`).

*RoomsInv.* Every turn of the World ends with `Commit`, so two kinds of state are told
apart: `Mid` holds of the rooms, identities, memberships and lanes that a command has at
hand, `Attendance` only once the turn has ended. Each command is shown to lead from `Mid` to
`Mid`, and `CommitHolds` that the end of the turn restores `Attendance` whatever the command
was. `Mid` says where each rider is (`Houses`) and who holds which lane (`Lanes`): a race's
fence is below the next epoch and no other room's, its frozen racers hold its lane, and a
lane names a race that froze its rider. Lanes are therefore released only by the race that
took them, although the rider may by then be in another room, under another identity, or
gone. A free room id is no room's (`IdsFree`), or a new room would inherit members.

*CohInv.* It adds what the tables of one room have to agree about (`Coherent`): seats and
slots with members, AIs and closed slots (`Seating`), the grid with those who race on it
(`Graded`), the master with the members (`Mastered`), and a fact that no property of the runs
states: while a room has a race, whoever sits on a racer's seat is in the frozen roster, under
that seat (`Enrolled`). The next grid is drawn up from that roster after the race, for the
racers who are there then, and without `Enrolled` it need not cover them. That the places are 0 .. n-1 (`PlacesArePermutation`) is a fact about
strict total orders on finite sets, for which the least element is found by the
well-foundedness of finite subsets, there being no induction over data. A rider's exit is
followed through the room he leaves, the master it then needs and the grid it has left; a
turn that touches one room leaves the others `Coherent` (`PlacedCoheres`).

*ShutdownInv.* Five parts. `Books` is the accounting: queue and reserved echo fit into the
channel, a session holds the guard of a request exactly in the middle of one, and the
gate's counters are the cardinalities of what is held. It turns an answer of a drain wait
into a statement about the sessions (`NothingLeft`), and it shows that a counter is never
exhausted, so that a refused admission means a closed one (`NeverFull`). `Mailed` says
which letters the World's mailbox may hold: at most one command of the supervisor, the one
its phase sends; no request behind a `Quiesce` of the graceful path; `ForceShutdown` only
after a bypass or at the end. `Talks` says what the World's answers mean and who may stop
it, `Waits` what the supervisor's drain wait has seen. `Order` lists what each phase relies
on. Its clauses look back past the phase before: the outbound drain is final because
admission was closed after the seal, the seal is final because the World was quiesced when
the last write completed, and quiescing finds no request because none was admitted after
the first drain. Once the pump has ended no lane becomes ready, and an end without an
error found all lanes free; after an error a lane may stay queued, in flight or failed, and
`SealedAfterProducers` allows just that. A bypass of the gate suspends the clauses on pump, seal and outbound
admission, as it suspends `SealedAfterProducers` and `PublicationsWrittenBeforeTeardown`;
the accounting and the requests it leaves alone. A step of a session or of the World's work leaves all phases alone
(`Works`, `Letters`, `WorksKeep`); each step of the supervisor is taken separately.

Every safety property of the passing runs is a theorem. Only model-checked: liveness, since
fairness and `ENABLED` are outside what the prover supports.

## 6. Fairness

- `IdentityRegistry`: weak fairness of the clock, the sweep, the end of every operation, and
  each step of a ticket's holder. The actor's `select!` is biased but each higher branch is
  bounded, the tick is a timer, and a ticket's holder is a task without other waits. Clients
  are not fair: no one has to log in, begin a migration, or leave. Nor is the supervisor:
  its producer drain comes only after the join of the pump (`runtime.rs` 2017, 2056), which
  may never return (finding 1), and not at all on the abandoned path (2098-2164), while
  the sweep does nothing once the World quiesces. `OwnerlessIsReleased` therefore
  promises the release while the server runs, and once it quiesces only under the
  premise, stated in the property, that the supervisor gets to that drain and repeats it.
- `WireOperations`: operations end, unlocked callers notify, woken waiters run.
- `GracefulShutdown`: a task that can run takes a step: weak fairness of each session, the
  World's commands, its heartbeat, the pump, the supervisor, the profile jobs, and of
  `force_shutdown` once it is called. A task is one program: it has to be through with a call
  (`returned`) before it takes its next step. Writes end because of
  `session_write_timeout`. Clients, the operator and what goes wrong are not fair. Races and
  settlements are part of the heartbeat and fair with it, which is generous: finding 1 does
  not come from a missing fairness assumption.

- `ProtocolRooms`: for each room, its loading deadline and its start. The heartbeat looks at
  every room each 100 ms, and a recipient whose queue stays full is closed. No client is
  fair.

`ProfileStore`, `RewardSettlement`, `UdpEndpoints` and `MyRoomHub` are checked for safety only.

## 7. What is not modelled

- Rooms: the choice of a track and the room settings, passwords, chat, the team booster,
  slot relays and item boxes, the retry of a pending fan-out, and quiescing (see
  `GracefulShutdown`). The debug assertion that a frozen roster has at most
  `ROOM_SLOT_COUNT` riders counts observers too; it is not in release builds.
- UDP: packet contents and route hashes, whom a packet is relayed to, the shutdown of the
  readers.
- MyRoom: nicknames, profile snapshots and their refresh, room decoration, what is published
  and talked, the choice among several random rooms, and the quiescing World, whose releases
  publish nothing. Whom a publication reaches and a full queue at a release are modelled; a
  command that a full queue refuses changes nothing.
- Messenger hub, race objects, profile I/O queueing: next in the plan.
- Store: run leases and generation markers (taken as `NextRun`), sidecars, the legacy
  file, entry limits, debris of dead processes' temporaries.
- Accounts, random tracks, item probability, catalogs, profile editors: sequential, and
  within reach of unit tests.
- Codecs, physics, archives, connector, GUI, native sidecar: parsing, arithmetic, I/O.
- Start-up, listeners, health log.

## 8. Plan

1. `IdentityRegistry` with `GenerationFence`, type and pinning proofs – done.
2. `WireOperationGate`, `WireOperations` with proofs; `GracefulShutdown` – done.
3. `ProfileStore` with `ProfileRegister`; `RewardSettlement` with proofs – done.
4. `ProtocolRooms`: rooms, lobby and races – done, without the items of section 7.
5. `UdpEndpoints` with proofs – done.
6. `MyRoomHub` with proofs – done.
7. `MessengerHub`, `RaceObjectRegistry`, `ProfileIo` (lanes, bounded jobs, shutdown).
8. Liveness of reward persistence under fairness of the pump; its poll skips lease
   expiry while all worker slots are taken (`runtime.rs:1658`).
