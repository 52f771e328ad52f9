-------------------------------- MODULE MyRoomHub --------------------------------
(***************************************************************************)
(* The personal rooms of the World actor: MyRoomHub                         *)
(* (p5136-server/src/myroom_hub.rs) and the commands of world.rs that drive *)
(* it.  A room belongs to a rider, who may be in it, in another one, or     *)
(* offline; visitors take its seats; the hub knows every rider with a room  *)
(* or a seat by one canonical generation.                                   *)
(*                                                                         *)
(* Every action is one turn of the actor: the hub plans, locks and commits  *)
(* a transition within it, so no other transition comes between.  What a    *)
(* session does outside the actor between two turns is the reading of a     *)
(* rider's profile: PrepareRead ... PublishRead and RegisterInfo ...        *)
(* CompleteInfo.                                                            *)
(*                                                                         *)
(* An error of the hub or of a publication that the command does not expect *)
(* stops the actor (halted).  A command the code refuses, a wrong password, *)
(* a full room and a snapshot that has become stale change nothing and are  *)
(* no actions; nor is a command for which an outbound queue is full, unlike *)
(* a release.  An identity binding is known here by its generation and by   *)
(* what the registry has of it: a session, a migration permit, operations   *)
(* that still hold a lease.  The registry itself is IdentityRegistry.tla.   *)
(* Names, profiles, slot snapshots and the room's decoration are left out,  *)
(* and so is the quiescing World, whose releases publish nothing.           *)
(***************************************************************************)
EXTENDS Integers, FiniteSets, FiniteSetsExt

CONSTANTS
    None,           \* no room, no guest, no membership
    Riders,         \* UserNo
    Seats,          \* the visitors' slots, 1 .. VISITOR_CAPACITY
    Policies,       \* MyRoomInfo, as far as it decides who may enter or read
    RoomLocked,     \* the policies with use_room_password
    ItemsLocked,    \* the policies with use_item_password
    Resources,      \* MyRoomProtectedResource
    OwnerItems,     \* one of them
    Capacity,       \* identity_capacity
    Default,        \* the policy of a rider who never changed it
    Last,           \* bound: rider -> his last generation; 1 or 0 for no migration
    Readers,        \* bound: the riders whose clients ask for protected reads
    Editors,        \* bound: the riders who change the policy of their room
    Reporters       \* bound: the riders who report a port

OwnerSlot == 0   \* MyRoomSlotIndex::OWNER
Offline == 0     \* IdentityGeneration::OFFLINE_MYROOM
Untracked == -1  \* of a rider the hub does not know

Generations == UNION {Offline .. Last[u] : u \in Riders}
Places == Seats \cup {OwnerSlot}
Membership == [owner : Riders, slot : Places]
Guest == [user : Riders, generation : Generations, port : Generations]
Room == [generation : Generations, port : Generations, present : BOOLEAN,
         info : Policies, revision : Nat, visitors : [Seats -> Guest \cup {None}]]

\* MyRoomOwnerResourcePlan, and the grant it came with
Plan == [resource : Resources, owner : Riders, generation : Generations,
         revision : Nat, visible : BOOLEAN, granted : BOOLEAN]
Grant == [resource : Resources, owner : Riders, generation : Generations, revision : Nat]
Write == [generation : Generations, info : Policies]
Stop == [user : Riders, presented : Generations,
         why : {"stale", "untracked", "capacity", "mismatch", "unavailable"}]

\* "ownerless": no session, a permit keeps the identity; "draining": in
\* deferred_releases; "released": given up, its release by the World is due.
Status == {"out", "active", "ownerless", "draining", "released"}

ASSUME HubConstants ==
    /\ IsFiniteSet(Riders)
    /\ Seats \subseteq Nat \ {OwnerSlot} /\ IsFiniteSet(Seats)
    /\ Default \in Policies /\ RoomLocked \cup ItemsLocked \subseteq Policies
    /\ OwnerItems \in Resources
    /\ Readers \cup Editors \cup Reporters \subseteq Riders
    /\ Capacity \in Nat \ {0} /\ Last \in [Riders -> Nat]
    /\ None \notin Riders \cup Membership \cup Guest \cup Room
    /\ None \notin Plan \cup Grant \cup Write \cup Stop \cup Resources

VARIABLES
    identity,     \* rider -> [status, generation] in the identity registry
    rooms,        \* owner -> RoomState
    memberships,  \* rider -> Membership
    generations,  \* rider -> canonical generation
    grants,       \* pending_myroom_password_grants
    plans,        \* rider -> the plan his session reads the owner's profile for
    writes,       \* rider -> his accepted room-info write
    halted,       \* the hub error that stopped the World, if any
    proven,       \* rider -> what he has given the current password for and not read yet
    served        \* the protected read answered last

hub == <<rooms, memberships, generations>>
reads == <<grants, plans, proven, served>>
vars == <<identity, hub, reads, writes, halted>>

TypeOK ==
    /\ identity \in [Riders -> [status : Status, generation : Generations]]
    /\ rooms \in [Riders -> Room \cup {None}]
    /\ memberships \in [Riders -> Membership \cup {None}]
    /\ generations \in [Riders -> Generations \cup {Untracked}]
    /\ grants \in [Riders -> Grant \cup {None}]
    /\ plans \in [Riders -> Plan \cup {None}]
    /\ writes \in [Riders -> Write \cup {None}]
    /\ halted \in Stop \cup {None}
    /\ proven \in [Riders -> Resources \cup {None}]
    /\ served \in [reader : Riders, owner : Riders, resource : Resources] \cup {None}

Init ==
    /\ identity = [u \in Riders |-> [status |-> "out", generation |-> Offline]]
    /\ rooms = [u \in Riders |-> None]
    /\ memberships = [u \in Riders |-> None]
    /\ generations = [u \in Riders |-> Untracked]
    /\ grants = [u \in Riders |-> None]
    /\ plans = [u \in Riders |-> None]
    /\ writes = [u \in Riders |-> None]
    /\ halted = None
    /\ proven = [u \in Riders |-> None]
    /\ served = None

--------------------------------------------------------------------------------
(* Queries.                                                                 *)

Present(o) == rooms[o] # None /\ rooms[o].present
Visits(u, o) == memberships[u] # None /\ memberships[u].owner = o
HasRole(u) == memberships[u] # None \/ rooms[u] # None
Empty(room) == ~room.present /\ \A s \in Seats : room.visitors[s] = None
Vacant(room) == {s \in Seats : room.visitors[s] = None}

\* require_same_binding fails for a rider who presents generation g.
Stale(u, g) == generations[u] \notin {Untracked, g}

Active(u) == identity[u].status = "active"
Current(u) == identity[u].generation
Refused(u) == Stale(u, Current(u))

Ports(u) == {0} \cup (IF u \in Reporters THEN {Current(u)} ELSE {})
Profile(u) == IF u \in Editors THEN Policies ELSE {Default}

\* A session takes one packet at a time: it is idle when it awaits neither a
\* profile nor the write it has been accepted for.
Idle(u) ==
    /\ Active(u) /\ plans[u] = None
    /\ writes[u] # None => writes[u].generation # Current(u)

\* next_revision.  A revision is only compared with those that the room of the
\* same owner, and grants and plans for it, hold, so the model reuses one that
\* none of them holds any more.
HeldRevisions(o) ==
    (IF rooms[o] = None THEN {} ELSE {rooms[o].revision})
    \cup {grants[u].revision : u \in {u \in Riders : grants[u] # None /\ grants[u].owner = o}}
    \cup {plans[u].revision : u \in {u \in Riders : plans[u] # None /\ plans[u].owner = o}}
NextRevision(o) ==
    LET held == HeldRevisions(o)
    IN CHOOSE r \in 0 .. Cardinality(held) : r \notin held

\* Without the grant of a rider; what he has proven and read is of the past.
Revoke(u) ==
    /\ grants' = [grants EXCEPT ![u] = None]
    /\ proven' = [proven EXCEPT ![u] = None]
    /\ served' = None

\* reply_after_world_operation: the error leaves the actor's loop.
Halt(u, g, why) ==
    /\ halted' = [user |-> u, presented |-> g, why |-> why]
    /\ UNCHANGED <<hub, reads, writes>>

--------------------------------------------------------------------------------
(* Publications.                                                            *)

\* Everybody in a room of owner o.
Audience(o, room) ==
    IF room = None THEN {}
    ELSE (IF room.present THEN {[user |-> o, generation |-> room.generation]} ELSE {})
         \cup {[user |-> room.visitors[s].user, generation |-> room.visitors[s].generation] :
                  s \in {s \in Seats : room.visitors[s] # None}}

\* Mutant: a rider who is released in the same turn is not passed over.
Addressable_batch_forgotten(m) ==
    /\ identity[m.user].status \in {"active", "ownerless"}
    /\ m.generation = Current(m.user)

\* myroom_deliveries_from_serialized: a recipient has a session, or is passed
\* over because a permit keeps his identity or because he is released in this
\* turn (no rider is "released" outside one).  Who drains is neither.
Addressable(m) ==
    /\ identity[m.user].status \in {"active", "ownerless", "released"}
    /\ m.generation = Current(m.user)

\* AudienceIdentityMismatch
Mismatch(audience) ==
    \E m \in audience : ~Addressable(m) /\ Halt(m.user, m.generation, "mismatch")

--------------------------------------------------------------------------------
(* Transitions of the hub.                                                  *)

\* remove_participant
Without(room, slot) ==
    IF slot = OwnerSlot THEN [room EXCEPT !.present = FALSE, !.port = 0]
                        ELSE [room EXCEPT !.visitors[slot] = None]

\* The rooms when u has given up his seat; his room goes with its last member.
RoomsLeftBy(u) ==
    IF memberships[u] = None THEN rooms
    ELSE LET o == memberships[u].owner
             left == Without(rooms[o], memberships[u].slot)
         IN [rooms EXCEPT ![o] = IF Empty(left) THEN None ELSE left]

\* Who sees u give up his seat.
LeftBehind(u) ==
    IF memberships[u] = None THEN {}
    ELSE Audience(memberships[u].owner, RoomsLeftBy(u)[memberships[u].owner])

\* Mutant: a generation goes with its rider's seat, although he has a room.
pruned_with_seat(known, left, seated, S) ==
    [u \in Riders |-> IF u \in S /\ seated[u] = None THEN Untracked ELSE known[u]]

\* push_generation_prune for the riders in S who have no role left.
Pruned(known, left, seated, S) ==
    [u \in Riders |-> IF u \in S /\ seated[u] = None /\ left[u] = None
                      THEN Untracked ELSE known[u]]

\* RoomState::new: the owner is an absent tombstone until he takes slot zero.
NewRoom(o, g, info) ==
    [generation |-> g, port |-> 0, present |-> FALSE, info |-> info,
     revision |-> NextRevision(o), visitors |-> [s \in Seats |-> None]]

\* next_slot_for
SlotFor(room, o, u) == IF u = o THEN OwnerSlot ELSE Min(Vacant(room))

\* add_member
With(room, slot, u, port) ==
    IF slot = OwnerSlot THEN [room EXCEPT !.present = TRUE, !.port = port]
    ELSE [room EXCEPT !.visitors[slot] =
            [user |-> u, generation |-> Current(u), port |-> port]]

\* enter, for a member with his current binding and an owner known by g; port
\* is the one his session has reported, or zero.
Enter(u, o, g, info, port) ==
    LET left == RoomsLeftBy(u)
        room == IF left[o] = None THEN NewRoom(o, g, info) ELSE left[o]
        slot == SlotFor(room, o, u)
        opened == [left EXCEPT ![o] = With(room, slot, u, port)]
        seated == [memberships EXCEPT ![u] = [owner |-> o, slot |-> slot]]
        known == Pruned([[generations EXCEPT ![o] = g] EXCEPT ![u] = Current(u)], opened, seated,
                        IF memberships[u] = None THEN {} ELSE {memberships[u].owner})
        informed == Audience(o, With(room, slot, u, port)) \cup LeftBehind(u)
    IN /\ UNCHANGED identity
       /\ \/ Stale(o, g) /\ Halt(o, g, "stale")
          \/ ~Stale(o, g) /\ Refused(u) /\ Halt(u, Current(u), "stale")
          \/ /\ ~Stale(o, g) /\ ~Refused(u) /\ Visits(u, o)
             /\ \/ Mismatch(Audience(o, rooms[o]))
                \/ /\ \A m \in Audience(o, rooms[o]) : Addressable(m)
                   /\ Revoke(u)
                   /\ UNCHANGED <<hub, plans, writes, halted>>
          \/ /\ ~Stale(o, g) /\ ~Refused(u) /\ ~Visits(u, o)
             /\ u = o \/ Vacant(room) # {}
             /\ IF Cardinality({x \in Riders : known[x] # Untracked}) > Capacity
                THEN Halt(o, g, "capacity")
                ELSE \/ Mismatch(informed)
                     \/ /\ \A m \in informed : Addressable(m)
                        /\ rooms' = opened /\ memberships' = seated /\ generations' = known
                        /\ Revoke(u)
                        /\ UNCHANGED <<plans, writes, halted>>

\* leave
Leave(u) ==
    LET left == RoomsLeftBy(u)
        seated == [memberships EXCEPT ![u] = None]
    IN /\ rooms' = left /\ memberships' = seated
       /\ generations' = Pruned(generations, left, seated, {u, memberships[u].owner})

\* disconnect: u gives up his seat, and his own room is closed on its visitors.
Disconnect(u) ==
    LET left == RoomsLeftBy(u)
        closed == [left EXCEPT ![u] = None]
        seated == [x \in Riders |-> IF x = u \/ Visits(x, u) THEN None ELSE memberships[x]]
        touched == {u} \cup {x \in Riders : Visits(x, u)}
                       \cup (IF memberships[u] = None THEN {} ELSE {memberships[u].owner})
    IN /\ rooms' = closed /\ memberships' = seated
       /\ generations' = Pruned(generations, closed, seated, touched)
       /\ grants' = [grants EXCEPT ![u] = None]
       /\ proven' = [x \in Riders |-> IF x = u \/ Visits(x, u) THEN None ELSE proven[x]]

\* Every role of u rewritten: room o, if u owns it, to owned and his seat to guest.
Roles(u, owned, guest) ==
    [o \in Riders |->
        IF rooms[o] = None THEN None
        ELSE IF o = u THEN owned
        ELSE [rooms[o] EXCEPT !.visitors = [s \in Seats |->
                IF memberships[u] = [owner |-> o, slot |-> s] THEN guest ELSE @[s]]]]

\* Mutant: a new generation inherits the port of the old one.
port_inherited(u, g) ==
    /\ rooms' = Roles(u, [rooms[u] EXCEPT !.generation = g],
                         [user |-> u, generation |-> g, port |-> Current(u)])
    /\ generations' = [generations EXCEPT ![u] = g]
    /\ UNCHANGED memberships

\* advance_identity, advance_migrated_identity_if_tracked: the new generation
\* has to report a port of its own.
Advance(u, g) ==
    /\ rooms' = Roles(u, [rooms[u] EXCEPT !.generation = g, !.port = 0],
                         [user |-> u, generation |-> g, port |-> 0])
    /\ generations' = [generations EXCEPT ![u] = g]
    /\ UNCHANGED memberships

\* p2p_endpoint_replacement_rooms: an absent owner shows no port.
ShowPort(u, port) ==
    rooms' = Roles(u, IF Present(u) THEN [rooms[u] EXCEPT !.port = port] ELSE rooms[u],
                      [user |-> u, generation |-> Current(u), port |-> port])

--------------------------------------------------------------------------------
(* The identity registry, as far as the hub follows it.                     *)

Retained == {u \in Riders : identity[u].status \in {"active", "ownerless", "draining"}}
Released == {u \in Riders : identity[u].status = "released"}

Become(S, status) ==
    identity' = [u \in Riders |-> IF u \in S THEN [identity[u] EXCEPT !.status = status]
                                  ELSE identity[u]]

\* claim_identity_at_udp_epoch does not look at the hub.
Login(u) ==
    /\ identity[u].status = "out" /\ Current(u) < Last[u]
    /\ Cardinality(Retained) < Capacity
    /\ identity' = [identity EXCEPT ![u] = [status |-> "active", generation |-> @.generation + 1]]
    /\ UNCHANGED <<hub, reads, writes, halted>>

\* close_session_state: the identity stays for a migration, as long as admitted
\* operations hold a lease, or not at all.
Close(u) ==
    /\ Active(u)
    /\ \/ Last[u] > 1 /\ Become({u}, "ownerless")
       \/ Become({u}, "draining")
       \/ Become({u}, "released")
    /\ plans' = [plans EXCEPT ![u] = None]
    /\ UNCHANGED <<hub, grants, proven, served, writes, halted>>

\* expire_migrations: those of S who are in busy still hold a lease.
ExpireMigrations(S, busy) ==
    /\ \A u \in S : identity[u].status = "ownerless"
    /\ identity' = [u \in Riders |->
          IF u \notin S THEN identity[u]
          ELSE [identity[u] EXCEPT !.status = IF u \in busy THEN "draining" ELSE "released"]]
    /\ UNCHANGED <<hub, reads, writes, halted>>

\* collect_drained_identity_releases, at the end of a turn.
CollectDrained(S) ==
    /\ \A u \in S : identity[u].status = "draining"
    /\ Become(S, "released")
    /\ UNCHANGED <<hub, reads, writes, halted>>

\* complete_preflighted_migration: the hub's transition is planned first, and
\* an error aborts the migration before it stops the World.
Migrate(u) ==
    /\ identity[u].status \in {"active", "ownerless"} /\ Current(u) < Last[u]
    /\ \/ /\ HasRole(u) /\ Refused(u)
          /\ Halt(u, Current(u), "stale")
          /\ UNCHANGED identity
       \/ /\ ~(HasRole(u) /\ Refused(u))
          /\ IF HasRole(u) THEN Advance(u, Current(u) + 1) ELSE UNCHANGED hub
          /\ identity' = [identity EXCEPT
                ![u] = [status |-> "active", generation |-> @.generation + 1]]
          /\ plans' = [plans EXCEPT ![u] = None]
          /\ Revoke(u)
          /\ UNCHANGED <<writes, halted>>

\* release_identity_state_with_wire_policy: those who are left in the rooms are
\* told, and what an ordinary command may lack, a place in every one of their
\* queues, a release must have (reserve_myroom_outbound).
Release(u) ==
    LET informed == LeftBehind(u) \cup Audience(u, RoomsLeftBy(u)[u])
    IN /\ identity[u].status = "released"
       /\ \/ /\ HasRole(u) /\ Refused(u)
             /\ Halt(u, Current(u), "stale")
             /\ UNCHANGED identity
          \/ /\ ~(HasRole(u) /\ Refused(u))
             /\ \/ Mismatch(informed)
                \/ /\ \A m \in informed : Addressable(m)
                   /\ \E m \in informed :
                         Active(m.user) /\ Halt(m.user, m.generation, "unavailable")
             /\ UNCHANGED identity
          \/ /\ ~(HasRole(u) /\ Refused(u))
             /\ \A m \in informed : Addressable(m)
             /\ Become({u}, "out")
             /\ Disconnect(u)
             /\ UNCHANGED <<plans, served, writes, halted>>

--------------------------------------------------------------------------------
(* Commands.                                                                *)

\* What a session and a UDP datagram ask the hub about a rider's membership:
\* membership_if_member takes an untracked rider for a normal answer, and
\* refuses any generation but the canonical one.
Query(u) ==
    /\ Active(u) /\ Refused(u)
    /\ Halt(u, Current(u), "stale")
    /\ UNCHANGED identity

\* myroom_entry with the rider's own name, or to re-enter.
EnterOwn(u) ==
    /\ Idle(u)
    /\ \E info \in Profile(u), port \in Ports(u) :
            Enter(u, u, Current(u), info, port)
Reenter(u) ==
    /\ Idle(u)
    /\ IF memberships[u] = None \/ Refused(u) THEN EnterOwn(u)
       ELSE LET o == memberships[u].owner
            IN Enter(u, o, rooms[o].generation, rooms[o].info, 0)

\* myroom_entry by name: an owner without a session, be he offline or between
\* two sessions of a migration, is bound as an offline owner.  The password is
\* right, or the policy of his profile asks for none.
EnterDirect(u, o) ==
    /\ Idle(u) /\ u # o
    /\ \E info \in Profile(o), port \in Ports(u) :
            Enter(u, o, IF Active(o) THEN Current(o) ELSE Offline, info, port)

\* myroom_entry of a random room looks at every active rider but u and the
\* owner he visits, and chooses a public room with its owner in and a seat free.
EnterRandom(u) ==
    LET candidates == {o \in Riders : /\ Active(o) /\ o # u
                                      /\ ~Visits(u, o)}
        eligible == {o \in candidates : /\ Present(o) /\ rooms[o].info \notin RoomLocked
                                        /\ Vacant(rooms[o]) # {}}
    IN /\ Idle(u)
       /\ \/ \E o \in candidates \cup {u} :
                /\ Refused(o)
                /\ Halt(o, Current(o), "stale")
                /\ UNCHANGED identity
          \/ /\ \A o \in candidates \cup {u} : ~Refused(o)
             /\ \E o \in eligible, port \in Ports(u) :
                    Enter(u, o, Current(o), rooms[o].info, port)

\* Both give up the seat, if there is one, and the grant with it.
ExitRoom(u) ==
    /\ Idle(u) /\ ~Refused(u)
    /\ UNCHANGED identity
    /\ \/ Mismatch(LeftBehind(u))
       \/ /\ \A m \in LeftBehind(u) : Addressable(m)
          /\ IF memberships[u] = None THEN UNCHANGED hub ELSE Leave(u)
          /\ Revoke(u)
          /\ UNCHANGED <<plans, writes, halted>>
Secede(u) == ExitRoom(u)
EnterClientStage(u) == ExitRoom(u)

\* myroom_peer_command moves or talks to the others in the room.
PeerCommand(u) ==
    /\ Idle(u) /\ ~Refused(u) /\ memberships[u] # None
    /\ Mismatch(LeftBehind(u))
    /\ UNCHANGED identity

\* refresh_myroom_presentation: the rider's own GetRider turns the offline
\* binding that visitors have brought into the live one.
RefreshPresentation(u) ==
    /\ Idle(u) /\ HasRole(u) /\ Refused(u)
    /\ UNCHANGED identity
    /\ IF generations[u] = Offline
       THEN /\ Advance(u, Current(u))
            /\ UNCHANGED <<reads, writes, halted>>
       ELSE Halt(u, Current(u), "stale")

\* publish_active_p2p_endpoint, of a stored report or an accepted datagram.
ReportPort(u) ==
    /\ Active(u) /\ HasRole(u) /\ u \in Reporters
    /\ UNCHANGED identity
    /\ IF Refused(u)
       THEN Halt(u, Current(u), "stale")
       ELSE /\ ShowPort(u, Current(u))
            /\ UNCHANGED <<memberships, generations, reads, writes, halted>>

\* register_myroom_info_write: only the owner in his own room.
RegisterInfo(u) ==
    /\ u \in Editors /\ Idle(u) /\ writes[u] = None /\ ~Refused(u)
    /\ memberships[u] = [owner |-> u, slot |-> OwnerSlot]
    /\ \E info \in Policies : writes' = [writes EXCEPT
            ![u] = [generation |-> Current(u), info |-> info]]
    /\ UNCHANGED <<identity, hub, reads, halted>>

\* publish_durable_myroom_info: what is stored shows as long as the generation
\* that wrote it has a session or a permit.
CompleteInfo(u) ==
    LET write == writes[u]
    IN /\ write # None
       /\ UNCHANGED identity
       /\ \/ /\ identity[u].status \notin {"active", "ownerless"} \/ Current(u) # write.generation
             /\ writes' = [writes EXCEPT ![u] = None]
             /\ UNCHANGED <<hub, reads, halted>>
          \/ /\ identity[u].status \in {"active", "ownerless"} /\ Current(u) = write.generation
             /\ IF generations[u] # write.generation
                THEN Halt(u, write.generation,
                          IF generations[u] = Untracked THEN "untracked" ELSE "stale")
                ELSE /\ writes' = [writes EXCEPT ![u] = None]
                     /\ IF memberships[u] = [owner |-> u, slot |-> OwnerSlot]
                        THEN /\ rooms' = [rooms EXCEPT ![u].info = write.info,
                                                       ![u].revision = NextRevision(u)]
                             /\ proven' = [x \in Riders |->
                                    IF Visits(x, u) THEN None ELSE proven[x]]
                        ELSE UNCHANGED <<rooms, proven>>
                     /\ UNCHANGED <<memberships, generations, grants, plans, served, halted>>

--------------------------------------------------------------------------------
(* Protected reads of the room owner's items, emblems and career.           *)

\* owner_resource_plan_if_member
PlanFor(u, resource, granted) ==
    LET o == memberships[u].owner
    IN [resource |-> resource, owner |-> o, generation |-> rooms[o].generation,
        revision |-> rooms[o].revision,
        visible |-> u = o \/ rooms[o].info \notin ItemsLocked, granted |-> granted]

\* Mutant: a grant outlives the password it was given for.
any_revision(grant, plan) ==
    /\ grant # None
    /\ [grant EXCEPT !.revision = plan.revision] =
           [resource |-> plan.resource, owner |-> plan.owner,
            generation |-> plan.generation, revision |-> plan.revision]

\* authorize_myroom_owner_resource: the grant is for the plan as it is now.
Matches(grant, plan) ==
    /\ grant # None
    /\ grant = [resource |-> plan.resource, owner |-> plan.owner,
                generation |-> plan.generation, revision |-> plan.revision]

\* myroom_check_password, with the right password; any check revokes the grant
\* of the one before.
CheckPassword(u, resource) ==
    LET plan == PlanFor(u, resource, FALSE)
    IN /\ u \in Readers /\ Idle(u) /\ ~Refused(u)
       /\ IF memberships[u] # None /\ Present(plan.owner) /\ ~plan.visible
          THEN /\ grants' = [grants EXCEPT ![u] =
                     [resource |-> resource, owner |-> plan.owner,
                      generation |-> plan.generation, revision |-> plan.revision]]
               /\ proven' = [proven EXCEPT ![u] = resource]
               /\ served' = None
          ELSE Revoke(u)
       /\ UNCHANGED <<identity, hub, plans, writes, halted>>

\* prepare_myroom_owner_items and prepare_myroom_owner_resource: the grant for
\* this resource is used up, whatever becomes of the read.  Where the policy
\* asks for no grant, only the items take it all the same.
PrepareRead(u, resource) ==
    LET plan == PlanFor(u, resource, FALSE)
        taken == /\ grants[u] # None /\ grants[u].resource = resource
                 /\ plan.visible => resource = OwnerItems
        granted == ~plan.visible /\ Matches(grants[u], plan) /\ Present(plan.owner)
    IN /\ u \in Readers /\ Idle(u) /\ ~Refused(u) /\ memberships[u] # None
       /\ grants' = [grants EXCEPT ![u] = IF taken THEN None ELSE @]
       /\ plans' = [plans EXCEPT ![u] =
              IF plan.visible \/ granted THEN [plan EXCEPT !.granted = granted] ELSE None]
       /\ served' = None
       /\ UNCHANGED <<identity, hub, proven, writes, halted>>

\* publish_myroom_owner_items and publish_myroom_owner_resource
PublishRead(u) ==
    LET plan == plans[u]
        valid == /\ memberships[u] # None
                 /\ plan = PlanFor(u, plan.resource, plan.granted)
                 /\ plan.visible \/ Present(plan.owner)
    IN /\ Active(u) /\ plan # None /\ ~Refused(u)
       /\ plans' = [plans EXCEPT ![u] = None]
       /\ IF valid
          THEN /\ served' = [reader |-> u, owner |-> plan.owner, resource |-> plan.resource]
               /\ proven' = [proven EXCEPT ![u] = IF plan.visible THEN @ ELSE None]
          ELSE UNCHANGED <<served, proven>>
       /\ UNCHANGED <<identity, hub, grants, writes, halted>>

--------------------------------------------------------------------------------
(* The specification.                                                       *)

Registry ==
    \/ \E u \in Riders : Login(u) \/ Close(u) \/ Migrate(u)
    \/ \E S \in SUBSET Riders \ {{}} :
           CollectDrained(S) \/ \E busy \in SUBSET S : ExpireMigrations(S, busy)
Entry(u) ==
    \/ EnterOwn(u) \/ Reenter(u) \/ EnterRandom(u)
    \/ \E o \in Riders : EnterDirect(u, o)
Command(u) ==
    \/ Query(u) \/ Secede(u) \/ EnterClientStage(u)
    \/ PeerCommand(u) \/ RefreshPresentation(u) \/ ReportPort(u)
    \/ RegisterInfo(u) \/ CompleteInfo(u)
Read(u) ==
    \/ \E resource \in Resources : CheckPassword(u, resource) \/ PrepareRead(u, resource)
    \/ PublishRead(u)

\* The World releases what the registry has given up before its turn ends.
Next ==
    /\ halted = None
    /\ \/ \E u \in Riders : Release(u)
       \/ /\ Released = {}
          /\ Registry \/ \E u \in Riders : Entry(u) \/ Command(u) \/ Read(u)

Spec == Init /\ [][Next]_vars

--------------------------------------------------------------------------------
(* Properties.                                                              *)

Sits(u, o, s) ==
    /\ rooms[o] # None
    /\ IF s = OwnerSlot THEN u = o /\ rooms[o].present
       ELSE rooms[o].visitors[s] # None /\ rooms[o].visitors[s].user = u

RoomIsSound(o) ==
    LET room == rooms[o]
    IN /\ ~Empty(room)
       /\ generations[o] = room.generation
       /\ ~room.present => room.port = 0
       /\ \A s \in Seats : room.visitors[s] # None =>
             /\ room.visitors[s].user # o
             /\ room.visitors[s].generation = generations[room.visitors[s].user]

\* What audit_invariants asks of the three tables after any sequence of moves,
\* closed rooms and lost sessions: the index has a rider in a place exactly when
\* the room has him there, an empty room is gone, a rider is known by one
\* generation, exactly as long as he has a role, and within the identity limit.
HubIsSound ==
    /\ \A u, o \in Riders, s \in Places :
          memberships[u] = [owner |-> o, slot |-> s] <=> Sits(u, o, s)
    /\ \A o \in Riders : rooms[o] # None => RoomIsSound(o)
    /\ \A u \in Riders : generations[u] # Untracked => HasRole(u)
    /\ Cardinality({u \in Riders : generations[u] # Untracked}) <= Capacity

\* Logins, migrations and releases change the registry, the hub follows: while
\* the World runs, every member of a room is retained under the generation the
\* hub knows him by, and the port others are told to reach him at was reported
\* by that generation (refresh_p2p_endpoint, advance_migrated_identity).
PresenceIsCurrent ==
    halted = None =>
    /\ \A u \in Riders : memberships[u] # None =>
         identity[u].status # "out" /\ generations[u] = Current(u)
    /\ \A o \in Riders : rooms[o] # None =>
         /\ rooms[o].port \in {0, Current(o)}
         /\ \A s \in Seats : rooms[o].visitors[s] # None =>
              rooms[o].visitors[s].port \in {0, Current(rooms[o].visitors[s].user)}

\* u and x are in one room, or u is in the room x owns.
Meets(u, x) ==
    memberships[u] # None /\ memberships[u].owner \in
        {x} \cup (IF memberships[x] = None THEN {} ELSE {memberships[x].owner})

\* MyRoomLifecycleError ends the actor's loop.  No order of commands, migrations
\* and lost sessions brings that about but these: the sentinel generation of
\* an owner who was visited without a session, when he logs in and is asked
\* about under his own; offline owners who fill the hub; a room-mate whose
\* session is closed while an operation of his still holds a lease; and a
\* queue that is full when a room-mate is released.  A permit, a migration and
\* the release of several room-mates at once are no such cause.
StopsHaveACause ==
    halted # None =>
        \/ /\ halted.why = "capacity"
           /\ halted.presented = Offline \/ \E o \in Riders : generations[o] = Offline
        \/ /\ halted.why = "stale"
           /\ Offline \in {halted.presented, generations[halted.user]}
        \/ /\ halted.why = "mismatch"
           /\ identity[halted.user].status = "draining"
           /\ halted.presented = Current(halted.user)
        \/ /\ halted.why = "unavailable"
           /\ Active(halted.user) /\ \E x \in Released : Meets(halted.user, x)

Entitled(u, o, resource) ==
    /\ Visits(u, o)
    /\ u # o /\ rooms[o].info \in ItemsLocked => Present(o) /\ proven[u] = resource

\* publish_myroom_owner_items and publish_myroom_owner_resource answer with a
\* profile read outside the actor: whatever happened meanwhile, the reader is in
\* that owner's room, and if the room protects its items now, the owner is in
\* and the reader has given the password that is now set, once for this read.
ReadsAreEntitled ==
    [][served' # served /\ served' # None =>
          Entitled(served'.reader, served'.owner, served'.resource)]_vars
================================================================================
