------------------------------ MODULE UdpEndpoints ------------------------------
(***************************************************************************)
(* The UDP side of an identity (p5136-server/src/udp_state.rs,              *)
(* udp_runtime.rs and the World's part in world.rs): which address a rider  *)
(* is reached at, and which port his room advertises.                       *)
(*                                                                         *)
(* Two readers stamp datagrams with an arrival clock and put them into one  *)
(* bounded mailbox, which thus merges two sequences in any order; the World *)
(* takes them out, lets the registry admit them and has the UDP actor bind  *)
(* and relay them.  The clock also stamps the activation of a generation    *)
(* and a reconnect that the client reports over TCP, so that older          *)
(* datagrams bind nothing.  The World waits for each answer of the UDP      *)
(* actor, so one action is one turn of the World.                           *)
(*                                                                         *)
(* How identities are claimed, moved and released is IdentityRegistry.tla;  *)
(* here only what the endpoints depend on.  The network may lose, repeat    *)
(* and reorder datagrams and they may come from any address.                *)
(***************************************************************************)
EXTENDS Integers, FiniteSets, Sequences

CONSTANTS
    Riders,          \* UserNo
    Players,         \* those that send datagrams and enter rooms; others take places
    Hosts, Ports,    \* the parts of a socket address
    MaxEpoch,        \* the last arrival epoch, u64::MAX
    MaxGeneration,   \* IdentityGeneration's last value
    Capacity,        \* identity_capacity of the World
    MaxActive,       \* maximum_active_identities of the UDP actor
    MaxWaiting       \* bound: datagrams of one reader that wait

\* run_world: the World's capacity is the least of its sidecars'.
ASSUME UdpConstants ==
    /\ IsFiniteSet(Riders) /\ Players \subseteq Riders
    /\ Ports \subseteq Nat \ {0}
    /\ MaxEpoch \in Nat /\ MaxGeneration \in Nat
    /\ Capacity \in Nat \ {0} /\ MaxActive \in Nat /\ Capacity <= MaxActive
    /\ MaxWaiting \in Nat \ {0}

VARIABLES
    clock,       \* UdpArrivalClock
    identity,    \* rider -> its identity in the registry
    mirror,      \* active: rider -> ActiveIdentity, of the riders in its domain
    routes,      \* the tables game and p2p: transport -> rider -> binding
    waiting,     \* transport -> the datagrams of its reader, in the mailbox or before it
    observed,    \* observed_p2p_ports: rider -> [generation, port]
    reported,    \* rider -> reported_p2p_port of its session
    reports,     \* reports of ports on their way to the disk
    advertised,  \* rider -> the port its room shows for it; NotInRoom
    stopped,     \* the UDP actor has refused what the World cannot do without
    fence        \* history: the clock at the last activation or reconnect

world == <<observed, reported, reports, advertised>>
vars == <<clock, identity, mirror, routes, waiting, world, stopped, fence>>

--------------------------------------------------------------------------------
(* Data.                                                                    *)

Transports == {"game", "p2p"}
Endpoints == Hosts \X Ports
HostOf(endpoint) == endpoint[1]
PortOf(endpoint) == endpoint[2]
NoHost == "none"
NotInRoom == -1

Generations == 0 .. MaxGeneration
Epochs == 0 .. MaxEpoch
Identity == [generation : Generations, host : Hosts \cup {NoHost}, activated : Epochs,
             status : {"out", "active", "ownerless", "draining"}]
Nobody == [generation |-> 0, host |-> NoHost, activated |-> 0, status |-> "out"]
ActiveIdentity == [generation : Generations, host : Hosts, boundary : Epochs \cup {-1}]
\* UdpEndpointBinding, with the epoch of the datagram it was learned from.
Binding == [endpoint : Endpoints, generation : Generations, learned : Epochs]
Datagram == [transport : Transports, user : Riders, source : Endpoints, arrival : Epochs]
Observation == [generation : Generations, port : Ports]
Report == [user : Riders, generation : Generations, port : Ports]

TypeOK ==
    /\ clock \in Epochs /\ identity \in [Riders -> Identity]
    /\ DOMAIN mirror \subseteq Riders /\ mirror \in [DOMAIN mirror -> ActiveIdentity]
    /\ DOMAIN routes = Transports /\ routes = [t \in Transports |-> routes[t]]
    /\ \A t \in Transports : /\ DOMAIN routes[t] \subseteq Riders
                             /\ routes[t] \in [DOMAIN routes[t] -> Binding]
    /\ waiting \in [Transports -> Seq(Datagram)]
    /\ DOMAIN observed \subseteq Riders /\ observed \in [DOMAIN observed -> Observation]
    /\ reported \in [Riders -> Ports \cup {0}] /\ reports \subseteq Report
    /\ advertised \in [Riders -> Ports \cup {0, NotInRoom}]
    /\ stopped \in BOOLEAN /\ fence \in [Riders -> Epochs]

Put(f, x, v) == [y \in DOMAIN f \cup {x} |-> IF y = x THEN v ELSE f[y]]
Drop(f, S) == [y \in DOMAIN f \ S |-> f[y]]

Init ==
    /\ clock = 0 /\ stopped = FALSE
    /\ identity = [u \in Riders |-> Nobody]
    /\ mirror = << >> /\ routes = [t \in Transports |-> << >>]
    /\ waiting = [t \in Transports |-> << >>]
    /\ observed = << >> /\ reports = {}
    /\ reported = [u \in Riders |-> 0]
    /\ advertised = [u \in Riders |-> NotInRoom]
    /\ fence = [u \in Riders |-> 0]

--------------------------------------------------------------------------------
(* The arrival clock and the tables of the UDP actor.                       *)

\* UdpArrivalClock::increment saturates.
Tick == IF clock = MaxEpoch THEN clock ELSE clock + 1

Entitled(u) == u \in DOMAIN mirror /\ mirror[u].generation = identity[u].generation

\* advance_identity of a generation the mirror does not know yet.
AdvanceRefused(u) == u \notin DOMAIN mirror /\ Cardinality(DOMAIN mirror) >= MaxActive
Advanced(u, who) ==
    IF AdvanceRefused(u) THEN mirror
    ELSE Put(mirror, u, [generation |-> who.generation, host |-> who.host, boundary |-> -1])

\* GenerationEndpointTable::release
ReleasedRoutes(t, u, generation) ==
    Drop(routes[t], {v \in {u} \cap DOMAIN routes[t] : routes[t][v].generation = generation})

\* Mutant: a reconnect opens the route of the game socket only.
game_route_released(u, generation) ==
    [routes EXCEPT !["game"] = ReleasedRoutes("game", u, generation)]

BothReleased(u, generation) == [t \in Transports |-> ReleasedRoutes(t, u, generation)]

\* bind_authorized_ingress_at refuses the source; the World drops the datagram.
SourceRefused(d) ==
    \/ d.arrival <= mirror[d.user].boundary
    \/ HostOf(d.source) # mirror[d.user].host

\* GenerationEndpointTable::bind: the first endpoint of a generation wins.
Bindable(d) ==
    LET table == routes[d.transport]
    IN \/ d.user \notin DOMAIN table
       \/ table[d.user].generation < identity[d.user].generation
       \/ table[d.user].generation = identity[d.user].generation /\ table[d.user].endpoint = d.source
Bound(d) ==
    [routes EXCEPT ![d.transport] = Put(@, d.user,
        [endpoint |-> d.source, generation |-> identity[d.user].generation,
         learned |-> d.arrival])]

--------------------------------------------------------------------------------
(* Identities.                                                              *)

\* Mutant: an identity that only waits for its operations takes no place.
active_ones == {u \in Riders : identity[u].status \in {"active", "ownerless"}}

\* retained_identity_count
Retained == {u \in Riders : identity[u].status # "out"}

\* claim_identity_at_udp_epoch, by a session on host h.
Claim(u, h) ==
    LET who == [generation |-> identity[u].generation + 1, host |-> h,
                activated |-> Tick, status |-> "active"]
    IN /\ ~stopped /\ identity[u].status = "out" /\ identity[u].generation < MaxGeneration
       /\ Cardinality(Retained) < Capacity
       /\ clock' = Tick /\ identity' = [identity EXCEPT ![u] = who]
       /\ mirror' = Advanced(u, who) /\ stopped' = AdvanceRefused(u)
       /\ observed' = Drop(observed, {u}) /\ reported' = [reported EXCEPT ![u] = 0]
       /\ fence' = [fence EXCEPT ![u] = Tick]
       /\ UNCHANGED <<routes, waiting, reports, advertised>>

\* complete_preflighted_migration: to the host the permit was issued for.  The
\* rider stays in its room, which shows no port for it, or leaves the room.
Migrate(u) ==
    LET who == [generation |-> identity[u].generation + 1, host |-> identity[u].host,
                activated |-> Tick, status |-> "active"]
    IN /\ ~stopped /\ identity[u].status \in {"active", "ownerless"}
       /\ identity[u].generation < MaxGeneration
       /\ clock' = Tick /\ identity' = [identity EXCEPT ![u] = who]
       /\ mirror' = Advanced(u, who) /\ stopped' = AdvanceRefused(u)
       /\ observed' = Drop(observed, {u}) /\ reported' = [reported EXCEPT ![u] = 0]
       /\ \E port \in {0, NotInRoom} :
            /\ advertised[u] = NotInRoom => port = NotInRoom
            /\ advertised' = [advertised EXCEPT ![u] = port]
       /\ fence' = [fence EXCEPT ![u] = Tick]
       /\ UNCHANGED <<routes, waiting, reports>>

\* close_session_state: with a permit the identity waits for a migration, with
\* admitted operations for their end.
Disconnect(u) ==
    /\ ~stopped /\ identity[u].status = "active"
    /\ identity' = [identity EXCEPT ![u].status = "ownerless"]
    /\ UNCHANGED <<clock, mirror, routes, waiting, world, stopped, fence>>
Retire(u) ==
    /\ ~stopped /\ identity[u].status \in {"active", "ownerless"}
    /\ identity' = [identity EXCEPT ![u].status = "draining"]
    /\ UNCHANGED <<clock, mirror, routes, waiting, world, stopped, fence>>

\* release_identity_state and remove_released_identity; without operations at
\* once, else when the last of them has ended.
Release(u) ==
    /\ ~stopped /\ identity[u].status # "out"
    /\ identity' = [identity EXCEPT ![u] = [Nobody EXCEPT !.generation = identity[u].generation]]
    /\ observed' = Drop(observed, {u}) /\ reported' = [reported EXCEPT ![u] = 0]
    /\ advertised' = [advertised EXCEPT ![u] = NotInRoom] /\ fence' = [fence EXCEPT ![u] = 0]
    /\ IF Entitled(u)
       THEN /\ mirror' = Drop(mirror, {u})
            /\ routes' = BothReleased(u, identity[u].generation)
       ELSE UNCHANGED <<mirror, routes>>
    /\ UNCHANGED <<clock, waiting, reports, stopped>>

\* AuthorizeUdpRebind: the client has a new socket (authorize_rebind).
Reconnect(u) ==
    /\ ~stopped /\ identity[u].status = "active"
    /\ clock' = Tick /\ fence' = [fence EXCEPT ![u] = Tick]
    /\ stopped' = ~Entitled(u)
    /\ IF Entitled(u) /\ mirror[u].boundary < Tick
       THEN /\ mirror' = [mirror EXCEPT ![u].boundary = Tick]
            /\ routes' = BothReleased(u, identity[u].generation)
       ELSE UNCHANGED <<mirror, routes>>
    /\ UNCHANGED <<identity, waiting, world>>

--------------------------------------------------------------------------------
(* Datagrams.                                                               *)

\* recv_from: the stamp is taken with the datagram, under the clock's lock.
Receive(t, u, source) ==
    /\ Len(waiting[t]) < MaxWaiting
    /\ clock' = Tick
    /\ waiting' = [waiting EXCEPT ![t] = Append(@,
          [transport |-> t, user |-> u, source |-> source, arrival |-> Tick])]
    /\ UNCHANGED <<identity, mirror, routes, world, stopped, fence>>

\* admit_udp_operation
Admits(d) == /\ identity[d.user].status = "active"
             /\ d.arrival > identity[d.user].activated

\* The one who reads the advertised port of a rider: its own room.
Shown(u, port) == IF advertised[u] = NotInRoom THEN NotInRoom ELSE port

\* record_observed_p2p_port
Recorded(d) ==
    LET seen == [generation |-> identity[d.user].generation, port |-> PortOf(d.source)]
    IN IF d.user \in DOMAIN observed /\ observed[d.user] = seen
       THEN UNCHANGED <<observed, advertised>>
       ELSE /\ observed' = Put(observed, d.user, seen)
            /\ advertised' = [advertised EXCEPT ![d.user] = Shown(d.user, seen.port)]

\* dispatch_udp_ingress of an admitted datagram: bound, or dropped, or refused
\* so that the World has to stop.
Dispatch(t) ==
    /\ ~stopped /\ waiting[t] # << >> /\ Admits(Head(waiting[t]))
    /\ LET d == Head(waiting[t])
       IN IF ~Entitled(d.user) THEN stopped' = TRUE /\ UNCHANGED <<routes, observed, advertised>>
          ELSE IF SourceRefused(d) \/ ~Bindable(d)
          THEN UNCHANGED <<stopped, routes, observed, advertised>>
          ELSE /\ routes' = Bound(d) /\ UNCHANGED stopped
               /\ IF t = "p2p" THEN Recorded(d) ELSE UNCHANGED <<observed, advertised>>
    /\ waiting' = [waiting EXCEPT ![t] = Tail(@)]
    /\ UNCHANGED <<clock, identity, mirror, reported, reports, fence>>

\* A datagram that the registry does not admit, or that did not find room in
\* the mailbox.
Discard(t) ==
    /\ waiting[t] # << >>
    /\ waiting' = [waiting EXCEPT ![t] = Tail(@)]
    /\ UNCHANGED <<clock, identity, mirror, routes, world, stopped, fence>>

--------------------------------------------------------------------------------
(* Rooms and reported ports.                                                *)

Observes(u) == u \in DOMAIN observed /\ observed[u].generation = identity[u].generation

\* Mutant: the stored report goes out although a datagram has shown better.
report_preferred(u, port) == port

\* observed_p2p_port(..).unwrap_or(port)
BestPort(u, port) == IF Observes(u) THEN observed[u].port ELSE port

\* prepare_participant
Enter(u) ==
    /\ ~stopped /\ identity[u].status = "active" /\ advertised[u] = NotInRoom
    /\ \A r \in reports : r.user = u => r.generation # identity[u].generation
    /\ advertised' = [advertised EXCEPT ![u] = BestPort(u, reported[u])]
    /\ UNCHANGED <<clock, identity, mirror, routes, waiting, observed, reported, reports,
                   stopped, fence>>
Leave(u) ==
    /\ ~stopped /\ advertised[u] # NotInRoom
    /\ advertised' = [advertised EXCEPT ![u] = NotInRoom]
    /\ UNCHANGED <<clock, identity, mirror, routes, waiting, observed, reported, reports,
                   stopped, fence>>

\* The client's report of its port is handed to the profile writer; the session
\* serves no other request until it is answered.
Send(u, port) ==
    /\ ~stopped /\ identity[u].status = "active"
    /\ \A r \in reports : r.user = u => r.generation # identity[u].generation
    /\ reports' = reports \cup
         {[user |-> u, generation |-> identity[u].generation, port |-> port]}
    /\ UNCHANGED <<clock, identity, mirror, routes, waiting, observed, reported, advertised,
                   stopped, fence>>

\* publish_durable_profile_presentation: the report is stored, perhaps after its
\* identity has moved on; then nothing is shown.
Stored(r) ==
    /\ ~stopped /\ r \in reports
    /\ reports' = reports \ {r}
    /\ IF identity[r.user].status = "active" /\ identity[r.user].generation = r.generation
       THEN /\ reported' = [reported EXCEPT ![r.user] = r.port]
            /\ advertised' = [advertised EXCEPT ![r.user] =
                                Shown(r.user, BestPort(r.user, r.port))]
       ELSE UNCHANGED <<reported, advertised>>
    /\ UNCHANGED <<clock, identity, mirror, routes, waiting, observed, stopped, fence>>

--------------------------------------------------------------------------------
(* The specification.                                                       *)

Next ==
    \/ \E u \in Riders : \/ \E h \in Hosts : Claim(u, h)
                         \/ Migrate(u) \/ Disconnect(u) \/ Retire(u) \/ Release(u)
    \/ \E u \in Players : \/ Reconnect(u) \/ Enter(u) \/ Leave(u)
                          \/ \E port \in Ports : Send(u, port)
    \/ \E t \in Transports : \/ \E u \in Players, source \in Endpoints : Receive(t, u, source)
                             \/ Dispatch(t) \/ Discard(t)
    \/ \E r \in reports : Stored(r)

Spec == Init /\ [][Next]_vars

--------------------------------------------------------------------------------
(* Properties.                                                              *)

\* current_authorized_target: where a relay for u is sent.
Target(t, u) ==
    {routes[t][v] : v \in {x \in {u} \cap DOMAIN routes[t] :
        Entitled(x) /\ routes[t][x].generation = mirror[x].generation}}

\* A rider is reached only at an address of his own host, learned from a
\* datagram that arrived after his generation was activated and after his last
\* reconnect - however long datagrams have waited.
RoutesAreFresh == \A t \in Transports, u \in Riders : \A route \in Target(t, u) :
    identity[u].status # "out" =>
        route.learned > fence[u] /\ HostOf(route.endpoint) = identity[u].host

\* A room shows the port that the current generation was observed at, and before
\* that the port it has reported: never one of an earlier generation, whatever
\* the order in which migrations, datagrams and stored reports come in.
AdvertisedIsCurrent == \A u \in Riders :
    identity[u].status = "active" /\ advertised[u] # NotInRoom =>
        advertised[u] = IF Observes(u) THEN observed[u].port ELSE reported[u]

\* The UDP actor never refuses an identity the World names: its mirror follows
\* the registry and has room for it, or the whole server would stop.
WorldGoesOn == ~stopped
================================================================================
