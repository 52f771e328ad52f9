-------------------------- MODULE UdpEndpointsProofs --------------------------
(***************************************************************************)
(* The three properties of UdpEndpoints.tla, for every set of riders, hosts *)
(* and ports and every limit.                                               *)
(*                                                                         *)
(* The World is never refused because the mirror of the UDP actor follows  *)
(* the registry exactly, so that its limit is never below what the World   *)
(* retains.  A relayed address is fresh because the two epochs a datagram  *)
(* is held against - the activation, by the registry, and the reconnect    *)
(* boundary, by the UDP actor - together are the fence, and because a      *)
(* route that the fence has passed is released or of an earlier generation.*)
(***************************************************************************)
EXTENDS UdpEndpoints, FiniteSetTheorems, TLAPS

\* The mirror names the identities of the registry and no others.
MirrorFollows ==
    /\ ~stopped /\ DOMAIN mirror = Retained
    /\ \A u \in Retained : /\ mirror[u].generation = identity[u].generation
                           /\ mirror[u].host = identity[u].host

\* The two epochs that a datagram must have passed are those of the fence.
FencesExact ==
    /\ \A u \in Riders : fence[u] <= clock
    /\ \A u \in Retained : /\ fence[u] \in {identity[u].activated, mirror[u].boundary}
                           /\ mirror[u].boundary <= fence[u]

\* What is known of the binding b of u.
Behind(u, b) ==
    /\ b.generation <= identity[u].generation
    /\ u \in Retained /\ b.generation = identity[u].generation =>
          b.learned > fence[u] /\ HostOf(b.endpoint) = identity[u].host
RoutesBehind ==
    \A t \in Transports, u \in Riders : u \in DOMAIN routes[t] => Behind(u, routes[t][u])

\* An identity enters the registry in no room.
OutOfRooms == \A u \in Riders : identity[u].status = "out" => advertised[u] = NotInRoom

\* The inductive invariant.
EndpointInv ==
    TypeOK /\ MirrorFollows /\ FencesExact /\ RoutesBehind /\ OutOfRooms /\ AdvertisedIsCurrent

--------------------------------------------------------------------------------
(* Facts of a single state.                                                 *)

\* The clock and the constants are numbers.
LEMMA Numbers ==
    ASSUME TypeOK
    PROVE  /\ MaxEpoch \in Nat /\ clock \in Nat /\ Tick \in Epochs
           /\ clock <= Tick /\ Tick <= MaxEpoch
BY UdpConstants DEF TypeOK, Epochs, Tick

\* The UDP actor has a place for whomever the World admits.
LEMMA NeverRefused ==
    ASSUME TypeOK, MirrorFollows, NEW u \in Riders,
           u \in Retained \/ Cardinality(Retained) < Capacity
    PROVE  ~AdvanceRefused(u)
<1>1. IsFiniteSet(Retained)
  BY UdpConstants, FS_Subset DEF Retained
<1>2. Cardinality(Retained) \in Nat
  BY <1>1, FS_CardinalityType
<1> QED
  BY <1>2, UdpConstants DEF AdvanceRefused, MirrorFollows

\* Releasing both routes of the current generation leaves only earlier ones.
LEMMA ReleasedType ==
    ASSUME TypeOK, NEW u \in Riders, NEW g, NEW t \in Transports
    PROVE  /\ DOMAIN BothReleased(u, g) = Transports
           /\ BothReleased(u, g) = [s \in Transports |-> BothReleased(u, g)[s]]
           /\ DOMAIN BothReleased(u, g)[t] \subseteq DOMAIN routes[t]
           /\ BothReleased(u, g)[t] \in [DOMAIN BothReleased(u, g)[t] -> Binding]
           /\ \A v \in DOMAIN BothReleased(u, g)[t] :
                 /\ BothReleased(u, g)[t][v] = routes[t][v]
                 /\ v = u => routes[t][v].generation # g
<1> DEFINE X == {v \in {u} \cap DOMAIN routes[t] : routes[t][v].generation = g}
<1>1. BothReleased(u, g)[t] = Drop(routes[t], X)
  BY DEF BothReleased, ReleasedRoutes
<1>2. routes[t] \in [DOMAIN routes[t] -> Binding]
  BY DEF TypeOK
<1>3. \A v \in DOMAIN routes[t] \ X : v = u => routes[t][v].generation # g
  OBVIOUS
<1> HIDE DEF X
<1>4. /\ Drop(routes[t], X) \in [DOMAIN routes[t] \ X -> Binding]
      /\ DOMAIN Drop(routes[t], X) = DOMAIN routes[t] \ X
      /\ \A y \in DOMAIN routes[t] \ X : Drop(routes[t], X)[y] = routes[t][y]
  BY <1>2 DEF Drop
<1>5. /\ DOMAIN BothReleased(u, g) = Transports
      /\ BothReleased(u, g) = [s \in Transports |-> BothReleased(u, g)[s]]
  BY DEF BothReleased
<1> QED
  BY <1>1, <1>3, <1>4, <1>5

--------------------------------------------------------------------------------
(* Identities.                                                              *)

\* A new generation of u, as Claim and Migrate put it into force.
Activates(u, who) ==
    /\ who \in Identity /\ who.host \in Hosts /\ who.status = "active"
    /\ who.generation = identity[u].generation + 1 /\ who.activated = Tick
    /\ u \in Retained \/ Cardinality(Retained) < Capacity
    /\ clock' = Tick /\ identity' = [identity EXCEPT ![u] = who]
    /\ mirror' = Advanced(u, who) /\ stopped' = AdvanceRefused(u)
    /\ observed' = Drop(observed, {u}) /\ reported' = [reported EXCEPT ![u] = 0]
    /\ \E port \in {0, NotInRoom} : advertised' = [advertised EXCEPT ![u] = port]
    /\ fence' = [fence EXCEPT ![u] = Tick]
    /\ UNCHANGED <<routes, waiting, reports>>

LEMMA ActivatesKeeps ==
    ASSUME EndpointInv, NEW u \in Riders, NEW who, Activates(u, who)
    PROVE  EndpointInv'
<1> DEFINE seat == [generation |-> who.generation, host |-> who.host, boundary |-> -1]
<1>1. TypeOK /\ MirrorFollows /\ FencesExact /\ RoutesBehind /\ OutOfRooms /\ AdvertisedIsCurrent
  BY DEF EndpointInv
<1>2. /\ MaxEpoch \in Nat /\ clock \in Nat /\ Tick \in Epochs
      /\ clock <= Tick /\ Tick <= MaxEpoch
  BY <1>1, Numbers
<1>3. ~AdvanceRefused(u)
  BY <1>1, NeverRefused DEF Activates
<1>4. mirror' = Put(mirror, u, seat) /\ stopped' = FALSE
  BY <1>3 DEF Activates, Advanced
<1>5. seat \in ActiveIdentity
  BY DEF Activates, ActiveIdentity, Identity
<1>6. mirror \in [DOMAIN mirror -> ActiveIdentity] /\ DOMAIN mirror \subseteq Riders
  BY <1>1 DEF TypeOK
<1>7. /\ mirror' \in [DOMAIN mirror \cup {u} -> ActiveIdentity]
      /\ DOMAIN mirror' = DOMAIN mirror \cup {u}
      /\ mirror'[u] = seat
      /\ \A v \in DOMAIN mirror : v # u => mirror'[v] = mirror[v]
  BY <1>4, <1>5, <1>6 DEF Put
<1>8. /\ seat.generation = who.generation /\ seat.host = who.host /\ seat.boundary = -1
  OBVIOUS
<1> HIDE DEF seat
<1>9. /\ identity \in [Riders -> Identity] /\ fence \in [Riders -> Epochs]
      /\ reported \in [Riders -> Ports \cup {0}]
      /\ advertised \in [Riders -> Ports \cup {0, NotInRoom}]
  BY <1>1 DEF TypeOK
<1>10. /\ identity' \in [Riders -> Identity] /\ identity'[u] = who
       /\ \A v \in Riders : v # u => identity'[v] = identity[v]
  BY <1>9 DEF Activates
<1>11. /\ fence' \in [Riders -> Epochs] /\ fence'[u] = Tick
       /\ \A v \in Riders : v # u => fence'[v] = fence[v]
  BY <1>9, <1>2 DEF Activates
<1>12. /\ reported' \in [Riders -> Ports \cup {0}] /\ reported'[u] = 0
       /\ \A v \in Riders : v # u => reported'[v] = reported[v]
  BY <1>9 DEF Activates
<1>13. /\ advertised' \in [Riders -> Ports \cup {0, NotInRoom}]
       /\ advertised'[u] \in {0, NotInRoom}
       /\ \A v \in Riders : v # u => advertised'[v] = advertised[v]
  BY <1>9 DEF Activates
<1>14. observed \in [DOMAIN observed -> Observation] /\ DOMAIN observed \subseteq Riders
  BY <1>1 DEF TypeOK
<1>15. /\ observed' \in [DOMAIN observed \ {u} -> Observation]
       /\ DOMAIN observed' = DOMAIN observed \ {u}
       /\ \A v \in DOMAIN observed \ {u} : observed'[v] = observed[v]
  BY <1>14 DEF Activates, Drop
<1>16. Retained' = Retained \cup {u}
  BY <1>10 DEF Retained, Activates
<1>17. clock' = Tick /\ routes' = routes /\ waiting' = waiting /\ reports' = reports
  BY DEF Activates
<1>18. who.status = "active" /\ who.generation = identity[u].generation + 1 /\ who.activated = Tick
  BY DEF Activates
<1>19. TypeOK'
  BY <1>1, <1>2, <1>4, <1>6, <1>7, <1>10, <1>11, <1>12, <1>13, <1>14, <1>15, <1>17 DEF TypeOK
<1>20. MirrorFollows'
  BY <1>1, <1>4, <1>7, <1>8, <1>10, <1>16 DEF MirrorFollows, Retained
<1>21. FencesExact'
  <2>1. \A v \in Riders : fence'[v] <= clock'
    BY <1>1, <1>2, <1>11, <1>17, <1>9 DEF FencesExact, Epochs
  <2>2. \A v \in Retained' : /\ fence'[v] \in {identity'[v].activated, mirror'[v].boundary}
                             /\ mirror'[v].boundary <= fence'[v]
    BY <1>1, <1>2, <1>7, <1>8, <1>10, <1>11, <1>16, <1>18 DEF FencesExact, MirrorFollows, Retained, Epochs
  <2> QED
    BY <2>1, <2>2 DEF FencesExact
<1>22. RoutesBehind'
  <2>1. SUFFICES ASSUME NEW t \in Transports, NEW v \in Riders, v \in DOMAIN routes[t]
                 PROVE  Behind(v, routes[t][v])'
    BY <1>17 DEF RoutesBehind
  <2>2. Behind(v, routes[t][v])
    BY <1>1, <2>1 DEF RoutesBehind
  <2>3. routes[t][v].generation \in Nat /\ identity[v].generation \in Nat
    BY <1>1, <1>9, <2>1, UdpConstants DEF TypeOK, Binding, Identity, Generations
  <2> QED
    BY <1>10, <1>11, <1>16, <1>17, <1>18, <2>2, <2>3 DEF Behind
<1>23. OutOfRooms'
  BY <1>1, <1>10, <1>13, <1>18 DEF OutOfRooms
<1>24. AdvertisedIsCurrent'
  <2>1. SUFFICES ASSUME NEW v \in Riders, identity'[v].status = "active",
                        advertised'[v] # NotInRoom
                 PROVE  advertised'[v] =
                          IF Observes(v)' THEN observed'[v].port ELSE reported'[v]
    BY DEF AdvertisedIsCurrent
  <2>2. CASE v = u
    BY <2>1, <2>2, <1>12, <1>13, <1>15 DEF Observes, NotInRoom
  <2>3. CASE v # u
    BY <2>1, <2>3, <1>1, <1>10, <1>12, <1>13, <1>15 DEF Observes, AdvertisedIsCurrent
  <2> QED
    BY <2>2, <2>3
<1> QED
  BY <1>19, <1>20, <1>21, <1>22, <1>23, <1>24 DEF EndpointInv

LEMMA ClaimKeeps ==
    ASSUME EndpointInv, NEW u \in Riders, NEW h \in Hosts, Claim(u, h)
    PROVE  EndpointInv'
<1> DEFINE who == [generation |-> identity[u].generation + 1, host |-> h,
                   activated |-> Tick, status |-> "active"]
<1>1. TypeOK /\ OutOfRooms
  BY DEF EndpointInv
<1>2. Tick \in Epochs
  BY <1>1, Numbers
<1>3. identity[u] \in Identity /\ identity[u].generation < MaxGeneration
  BY <1>1 DEF Claim, TypeOK
<1>4. who \in Identity
  BY <1>2, <1>3, UdpConstants DEF Identity, Generations
<1>5. advertised[u] = NotInRoom /\ advertised \in [Riders -> Ports \cup {0, NotInRoom}]
  BY <1>1 DEF Claim, OutOfRooms, TypeOK
<1>6. advertised' = [advertised EXCEPT ![u] = NotInRoom]
  BY <1>5 DEF Claim
<1>7. Activates(u, who)
  BY <1>4, <1>6 DEF Claim, Activates
<1> QED
  BY <1>7, ActivatesKeeps

LEMMA MigrateKeeps ==
    ASSUME EndpointInv, NEW u \in Riders, Migrate(u)
    PROVE  EndpointInv'
<1> DEFINE who == [generation |-> identity[u].generation + 1, host |-> identity[u].host,
                   activated |-> Tick, status |-> "active"]
<1>1. TypeOK /\ MirrorFollows
  BY DEF EndpointInv
<1>2. Tick \in Epochs
  BY <1>1, Numbers
<1>3. identity[u] \in Identity /\ identity[u].generation < MaxGeneration
  BY <1>1 DEF Migrate, TypeOK
<1>4. u \in Retained
  BY DEF Migrate, Retained
<1>5. identity[u].host \in Hosts
  BY <1>1, <1>4 DEF TypeOK, MirrorFollows, ActiveIdentity
<1>6. who \in Identity
  BY <1>2, <1>3, <1>5, UdpConstants DEF Identity, Generations
<1>7. Activates(u, who)
  BY <1>4, <1>5, <1>6 DEF Migrate, Activates
<1> QED
  BY <1>7, ActivatesKeeps

\* Disconnect and Retire change the status of an identity and nothing else.
LEMMA StatusKeeps ==
    ASSUME EndpointInv, NEW u \in Riders, Disconnect(u) \/ Retire(u)
    PROVE  EndpointInv'
<1>1. TypeOK /\ MirrorFollows /\ FencesExact /\ RoutesBehind /\ OutOfRooms /\ AdvertisedIsCurrent
  BY DEF EndpointInv
<1>2. PICK status \in {"ownerless", "draining"} :
          identity' = [identity EXCEPT ![u].status = status]
  BY DEF Disconnect, Retire
<1>3. identity \in [Riders -> Identity]
  BY <1>1 DEF TypeOK
<1>4. /\ identity' \in [Riders -> Identity]
      /\ identity'[u].status = status
      /\ \A v \in Riders : /\ identity'[v].generation = identity[v].generation
                           /\ identity'[v].host = identity[v].host
                           /\ identity'[v].activated = identity[v].activated
                           /\ v # u => identity'[v] = identity[v]
  BY <1>2, <1>3 DEF Identity
<1>5. u \in Retained
  BY DEF Disconnect, Retire, Retained
<1>6. Retained' = Retained
  BY <1>4, <1>5 DEF Retained
<1>7. UNCHANGED <<clock, mirror, routes, waiting, world, stopped, fence>>
  BY DEF Disconnect, Retire
<1>8. UNCHANGED <<clock, mirror, routes, waiting, observed, reported, reports, advertised,
                  stopped, fence>>
  BY <1>7 DEF world
<1>9. TypeOK'
  BY <1>1, <1>4, <1>8 DEF TypeOK
<1>10. MirrorFollows'
  BY <1>1, <1>4, <1>6, <1>8 DEF MirrorFollows, Retained
<1>11. FencesExact'
  BY <1>1, <1>4, <1>6, <1>8 DEF FencesExact, Retained
<1>12. RoutesBehind'
  BY <1>1, <1>4, <1>6, <1>8 DEF RoutesBehind, Behind
<1>13. OutOfRooms'
  BY <1>1, <1>4, <1>8 DEF OutOfRooms
<1>14. AdvertisedIsCurrent'
  BY <1>1, <1>4, <1>8 DEF AdvertisedIsCurrent, Observes
<1> QED
  BY <1>9, <1>10, <1>11, <1>12, <1>13, <1>14 DEF EndpointInv

LEMMA ReleaseKeeps ==
    ASSUME EndpointInv, NEW u \in Riders, Release(u)
    PROVE  EndpointInv'
<1> DEFINE g == identity[u].generation
<1>1. TypeOK /\ MirrorFollows /\ FencesExact /\ RoutesBehind /\ OutOfRooms /\ AdvertisedIsCurrent
  BY DEF EndpointInv
<1>2. u \in Retained
  BY DEF Release, Retained
<1>3. Entitled(u)
  BY <1>1, <1>2 DEF MirrorFollows, Entitled
<1>4. mirror' = Drop(mirror, {u}) /\ routes' = BothReleased(u, g)
  BY <1>3 DEF Release
<1>5. /\ UNCHANGED <<clock, waiting, reports, stopped>>
      /\ observed' = Drop(observed, {u}) /\ reported' = [reported EXCEPT ![u] = 0]
      /\ advertised' = [advertised EXCEPT ![u] = NotInRoom] /\ fence' = [fence EXCEPT ![u] = 0]
      /\ identity' = [identity EXCEPT ![u] = [Nobody EXCEPT !.generation = g]]
  BY DEF Release
<1>6. /\ identity \in [Riders -> Identity] /\ fence \in [Riders -> Epochs]
      /\ reported \in [Riders -> Ports \cup {0}]
      /\ advertised \in [Riders -> Ports \cup {0, NotInRoom}]
      /\ MaxEpoch \in Nat /\ clock \in Nat
  BY <1>1, Numbers DEF TypeOK
<1>7. g \in Generations
  BY <1>6 DEF Identity
<1>8. /\ [Nobody EXCEPT !.generation = g] \in Identity
      /\ [Nobody EXCEPT !.generation = g].status = "out"
      /\ [Nobody EXCEPT !.generation = g].generation = g
  BY <1>6, <1>7 DEF Nobody, Identity, Epochs
<1>9. /\ identity' \in [Riders -> Identity]
      /\ identity'[u].status = "out" /\ identity'[u].generation = g
      /\ \A v \in Riders : v # u => identity'[v] = identity[v]
  BY <1>5, <1>6, <1>8
<1>10. /\ mirror' \in [DOMAIN mirror \ {u} -> ActiveIdentity]
       /\ DOMAIN mirror' = DOMAIN mirror \ {u}
       /\ \A v \in DOMAIN mirror \ {u} : mirror'[v] = mirror[v]
  BY <1>1, <1>4 DEF TypeOK, Drop
<1>11. /\ observed' \in [DOMAIN observed \ {u} -> Observation]
       /\ DOMAIN observed' = DOMAIN observed \ {u}
       /\ \A v \in DOMAIN observed \ {u} : observed'[v] = observed[v]
  BY <1>1, <1>5 DEF TypeOK, Drop
<1>12. /\ fence' \in [Riders -> Epochs] /\ fence'[u] = 0
       /\ \A v \in Riders : v # u => fence'[v] = fence[v]
  BY <1>5, <1>6 DEF Epochs
<1>13. /\ reported' \in [Riders -> Ports \cup {0}]
       /\ \A v \in Riders : v # u => reported'[v] = reported[v]
       /\ advertised' \in [Riders -> Ports \cup {0, NotInRoom}]
       /\ advertised'[u] = NotInRoom
       /\ \A v \in Riders : v # u => advertised'[v] = advertised[v]
  BY <1>5, <1>6
<1>14. Retained' = Retained \ {u}
  BY <1>9 DEF Retained
<1>15. /\ DOMAIN routes' = Transports /\ routes' = [t \in Transports |-> routes'[t]]
       /\ \A t \in Transports : /\ DOMAIN routes'[t] \subseteq DOMAIN routes[t]
                                /\ routes'[t] \in [DOMAIN routes'[t] -> Binding]
                                /\ \A v \in DOMAIN routes'[t] : routes'[t][v] = routes[t][v]
  BY <1>1, <1>4, ReleasedType DEF Transports
<1>16. TypeOK'
  BY <1>1, <1>5, <1>9, <1>10, <1>11, <1>12, <1>13, <1>15 DEF TypeOK
<1>17. MirrorFollows'
  BY <1>1, <1>5, <1>9, <1>10, <1>14 DEF MirrorFollows, Retained
<1>18. FencesExact'
  BY <1>1, <1>5, <1>6, <1>9, <1>10, <1>12, <1>14 DEF FencesExact, MirrorFollows, Retained
<1>19. RoutesBehind'
  BY <1>1, <1>9, <1>12, <1>14, <1>15 DEF RoutesBehind, Behind
<1>20. OutOfRooms'
  BY <1>1, <1>9, <1>13 DEF OutOfRooms
<1>21. AdvertisedIsCurrent'
  BY <1>1, <1>9, <1>11, <1>13 DEF AdvertisedIsCurrent, Observes
<1> QED
  BY <1>16, <1>17, <1>18, <1>19, <1>20, <1>21 DEF EndpointInv

LEMMA ReconnectKeeps ==
    ASSUME EndpointInv, NEW u \in Riders, Reconnect(u)
    PROVE  EndpointInv'
<1> DEFINE g == identity[u].generation
<1>1. TypeOK /\ MirrorFollows /\ FencesExact /\ RoutesBehind /\ OutOfRooms /\ AdvertisedIsCurrent
  BY DEF EndpointInv
<1>2. /\ MaxEpoch \in Nat /\ clock \in Nat /\ Tick \in Epochs
      /\ clock <= Tick /\ Tick <= MaxEpoch
  BY <1>1, Numbers
<1>3. u \in Retained
  BY DEF Reconnect, Retained
<1>4. Entitled(u)
  BY <1>1, <1>3 DEF MirrorFollows, Entitled
<1>5. /\ clock' = Tick /\ fence' = [fence EXCEPT ![u] = Tick] /\ stopped' = FALSE
      /\ identity' = identity /\ waiting' = waiting /\ observed' = observed
      /\ reported' = reported /\ reports' = reports /\ advertised' = advertised
  BY <1>4 DEF Reconnect, world
<1>6. fence \in [Riders -> Epochs] /\ mirror \in [DOMAIN mirror -> ActiveIdentity]
  BY <1>1 DEF TypeOK
<1>7. /\ fence' \in [Riders -> Epochs] /\ fence'[u] = Tick
      /\ \A v \in Riders : v # u => fence'[v] = fence[v]
  BY <1>2, <1>5, <1>6
<1>8. Retained' = Retained
  BY <1>5 DEF Retained
<1>9. \A v \in Riders : fence'[v] <= clock'
  BY <1>1, <1>2, <1>5, <1>6, <1>7 DEF FencesExact, Epochs
<1>10. OutOfRooms' /\ AdvertisedIsCurrent'
  BY <1>1, <1>5 DEF OutOfRooms, AdvertisedIsCurrent, Observes
<1>11. CASE mirror[u].boundary < Tick
  <2>1. mirror' = [mirror EXCEPT ![u].boundary = Tick] /\ routes' = BothReleased(u, g)
    BY <1>4, <1>11 DEF Reconnect
  <2>2. u \in DOMAIN mirror
    BY <1>4 DEF Entitled
  <2>3. /\ mirror' \in [DOMAIN mirror -> ActiveIdentity]
        /\ DOMAIN mirror' = DOMAIN mirror
        /\ mirror'[u].boundary = Tick
        /\ mirror'[u].generation = mirror[u].generation
        /\ mirror'[u].host = mirror[u].host
        /\ \A v \in DOMAIN mirror : v # u => mirror'[v] = mirror[v]
    BY <2>1, <2>2, <1>2, <1>6 DEF ActiveIdentity
  <2>4. /\ DOMAIN routes' = Transports /\ routes' = [t \in Transports |-> routes'[t]]
        /\ \A t \in Transports :
              /\ DOMAIN routes'[t] \subseteq DOMAIN routes[t]
              /\ routes'[t] \in [DOMAIN routes'[t] -> Binding]
              /\ \A v \in DOMAIN routes'[t] : /\ routes'[t][v] = routes[t][v]
                                              /\ v = u => routes[t][v].generation # g
    BY <1>1, <2>1, ReleasedType DEF Transports
  <2>5. TypeOK'
    BY <1>1, <1>2, <1>5, <1>7, <2>3, <2>4 DEF TypeOK
  <2>6. MirrorFollows'
    BY <1>1, <1>5, <1>8, <2>3 DEF MirrorFollows
  <2>7. FencesExact'
    BY <1>1, <1>2, <1>5, <1>7, <1>8, <1>9, <2>3 DEF FencesExact, MirrorFollows, Retained, Epochs
  <2>8. RoutesBehind'
    BY <1>1, <1>5, <1>7, <1>8, <2>4 DEF RoutesBehind, Behind
  <2> QED
    BY <1>10, <2>5, <2>6, <2>7, <2>8 DEF EndpointInv
<1>12. CASE ~(mirror[u].boundary < Tick)
  <2>1. mirror' = mirror /\ routes' = routes
    BY <1>4, <1>12 DEF Reconnect
  <2>2. /\ mirror[u].boundary \in Epochs \cup {-1}
        /\ mirror[u].boundary <= fence[u] /\ fence[u] <= clock /\ fence[u] \in Epochs
    BY <1>1, <1>3, <1>6 DEF FencesExact, MirrorFollows, ActiveIdentity
  <2>3. fence[u] = Tick /\ clock = Tick
    BY <2>2, <1>2, <1>12 DEF Epochs
  <2>4. fence' = fence /\ clock' = clock
    BY <2>3, <1>5, <1>6
  <2>5. TypeOK' /\ MirrorFollows'
    BY <1>1, <1>5, <1>8, <2>1, <2>4 DEF TypeOK, MirrorFollows
  <2>6. FencesExact' /\ RoutesBehind'
    BY <1>1, <1>5, <1>8, <2>1, <2>4 DEF FencesExact, RoutesBehind, Behind
  <2> QED
    BY <1>10, <2>5, <2>6 DEF EndpointInv
<1> QED
  BY <1>11, <1>12

--------------------------------------------------------------------------------
(* Datagrams.                                                               *)

\* Receive and Discard change what waits, and the clock goes on.
LEMMA WaitingKeeps ==
    ASSUME EndpointInv, waiting' \in [Transports -> Seq(Datagram)], clock' \in {clock, Tick},
           UNCHANGED <<identity, mirror, routes, world, stopped, fence>>
    PROVE  EndpointInv'
<1>1. TypeOK /\ MirrorFollows /\ FencesExact /\ RoutesBehind /\ OutOfRooms /\ AdvertisedIsCurrent
  BY DEF EndpointInv
<1>2. clock \in Nat /\ clock \in Epochs /\ Tick \in Epochs /\ clock <= Tick
  BY <1>1, Numbers DEF TypeOK
<1>3. UNCHANGED <<identity, mirror, routes, observed, reported, reports, advertised, stopped,
                  fence>>
  BY DEF world
<1>4. Retained' = Retained
  BY <1>3 DEF Retained
<1>5. clock' \in Epochs /\ clock <= clock'
  BY <1>2
<1>6. fence \in [Riders -> Epochs]
  BY <1>1 DEF TypeOK
<1>7. TypeOK'
  BY <1>1, <1>3, <1>5 DEF TypeOK
<1>8. MirrorFollows' /\ RoutesBehind' /\ OutOfRooms' /\ AdvertisedIsCurrent'
  BY <1>1, <1>3, <1>4 DEF MirrorFollows, RoutesBehind, Behind, OutOfRooms,
                          AdvertisedIsCurrent, Observes
<1>9. \A u \in Riders : fence'[u] <= clock'
  BY <1>1, <1>2, <1>3, <1>5, <1>6 DEF FencesExact, Epochs
<1>10. FencesExact'
  BY <1>1, <1>3, <1>4, <1>9 DEF FencesExact
<1> QED
  BY <1>7, <1>8, <1>10 DEF EndpointInv

LEMMA ReceiveKeeps ==
    ASSUME EndpointInv, NEW t \in Transports, NEW u \in Riders, NEW source \in Endpoints,
           Receive(t, u, source)
    PROVE  EndpointInv'
<1> DEFINE d == [transport |-> t, user |-> u, source |-> source, arrival |-> Tick]
<1>1. TypeOK
  BY DEF EndpointInv
<1>2. d \in Datagram
  BY <1>1, Numbers DEF Datagram
<1>3. waiting' = [waiting EXCEPT ![t] = Append(@, d)]
  BY DEF Receive
<1> HIDE DEF d
<1>4. waiting \in [Transports -> Seq(Datagram)]
  BY <1>1 DEF TypeOK
<1>5. Append(waiting[t], d) \in Seq(Datagram)
  BY <1>2, <1>4
<1>6. waiting' \in [Transports -> Seq(Datagram)]
  BY <1>3, <1>4, <1>5
<1> QED
  BY <1>6, WaitingKeeps DEF Receive

\* Without its first element a sequence of datagrams is one, and that is a datagram.
LEMMA HeadAndTail ==
    ASSUME TypeOK, NEW t \in Transports, waiting[t] # << >>
    PROVE  /\ Head(waiting[t]) \in Datagram
           /\ [waiting EXCEPT ![t] = Tail(@)] \in [Transports -> Seq(Datagram)]
<1>1. waiting \in [Transports -> Seq(Datagram)]
  BY DEF TypeOK
<1>2. Head(waiting[t]) \in Datagram /\ Tail(waiting[t]) \in Seq(Datagram)
  BY <1>1
<1> QED
  BY <1>1, <1>2

LEMMA DiscardKeeps ==
    ASSUME EndpointInv, NEW t \in Transports, Discard(t)
    PROVE  EndpointInv'
<1>1. TypeOK /\ waiting[t] # << >>
  BY DEF EndpointInv, Discard
<1>2. waiting' \in [Transports -> Seq(Datagram)]
  BY <1>1, HeadAndTail DEF Discard
<1> QED
  BY <1>2, WaitingKeeps DEF Discard

\* A datagram that both the registry and the UDP actor admit has passed the fence.
LEMMA AdmittedIsFresh ==
    ASSUME EndpointInv, NEW d \in Datagram, Admits(d), Entitled(d.user), ~SourceRefused(d)
    PROVE  d.arrival > fence[d.user] /\ HostOf(d.source) = identity[d.user].host
<1>1. TypeOK /\ MirrorFollows /\ FencesExact
  BY DEF EndpointInv
<1>2. d.user \in Riders /\ d.user \in Retained
  BY DEF Admits, Retained, Datagram
<1>3. /\ fence[d.user] \in {identity[d.user].activated, mirror[d.user].boundary}
      /\ mirror[d.user].host = identity[d.user].host
  BY <1>1, <1>2 DEF FencesExact, MirrorFollows
<1>4. HostOf(d.source) = mirror[d.user].host /\ ~(d.arrival <= mirror[d.user].boundary)
  BY DEF SourceRefused
<1>5. /\ mirror[d.user] \in ActiveIdentity /\ d.arrival \in Epochs /\ MaxEpoch \in Nat
      /\ d.arrival > identity[d.user].activated
  BY <1>1, <1>2, Numbers DEF MirrorFollows, TypeOK, Datagram, Admits
<1>6. mirror[d.user].boundary \in Int /\ d.arrival \in Int
  BY <1>5 DEF ActiveIdentity, Epochs
<1>7. d.arrival > mirror[d.user].boundary
  BY <1>4, <1>6
<1> QED
  BY <1>3, <1>4, <1>5, <1>7

\* What a binding puts into the table.
LEMMA BoundKeeps ==
    ASSUME EndpointInv, NEW d \in Datagram, Admits(d), Entitled(d.user), ~SourceRefused(d),
           routes' = Bound(d), UNCHANGED <<identity, fence>>
    PROVE  /\ DOMAIN routes' = Transports /\ routes' = [t \in Transports |-> routes'[t]]
           /\ \A t \in Transports : /\ DOMAIN routes'[t] \subseteq Riders
                                    /\ routes'[t] \in [DOMAIN routes'[t] -> Binding]
           /\ RoutesBehind'
<1> DEFINE b == [endpoint |-> d.source, generation |-> identity[d.user].generation,
                 learned |-> d.arrival]
           s == d.transport
<1>1. TypeOK /\ RoutesBehind /\ MaxGeneration \in Nat
  BY UdpConstants DEF EndpointInv
<1>2. d.user \in Riders /\ s \in Transports
  BY DEF Datagram
<1>3. identity[d.user] \in Identity
  BY <1>1, <1>2 DEF TypeOK
<1>4. b \in Binding
  BY <1>3 DEF Binding, Identity, Datagram
<1>5. Behind(d.user, b)
  BY <1>1, <1>3, AdmittedIsFresh DEF Behind, Identity, Generations
<1>6. routes' = [routes EXCEPT ![s] = Put(routes[s], d.user, b)]
  BY DEF Bound
<1>7. DOMAIN routes = Transports /\ routes = [t \in Transports |-> routes[t]]
  BY <1>1 DEF TypeOK
<1>8. \A t \in Transports : routes[t] \in [DOMAIN routes[t] -> Binding] /\ DOMAIN routes[t] \subseteq Riders
  BY <1>1 DEF TypeOK
<1> HIDE DEF b, s
<1>9. /\ Put(routes[s], d.user, b) \in [DOMAIN routes[s] \cup {d.user} -> Binding]
      /\ DOMAIN Put(routes[s], d.user, b) = DOMAIN routes[s] \cup {d.user}
      /\ Put(routes[s], d.user, b)[d.user] = b
      /\ \A v \in DOMAIN routes[s] : v # d.user => Put(routes[s], d.user, b)[v] = routes[s][v]
  BY <1>2, <1>4, <1>8 DEF Put
<1>10. /\ DOMAIN routes' = Transports
       /\ routes'[s] = Put(routes[s], d.user, b)
       /\ \A t \in Transports : t # s => routes'[t] = routes[t]
       /\ routes' = [t \in Transports |-> routes'[t]]
  BY <1>2, <1>6, <1>7
<1>11. \A t \in Transports : /\ DOMAIN routes'[t] \subseteq Riders
                             /\ routes'[t] \in [DOMAIN routes'[t] -> Binding]
  <2>1. SUFFICES ASSUME NEW t \in Transports
                 PROVE  /\ DOMAIN routes'[t] \subseteq Riders
                        /\ routes'[t] \in [DOMAIN routes'[t] -> Binding]
    OBVIOUS
  <2>2. CASE t = s
    BY <2>2, <1>2, <1>8, <1>9, <1>10
  <2>3. CASE t # s
    BY <2>3, <1>8, <1>10
  <2> QED
    BY <2>2, <2>3
<1>12. ASSUME NEW t \in Transports, NEW v \in Riders, v \in DOMAIN routes'[t]
       PROVE  Behind(v, routes'[t][v])
  <2>1. CASE t = s /\ v = d.user
    BY <2>1, <1>5, <1>9, <1>10
  <2>2. CASE t # s \/ v # d.user
    <3>1. v \in DOMAIN routes[t] /\ routes'[t][v] = routes[t][v]
      BY <2>2, <1>9, <1>10, <1>12
    <3> QED
      BY <3>1, <1>1 DEF RoutesBehind
  <2> QED
    BY <2>1, <2>2
<1>13. RoutesBehind'
  BY <1>12 DEF RoutesBehind, Behind, Retained
<1> QED
  BY <1>10, <1>11, <1>13

\* What an observed port changes.
LEMMA RecordedKeeps ==
    ASSUME EndpointInv, NEW d \in Datagram, Admits(d),
           \/ Recorded(d)
           \/ UNCHANGED <<observed, advertised>>,
           UNCHANGED <<identity, reported>>
    PROVE  /\ DOMAIN observed' \subseteq Riders
           /\ observed' \in [DOMAIN observed' -> Observation]
           /\ advertised' \in [Riders -> Ports \cup {0, NotInRoom}]
           /\ OutOfRooms' /\ AdvertisedIsCurrent'
<1> DEFINE seen == [generation |-> identity[d.user].generation, port |-> PortOf(d.source)]
<1>1. TypeOK /\ OutOfRooms /\ AdvertisedIsCurrent
  BY DEF EndpointInv
<1>2. /\ observed \in [DOMAIN observed -> Observation] /\ DOMAIN observed \subseteq Riders
      /\ advertised \in [Riders -> Ports \cup {0, NotInRoom}]
      /\ d.user \in Riders /\ identity[d.user] \in Identity /\ d.source \in Endpoints
  BY <1>1 DEF TypeOK, Datagram
<1>3. CASE UNCHANGED <<observed, advertised>>
  BY <1>1, <1>2, <1>3 DEF OutOfRooms, AdvertisedIsCurrent, Observes
<1>4. CASE /\ observed' = Put(observed, d.user, seen)
           /\ advertised' = [advertised EXCEPT ![d.user] = Shown(d.user, seen.port)]
  <2>1. /\ seen \in Observation /\ seen.generation = identity[d.user].generation
        /\ seen.port \in Ports
    BY <1>2 DEF Observation, Identity, PortOf, Endpoints
  <2> HIDE DEF seen
  <2>2. /\ observed' \in [DOMAIN observed \cup {d.user} -> Observation]
        /\ DOMAIN observed' = DOMAIN observed \cup {d.user}
        /\ observed'[d.user] = seen
        /\ \A v \in DOMAIN observed : v # d.user => observed'[v] = observed[v]
    BY <1>2, <1>4, <2>1 DEF Put
  <2>3. /\ advertised' \in [Riders -> Ports \cup {0, NotInRoom}]
        /\ advertised'[d.user] = IF advertised[d.user] = NotInRoom THEN NotInRoom ELSE seen.port
        /\ \A v \in Riders : v # d.user => advertised'[v] = advertised[v]
    BY <1>2, <1>4, <2>1 DEF Shown
  <2>4. OutOfRooms'
    BY <1>1, <2>3 DEF OutOfRooms
  <2>5. ASSUME NEW v \in Riders, identity[v].status = "active", advertised'[v] # NotInRoom
        PROVE  advertised'[v] = IF Observes(v)' THEN observed'[v].port ELSE reported[v]
    <3>1. CASE v = d.user
      BY <3>1, <2>1, <2>2, <2>3, <2>5 DEF Observes
    <3>2. CASE v # d.user
      BY <3>2, <1>1, <2>2, <2>3, <2>5 DEF Observes, AdvertisedIsCurrent
    <3> QED
      BY <3>1, <3>2
  <2>6. AdvertisedIsCurrent'
    BY <2>5 DEF AdvertisedIsCurrent
  <2> QED
    BY <1>2, <2>2, <2>3, <2>4, <2>6
<1> QED
  BY <1>3, <1>4 DEF Recorded

LEMMA DispatchKeeps ==
    ASSUME EndpointInv, NEW t \in Transports, Dispatch(t)
    PROVE  EndpointInv'
<1> DEFINE d == Head(waiting[t])
<1>1. TypeOK /\ MirrorFollows /\ FencesExact /\ RoutesBehind
  BY DEF EndpointInv
<1>2. waiting[t] # << >> /\ Admits(d)
  BY DEF Dispatch
<1>3. d \in Datagram /\ waiting' \in [Transports -> Seq(Datagram)]
  BY <1>1, <1>2, HeadAndTail DEF Dispatch
<1>4. Entitled(d.user)
  BY <1>1, <1>2, <1>3 DEF Admits, Retained, MirrorFollows, Entitled, Datagram
<1>5. /\ UNCHANGED <<clock, identity, mirror, reported, reports, fence>>
      /\ stopped' = stopped
  BY <1>4 DEF Dispatch
<1>6. \/ routes' = routes /\ UNCHANGED <<observed, advertised>>
      \/ /\ ~SourceRefused(d) /\ routes' = Bound(d)
         /\ Recorded(d) \/ UNCHANGED <<observed, advertised>>
  BY <1>4 DEF Dispatch
<1> HIDE DEF d
<1>7. Retained' = Retained
  BY <1>5 DEF Retained
<1>8. /\ DOMAIN routes' = Transports /\ routes' = [s \in Transports |-> routes'[s]]
      /\ \A s \in Transports : /\ DOMAIN routes'[s] \subseteq Riders
                               /\ routes'[s] \in [DOMAIN routes'[s] -> Binding]
      /\ RoutesBehind'
  <2>1. CASE routes' = routes
    BY <2>1, <1>1, <1>5, <1>7 DEF TypeOK, RoutesBehind, Behind
  <2>2. CASE ~SourceRefused(d) /\ routes' = Bound(d)
    BY <2>2, <1>2, <1>3, <1>4, <1>5, BoundKeeps
  <2> QED
    BY <1>6, <2>1, <2>2
<1>9. /\ DOMAIN observed' \subseteq Riders
      /\ observed' \in [DOMAIN observed' -> Observation]
      /\ advertised' \in [Riders -> Ports \cup {0, NotInRoom}]
      /\ OutOfRooms' /\ AdvertisedIsCurrent'
  BY <1>2, <1>3, <1>5, <1>6, RecordedKeeps
<1>10. TypeOK'
  BY <1>1, <1>3, <1>5, <1>8, <1>9 DEF TypeOK
<1>11. MirrorFollows' /\ FencesExact'
  BY <1>1, <1>5, <1>7 DEF MirrorFollows, FencesExact
<1> QED
  BY <1>8, <1>9, <1>10, <1>11 DEF EndpointInv

--------------------------------------------------------------------------------
(* Rooms and reports.                                                       *)

\* Only what rooms and sessions know of ports changes.
LEMMA PortsKeep ==
    ASSUME EndpointInv, reports' \subseteq Report,
           reported' \in [Riders -> Ports \cup {0}],
           advertised' \in [Riders -> Ports \cup {0, NotInRoom}],
           OutOfRooms', AdvertisedIsCurrent',
           UNCHANGED <<clock, identity, mirror, routes, waiting, observed, stopped, fence>>
    PROVE  EndpointInv'
<1>1. TypeOK /\ MirrorFollows /\ FencesExact /\ RoutesBehind
  BY DEF EndpointInv
<1>2. Retained' = Retained
  BY DEF Retained
<1>3. TypeOK'
  BY <1>1 DEF TypeOK
<1>4. MirrorFollows' /\ FencesExact' /\ RoutesBehind'
  BY <1>1, <1>2 DEF MirrorFollows, FencesExact, RoutesBehind, Behind
<1> QED
  BY <1>3, <1>4 DEF EndpointInv

\* The best port known of u is a port, or none.
LEMMA BestPortType ==
    ASSUME TypeOK, NEW u \in Riders, NEW port \in Ports \cup {0}
    PROVE  BestPort(u, port) \in Ports \cup {0}
<1>1. observed \in [DOMAIN observed -> Observation]
  BY DEF TypeOK
<1>2. Observes(u) => observed[u].port \in Ports
  BY <1>1 DEF Observes, Observation
<1> QED
  BY <1>2 DEF BestPort

LEMMA EnterKeeps ==
    ASSUME EndpointInv, NEW u \in Riders, Enter(u)
    PROVE  EndpointInv'
<1>1. TypeOK /\ OutOfRooms /\ AdvertisedIsCurrent
  BY DEF EndpointInv
<1>2. /\ advertised \in [Riders -> Ports \cup {0, NotInRoom}]
      /\ reported \in [Riders -> Ports \cup {0}] /\ reports \subseteq Report
  BY <1>1 DEF TypeOK
<1>3. BestPort(u, reported[u]) \in Ports \cup {0}
  BY <1>1, <1>2, BestPortType
<1>4. UNCHANGED <<clock, identity, mirror, routes, waiting, observed, reported, reports,
                  stopped, fence>>
  BY DEF Enter
<1>5. /\ advertised' \in [Riders -> Ports \cup {0, NotInRoom}]
      /\ advertised'[u] = BestPort(u, reported[u])
      /\ \A v \in Riders : v # u => advertised'[v] = advertised[v]
  BY <1>2, <1>3 DEF Enter
<1>6. identity[u].status = "active"
  BY DEF Enter
<1>7. OutOfRooms'
  BY <1>1, <1>4, <1>5, <1>6 DEF OutOfRooms
<1>8. AdvertisedIsCurrent'
  BY <1>1, <1>4, <1>5 DEF AdvertisedIsCurrent, BestPort, Observes
<1> QED
  BY <1>2, <1>4, <1>5, <1>7, <1>8, PortsKeep

LEMMA LeaveKeeps ==
    ASSUME EndpointInv, NEW u \in Riders, Leave(u)
    PROVE  EndpointInv'
<1>1. TypeOK /\ OutOfRooms /\ AdvertisedIsCurrent
  BY DEF EndpointInv
<1>2. /\ advertised \in [Riders -> Ports \cup {0, NotInRoom}]
      /\ reported \in [Riders -> Ports \cup {0}] /\ reports \subseteq Report
  BY <1>1 DEF TypeOK
<1>3. UNCHANGED <<clock, identity, mirror, routes, waiting, observed, reported, reports,
                  stopped, fence>>
  BY DEF Leave
<1>4. /\ advertised' \in [Riders -> Ports \cup {0, NotInRoom}]
      /\ advertised'[u] = NotInRoom
      /\ \A v \in Riders : v # u => advertised'[v] = advertised[v]
  BY <1>2 DEF Leave
<1>5. OutOfRooms'
  BY <1>1, <1>3, <1>4 DEF OutOfRooms
<1>6. AdvertisedIsCurrent'
  BY <1>1, <1>3, <1>4 DEF AdvertisedIsCurrent, Observes
<1> QED
  BY <1>2, <1>3, <1>4, <1>5, <1>6, PortsKeep

LEMMA SendKeeps ==
    ASSUME EndpointInv, NEW u \in Riders, NEW port \in Ports, Send(u, port)
    PROVE  EndpointInv'
<1>1. TypeOK /\ OutOfRooms /\ AdvertisedIsCurrent
  BY DEF EndpointInv
<1>2. /\ advertised \in [Riders -> Ports \cup {0, NotInRoom}]
      /\ reported \in [Riders -> Ports \cup {0}] /\ reports \subseteq Report
      /\ identity[u] \in Identity
  BY <1>1 DEF TypeOK
<1>3. UNCHANGED <<clock, identity, mirror, routes, waiting, observed, reported, advertised,
                  stopped, fence>>
  BY DEF Send
<1>4. reports' \subseteq Report
  BY <1>2 DEF Send, Report, Identity
<1>5. OutOfRooms' /\ AdvertisedIsCurrent'
  BY <1>1, <1>3 DEF OutOfRooms, AdvertisedIsCurrent, Observes
<1> QED
  BY <1>2, <1>3, <1>4, <1>5, PortsKeep

LEMMA StoredKeeps ==
    ASSUME EndpointInv, NEW r \in reports, Stored(r)
    PROVE  EndpointInv'
<1> DEFINE u == r.user
<1>1. TypeOK /\ OutOfRooms /\ AdvertisedIsCurrent
  BY DEF EndpointInv
<1>2. /\ advertised \in [Riders -> Ports \cup {0, NotInRoom}]
      /\ reported \in [Riders -> Ports \cup {0}] /\ reports \subseteq Report
  BY <1>1 DEF TypeOK
<1>3. u \in Riders /\ r.port \in Ports
  BY <1>2 DEF Report
<1>4. UNCHANGED <<clock, identity, mirror, routes, waiting, observed, stopped, fence>>
  BY DEF Stored
<1>5. reports' \subseteq Report
  BY <1>2 DEF Stored
<1>6. CASE UNCHANGED <<reported, advertised>>
  <2>1. OutOfRooms' /\ AdvertisedIsCurrent'
    BY <1>1, <1>4, <1>6 DEF OutOfRooms, AdvertisedIsCurrent, Observes
  <2> QED
    BY <1>2, <1>4, <1>5, <1>6, <2>1, PortsKeep
<1>7. CASE /\ reported' = [reported EXCEPT ![u] = r.port]
           /\ advertised' = [advertised EXCEPT ![u] = Shown(u, BestPort(u, r.port))]
  <2>1. BestPort(u, r.port) \in Ports \cup {0}
    BY <1>1, <1>3, BestPortType
  <2>2. /\ reported' \in [Riders -> Ports \cup {0}] /\ reported'[u] = r.port
        /\ \A v \in Riders : v # u => reported'[v] = reported[v]
    BY <1>2, <1>3, <1>7
  <2>3. /\ advertised' \in [Riders -> Ports \cup {0, NotInRoom}]
        /\ advertised'[u] =
              IF advertised[u] = NotInRoom THEN NotInRoom ELSE BestPort(u, r.port)
        /\ \A v \in Riders : v # u => advertised'[v] = advertised[v]
    BY <1>2, <1>3, <1>7, <2>1 DEF Shown
  <2>4. OutOfRooms'
    BY <1>1, <1>4, <2>3 DEF OutOfRooms
  <2>5. AdvertisedIsCurrent'
    BY <1>1, <1>4, <2>2, <2>3 DEF AdvertisedIsCurrent, BestPort, Observes
  <2> QED
    BY <1>4, <1>5, <2>2, <2>3, <2>4, <2>5, PortsKeep
<1> QED
  BY <1>6, <1>7 DEF Stored

--------------------------------------------------------------------------------
(* The theorems.                                                            *)

LEMMA InitEndpointInv == Init => EndpointInv
<1> SUFFICES ASSUME Init PROVE EndpointInv
  OBVIOUS
<1>1. Retained = {} /\ MaxEpoch \in Nat /\ MaxGeneration \in Nat
  BY UdpConstants DEF Init, Retained, Nobody
<1>2. Nobody \in Identity
  BY <1>1 DEF Nobody, Identity, Generations, Epochs
<1>3. /\ DOMAIN mirror = {} /\ DOMAIN observed = {}
      /\ \A t \in Transports : DOMAIN routes[t] = {} /\ waiting[t] = << >>
  BY DEF Init
<1>4. TypeOK
  <2>1. clock \in Epochs /\ identity \in [Riders -> Identity] /\ fence \in [Riders -> Epochs]
    BY <1>1, <1>2 DEF Init, Epochs
  <2>2. /\ mirror \in [DOMAIN mirror -> ActiveIdentity]
        /\ observed \in [DOMAIN observed -> Observation]
    BY <1>3 DEF Init
  <2>3. /\ DOMAIN routes = Transports /\ routes = [t \in Transports |-> routes[t]]
        /\ \A t \in Transports : routes[t] \in [DOMAIN routes[t] -> Binding]
    BY <1>3 DEF Init
  <2>4. waiting \in [Transports -> Seq(Datagram)]
    BY DEF Init
  <2>5. /\ reported \in [Riders -> Ports \cup {0}] /\ reports \subseteq Report
        /\ advertised \in [Riders -> Ports \cup {0, NotInRoom}] /\ stopped \in BOOLEAN
    BY DEF Init
  <2> QED
    BY <1>3, <2>1, <2>2, <2>3, <2>4, <2>5 DEF TypeOK
<1>5. MirrorFollows /\ RoutesBehind
  BY <1>1, <1>3 DEF Init, MirrorFollows, RoutesBehind
<1>6. FencesExact
  BY <1>1 DEF Init, FencesExact
<1>7. OutOfRooms /\ AdvertisedIsCurrent
  BY DEF Init, OutOfRooms, AdvertisedIsCurrent
<1> QED
  BY <1>4, <1>5, <1>6, <1>7 DEF EndpointInv

LEMMA NextEndpointInv == EndpointInv /\ [Next]_vars => EndpointInv'
<1> SUFFICES ASSUME EndpointInv, [Next]_vars PROVE EndpointInv'
  OBVIOUS
<1>1. Players \subseteq Riders
  BY UdpConstants
<1>2. CASE \E u \in Riders : \/ \E h \in Hosts : Claim(u, h)
                             \/ Migrate(u) \/ Disconnect(u) \/ Retire(u) \/ Release(u)
  BY <1>2, ClaimKeeps, MigrateKeeps, StatusKeeps, ReleaseKeeps
<1>3. CASE \E u \in Players : \/ Reconnect(u) \/ Enter(u) \/ Leave(u)
                              \/ \E port \in Ports : Send(u, port)
  BY <1>1, <1>3, ReconnectKeeps, EnterKeeps, LeaveKeeps, SendKeeps
<1>4. CASE \E t \in Transports :
             \/ \E u \in Players, source \in Endpoints : Receive(t, u, source)
             \/ Dispatch(t) \/ Discard(t)
  BY <1>1, <1>4, ReceiveKeeps, DispatchKeeps, DiscardKeeps
<1>5. CASE \E r \in reports : Stored(r)
  BY <1>5, StoredKeeps
<1>6. CASE UNCHANGED vars
  <2>1. UNCHANGED <<clock, identity, mirror, routes, waiting, observed, reported, reports,
                    advertised, stopped, fence>>
    BY <1>6 DEF vars, world
  <2>2. TypeOK /\ OutOfRooms /\ AdvertisedIsCurrent
    BY DEF EndpointInv
  <2>3. OutOfRooms' /\ AdvertisedIsCurrent'
    BY <2>1, <2>2 DEF OutOfRooms, AdvertisedIsCurrent, Observes
  <2> QED
    BY <2>1, <2>2, <2>3, PortsKeep DEF TypeOK
<1> QED
  BY <1>2, <1>3, <1>4, <1>5, <1>6 DEF Next

\* The mirror, the fences and the routes stay in step with the registry.
THEOREM EndpointsCorrect == Spec => []EndpointInv
<1> QED
  BY InitEndpointInv, NextEndpointInv, PTL DEF Spec

\* Every reachable state of the tables, the clock and the rooms' ports is well typed.
THEOREM TypeCorrect == Spec => []TypeOK
<1>1. EndpointInv => TypeOK
  BY DEF EndpointInv
<1> QED
  BY <1>1, EndpointsCorrect, PTL

\* A rider is reached only at an address of his host that a datagram has shown
\* since his identity was activated and since his last reconnect.
THEOREM RelaysGoToFreshAddresses == Spec => []RoutesAreFresh
<1>1. EndpointInv => RoutesAreFresh
  <2>1. SUFFICES ASSUME EndpointInv, NEW t \in Transports, NEW u \in Riders,
                        NEW route \in Target(t, u), identity[u].status # "out"
                 PROVE  route.learned > fence[u] /\ HostOf(route.endpoint) = identity[u].host
    BY DEF RoutesAreFresh
  <2>2. /\ u \in DOMAIN routes[t] /\ route = routes[t][u] /\ Entitled(u)
        /\ route.generation = mirror[u].generation
    BY <2>1 DEF Target
  <2>3. u \in Retained /\ route.generation = identity[u].generation
    BY <2>1, <2>2 DEF Retained, Entitled
  <2> QED
    BY <2>1, <2>2, <2>3 DEF EndpointInv, RoutesBehind, Behind
<1> QED
  BY <1>1, EndpointsCorrect, PTL

\* A room shows the best port known of the current generation.
THEOREM RoomsShowCurrentPorts == Spec => []AdvertisedIsCurrent
<1>1. EndpointInv => AdvertisedIsCurrent
  BY DEF EndpointInv
<1> QED
  BY <1>1, EndpointsCorrect, PTL

\* The UDP actor never refuses an identity that the World names.
THEOREM WorldIsNeverRefused == Spec => []WorldGoesOn
<1>1. EndpointInv => WorldGoesOn
  BY DEF EndpointInv, MirrorFollows, WorldGoesOn
<1> QED
  BY <1>1, EndpointsCorrect, PTL
================================================================================
