---------------------------- MODULE MyRoomHubProofs ----------------------------
(***************************************************************************)
(* The properties of MyRoomHub, for every set of riders, every number of    *)
(* seats, every capacity and every set of policies, in three parts; and    *)
(* its types.                                                               *)
(*                                                                         *)
(* 1. HubIsSound.  The inductive invariant HubInv adds the types of what    *)
(*    the hub is told from outside, the registry's generations and the      *)
(*    accepted writes.  Its other part, Tables, is a predicate of three     *)
(*    values, so that a transition is proved in stages: the rooms a rider   *)
(*    has left, the room that takes him, the pruned generations.  What each *)
(*    transition does to the ports that are shown is stated along the way   *)
(*    (PortsOf), for the second part.                                       *)
(* 2. PresenceIsCurrent and StopsHaveACause.  FollowInv relates the hub of  *)
(*    a running World to the identity registry, which moves without asking  *)
(*    it (Login, Close, ExpireMigrations, CollectDrained): a generation the *)
(*    hub knows is the registered one or the offline one, and a rider whose *)
(*    write is under way is still in his room.  A step either goes on under *)
(*    it, or it stops the World for one of the causes (Ends): whoever is    *)
(*    told of a transition has a seat, and so is registered as the hub      *)
(*    knows him (InformedMembers, SeatedMismatchEnds).                      *)
(* 3. ReadsAreEntitled.  ReadInv says what a grant and a read under way are *)
(*    worth as long as the room has the revision they were made for.  It    *)
(*    rests on a new revision being one that nothing holds.                 *)
(***************************************************************************)
EXTENDS MyRoomHub, FiniteSetTheorems, FunctionTheorems, WellFoundedInduction, TLAPS

--------------------------------------------------------------------------------
(* Finite sets.                                                             *)

LEMMA MinExists ==
    ASSUME NEW S \in SUBSET Nat, IsFiniteSet(S), S # {}
    PROVE  Min(S) \in S
<1> DEFINE below(x) == {y \in S : y =< x}
           B == {below(x) : x \in S}
<1>1. IsWellFoundedOn(StrictSubsetOrdering(S), FiniteSubsetsOf(S))
    BY FS_StrictSubsetOrderingWellFounded
<1>2. B \subseteq FiniteSubsetsOf(S) /\ B # {}
    <2>1. B \subseteq SUBSET S /\ B # {}
        OBVIOUS
    <2> QED BY <2>1, FS_FiniteSubsetsOfFinite
<1>3. \E b \in B : \A c \in B : ~ (<<c, b>> \in StrictSubsetOrdering(S))
    <2> HIDE DEF B
    <2> QED BY <1>1, <1>2, WFMin
<1>4. PICK x \in S : \A c \in B : ~ (<<c, below(x)>> \in StrictSubsetOrdering(S))
    BY <1>3
<1>5. ASSUME NEW y \in S PROVE x =< y
    <2>1. SUFFICES ASSUME y < x PROVE FALSE
        BY <1>4
    <2>2. ASSUME NEW z \in below(y) PROVE z \in below(x)
        <3>1. z \in Nat /\ y \in Nat /\ x \in Nat /\ z =< y
            OBVIOUS
        <3>2. z =< x
            BY <2>1, <3>1
        <3> QED BY <3>2
    <2>3. x \in below(x) /\ x \notin below(y)
        BY <1>4, <2>1
    <2>4. <<below(y), below(x)>> \in StrictSubsetOrdering(S)
        BY <2>2, <2>3 DEF StrictSubsetOrdering
    <2> QED BY <1>4, <2>4
<1> QED
    BY <1>5 DEF Min

LEMMA AboveAllOthers ==
    ASSUME NEW S, IsFiniteSet(S)
    PROVE  \E r \in 0 .. Cardinality(S) : r \notin S
<1>1. SUFFICES ASSUME 0 .. Cardinality(S) \subseteq S PROVE FALSE
    OBVIOUS
<1>2. Cardinality(S) \in Nat
    BY FS_CardinalityType
<1>3. Cardinality(0 .. Cardinality(S)) = Cardinality(S) + 1
    BY <1>2, FS_Interval, SMT
<1>4. Cardinality(0 .. Cardinality(S)) <= Cardinality(S)
    BY <1>1, FS_Subset
<1> QED
    BY <1>2, <1>3, <1>4

LEMMA ImageIsFinite ==
    ASSUME NEW S, IsFiniteSet(S), NEW f, f = [x \in S |-> f[x]]
    PROVE  IsFiniteSet({f[x] : x \in S})
<1>1. f \in Surjection(S, {f[x] : x \in S})
    BY DEF Surjection
<1> QED
    BY <1>1, FS_Surjection
--------------------------------------------------------------------------------
(* The hub's three tables as values.                                        *)

RoomTable == [Riders -> Room \cup {None}]
SeatTable == [Riders -> Membership \cup {None}]
KnownTable == [Riders -> Generations \cup {Untracked}]

SitsAt(R, u, o, s) ==
    /\ R[o] # None
    /\ IF s = OwnerSlot THEN u = o /\ R[o].present
       ELSE R[o].visitors[s] # None /\ R[o].visitors[s].user = u

\* The seat index and the rooms say the same.
Seated(R, M) ==
    \A u, o \in Riders, s \in Places :
        M[u] = [owner |-> o, slot |-> s] <=> SitsAt(R, u, o, s)

\* A room, but for the generations of its members.
Alive(room, o) ==
    /\ ~Empty(room)
    /\ ~room.present => room.port = 0
    /\ \A s \in Seats : room.visitors[s] # None => room.visitors[s].user # o

\* Its members are known by the generations it shows.
Agrees(room, o, G) ==
    /\ G[o] = room.generation
    /\ \A s \in Seats : room.visitors[s] # None =>
          room.visitors[s].generation = G[room.visitors[s].user]

Sound(R, G) == \A o \in Riders : R[o] # None => Alive(R[o], o) /\ Agrees(R[o], o, G)
Connected(R, M, G) == \A u \in Riders : G[u] # Untracked => M[u] # None \/ R[u] # None
Bounded(G) == Cardinality({u \in Riders : G[u] # Untracked}) <= Capacity

\* The ports that rooms show are N's, rider by rider, or zero.
PortsOf(R, N) ==
    \A o \in Riders : R[o] # None =>
        /\ R[o].port \in {0, N[o]}
        /\ \A s \in Seats : R[o].visitors[s] # None =>
              R[o].visitors[s].port \in {0, N[R[o].visitors[s].user]}

Tables(R, M, G) ==
    /\ R \in RoomTable /\ M \in SeatTable /\ G \in KnownTable
    /\ Seated(R, M) /\ Sound(R, G) /\ Connected(R, M, G) /\ Bounded(G)

HubTypes ==
    /\ identity \in [Riders -> [status : Status, generation : Generations]]
    /\ writes \in [Riders -> Write \cup {None}]

HubInv == HubTypes /\ Tables(rooms, memberships, generations)

\* No value stands for an absent one, and no generation for an untracked rider.
LEMMA Values ==
    /\ None \notin Riders /\ None \notin Membership /\ None \notin Guest
    /\ None \notin Room /\ None \notin Write
    /\ OwnerSlot \notin Seats /\ Seats \subseteq Places /\ OwnerSlot \in Places
    /\ Generations \subseteq Nat /\ Untracked \notin Generations
<1>1. Last \in [Riders -> Nat]
    BY HubConstants
<1>2. Generations \subseteq Nat
    BY <1>1 DEF Generations, Offline
<1>3. Untracked \notin Nat
    BY DEF Untracked
<1>4. OwnerSlot \notin Seats
    BY HubConstants
<1> QED
    BY <1>2, <1>3, <1>4, HubConstants DEF Places

LEMMA Zero == ASSUME NEW u \in Riders PROVE 0 \in Generations
<1>1. Last \in [Riders -> Nat]
    BY HubConstants
<1> QED
    BY <1>1 DEF Generations, Offline

LEMMA WithoutFacts ==
    ASSUME NEW r \in Room, NEW slot \in Places, 0 \in Generations
    PROVE  /\ Without(r, slot) \in Room
           /\ Without(r, slot).generation = r.generation
           /\ Without(r, slot).present = (slot # OwnerSlot /\ r.present)
           /\ Without(r, slot).port = IF slot = OwnerSlot THEN 0 ELSE r.port
           /\ \A s \in Seats : Without(r, slot).visitors[s]
                    = IF s = slot THEN None ELSE r.visitors[s]
<1>1. CASE slot = OwnerSlot
    <2>1. Without(r, slot) = [r EXCEPT !.present = FALSE, !.port = 0]
        BY <1>1 DEF Without
    <2> QED BY <1>1, <2>1, Values DEF Room
<1>2. CASE slot # OwnerSlot
    <2>1. Without(r, slot) = [r EXCEPT !.visitors[slot] = None]
        BY <1>2 DEF Without
    <2>2. slot \in Seats
        BY <1>2 DEF Places
    <2> QED BY <1>2, <2>1, <2>2 DEF Room
<1> QED
    BY <1>1, <1>2

LEMMA WithFacts ==
    ASSUME NEW r \in Room, NEW slot \in Places, NEW u \in Riders,
           NEW port \in Generations, Current(u) \in Generations
    PROVE  /\ With(r, slot, u, port) \in Room
           /\ With(r, slot, u, port).generation = r.generation
           /\ With(r, slot, u, port).present = (slot = OwnerSlot \/ r.present)
           /\ With(r, slot, u, port).port = IF slot = OwnerSlot THEN port ELSE r.port
           /\ \A s \in Seats : With(r, slot, u, port).visitors[s]
                    = IF s = slot
                      THEN [user |-> u, generation |-> Current(u), port |-> port]
                      ELSE r.visitors[s]
<1>1. CASE slot = OwnerSlot
    <2>1. With(r, slot, u, port) = [r EXCEPT !.present = TRUE, !.port = port]
        BY <1>1 DEF With
    <2> QED BY <1>1, <2>1, Values DEF Room
<1>2. CASE slot # OwnerSlot
    <2> DEFINE guest == [user |-> u, generation |-> Current(u), port |-> port]
    <2>1. With(r, slot, u, port) = [r EXCEPT !.visitors[slot] = guest]
        BY <1>2 DEF With
    <2>2. slot \in Seats
        BY <1>2 DEF Places
    <2>3. guest \in Guest
        BY DEF Guest
    <2> HIDE DEF guest
    <2>4. /\ With(r, slot, u, port) \in Room
          /\ With(r, slot, u, port).generation = r.generation
          /\ With(r, slot, u, port).present = (slot = OwnerSlot \/ r.present)
          /\ With(r, slot, u, port).port = r.port
          /\ \A s \in Seats : With(r, slot, u, port).visitors[s]
                = IF s = slot THEN guest ELSE r.visitors[s]
        BY <1>2, <2>1, <2>2, <2>3 DEF Room
    <2> QED BY <1>2, <2>4 DEF guest
<1> QED
    BY <1>1, <1>2

LEMMA HeldAreFinite == ASSUME NEW o PROVE IsFiniteSet(HeldRevisions(o))
<1>1. ASSUME NEW f, NEW P \in SUBSET Riders
      PROVE  IsFiniteSet({f[u] : u \in P})
    <2>1. IsFiniteSet(P)
        BY HubConstants, FS_Subset
    <2>2. DEFINE h == [u \in P |-> f[u]]
    <2>3. IsFiniteSet({h[u] : u \in P})
        BY <2>1, ImageIsFinite
    <2> QED BY <2>3
<1> DEFINE A == IF rooms[o] = None THEN {} ELSE {rooms[o].revision}
           B == {u \in Riders : grants[u] # None /\ grants[u].owner = o}
           C == {u \in Riders : plans[u] # None /\ plans[u].owner = o}
           b == [u \in Riders |-> grants[u].revision]
           c == [u \in Riders |-> plans[u].revision]
<1>2. IsFiniteSet({b[u] : u \in B}) /\ IsFiniteSet({c[u] : u \in C})
    <2> B \in SUBSET Riders /\ C \in SUBSET Riders
        OBVIOUS
    <2> HIDE DEF B, C, b, c
    <2> QED BY <1>1
<1>3. IsFiniteSet(A)
    BY FS_EmptySet, FS_Singleton
<1>4. HeldRevisions(o) = A \cup {b[u] : u \in B} \cup {c[u] : u \in C}
    BY DEF HeldRevisions
<1> HIDE DEF A, B, C, b, c
<1> QED
    BY <1>2, <1>3, <1>4, FS_Union

\* Whatever is compared with a new revision is not it.
LEMMA NextRevisionIsFresh ==
    ASSUME NEW o
    PROVE  NextRevision(o) \in Nat /\ NextRevision(o) \notin HeldRevisions(o)
<1> DEFINE H == HeldRevisions(o)
<1>1. \E r \in 0 .. Cardinality(H) : r \notin H
    BY HeldAreFinite, AboveAllOthers
<1>2. NextRevision(o) = CHOOSE r \in 0 .. Cardinality(H) : r \notin H
    BY DEF NextRevision
<1> HIDE DEF H
<1>3. NextRevision(o) \in 0 .. Cardinality(H) /\ NextRevision(o) \notin H
    BY <1>1, <1>2
<1> QED
    BY <1>3 DEF H

--------------------------------------------------------------------------------
(* What each transition does to the tables.                                 *)

Shrunk(R, old) ==
    \A o \in Riders : R[o] # None =>
        /\ old[o] # None /\ Alive(R[o], o)
        /\ R[o].generation = old[o].generation
        /\ R[o].port \in {old[o].port, 0}
        /\ \A s \in Seats : R[o].visitors[s] \in {old[o].visitors[s], None}

LEMMA SeatFacts ==
    ASSUME HubInv, NEW u \in Riders, memberships[u] # None
    PROVE  /\ memberships[u].owner \in Riders /\ memberships[u].slot \in Places
           /\ memberships[u] = [owner |-> memberships[u].owner, slot |-> memberships[u].slot]
           /\ SitsAt(rooms, u, memberships[u].owner, memberships[u].slot)
           /\ rooms[memberships[u].owner] \in Room
<1>1. memberships[u] \in Membership
    BY DEF HubInv, Tables, SeatTable
<1>2. /\ memberships[u].owner \in Riders /\ memberships[u].slot \in Places
      /\ memberships[u] = [owner |-> memberships[u].owner, slot |-> memberships[u].slot]
    BY <1>1 DEF Membership
<1>3. SitsAt(rooms, u, memberships[u].owner, memberships[u].slot)
    BY <1>2 DEF HubInv, Tables, Seated
<1>4. rooms[memberships[u].owner] # None
    BY <1>3 DEF SitsAt
<1> QED
    BY <1>2, <1>3, <1>4 DEF HubInv, Tables, RoomTable

\* Whoever has a role is known by a generation.
LEMMA RolesAreKnown ==
    ASSUME NEW R, NEW M, NEW G, Tables(R, M, G),
           NEW u \in Riders, M[u] # None \/ R[u] # None
    PROVE  G[u] # Untracked
<1>t. R \in RoomTable /\ M \in SeatTable /\ Seated(R, M) /\ Sound(R, G)
    BY DEF Tables
<1>1. CASE R[u] # None
    <2>1. R[u] \in Room /\ G[u] = R[u].generation
        BY <1>1, <1>t DEF RoomTable, Sound, Agrees
    <2> QED BY <2>1, Values DEF Room
<1>2. CASE M[u] # None
    <2> DEFINE o == M[u].owner
               s == M[u].slot
    <2>1. o \in Riders /\ s \in Places /\ M[u] = [owner |-> o, slot |-> s]
        BY <1>2, <1>t DEF SeatTable, Membership
    <2> HIDE DEF o, s
    <2>2. SitsAt(R, u, o, s)
        BY <1>t, <2>1 DEF Seated
    <2>3. CASE s = OwnerSlot
        BY <2>2, <2>3, <1>1 DEF SitsAt
    <2>4. CASE s # OwnerSlot
        <3>1. s \in Seats /\ R[o] # None /\ R[o].visitors[s] # None
                /\ R[o].visitors[s].user = u
            BY <2>1, <2>2, <2>4 DEF SitsAt, Places
        <3>2. R[o] \in Room
            BY <1>t, <2>1, <3>1 DEF RoomTable
        <3>3. R[o].visitors[s] \in Guest
            BY <3>1, <3>2 DEF Room
        <3>4. R[o].visitors[s].generation = G[u]
            BY <1>t, <2>1, <3>1 DEF Sound, Agrees
        <3> QED BY <3>3, <3>4, Values DEF Guest
    <2> QED BY <2>3, <2>4
<1> QED
    BY <1>1, <1>2

LEMMA Leaving ==
    ASSUME HubInv, NEW u \in Riders
    PROVE  /\ RoomsLeftBy(u) \in RoomTable
           /\ Shrunk(RoomsLeftBy(u), rooms)
           /\ Seated(RoomsLeftBy(u), [memberships EXCEPT ![u] = None])
           /\ \A o \in Riders : RoomsLeftBy(u)[o] = None /\ rooms[o] # None =>
                 memberships[u] # None /\ o = memberships[u].owner
<1> DEFINE left == RoomsLeftBy(u)
           unseated == [memberships EXCEPT ![u] = None]
<1>t. rooms \in RoomTable /\ memberships \in SeatTable /\ Seated(rooms, memberships)
        /\ Sound(rooms, generations)
    BY DEF HubInv, Tables
<1>1. CASE memberships[u] = None
    <2>1. left = rooms /\ unseated = memberships
        BY <1>1, <1>t DEF RoomsLeftBy, SeatTable
    <2>2. Shrunk(rooms, rooms)
        BY <1>t DEF Sound, Shrunk
    <2> QED BY <1>t, <2>1, <2>2
<1>2. CASE memberships[u] # None
    <2> DEFINE p == memberships[u].owner
               seat == memberships[u].slot
               emptied == Without(rooms[p], seat)
    <2>1. /\ p \in Riders /\ seat \in Places /\ memberships[u] = [owner |-> p, slot |-> seat]
          /\ SitsAt(rooms, u, p, seat) /\ rooms[p] \in Room /\ rooms[p] # None
        BY <1>2, SeatFacts, Values
    <2>2. /\ emptied \in Room /\ emptied # None
          /\ emptied.generation = rooms[p].generation
          /\ emptied.present = (seat # OwnerSlot /\ rooms[p].present)
          /\ emptied.port = IF seat = OwnerSlot THEN 0 ELSE rooms[p].port
          /\ \A s \in Seats : emptied.visitors[s] = IF s = seat THEN None ELSE rooms[p].visitors[s]
        <3>1. /\ emptied \in Room /\ emptied.generation = rooms[p].generation
              /\ emptied.present = (seat # OwnerSlot /\ rooms[p].present)
              /\ emptied.port = IF seat = OwnerSlot THEN 0 ELSE rooms[p].port
              /\ \A s \in Seats :
                    emptied.visitors[s] = IF s = seat THEN None ELSE rooms[p].visitors[s]
            <4>1. rooms[p] \in Room /\ seat \in Places /\ 0 \in Generations
                BY <2>1, Zero
            <4> HIDE DEF p, seat
            <4> QED BY <4>1, WithoutFacts
        <3>2. emptied # None
            BY <3>1, Values
        <3> HIDE DEF p, seat, emptied
        <3> QED BY <3>1, <3>2
    <2>3. left = [rooms EXCEPT ![p] = IF Empty(emptied) THEN None ELSE emptied]
        BY <1>2 DEF RoomsLeftBy
    <2> HIDE DEF p, seat, emptied, left
    <2>4. left \in RoomTable
        BY <1>t, <2>1, <2>2, <2>3 DEF RoomTable
    <2>5. /\ left[p] = IF Empty(emptied) THEN None ELSE emptied
          /\ \A o \in Riders : o # p => left[o] = rooms[o]
        BY <1>t, <2>1, <2>3 DEF RoomTable
    <2>6. Shrunk(left, rooms)
        <3> SUFFICES ASSUME NEW o \in Riders, left[o] # None
                     PROVE  /\ rooms[o] # None /\ Alive(left[o], o)
                            /\ left[o].generation = rooms[o].generation
                            /\ left[o].port \in {rooms[o].port, 0}
                            /\ \A s \in Seats : left[o].visitors[s]
                                    \in {rooms[o].visitors[s], None}
            BY DEF Shrunk
        <3>1. CASE o # p
            BY <1>t, <2>5, <3>1 DEF Sound
        <3>2. CASE o = p
            <4>1. left[o] = emptied /\ ~Empty(emptied)
                BY <2>5, <3>2
            <4>2. Alive(rooms[p], p)
                BY <1>t, <2>1 DEF Sound
            <4>3. Alive(emptied, p)
                BY <4>1, <4>2, <2>1, <2>2 DEF Alive, Room
            <4> QED BY <4>1, <4>3, <3>2, <2>1, <2>2
        <3> QED BY <3>1, <3>2
    <2>7. Seated(left, unseated)
        <3> SUFFICES ASSUME NEW x \in Riders, NEW o \in Riders, NEW s \in Places
                     PROVE  unseated[x] = [owner |-> o, slot |-> s] <=> SitsAt(left, x, o, s)
            BY DEF Seated
        <3>1. memberships[x] = [owner |-> o, slot |-> s] <=> SitsAt(rooms, x, o, s)
            BY <1>t DEF Seated
        <3>2. CASE x = u
            <4>1. unseated[x] # [owner |-> o, slot |-> s]
                <5>1. unseated[x] = None
                    BY <1>t, <3>2 DEF SeatTable
                <5> QED BY <5>1, Values DEF Membership
            <4>2. ~SitsAt(left, x, o, s)
                <5>1. CASE o = p /\ s = seat
                    BY <5>1, <2>2, <2>5 DEF SitsAt, Places
                <5>2. CASE ~(o = p /\ s = seat)
                    <6>1. ~SitsAt(rooms, x, o, s)
                        BY <3>1, <3>2, <5>2, <2>1
                    <6>2. CASE o # p
                        BY <6>1, <6>2, <2>5 DEF SitsAt
                    <6>3. CASE o = p /\ s # seat
                        <7>1. left[p] # None => left[p] = emptied
                            BY <2>5
                        <7> QED BY <7>1, <6>1, <6>3, <2>1, <2>2 DEF SitsAt, Places
                    <6> QED BY <5>2, <6>2, <6>3
                <5> QED BY <5>1, <5>2
            <4> QED BY <4>1, <4>2
        <3>3. CASE x # u
            <4>1. unseated[x] = memberships[x]
                BY <1>t, <3>3 DEF SeatTable
            <4>2. SitsAt(left, x, o, s) <=> SitsAt(rooms, x, o, s)
                <5>1. CASE o # p
                    BY <5>1, <2>5 DEF SitsAt
                <5>2. CASE o = p /\ s = seat
                    <6>1. ~SitsAt(rooms, x, p, seat)
                        BY <3>3, <2>1 DEF SitsAt
                    <6>2. ~SitsAt(left, x, p, seat)
                        BY <2>2, <2>5, <2>1 DEF SitsAt, Places
                    <6> QED BY <5>2, <6>1, <6>2
                <5>3. CASE o = p /\ s # seat
                    <6>1. SitsAt(rooms, x, p, s) => ~Empty(emptied)
                        BY <2>1, <2>2, <5>3 DEF SitsAt, Places, Empty
                    <6>2. CASE Empty(emptied)
                        BY <6>1, <6>2, <5>3, <2>5 DEF SitsAt
                    <6>3. CASE ~Empty(emptied)
                        <7>1. left[p] = emptied
                            BY <6>3, <2>5
                        <7>2. left[p] # None /\ rooms[p] # None
                            BY <7>1, <2>1, <2>2
                        <7>3. s = OwnerSlot => (left[p].present <=> rooms[p].present)
                            <8>1. emptied.present = (seat # OwnerSlot /\ rooms[p].present)
                                BY <2>2
                            <8> QED BY <7>1, <5>3, <8>1
                        <7>4. s # OwnerSlot => left[p].visitors[s] = rooms[p].visitors[s]
                            BY <7>1, <5>3, <2>2 DEF Places
                        <7> QED BY <7>2, <7>3, <7>4, <5>3 DEF SitsAt
                    <6> QED BY <6>2, <6>3
                <5> QED BY <5>1, <5>2, <5>3
            <4> QED BY <3>1, <4>1, <4>2
        <3> QED BY <3>2, <3>3
    <2>8. \A o \in Riders : left[o] = None /\ rooms[o] # None => o = p
        BY <2>5
    <2> QED BY <1>2, <2>4, <2>6, <2>7, <2>8 DEF left, p
<1> QED
    BY <1>1, <1>2

LEMMA Pruning ==
    ASSUME NEW R \in RoomTable, NEW M \in SeatTable, NEW G \in KnownTable, NEW S,
           Seated(R, M), Sound(R, G),
           \A u \in Riders : G[u] # Untracked => M[u] # None \/ R[u] # None \/ u \in S
    PROVE  /\ Pruned(G, R, M, S) \in KnownTable
           /\ Sound(R, Pruned(G, R, M, S))
           /\ Connected(R, M, Pruned(G, R, M, S))
           /\ \A u \in Riders : Pruned(G, R, M, S)[u] \in {Untracked, G[u]}
<1> DEFINE P == Pruned(G, R, M, S)
<1>1. /\ P = [u \in Riders |-> IF u \in S /\ M[u] = None /\ R[u] = None
                               THEN Untracked ELSE G[u]]
      /\ \A u \in Riders : P[u] = IF u \in S /\ M[u] = None /\ R[u] = None
                                  THEN Untracked ELSE G[u]
    BY DEF Pruned
<1> HIDE DEF P
<1>2. P \in KnownTable
    BY <1>1 DEF KnownTable
<1>3. Connected(R, M, P) /\ \A u \in Riders : P[u] \in {Untracked, G[u]}
    BY <1>1 DEF Connected
<1>4. Sound(R, P)
    <2> SUFFICES ASSUME NEW o \in Riders, R[o] # None
                 PROVE  Alive(R[o], o) /\ Agrees(R[o], o, P)
        BY DEF Sound
    <2>1. Alive(R[o], o) /\ Agrees(R[o], o, G) /\ R[o] \in Room
        BY DEF Sound, RoomTable
    <2>2. P[o] = R[o].generation
        BY <1>1, <2>1 DEF Agrees
    <2>3. ASSUME NEW s \in Seats, R[o].visitors[s] # None
          PROVE  R[o].visitors[s].generation = P[R[o].visitors[s].user]
        <3> DEFINE v == R[o].visitors[s].user
        <3>1. v \in Riders
            BY <2>1, <2>3 DEF Room, Guest
        <3>2. SitsAt(R, v, o, s) /\ s \in Places
            BY <2>3, Values DEF SitsAt
        <3>3. M[v] = [owner |-> o, slot |-> s]
            BY <3>1, <3>2 DEF Seated
        <3>4. M[v] # None
            BY <3>2, <3>3, Values DEF Membership
        <3>5. P[v] = G[v]
            BY <1>1, <3>1, <3>4
        <3> QED BY <2>1, <2>3, <3>5 DEF Agrees
    <2> QED BY <2>1, <2>2, <2>3 DEF Agrees
<1> QED
    BY <1>2, <1>3, <1>4 DEF P

LEMMA FewerAreBounded ==
    ASSUME NEW G \in KnownTable, NEW H \in KnownTable, Bounded(G),
           \A u \in Riders : H[u] # Untracked => G[u] # Untracked
    PROVE  Bounded(H)
<1> DEFINE g == {u \in Riders : G[u] # Untracked}
           h == {u \in Riders : H[u] # Untracked}
<1>1. IsFiniteSet(g) /\ h \subseteq g
    <2>1. IsFiniteSet(Riders) /\ g \in SUBSET Riders
        BY HubConstants
    <2> QED BY <2>1, FS_Subset
<1>2. Cardinality(g) =< Capacity
    BY DEF Bounded
<1> HIDE DEF g, h
<1>3. /\ Cardinality(h) =< Cardinality(g)
      /\ Cardinality(h) \in Nat /\ Cardinality(g) \in Nat
    BY <1>1, FS_Subset, FS_CardinalityType
<1>4. Capacity \in Nat
    BY HubConstants
<1>5. Cardinality(h) =< Capacity
    BY <1>2, <1>3, <1>4
<1> QED
    BY <1>5 DEF Bounded, h

LEMMA ShrunkIsSound ==
    ASSUME NEW R \in RoomTable, NEW old \in RoomTable, NEW G \in KnownTable,
           Shrunk(R, old), Sound(old, G)
    PROVE  Sound(R, G)
<1> SUFFICES ASSUME NEW o \in Riders, R[o] # None
             PROVE  Alive(R[o], o) /\ Agrees(R[o], o, G)
    BY DEF Sound
<1>1. /\ old[o] # None /\ Alive(R[o], o)
      /\ R[o].generation = old[o].generation
      /\ \A s \in Seats : R[o].visitors[s] \in {old[o].visitors[s], None}
    BY DEF Shrunk
<1>2. Agrees(old[o], o, G)
    BY <1>1 DEF Sound
<1> QED
    BY <1>1, <1>2 DEF Agrees

LEMMA ShrunkShowsNoNewPort ==
    ASSUME NEW R, NEW old, NEW N, Shrunk(R, old), PortsOf(old, N)
    PROVE  PortsOf(R, N)
<1> SUFFICES ASSUME NEW o \in Riders, R[o] # None
             PROVE  /\ R[o].port \in {0, N[o]}
                    /\ \A s \in Seats : R[o].visitors[s] # None =>
                          R[o].visitors[s].port \in {0, N[R[o].visitors[s].user]}
    BY DEF PortsOf
<1>1. /\ old[o] # None /\ R[o].port \in {old[o].port, 0}
      /\ \A s \in Seats : R[o].visitors[s] \in {old[o].visitors[s], None}
    BY DEF Shrunk
<1> QED
    BY <1>1 DEF PortsOf

\* Rooms, seats and generations after a rider has left, once pruned.
LEMMA LeaveKeepsTables ==
    ASSUME HubInv, NEW u \in Riders, memberships[u] # None, Leave(u)
    PROVE  /\ Tables(rooms', memberships', generations')
           /\ memberships'[u] = None
           /\ \A x \in Riders : x # u => memberships'[x] = memberships[x]
           /\ \A x \in Riders : generations'[x] \in {Untracked, generations[x]}
           /\ \A N : PortsOf(rooms, N) => PortsOf(rooms', N)
<1> DEFINE left == RoomsLeftBy(u)
           unseated == [memberships EXCEPT ![u] = None]
           S == {u, memberships[u].owner}
<1>t. /\ rooms \in RoomTable /\ memberships \in SeatTable /\ generations \in KnownTable
      /\ Sound(rooms, generations) /\ Bounded(generations)
      /\ Connected(rooms, memberships, generations)
    BY DEF HubInv, Tables
<1>1. /\ left \in RoomTable /\ Shrunk(left, rooms) /\ Seated(left, unseated)
      /\ \A o \in Riders : left[o] = None /\ rooms[o] # None => o = memberships[u].owner
    BY Leaving
<1>2. rooms' = left /\ memberships' = unseated
        /\ generations' = Pruned(generations, left, unseated, S)
    BY DEF Leave
<1>3. /\ unseated \in SeatTable /\ unseated[u] = None
      /\ \A x \in Riders : x # u => unseated[x] = memberships[x]
    BY <1>t DEF SeatTable
<1> HIDE DEF left, unseated
<1>4. Sound(left, generations)
    BY <1>1, <1>t, ShrunkIsSound
<1>5. \A x \in Riders : generations[x] # Untracked =>
            unseated[x] # None \/ left[x] # None \/ x \in S
    BY <1>1, <1>3, <1>t DEF Connected
<1> HIDE DEF S
<1>6. /\ generations' \in KnownTable /\ Sound(left, generations')
      /\ Connected(left, unseated, generations')
      /\ \A x \in Riders : generations'[x] \in {Untracked, generations[x]}
    BY <1>1, <1>2, <1>3, <1>4, <1>5, <1>t, Pruning
<1>7. Bounded(generations')
    BY <1>6, <1>t, FewerAreBounded
<1>8. Tables(left, unseated, generations')
    BY <1>1, <1>3, <1>6, <1>7 DEF Tables
<1>9. \A N : PortsOf(rooms, N) => PortsOf(left, N)
    BY <1>1, ShrunkShowsNoNewPort
<1> QED
    BY <1>2, <1>3, <1>6, <1>8, <1>9

LEMMA DisconnectKeepsTables ==
    ASSUME HubInv, NEW u \in Riders, Disconnect(u)
    PROVE  /\ Tables(rooms', memberships', generations')
           /\ rooms'[u] = None /\ memberships'[u] = None
           /\ \A x \in Riders : x # u =>
                 memberships'[x] = IF Visits(x, u) THEN None ELSE memberships[x]
           /\ \A x \in Riders : generations'[x] \in {Untracked, generations[x]}
           /\ \A N : PortsOf(rooms, N) => PortsOf(rooms', N)
<1> DEFINE left == RoomsLeftBy(u)
           unseated == [memberships EXCEPT ![u] = None]
           closed == [left EXCEPT ![u] = None]
           seated == [x \in Riders |-> IF x = u \/ Visits(x, u) THEN None ELSE memberships[x]]
           S == {u} \cup {x \in Riders : Visits(x, u)}
                    \cup (IF memberships[u] = None THEN {} ELSE {memberships[u].owner})
<1>t. /\ rooms \in RoomTable /\ memberships \in SeatTable /\ generations \in KnownTable
      /\ Sound(rooms, generations) /\ Bounded(generations)
      /\ Connected(rooms, memberships, generations)
    BY DEF HubInv, Tables
<1>1. /\ left \in RoomTable /\ Shrunk(left, rooms) /\ Seated(left, unseated)
      /\ \A o \in Riders : left[o] = None /\ rooms[o] # None =>
            memberships[u] # None /\ o = memberships[u].owner
    BY Leaving
<1>2. rooms' = closed /\ memberships' = seated
        /\ generations' = Pruned(generations, closed, seated, S)
    BY DEF Disconnect
<1>3. /\ seated \in SeatTable /\ unseated[u] = None
      /\ \A x \in Riders : x # u => unseated[x] = memberships[x]
      /\ \A x \in Riders : seated[x] = IF x = u \/ Visits(x, u) THEN None ELSE memberships[x]
    BY <1>t DEF SeatTable
<1> HIDE DEF left
<1>4. /\ closed \in RoomTable /\ closed[u] = None
      /\ \A o \in Riders : o # u => closed[o] = left[o]
    BY <1>1 DEF RoomTable
<1>s. Shrunk(closed, rooms)
    BY <1>1, <1>4 DEF Shrunk
<1>5. Sound(closed, generations) /\ \A N : PortsOf(rooms, N) => PortsOf(closed, N)
    <2> HIDE DEF closed
    <2> QED BY <1>4, <1>t, <1>s, ShrunkIsSound, ShrunkShowsNoNewPort
<1> HIDE DEF unseated, closed, seated
<1>6. Seated(closed, seated)
    <2> SUFFICES ASSUME NEW x \in Riders, NEW o \in Riders, NEW s \in Places
                 PROVE  seated[x] = [owner |-> o, slot |-> s] <=> SitsAt(closed, x, o, s)
        BY DEF Seated
    <2>1. unseated[x] = [owner |-> o, slot |-> s] <=> SitsAt(left, x, o, s)
        BY <1>1 DEF Seated
    <2>2. None # [owner |-> o, slot |-> s]
        BY Values DEF Membership
    <2>3. CASE o = u
        <3>1. ~SitsAt(closed, x, o, s)
            BY <1>4, <2>3 DEF SitsAt
        <3>2. seated[x] # [owner |-> o, slot |-> s]
            BY <1>3, <2>2, <2>3 DEF Visits
        <3> QED BY <3>1, <3>2
    <2>4. CASE o # u
        <3>1. SitsAt(closed, x, o, s) <=> SitsAt(left, x, o, s)
            BY <1>4, <2>4 DEF SitsAt
        <3>2. seated[x] = [owner |-> o, slot |-> s] <=> unseated[x] = [owner |-> o, slot |-> s]
            BY <1>3, <2>2, <2>4 DEF Visits
        <3> QED BY <2>1, <3>1, <3>2
    <2> QED BY <2>3, <2>4
<1>7. \A x \in Riders : generations[x] # Untracked =>
            seated[x] # None \/ closed[x] # None \/ x \in S
    BY <1>1, <1>3, <1>4, <1>t DEF Connected
<1> HIDE DEF S
<1>8. /\ generations' \in KnownTable /\ Sound(closed, generations')
      /\ Connected(closed, seated, generations')
      /\ \A x \in Riders : generations'[x] \in {Untracked, generations[x]}
    BY <1>2, <1>3, <1>4, <1>5, <1>6, <1>7, <1>t, Pruning
<1>9. Bounded(generations')
    BY <1>8, <1>t, FewerAreBounded
<1>10. Tables(closed, seated, generations')
    BY <1>3, <1>4, <1>6, <1>8, <1>9 DEF Tables
<1> QED
    BY <1>2, <1>3, <1>4, <1>5, <1>8, <1>10

\* A rider takes a place nobody has, in a room that stands or a new one.
LEMMA EnterKeepsTables ==
    ASSUME HubInv, NEW u \in Riders, NEW o \in Riders, NEW g \in Generations,
           NEW info \in Policies, NEW port \in Generations,
           Enter(u, o, g, info, port), u = o => g = Current(u)
    PROVE  /\ Tables(rooms', memberships', generations')
           /\ UNCHANGED hub \/ memberships'[u] # None
           /\ \A x \in Riders : x # u => memberships'[x] = memberships[x]
           /\ \A x \in Riders : generations[x] # Untracked =>
                 generations'[x] \in {Untracked, generations[x]}
           /\ \A x \in Riders :
                 \/ generations'[x] \in {Untracked, generations[x]}
                 \/ x = o /\ generations'[x] = g
                 \/ x = u /\ generations'[x] = Current(u)
           /\ \A N : PortsOf(rooms, N) /\ port \in {0, N[u]} => PortsOf(rooms', N)
<1> DEFINE left == RoomsLeftBy(u)
           unseated == [memberships EXCEPT ![u] = None]
           room == IF left[o] = None THEN NewRoom(o, g, info) ELSE left[o]
           slot == SlotFor(room, o, u)
           joined == With(room, slot, u, port)
           opened == [left EXCEPT ![o] = joined]
           seated == [memberships EXCEPT ![u] = [owner |-> o, slot |-> slot]]
           named == [[generations EXCEPT ![o] = g] EXCEPT ![u] = Current(u)]
           S == IF memberships[u] = None THEN {} ELSE {memberships[u].owner}
           known == Pruned(named, opened, seated, S)
<1>t. /\ rooms \in RoomTable /\ memberships \in SeatTable /\ generations \in KnownTable
      /\ Sound(rooms, generations) /\ Bounded(generations)
      /\ Connected(rooms, memberships, generations)
      /\ Tables(rooms, memberships, generations)
      /\ Current(u) \in Generations
    BY DEF HubInv, Tables, HubTypes, Current
<1>1. CASE UNCHANGED hub
    BY <1>1, <1>t DEF hub
<1>2. CASE /\ ~Stale(o, g) /\ ~Refused(u)
           /\ u = o \/ Vacant(room) # {}
           /\ Cardinality({x \in Riders : known[x] # Untracked}) =< Capacity
           /\ rooms' = opened /\ memberships' = seated /\ generations' = known
    <2>1. /\ left \in RoomTable /\ Shrunk(left, rooms) /\ Seated(left, unseated)
          /\ \A x \in Riders : left[x] = None /\ rooms[x] # None => x \in S
        BY Leaving
    <2>2. /\ unseated[u] = None /\ \A x \in Riders : x # u => unseated[x] = memberships[x]
        BY <1>t DEF SeatTable
    <2> HIDE DEF left, unseated, S
    <2>3. Sound(left, generations)
        BY <2>1, <1>t, ShrunkIsSound
    <2>4. /\ room \in Room /\ (~room.present => room.port = 0)
          /\ (left[o] # None => room = left[o])
          /\ (left[o] = None => /\ room.generation = g /\ ~room.present
                                /\ \A s \in Seats : room.visitors[s] = None)
        <3>1. CASE left[o] = None
            <4>1. room = [generation |-> g, port |-> 0, present |-> FALSE, info |-> info,
                          revision |-> NextRevision(o), visitors |-> [s \in Seats |-> None]]
                BY <3>1 DEF NewRoom
            <4> HIDE DEF room
            <4>2. NextRevision(o) \in Nat /\ 0 \in Generations
                BY NextRevisionIsFresh, Zero
            <4>3. room \in Room
                BY <4>1, <4>2 DEF Room
            <4>4. /\ room.generation = g /\ ~room.present /\ room.port = 0
                  /\ \A s \in Seats : room.visitors[s] = None
                BY <4>1
            <4> QED BY <3>1, <4>3, <4>4
        <3>2. CASE left[o] # None
            <4>1. room = left[o]
                BY <3>2
            <4> HIDE DEF room
            <4>2. Alive(left[o], o) /\ left[o] \in Room
                BY <2>1, <2>3, <3>2 DEF Sound, RoomTable
            <4> QED BY <3>2, <4>1, <4>2 DEF Alive
        <3> QED BY <3>1, <3>2
    <2> HIDE DEF room
    <2>5. /\ slot \in Places /\ (slot = OwnerSlot <=> u = o)
          /\ \A x \in Riders : ~SitsAt(left, x, o, slot)
        <3>1. CASE u = o
            <4>1. slot = OwnerSlot
                BY <3>1 DEF SlotFor
            <4>2. ~SitsAt(left, o, o, OwnerSlot)
                <5>1. unseated[o] # [owner |-> o, slot |-> OwnerSlot]
                    BY <3>1, <2>2, Values DEF Membership
                <5> QED BY <2>1, <5>1, Values DEF Seated
            <4> QED BY <3>1, <4>1, <4>2, Values DEF SitsAt
        <3>2. CASE u # o
            <4>1. Vacant(room) # {}
                BY <1>2, <3>2
            <4>2. IsFiniteSet(Seats) /\ Seats \in SUBSET Nat
                BY HubConstants
            <4>3. Vacant(room) \in SUBSET Seats /\ Vacant(room) \in SUBSET Nat
                BY <4>2 DEF Vacant
            <4>4. IsFiniteSet(Vacant(room))
                BY <4>2, <4>3, FS_Subset
            <4>5. Min(Vacant(room)) \in Vacant(room)
                BY <4>1, <4>3, <4>4, MinExists
            <4>6. slot = Min(Vacant(room))
                BY <3>2 DEF SlotFor
            <4>7. slot \in Seats /\ room.visitors[slot] = None
                BY <4>5, <4>6 DEF Vacant
            <4> HIDE DEF slot
            <4>8. slot # OwnerSlot /\ slot \in Places
                BY <4>7, Values
            <4> QED BY <3>2, <4>7, <4>8, <2>4 DEF SitsAt
        <3> QED BY <3>1, <3>2
    <2> HIDE DEF slot
    <2>6. /\ joined \in Room /\ joined # None
          /\ joined.generation = room.generation
          /\ joined.present = (slot = OwnerSlot \/ room.present)
          /\ joined.port = IF slot = OwnerSlot THEN port ELSE room.port
          /\ \A s \in Seats : joined.visitors[s]
                = IF s = slot THEN [user |-> u, generation |-> Current(u), port |-> port]
                  ELSE room.visitors[s]
        BY <2>4, <2>5, <1>t, WithFacts, Values
    <2> HIDE DEF joined
    <2>7. /\ opened \in RoomTable /\ opened[o] = joined
          /\ \A x \in Riders : x # o => opened[x] = left[x]
        BY <2>1, <2>6 DEF RoomTable
    <2>8. /\ seated \in SeatTable /\ seated[u] = [owner |-> o, slot |-> slot]
          /\ \A x \in Riders : x # u => seated[x] = memberships[x]
        BY <1>t, <2>5 DEF SeatTable, Membership
    <2>9. /\ named \in KnownTable /\ named[o] = g /\ named[u] = Current(u)
          /\ \A x \in Riders : x # o /\ x # u => named[x] = generations[x]
        BY <1>t DEF KnownTable
    <2> HIDE DEF opened, seated, named
    <2>10. \A x \in Riders : generations[x] # Untracked => named[x] = generations[x]
        <3>1. generations[o] \in {Untracked, g} /\ generations[u] \in {Untracked, Current(u)}
            BY <1>2 DEF Stale, Refused
        <3> QED BY <2>9, <3>1
    <2>11. Seated(opened, seated)
        <3> SUFFICES ASSUME NEW x \in Riders, NEW p \in Riders, NEW s \in Places
                     PROVE  seated[x] = [owner |-> p, slot |-> s] <=> SitsAt(opened, x, p, s)
            BY DEF Seated
        <3>1. unseated[x] = [owner |-> p, slot |-> s] <=> SitsAt(left, x, p, s)
            BY <2>1 DEF Seated
        <3>2. None # [owner |-> p, slot |-> s]
            BY Values DEF Membership
        <3>3. CASE p = o /\ s = slot
            <4>1. SitsAt(opened, x, o, slot) <=> x = u
                <5>1. CASE slot = OwnerSlot
                    BY <5>1, <2>5, <2>6, <2>7 DEF SitsAt
                <5>2. CASE slot # OwnerSlot
                    <6> DEFINE guest == [user |-> u, generation |-> Current(u), port |-> port]
                    <6>1. slot \in Seats
                        BY <5>2, <2>5 DEF Places
                    <6>2. guest # None /\ guest.user = u
                        BY <1>t, Values DEF Guest
                    <6>3. opened[o] # None /\ opened[o].visitors[slot] = guest
                        BY <6>1, <2>6, <2>7
                    <6> HIDE DEF guest
                    <6> QED BY <5>2, <6>2, <6>3 DEF SitsAt
                <5> QED BY <5>1, <5>2
            <4>2. x # u => seated[x] # [owner |-> o, slot |-> slot]
                BY <2>2, <2>8, <3>1, <2>5, <3>3
            <4> QED BY <3>3, <4>1, <4>2, <2>8
        <3>4. CASE ~(p = o /\ s = slot)
            <4>1. SitsAt(opened, x, p, s) <=> SitsAt(left, x, p, s)
                <5>1. CASE p # o
                    BY <5>1, <2>7 DEF SitsAt
                <5>2. CASE p = o /\ left[o] # None
                    BY <5>2, <3>4, <2>4, <2>6, <2>7 DEF SitsAt, Places
                <5>3. CASE p = o /\ left[o] = None
                    BY <5>3, <3>4, <2>4, <2>6, <2>7 DEF SitsAt, Places
                <5> QED BY <5>1, <5>2, <5>3
            <4>2. seated[x] = [owner |-> p, slot |-> s]
                    <=> unseated[x] = [owner |-> p, slot |-> s]
                BY <2>2, <2>8, <3>2, <3>4
            <4> QED BY <3>1, <4>1, <4>2
        <3> QED BY <3>3, <3>4
    <2>12. Sound(opened, named)
        <3> SUFFICES ASSUME NEW p \in Riders, opened[p] # None
                     PROVE  Alive(opened[p], p) /\ Agrees(opened[p], p, named)
            BY DEF Sound
        <3>1. ASSUME left[p] # None
              PROVE  Alive(left[p], p) /\ Agrees(left[p], p, named)
            <4>1. Alive(left[p], p) /\ Agrees(left[p], p, generations) /\ left[p] \in Room
                BY <2>1, <2>3, <3>1 DEF Sound, RoomTable
            <4>2. named[p] = left[p].generation
                <5>1. generations[p] = left[p].generation /\ generations[p] # Untracked
                    BY <4>1, Values DEF Agrees, Room
                <5> QED BY <5>1, <2>10
            <4>3. ASSUME NEW s \in Seats, left[p].visitors[s] # None
                  PROVE  left[p].visitors[s].generation = named[left[p].visitors[s].user]
                <5>1. left[p].visitors[s] \in Guest
                    BY <4>1, <4>3 DEF Room
                <5>2. /\ left[p].visitors[s].generation = generations[left[p].visitors[s].user]
                      /\ left[p].visitors[s].user \in Riders
                      /\ generations[left[p].visitors[s].user] # Untracked
                    BY <4>1, <4>3, <5>1, Values DEF Agrees, Guest
                <5> QED BY <5>2, <2>10
            <4> QED BY <4>1, <4>2, <4>3 DEF Agrees
        <3>2. CASE p # o
            BY <3>1, <3>2, <2>7
        <3>3. CASE p = o
            <4>1. joined.generation = named[o]
                BY <3>1, <3>3, <2>4, <2>6, <2>9 DEF Agrees
            <4>2. ASSUME NEW s \in Seats, joined.visitors[s] # None
                  PROVE  /\ joined.visitors[s].user # o
                         /\ joined.visitors[s].generation = named[joined.visitors[s].user]
                <5>1. CASE s = slot
                    <6>1. u # o
                        BY <5>1, <2>5, Values
                    <6> QED BY <5>1, <6>1, <2>6, <2>9
                <5>2. CASE s # slot
                    <6>1. joined.visitors[s] = room.visitors[s] /\ left[o] # None
                        BY <5>2, <4>2, <2>4, <2>6
                    <6> QED BY <6>1, <4>2, <3>1, <3>3, <2>4 DEF Alive, Agrees
                <5> QED BY <5>1, <5>2
            <4>3. ~Empty(joined)
                <5>1. CASE slot = OwnerSlot
                    BY <5>1, <2>6 DEF Empty
                <5>2. CASE slot # OwnerSlot
                    <6>1. slot \in Seats
                        BY <5>2, <2>5 DEF Places
                    <6>2. joined.visitors[slot] # None
                        BY <6>1, <2>6, <1>t, Values DEF Guest
                    <6> QED BY <6>1, <6>2 DEF Empty
                <5> QED BY <5>1, <5>2
            <4>4. ~joined.present => joined.port = 0
                BY <2>4, <2>6 DEF Room
            <4> QED BY <3>3, <2>7, <4>1, <4>2, <4>3, <4>4 DEF Alive, Agrees
        <3> QED BY <3>2, <3>3
    <2>13. \A x \in Riders : named[x] # Untracked =>
                seated[x] # None \/ opened[x] # None \/ x \in S
        <3> SUFFICES ASSUME NEW x \in Riders, named[x] # Untracked, x # u, x # o, x \notin S
                     PROVE  seated[x] # None \/ opened[x] # None
            <4>1. seated[u] # None /\ opened[o] # None
                BY <2>5, <2>6, <2>7, <2>8, Values DEF Membership
            <4> QED BY <4>1
        <3>1. memberships[x] # None \/ rooms[x] # None
            BY <2>9, <1>t DEF Connected
        <3> QED BY <3>1, <2>1, <2>7, <2>8
    <2>14. /\ known \in KnownTable /\ Sound(opened, known)
           /\ Connected(opened, seated, known)
           /\ \A x \in Riders : known[x] \in {Untracked, named[x]}
        BY <2>7, <2>8, <2>9, <2>11, <2>12, <2>13, Pruning
    <2>15. Bounded(known)
        BY <1>2 DEF Bounded
    <2> HIDE DEF known
    <2>16. Tables(opened, seated, known)
        BY <2>7, <2>8, <2>11, <2>14, <2>15 DEF Tables
    <2>17. ASSUME NEW N, PortsOf(rooms, N), port \in {0, N[u]}
           PROVE  PortsOf(opened, N)
        <3>1. PortsOf(left, N)
            BY <2>1, <2>17, ShrunkShowsNoNewPort
        <3> SUFFICES ASSUME NEW p \in Riders, opened[p] # None
                     PROVE  /\ opened[p].port \in {0, N[p]}
                            /\ \A s \in Seats : opened[p].visitors[s] # None =>
                                  opened[p].visitors[s].port
                                    \in {0, N[opened[p].visitors[s].user]}
            BY DEF PortsOf
        <3>2. CASE p # o
            BY <3>1, <3>2, <2>7 DEF PortsOf
        <3>3. CASE p = o
            <4>1. joined.port \in {0, N[o]}
                <5>1. room.port \in {0, N[o]}
                    BY <3>1, <2>4 DEF PortsOf
                <5> QED BY <5>1, <2>5, <2>6, <2>17
            <4>2. ASSUME NEW s \in Seats, joined.visitors[s] # None
                  PROVE  joined.visitors[s].port \in {0, N[joined.visitors[s].user]}
                <5>1. CASE s = slot
                    BY <5>1, <2>6, <2>17
                <5>2. CASE s # slot
                    <6>1. joined.visitors[s] = room.visitors[s] /\ left[o] # None
                        BY <5>2, <4>2, <2>4, <2>6
                    <6> QED BY <6>1, <4>2, <3>1, <2>4 DEF PortsOf
                <5> QED BY <5>1, <5>2
            <4> QED BY <3>3, <4>1, <4>2, <2>7
        <3> QED BY <3>2, <3>3
    <2>18. seated[u] # None
        BY <2>5, <2>8, Values DEF Membership
    <2> QED
        BY <1>2, <2>8, <2>9, <2>10, <2>14, <2>16, <2>17, <2>18
<1>3. \/ UNCHANGED hub
      \/ /\ ~Stale(o, g) /\ ~Refused(u)
         /\ u = o \/ Vacant(room) # {}
         /\ Cardinality({x \in Riders : known[x] # Untracked}) =< Capacity
         /\ rooms' = opened /\ memberships' = seated /\ generations' = known
    <2> DEFINE ids == {x \in Riders : known[x] # Untracked}
    <2>1. \/ UNCHANGED hub
          \/ /\ ~Stale(o, g) /\ ~Refused(u)
             /\ u = o \/ Vacant(room) # {}
             /\ ~(Cardinality(ids) > Capacity)
             /\ rooms' = opened /\ memberships' = seated /\ generations' = known
        BY DEF Enter, Mismatch, Halt
    <2>2. Cardinality(ids) \in Nat /\ Capacity \in Nat
        <3>1. IsFiniteSet(Riders) /\ ids \in SUBSET Riders
            BY HubConstants
        <3> HIDE DEF ids
        <3>2. IsFiniteSet(ids)
            BY <3>1, FS_Subset
        <3> QED BY <3>2, FS_CardinalityType, HubConstants
    <2>3. ~(Cardinality(ids) > Capacity) => Cardinality(ids) =< Capacity
        <3> HIDE DEF ids
        <3> QED BY <2>2
    <2> HIDE DEF known, room, opened, seated
    <2> QED BY <2>1, <2>3
<1> QED
    BY <1>1, <1>2, <1>3

\* In R, rider u shows the ports p and q and no other, the rest what they showed.
PortsReplaced(R, u, p, q) ==
    \A N, N1 :
        /\ PortsOf(rooms, N)
        /\ \A x \in Riders : x # u => N1[x] = N[x]
        /\ rooms[u] # None => p \in {0, N1[u]}
        /\ q \in {0, N1[u]}
      => PortsOf(R, N1)

\* Every role of a rider is rewritten to one generation.
LEMMA RolesKeepTables ==
    ASSUME HubInv, NEW u \in Riders, HasRole(u),
           NEW g \in Generations, NEW owned, NEW guest \in Guest,
           guest.user = u, guest.generation = g,
           rooms[u] # None => /\ owned \in Room /\ owned.generation = g
                              /\ owned.present = rooms[u].present
                              /\ owned.visitors = rooms[u].visitors
                              /\ ~owned.present => owned.port = 0,
           rooms' = Roles(u, owned, guest), UNCHANGED memberships,
           generations' = [generations EXCEPT ![u] = g]
    PROVE  /\ Tables(rooms', memberships', generations')
           /\ PortsReplaced(rooms', u, owned.port, guest.port)
<1> DEFINE R == Roles(u, owned, guest)
           G == [generations EXCEPT ![u] = g]
           mine(o, s) == memberships[u] = [owner |-> o, slot |-> s]
           theirs(o) == [rooms[o] EXCEPT !.visitors =
                            [s \in Seats |-> IF mine(o, s) THEN guest ELSE @[s]]]
<1>t. /\ rooms \in RoomTable /\ memberships \in SeatTable /\ generations \in KnownTable
      /\ Sound(rooms, generations) /\ Bounded(generations)
      /\ Connected(rooms, memberships, generations) /\ Seated(rooms, memberships)
    BY DEF HubInv, Tables
<1>1. ASSUME NEW o \in Riders
      PROVE  R[o] = IF rooms[o] = None THEN None ELSE IF o = u THEN owned ELSE theirs(o)
    BY DEF Roles
<1>2. ASSUME NEW o \in Riders, o # u, rooms[o] # None
      PROVE  /\ R[o] \in Room
             /\ R[o].generation = rooms[o].generation /\ R[o].port = rooms[o].port
             /\ R[o].present = rooms[o].present
             /\ \A s \in Seats : R[o].visitors[s]
                    = IF mine(o, s) THEN guest ELSE rooms[o].visitors[s]
    <2>1. R[o] = theirs(o) /\ rooms[o] \in Room
        BY <1>1, <1>2, <1>t DEF RoomTable
    <2> HIDE DEF R, mine
    <2>2. \A s \in Seats : rooms[o].visitors[s] \in Guest \cup {None}
        BY <2>1 DEF Room
    <2>3. theirs(o) \in Room
        BY <2>1, <2>2 DEF Room
    <2> QED BY <2>1, <2>3 DEF Room
<1>3. rooms[u] # None => R[u] = owned
    BY <1>1
<1>4. \A o \in Riders : R[o] = None <=> rooms[o] = None
    <2> SUFFICES ASSUME NEW o \in Riders PROVE R[o] = None <=> rooms[o] = None
        OBVIOUS
    <2>1. CASE rooms[o] = None
        BY <2>1, <1>1
    <2>2. CASE rooms[o] # None /\ o = u
        BY <2>2, <1>3, Values
    <2>3. CASE rooms[o] # None /\ o # u
        <3>1. R[o] \in Room
            BY <1>2, <2>3
        <3> HIDE DEF R
        <3> QED BY <2>3, <3>1, Values
    <2> QED BY <2>1, <2>2, <2>3
<1>5. R \in RoomTable
    <2>1. \A o \in Riders : R[o] \in Room \cup {None}
        BY <1>2, <1>3, <1>4
    <2>2. R = [o \in Riders |-> R[o]]
        BY DEF Roles
    <2> HIDE DEF R
    <2> QED BY <2>1, <2>2 DEF RoomTable
<1> HIDE DEF R, theirs
<1>6. /\ G \in KnownTable /\ G[u] = g
      /\ \A x \in Riders : x # u => G[x] = generations[x]
    BY <1>t DEF KnownTable
<1> HIDE DEF G
\* A guest of that rider sits where the index has him.
<1>7. ASSUME NEW o \in Riders, NEW s \in Seats, rooms[o] # None
      PROVE  mine(o, s) <=> rooms[o].visitors[s] # None /\ rooms[o].visitors[s].user = u
    BY <1>7, <1>t, Values DEF Seated, SitsAt
<1>8. Seated(R, memberships)
    <2> SUFFICES ASSUME NEW x \in Riders, NEW o \in Riders, NEW s \in Places
                 PROVE  memberships[x] = [owner |-> o, slot |-> s] <=> SitsAt(R, x, o, s)
        BY DEF Seated
    <2>1. memberships[x] = [owner |-> o, slot |-> s] <=> SitsAt(rooms, x, o, s)
        BY <1>t DEF Seated
    <2>2. CASE rooms[o] = None
        BY <2>1, <2>2, <1>4 DEF SitsAt
    <2>3. CASE rooms[o] # None /\ o = u
        BY <2>1, <2>3, <1>3, <1>4 DEF SitsAt
    <2>4. CASE rooms[o] # None /\ o # u /\ s = OwnerSlot
        BY <2>1, <2>4, <1>2, <1>4 DEF SitsAt
    <2>5. CASE rooms[o] # None /\ o # u /\ s # OwnerSlot
        <3>1. s \in Seats /\ guest # None
            BY <2>5, Values DEF Places
        <3>2. R[o].visitors[s] = IF mine(o, s) THEN guest ELSE rooms[o].visitors[s]
            BY <1>2, <2>5, <3>1
        <3>3. mine(o, s) <=> rooms[o].visitors[s] # None /\ rooms[o].visitors[s].user = u
            BY <1>7, <2>5, <3>1
        <3> HIDE DEF mine
        <3> QED BY <2>1, <2>5, <3>1, <3>2, <3>3, <1>4 DEF SitsAt
    <2> QED BY <2>2, <2>3, <2>4, <2>5
<1>9. Sound(R, G)
    <2> SUFFICES ASSUME NEW o \in Riders, rooms[o] # None
                 PROVE  Alive(R[o], o) /\ Agrees(R[o], o, G)
        BY <1>4 DEF Sound
    <2>1. Alive(rooms[o], o) /\ Agrees(rooms[o], o, generations) /\ rooms[o] \in Room
        BY <1>t DEF Sound, RoomTable
    <2>2. CASE o = u
        <3>1. /\ R[o] = owned /\ owned.generation = g
              /\ owned.present = rooms[o].present /\ owned.visitors = rooms[o].visitors
              /\ ~owned.present => owned.port = 0
            BY <1>3, <2>2
        <3>2. Alive(R[o], o)
            BY <2>1, <3>1 DEF Alive, Empty
        <3>3. \A s \in Seats : rooms[o].visitors[s] # None =>
                    /\ rooms[o].visitors[s].user # u
                    /\ rooms[o].visitors[s].user \in Riders
            BY <2>1, <2>2 DEF Alive, Room, Guest
        <3> QED BY <2>1, <2>2, <3>1, <3>2, <3>3, <1>6 DEF Agrees
    <2>3. CASE o # u
        <3>1. /\ R[o].generation = rooms[o].generation /\ R[o].port = rooms[o].port
              /\ R[o].present = rooms[o].present
            BY <1>2, <2>3
        <3>2. ASSUME NEW s \in Seats
              PROVE  /\ R[o].visitors[s] = None <=> rooms[o].visitors[s] = None
                     /\ R[o].visitors[s] # None =>
                            /\ R[o].visitors[s].user # o
                            /\ R[o].visitors[s].generation = G[R[o].visitors[s].user]
            <4>1. CASE mine(o, s)
                BY <4>1, <1>2, <1>6, <1>7, <2>3, Values
            <4>2. CASE ~mine(o, s)
                <5>1. R[o].visitors[s] = rooms[o].visitors[s]
                    BY <1>2, <2>3, <4>2
                <5>2. ASSUME rooms[o].visitors[s] # None
                      PROVE  /\ rooms[o].visitors[s].user # u
                             /\ rooms[o].visitors[s].user \in Riders
                    BY <1>7, <2>1, <4>2, <5>2 DEF Room, Guest
                <5> QED BY <5>1, <5>2, <1>6, <2>1 DEF Alive, Agrees
            <4> QED BY <4>1, <4>2
        <3> QED BY <2>1, <2>3, <3>1, <3>2, <1>6 DEF Alive, Agrees, Empty
    <2> QED BY <2>2, <2>3
<1>10. Connected(R, memberships, G)
    <2>1. memberships[u] # None \/ R[u] # None
        BY <1>4 DEF HasRole
    <2> QED BY <2>1, <1>4, <1>6, <1>t DEF Connected
<1>11. Bounded(G)
    <2>1. generations[u] # Untracked
        BY RolesAreKnown DEF HubInv, HasRole
    <2> QED BY <2>1, <1>6, <1>t, FewerAreBounded
<1>12. Tables(R, memberships, G)
    BY <1>t, <1>5, <1>6, <1>8, <1>9, <1>10, <1>11 DEF Tables
<1>13. ASSUME NEW N, NEW N1, PortsOf(rooms, N),
              \A x \in Riders : x # u => N1[x] = N[x],
              rooms[u] # None => owned.port \in {0, N1[u]},
              guest.port \in {0, N1[u]}
       PROVE  PortsOf(R, N1)
    <2> SUFFICES ASSUME NEW o \in Riders, rooms[o] # None
                 PROVE  /\ R[o].port \in {0, N1[o]}
                        /\ \A s \in Seats : R[o].visitors[s] # None =>
                              R[o].visitors[s].port \in {0, N1[R[o].visitors[s].user]}
        BY <1>4 DEF PortsOf
    <2>1. /\ Alive(rooms[o], o) /\ rooms[o] \in Room
          /\ \A s \in Seats : rooms[o].visitors[s] # None =>
                rooms[o].visitors[s].user \in Riders
        BY <1>t DEF Sound, RoomTable, Room, Guest
    <2>2. CASE o = u
        BY <1>3, <1>13, <2>1, <2>2 DEF PortsOf, Alive
    <2>3. CASE o # u
        <3>1. R[o].port \in {0, N1[o]}
            BY <1>2, <1>13, <2>3 DEF PortsOf
        <3>2. ASSUME NEW s \in Seats, R[o].visitors[s] # None
              PROVE  R[o].visitors[s].port \in {0, N1[R[o].visitors[s].user]}
            <4>1. CASE mine(o, s)
                BY <4>1, <1>2, <1>13, <2>3
            <4>2. CASE ~mine(o, s)
                <5>1. R[o].visitors[s] = rooms[o].visitors[s]
                    BY <1>2, <2>3, <4>2
                <5>2. rooms[o].visitors[s].user # u
                    BY <1>7, <3>2, <4>2, <5>1
                <5> QED BY <5>1, <5>2, <1>13, <2>1, <3>2 DEF PortsOf
            <4> QED BY <4>1, <4>2
        <3> QED BY <3>1, <3>2
    <2> QED BY <2>2, <2>3
<1>14. PortsReplaced(R, u, owned.port, guest.port)
    BY <1>13 DEF PortsReplaced
<1> QED
    BY <1>12, <1>14 DEF R, G

LEMMA AdvanceKeepsTables ==
    ASSUME HubInv, NEW u \in Riders, HasRole(u), NEW g \in Generations, Advance(u, g)
    PROVE  /\ Tables(rooms', memberships', generations')
           /\ \A N, N1 : PortsOf(rooms, N) /\ (\A x \in Riders : x # u => N1[x] = N[x])
                          => PortsOf(rooms', N1)
<1> DEFINE owned == [rooms[u] EXCEPT !.generation = g, !.port = 0]
           guest == [user |-> u, generation |-> g, port |-> 0]
<1>1. rooms' = Roles(u, owned, guest) /\ UNCHANGED memberships
        /\ generations' = [generations EXCEPT ![u] = g]
    BY DEF Advance
<1>2. guest \in Guest /\ guest.user = u /\ guest.generation = g /\ guest.port = 0
    BY Zero DEF Guest
<1>3. rooms[u] # None => /\ owned \in Room /\ owned.generation = g
                         /\ owned.present = rooms[u].present
                         /\ owned.visitors = rooms[u].visitors
                         /\ owned.port = 0
    <2> SUFFICES ASSUME rooms[u] \in Room
                 PROVE  /\ owned \in Room /\ owned.generation = g
                        /\ owned.present = rooms[u].present
                        /\ owned.visitors = rooms[u].visitors
                        /\ owned.port = 0
        BY DEF HubInv, Tables, RoomTable
    <2> QED BY Zero DEF Room
<1> HIDE DEF owned, guest
<1>4. /\ Tables(rooms', memberships', generations')
      /\ PortsReplaced(rooms', u, owned.port, guest.port)
    BY <1>1, <1>2, <1>3, RolesKeepTables
<1> QED
    BY <1>2, <1>3, <1>4 DEF PortsReplaced

LEMMA ShowPortKeepsTables ==
    ASSUME HubInv, NEW u \in Riders, HasRole(u), ~Refused(u), NEW port \in Generations,
           ShowPort(u, port), UNCHANGED <<memberships, generations>>
    PROVE  /\ Tables(rooms', memberships', generations')
           /\ \A N : PortsOf(rooms, N) /\ port \in {0, N[u]} => PortsOf(rooms', N)
<1> DEFINE owned == IF Present(u) THEN [rooms[u] EXCEPT !.port = port] ELSE rooms[u]
           guest == [user |-> u, generation |-> Current(u), port |-> port]
<1>1. rooms' = Roles(u, owned, guest)
    BY DEF ShowPort
<1>2. generations[u] = Current(u) /\ Current(u) \in Generations
    <2>1. generations[u] # Untracked
        BY RolesAreKnown DEF HubInv, HasRole
    <2> QED BY <2>1 DEF Refused, Stale, HubInv, HubTypes, Current
<1>3. generations' = [generations EXCEPT ![u] = Current(u)]
    BY <1>2 DEF HubInv, Tables, KnownTable
<1>4. guest \in Guest /\ guest.user = u /\ guest.generation = Current(u) /\ guest.port = port
    BY <1>2 DEF Guest
<1>5. rooms[u] # None => /\ owned \in Room /\ owned.generation = Current(u)
                         /\ owned.present = rooms[u].present
                         /\ owned.visitors = rooms[u].visitors
                         /\ ~owned.present => owned.port = 0
                         /\ owned.port = rooms[u].port \/ owned.port = port
    <2> SUFFICES ASSUME rooms[u] # None, rooms[u] \in Room
                 PROVE  /\ owned \in Room /\ owned.generation = Current(u)
                        /\ owned.present = rooms[u].present
                        /\ owned.visitors = rooms[u].visitors
                        /\ ~owned.present => owned.port = 0
                        /\ owned.port = rooms[u].port \/ owned.port = port
        BY DEF HubInv, Tables, RoomTable
    <2>1. Alive(rooms[u], u) /\ rooms[u].generation = Current(u)
        BY <1>2 DEF HubInv, Tables, Sound, Agrees
    <2>2. CASE Present(u)
        <3>1. owned = [rooms[u] EXCEPT !.port = port] /\ rooms[u].present
            BY <2>2 DEF Present
        <3> HIDE DEF owned
        <3> QED BY <2>1, <3>1 DEF Room
    <2>3. CASE ~Present(u)
        BY <2>1, <2>3 DEF Alive
    <2> QED BY <2>2, <2>3
<1> HIDE DEF owned, guest
<1>6. /\ Tables(rooms', memberships', generations')
      /\ PortsReplaced(rooms', u, owned.port, guest.port)
    BY <1>1, <1>2, <1>3, <1>4, <1>5, RolesKeepTables
<1>7. ASSUME NEW N, PortsOf(rooms, N), port \in {0, N[u]} PROVE PortsOf(rooms', N)
    <2>1. rooms[u] # None => owned.port \in {0, N[u]}
        BY <1>5, <1>7 DEF PortsOf
    <2> QED BY <2>1, <1>4, <1>6, <1>7 DEF PortsReplaced
<1> QED
    BY <1>6, <1>7

\* The owner changes what his room says of itself, not who is in it.
LEMMA CompleteInfoKeepsTables ==
    ASSUME HubInv, NEW u \in Riders, CompleteInfo(u)
    PROVE  /\ Tables(rooms', memberships', generations')
           /\ \A N : PortsOf(rooms, N) => PortsOf(rooms', N)
<1>t. /\ rooms \in RoomTable /\ memberships \in SeatTable /\ generations \in KnownTable
      /\ Sound(rooms, generations) /\ Seated(rooms, memberships)
      /\ Connected(rooms, memberships, generations) /\ Bounded(generations)
    BY DEF HubInv, Tables
<1>1. UNCHANGED <<memberships, generations>>
    BY DEF CompleteInfo, Halt, hub
<1>2. CASE UNCHANGED rooms
    BY <1>1, <1>2, <1>t DEF Tables
<1>3. CASE /\ writes[u] # None
           /\ memberships[u] = [owner |-> u, slot |-> OwnerSlot]
           /\ rooms' = [rooms EXCEPT ![u].info = writes[u].info, ![u].revision = NextRevision(u)]
    <2> DEFINE room == [rooms[u] EXCEPT !.info = writes[u].info, !.revision = NextRevision(u)]
    <2>1. SitsAt(rooms, u, u, OwnerSlot)
        BY <1>3, <1>t, Values DEF Seated
    <2>2. rooms[u] \in Room
        BY <1>t, <2>1 DEF SitsAt, RoomTable
    <2>3. writes[u].info \in Policies
        BY <1>3 DEF HubInv, HubTypes, Write
    <2>4. /\ room \in Room /\ room # None /\ room.generation = rooms[u].generation
          /\ room.port = rooms[u].port /\ room.present = rooms[u].present
          /\ room.visitors = rooms[u].visitors
        <3>1. room \in Room
            BY <2>2, <2>3, NextRevisionIsFresh DEF Room
        <3> QED BY <2>2, <3>1, Values DEF Room
    <2>5. rooms' = [rooms EXCEPT ![u] = room]
        BY <1>3, <1>t, <2>2 DEF RoomTable, Room
    <2> HIDE DEF room
    <2>6. /\ rooms' \in RoomTable /\ rooms'[u] = room
          /\ \A o \in Riders : o # u => rooms'[o] = rooms[o]
        BY <1>t, <2>4, <2>5 DEF RoomTable
    <2>7. \A o \in Riders :
             /\ rooms'[o] = None <=> rooms[o] = None
             /\ rooms[o] # None => /\ rooms'[o].generation = rooms[o].generation
                                   /\ rooms'[o].port = rooms[o].port
                                   /\ rooms'[o].present = rooms[o].present
                                   /\ rooms'[o].visitors = rooms[o].visitors
        BY <2>2, <2>4, <2>6, Values
    <2>8. Seated(rooms', memberships)
        <3> SUFFICES ASSUME NEW x \in Riders, NEW o \in Riders, NEW s \in Places
                     PROVE  memberships[x] = [owner |-> o, slot |-> s]
                                <=> SitsAt(rooms', x, o, s)
            BY DEF Seated
        <3>1. SitsAt(rooms', x, o, s) <=> SitsAt(rooms, x, o, s)
            BY <2>7 DEF SitsAt
        <3> QED BY <3>1, <1>t DEF Seated
    <2>9. Sound(rooms', generations)
        BY <1>t, <2>7 DEF Sound, Alive, Agrees, Empty
    <2>10. Connected(rooms', memberships, generations)
        BY <1>t, <2>7 DEF Connected
    <2>11. Tables(rooms', memberships, generations)
        BY <1>t, <2>6, <2>8, <2>9, <2>10 DEF Tables
    <2>12. \A N : PortsOf(rooms, N) => PortsOf(rooms', N)
        BY <2>7 DEF PortsOf
    <2> QED
        BY <1>1, <2>11, <2>12
<1> QED
    BY <1>2, <1>3 DEF CompleteInfo, Halt, hub

--------------------------------------------------------------------------------
(* Every step.                                                              *)

LEMMA QuietKeepsTables ==
    ASSUME HubInv, UNCHANGED hub
    PROVE  Tables(rooms', memberships', generations')
BY DEF HubInv, hub

LEMMA QuietKeepsTypes ==
    ASSUME HubInv, UNCHANGED <<identity, writes>>
    PROVE  HubTypes'
BY DEF HubInv, HubTypes

LEMMA CurrentType ==
    ASSUME HubInv, NEW u \in Riders
    PROVE  /\ Current(u) \in Generations /\ Ports(u) \subseteq Generations
           /\ Profile(u) \subseteq Policies /\ Offline \in Generations
           /\ Current(u) < Last[u] => Current(u) + 1 \in Generations
<1>1. Current(u) \in Generations
    BY DEF HubInv, HubTypes, Current
<1>2. Ports(u) \subseteq Generations
    BY <1>1, Zero DEF Ports
<1>3. Profile(u) \subseteq Policies
    BY HubConstants DEF Profile
<1>4. ASSUME Current(u) < Last[u] PROVE Current(u) + 1 \in Generations
    <2>1. Last[u] \in Nat /\ Current(u) \in Nat
        BY <1>1, HubConstants, Values
    <2> HIDE DEF Current
    <2>2. Current(u) + 1 \in Offline .. Last[u]
        BY <2>1, <1>4 DEF Offline
    <2> QED BY <2>2 DEF Generations
<1> QED
    BY <1>1, <1>2, <1>3, <1>4, Zero DEF Offline

LEMMA NextGenerationTyped ==
    ASSUME HubInv, NEW u \in Riders, Current(u) < Last[u],
           identity' = [identity EXCEPT
                ![u] = [status |-> "active", generation |-> @.generation + 1]],
           UNCHANGED writes
    PROVE  HubTypes'
<1>1. Current(u) + 1 \in Generations
    BY CurrentType
<1> QED
    BY <1>1 DEF HubInv, HubTypes, Current, Status

LEMMA BecomeKeepsTypes ==
    ASSUME HubInv, NEW S, NEW status \in Status, Become(S, status), UNCHANGED writes
    PROVE  HubTypes'
BY DEF Become, HubInv, HubTypes

LEMMA MigrateKeepsInv ==
    ASSUME HubInv, NEW u \in Riders, Migrate(u)
    PROVE  HubInv'
<1>1. CASE Halt(u, Current(u), "stale") /\ UNCHANGED identity
    BY <1>1, QuietKeepsTables, QuietKeepsTypes DEF Halt, HubInv
<1>2. CASE /\ Current(u) < Last[u]
           /\ IF HasRole(u) THEN Advance(u, Current(u) + 1) ELSE UNCHANGED hub
           /\ identity' = [identity EXCEPT
                ![u] = [status |-> "active", generation |-> @.generation + 1]]
           /\ UNCHANGED writes
    <2>1. HubTypes'
        BY <1>2, NextGenerationTyped
    <2>2. Current(u) + 1 \in Generations
        BY <1>2, CurrentType
    <2>3. Tables(rooms', memberships', generations')
        BY <1>2, <2>2, AdvanceKeepsTables, QuietKeepsTables
    <2> QED BY <2>1, <2>3 DEF HubInv
<1> QED
    BY <1>1, <1>2 DEF Migrate

LEMMA RegistryKeepsInv ==
    ASSUME HubInv, Registry
    PROVE  HubInv'
<1>s. {"out", "active", "ownerless", "draining", "released"} = Status
    BY DEF Status
<1>1. ASSUME NEW u \in Riders, Login(u) PROVE HubInv'
    <2>1. HubTypes'
        BY <1>1, NextGenerationTyped DEF Login
    <2>2. UNCHANGED hub
        BY <1>1 DEF Login
    <2> QED BY <2>1, <2>2, QuietKeepsTables DEF HubInv
<1>2. ASSUME NEW u \in Riders, Close(u) PROVE HubInv'
    <2>1. HubTypes'
        BY <1>s, <1>2, BecomeKeepsTypes DEF Close
    <2>2. UNCHANGED hub
        BY <1>2 DEF Close
    <2> QED BY <2>1, <2>2, QuietKeepsTables DEF HubInv
<1>3. ASSUME NEW S, CollectDrained(S) PROVE HubInv'
    <2>1. HubTypes'
        BY <1>s, <1>3, BecomeKeepsTypes DEF CollectDrained
    <2>2. UNCHANGED hub
        BY <1>3 DEF CollectDrained
    <2> QED BY <2>1, <2>2, QuietKeepsTables DEF HubInv
<1>4. ASSUME NEW S, NEW busy, ExpireMigrations(S, busy) PROVE HubInv'
    <2>1. HubTypes'
        BY <1>s, <1>4 DEF ExpireMigrations, HubInv, HubTypes
    <2>2. UNCHANGED hub
        BY <1>4 DEF ExpireMigrations
    <2> QED BY <2>1, <2>2, QuietKeepsTables DEF HubInv
<1> QED
    BY <1>1, <1>2, <1>3, <1>4, MigrateKeepsInv DEF Registry

LEMMA ReleaseKeepsInv ==
    ASSUME HubInv, NEW u \in Riders, Release(u)
    PROVE  HubInv'
<1>1. CASE UNCHANGED <<identity, hub, writes>>
    BY <1>1, QuietKeepsTables, QuietKeepsTypes DEF HubInv
<1>2. CASE Become({u}, "out") /\ Disconnect(u) /\ UNCHANGED writes
    <2>1. HubTypes'
        BY <1>2, BecomeKeepsTypes DEF Status
    <2> QED BY <1>2, <2>1, DisconnectKeepsTables DEF HubInv
<1> QED
    BY <1>1, <1>2 DEF Release, Mismatch, Halt

LEMMA EnterKeepsInv ==
    ASSUME HubInv, NEW u \in Riders, NEW o \in Riders, NEW g \in Generations,
           NEW info \in Policies, NEW port \in Generations,
           Enter(u, o, g, info, port), u = o => g = Current(u)
    PROVE  HubInv'
<1>1. Tables(rooms', memberships', generations')
    BY EnterKeepsTables
<1>2. UNCHANGED <<identity, writes>>
    BY DEF Enter, Mismatch, Halt
<1> QED
    BY <1>1, <1>2, QuietKeepsTypes DEF HubInv

LEMMA RoomOfAnOwner ==
    ASSUME HubInv, NEW o \in Riders, rooms[o] # None
    PROVE  /\ rooms[o].generation \in Generations /\ rooms[o].info \in Policies
           /\ ~Refused(o) => rooms[o].generation = Current(o)
<1>1. rooms[o] \in Room
    BY DEF HubInv, Tables, RoomTable
<1>2. generations[o] = rooms[o].generation
    BY DEF HubInv, Tables, Sound, Agrees
<1>3. generations[o] # Untracked
    BY <1>1, <1>2, Values DEF Room
<1> QED
    BY <1>1, <1>2, <1>3 DEF Room, Refused, Stale

LEMMA EntryKeepsInv ==
    ASSUME HubInv, NEW u \in Riders, Entry(u)
    PROVE  HubInv'
<1>1. ASSUME EnterOwn(u) PROVE HubInv'
    <2>1. PICK info \in Profile(u), port \in Ports(u) : Enter(u, u, Current(u), info, port)
        BY <1>1 DEF EnterOwn
    <2>2. Current(u) \in Generations /\ info \in Policies /\ port \in Generations
        BY CurrentType
    <2> QED BY <2>1, <2>2, EnterKeepsInv
<1>2. CASE Reenter(u)
    <2>1. CASE memberships[u] = None \/ Refused(u)
        BY <1>1, <1>2, <2>1 DEF Reenter
    <2>2. CASE memberships[u] # None /\ ~Refused(u)
        <3> DEFINE o == memberships[u].owner
        <3>1. Enter(u, o, rooms[o].generation, rooms[o].info, 0)
            BY <1>2, <2>2 DEF Reenter
        <3>2. o \in Riders /\ rooms[o] # None
            BY <2>2, SeatFacts, Values
        <3> HIDE DEF o
        <3>3. /\ rooms[o].generation \in Generations /\ rooms[o].info \in Policies
              /\ u = o => rooms[o].generation = Current(u)
            BY <2>2, <3>2, RoomOfAnOwner
        <3>4. 0 \in Generations
            BY Zero
        <3> QED BY <3>1, <3>2, <3>3, <3>4, EnterKeepsInv
    <2> QED BY <2>1, <2>2
<1>3. CASE EnterRandom(u)
    <2>1. CASE \E o \in Riders : Halt(o, Current(o), "stale") /\ UNCHANGED identity
        BY <2>1, QuietKeepsTables, QuietKeepsTypes DEF Halt, HubInv
    <2>2. CASE \E o \in Riders, port \in Ports(u) :
                   o # u /\ rooms[o] # None /\ Enter(u, o, Current(o), rooms[o].info, port)
        <3>1. PICK o \in Riders, port \in Ports(u) :
                   o # u /\ rooms[o] # None /\ Enter(u, o, Current(o), rooms[o].info, port)
            BY <2>2
        <3>2. Current(o) \in Generations /\ rooms[o].info \in Policies /\ port \in Generations
            BY <3>1, CurrentType, RoomOfAnOwner
        <3> QED BY <3>1, <3>2, EnterKeepsInv
    <2> QED BY <1>3, <2>1, <2>2 DEF EnterRandom, Present
<1>4. ASSUME NEW o \in Riders, EnterDirect(u, o) PROVE HubInv'
    <2> DEFINE g == IF Active(o) THEN Current(o) ELSE Offline
    <2>1. PICK info \in Profile(o), port \in Ports(u) : Enter(u, o, g, info, port)
        BY <1>4 DEF EnterDirect
    <2>2. g \in Generations /\ info \in Policies /\ port \in Generations
        BY CurrentType
    <2>3. u # o
        BY <1>4 DEF EnterDirect
    <2> HIDE DEF g
    <2> QED BY <2>1, <2>2, <2>3, EnterKeepsInv
<1> QED
    BY <1>1, <1>2, <1>3, <1>4 DEF Entry

LEMMA ExitKeepsInv ==
    ASSUME HubInv, NEW u \in Riders, ExitRoom(u)
    PROVE  HubInv'
<1>1. UNCHANGED <<identity, writes>>
    BY DEF ExitRoom, Mismatch, Halt
<1>2. Tables(rooms', memberships', generations')
    BY LeaveKeepsTables, QuietKeepsTables DEF ExitRoom, Mismatch, Halt
<1> QED
    BY <1>1, <1>2, QuietKeepsTypes DEF HubInv

LEMMA CommandKeepsInv ==
    ASSUME HubInv, NEW u \in Riders, Command(u)
    PROVE  HubInv'
<1>1. CASE Query(u) \/ PeerCommand(u)
    BY <1>1, QuietKeepsTables, QuietKeepsTypes DEF Query, PeerCommand, Mismatch, Halt, HubInv
<1>2. CASE Secede(u) \/ EnterClientStage(u)
    BY <1>2, ExitKeepsInv DEF Secede, EnterClientStage
<1>3. CASE RefreshPresentation(u)
    <2>1. HubTypes'
        BY <1>3, QuietKeepsTypes DEF RefreshPresentation, Halt
    <2>2. Current(u) \in Generations
        BY CurrentType
    <2>3. Tables(rooms', memberships', generations')
        BY <1>3, <2>2, AdvanceKeepsTables, QuietKeepsTables DEF RefreshPresentation, Halt
    <2> QED BY <2>1, <2>3 DEF HubInv
<1>4. CASE ReportPort(u)
    <2>1. HubTypes'
        BY <1>4, QuietKeepsTypes DEF ReportPort, Halt
    <2>2. Current(u) \in Generations
        BY CurrentType
    <2>3. Tables(rooms', memberships', generations')
        BY <1>4, <2>2, ShowPortKeepsTables, QuietKeepsTables DEF ReportPort, Halt
    <2> QED BY <2>1, <2>3 DEF HubInv
<1>5. CASE RegisterInfo(u)
    <2>1. PICK info \in Policies :
              writes' = [writes EXCEPT ![u] = [generation |-> Current(u), info |-> info]]
        BY <1>5 DEF RegisterInfo
    <2>2. [generation |-> Current(u), info |-> info] \in Write
        BY CurrentType DEF Write
    <2>3. UNCHANGED <<identity, hub>>
        BY <1>5 DEF RegisterInfo
    <2>4. HubTypes'
        BY <2>1, <2>2, <2>3 DEF HubInv, HubTypes
    <2> QED BY <2>3, <2>4, QuietKeepsTables DEF HubInv
<1>6. CASE CompleteInfo(u)
    <2>1. UNCHANGED identity
        BY <1>6 DEF CompleteInfo
    <2>2. writes' = writes \/ writes' = [writes EXCEPT ![u] = None]
        BY <1>6 DEF CompleteInfo, Halt
    <2>3. HubTypes'
        BY <2>1, <2>2 DEF HubInv, HubTypes
    <2> QED BY <1>6, <2>3, CompleteInfoKeepsTables DEF HubInv
<1> QED
    BY <1>1, <1>2, <1>3, <1>4, <1>5, <1>6 DEF Command

LEMMA ReadKeepsInv ==
    ASSUME HubInv, NEW u \in Riders, Read(u)
    PROVE  HubInv'
<1>1. UNCHANGED <<identity, writes, hub>>
    BY DEF Read, CheckPassword, PrepareRead, PublishRead
<1> QED
    BY <1>1, QuietKeepsTables, QuietKeepsTypes DEF HubInv

LEMMA InitEstablishesInv == Init => HubInv
<1> SUFFICES ASSUME Init PROVE HubInv
    OBVIOUS
<1>1. HubTypes
    <2>1. \A u \in Riders : Offline \in Generations
        BY Zero DEF Offline
    <2> QED BY <2>1 DEF Init, HubTypes, Status
<1>2. rooms \in RoomTable /\ memberships \in SeatTable /\ generations \in KnownTable
    BY DEF Init, RoomTable, SeatTable, KnownTable
<1>3. Seated(rooms, memberships)
    BY Values DEF Init, Seated, SitsAt, Membership
<1>4. Sound(rooms, generations) /\ Connected(rooms, memberships, generations)
    BY DEF Init, Sound, Connected
<1>5. Bounded(generations)
    <2>1. {u \in Riders : generations[u] # Untracked} = {}
        BY DEF Init
    <2>2. Cardinality({}) = 0 /\ Capacity \in Nat
        BY FS_EmptySet, HubConstants
    <2> QED BY <2>1, <2>2 DEF Bounded
<1> QED
    BY <1>1, <1>2, <1>3, <1>4, <1>5 DEF HubInv, Tables

LEMMA NextKeepsInv == HubInv /\ [Next]_vars => HubInv'
<1> SUFFICES ASSUME HubInv, [Next]_vars PROVE HubInv'
    OBVIOUS
<1>1. CASE UNCHANGED vars
    <2>1. UNCHANGED <<identity, writes, hub>>
        BY <1>1 DEF vars
    <2> QED BY <2>1, QuietKeepsTables, QuietKeepsTypes DEF HubInv
<1>2. CASE Next
    <2>1. Registry \/ \E u \in Riders : Release(u) \/ Entry(u) \/ Command(u) \/ Read(u)
        BY <1>2 DEF Next
    <2> QED
        BY <2>1, RegistryKeepsInv, ReleaseKeepsInv, EntryKeepsInv, CommandKeepsInv, ReadKeepsInv
<1> QED
    BY <1>1, <1>2

LEMMA InvIsSound == HubInv => HubIsSound
<1> SUFFICES ASSUME HubInv PROVE HubIsSound
    OBVIOUS
<1>1. \A u, o \in Riders, s \in Places :
          memberships[u] = [owner |-> o, slot |-> s] <=> Sits(u, o, s)
    BY DEF HubInv, Tables, Seated, Sits, SitsAt
<1>2. \A o \in Riders : rooms[o] # None => RoomIsSound(o)
    BY DEF HubInv, Tables, Sound, Alive, Agrees, RoomIsSound
<1>3. \A u \in Riders : generations[u] # Untracked => HasRole(u)
    BY DEF HubInv, Tables, Connected, HasRole
<1>4. Cardinality({u \in Riders : generations[u] # Untracked}) <= Capacity
    BY DEF HubInv, Tables, Bounded
<1> QED
    BY <1>1, <1>2, <1>3, <1>4 DEF HubIsSound

\* For every set of riders, every number of seats and every capacity: the hub's
\* three tables stay what audit_invariants asks of them, whatever the order of
\* entries, exits, migrations, releases and disconnects.
THEOREM HubStaysSound == Spec => []HubIsSound
<1>1. Init => HubInv
    BY InitEstablishesInv
<1>2. HubInv /\ [Next]_vars => HubInv'
    BY NextKeepsInv
<1>3. HubInv => HubIsSound
    BY InvIsSound
<1> QED
    BY <1>1, <1>2, <1>3, PTL DEF Spec

--------------------------------------------------------------------------------
(* Who is told of a transition.                                             *)

LEMMA AudienceMembers ==
    ASSUME NEW R \in RoomTable, NEW M, Seated(R, M), NEW o \in Riders,
           NEW m \in Audience(o, R[o])
    PROVE  /\ R[o] # None /\ m.user \in Riders /\ m.generation \in Generations
           /\ \E s \in Places : M[m.user] = [owner |-> o, slot |-> s]
           /\ \A G : Sound(R, G) => m.generation = G[m.user]
<1>1. R[o] # None /\ R[o] \in Room
    BY DEF Audience, RoomTable
<1>2. CASE R[o].present /\ m = [user |-> o, generation |-> R[o].generation]
    <2>1. m.user = o /\ m.generation = R[o].generation
        BY <1>2
    <2>2. SitsAt(R, o, o, OwnerSlot) /\ OwnerSlot \in Places
        BY <1>1, <1>2, Values DEF SitsAt
    <2>3. M[o] = [owner |-> o, slot |-> OwnerSlot]
        BY <2>2 DEF Seated
    <2>4. R[o].generation \in Generations
        BY <1>1 DEF Room
    <2> QED BY <1>1, <2>1, <2>2, <2>3, <2>4 DEF Sound, Agrees
<1>3. ASSUME NEW s \in Seats, R[o].visitors[s] # None,
             m = [user |-> R[o].visitors[s].user, generation |-> R[o].visitors[s].generation]
      PROVE  /\ m.user \in Riders /\ m.generation \in Generations
             /\ \E t \in Places : M[m.user] = [owner |-> o, slot |-> t]
             /\ \A G : Sound(R, G) => m.generation = G[m.user]
    <2>1. m.user = R[o].visitors[s].user /\ m.generation = R[o].visitors[s].generation
        BY <1>3
    <2>2. R[o].visitors[s] \in Guest
        BY <1>1, <1>3 DEF Room
    <2>3. m.user \in Riders /\ m.generation \in Generations
        BY <2>1, <2>2 DEF Guest
    <2>4. s \in Places /\ s # OwnerSlot
        BY Values
    <2>5. SitsAt(R, m.user, o, s)
        BY <1>1, <1>3, <2>1, <2>4 DEF SitsAt
    <2>6. M[m.user] = [owner |-> o, slot |-> s]
        BY <2>3, <2>4, <2>5 DEF Seated
    <2> QED BY <1>1, <1>3, <2>1, <2>3, <2>4, <2>6 DEF Sound, Agrees
<1>4. \/ R[o].present /\ m = [user |-> o, generation |-> R[o].generation]
      \/ \E s \in Seats : /\ R[o].visitors[s] # None
                          /\ m = [user |-> R[o].visitors[s].user,
                                  generation |-> R[o].visitors[s].generation]
    BY <1>1 DEF Audience
<1> QED
    BY <1>1, <1>2, <1>3, <1>4

\* Those who see u go are the others in the room, as the hub knows them.
LEMMA LeftMembers ==
    ASSUME HubInv, NEW u \in Riders, NEW o \in Riders, NEW m \in Audience(o, RoomsLeftBy(u)[o])
    PROVE  /\ m.user \in Riders /\ m.generation \in Generations /\ m.user # u
           /\ memberships[m.user] # None /\ memberships[m.user].owner = o
           /\ m.generation = generations[m.user]
<1> DEFINE left == RoomsLeftBy(u)
           unseated == [memberships EXCEPT ![u] = None]
<1>t. /\ rooms \in RoomTable /\ memberships \in SeatTable /\ generations \in KnownTable
      /\ Sound(rooms, generations)
    BY DEF HubInv, Tables
<1>1. left \in RoomTable /\ Shrunk(left, rooms) /\ Seated(left, unseated)
    BY Leaving
<1>2. unseated[u] = None /\ \A x \in Riders : x # u => unseated[x] = memberships[x]
    BY <1>t DEF SeatTable
<1> HIDE DEF left, unseated
<1>3. Sound(left, generations)
    BY <1>1, <1>t, ShrunkIsSound
<1>4. m \in Audience(o, left[o])
    BY DEF left
<1>5. /\ m.user \in Riders /\ m.generation \in Generations
      /\ m.generation = generations[m.user]
      /\ \E s \in Places : unseated[m.user] = [owner |-> o, slot |-> s]
    BY <1>1, <1>3, <1>4, AudienceMembers
<1>6. PICK s \in Places : unseated[m.user] = [owner |-> o, slot |-> s]
    BY <1>5
<1>7. [owner |-> o, slot |-> s] # None /\ [owner |-> o, slot |-> s].owner = o
    BY Values DEF Membership
<1>8. m.user # u
    BY <1>2, <1>6, <1>7
<1> QED
    BY <1>2, <1>5, <1>6, <1>7, <1>8

LEMMA BehindMembers ==
    ASSUME HubInv, NEW u \in Riders, NEW m \in LeftBehind(u)
    PROVE  /\ m.user \in Riders /\ m.generation \in Generations
           /\ memberships[u] # None /\ memberships[m.user] # None
           /\ memberships[m.user].owner = memberships[u].owner
           /\ m.generation = generations[m.user]
<1>1. memberships[u] # None /\ m \in Audience(memberships[u].owner,
                                             RoomsLeftBy(u)[memberships[u].owner])
    BY DEF LeftBehind
<1>2. memberships[u].owner \in Riders
    BY <1>1, SeatFacts
<1> QED
    BY <1>1, <1>2, LeftMembers

LEMMA RoomMembers ==
    ASSUME HubInv, NEW o \in Riders, NEW m \in Audience(o, rooms[o])
    PROVE  /\ m.user \in Riders /\ m.generation \in Generations
           /\ memberships[m.user] # None /\ m.generation = generations[m.user]
<1>t. rooms \in RoomTable /\ Seated(rooms, memberships) /\ Sound(rooms, generations)
    BY DEF HubInv, Tables
<1>1. /\ m.user \in Riders /\ m.generation \in Generations
      /\ m.generation = generations[m.user]
      /\ \E s \in Places : memberships[m.user] = [owner |-> o, slot |-> s]
    BY <1>t, AudienceMembers
<1>2. \A s \in Places : [owner |-> o, slot |-> s] # None
    BY Values DEF Membership
<1> QED
    BY <1>1, <1>2

\* A rider who comes in is told too.
LEMMA JoinedMembers ==
    ASSUME NEW u \in Riders, NEW o \in Riders, NEW room \in Room, NEW slot \in Places,
           NEW port \in Generations, Current(u) \in Generations,
           NEW m \in Audience(o, With(room, slot, u, port))
    PROVE  \/ m \in Audience(o, room)
           \/ m.user = u /\ m.generation = Current(u)
           \/ slot = OwnerSlot /\ m.user = o /\ m.generation = room.generation
<1> DEFINE joined == With(room, slot, u, port)
<1>1. /\ joined \in Room /\ joined.generation = room.generation
      /\ joined.present = (slot = OwnerSlot \/ room.present)
      /\ \A s \in Seats : joined.visitors[s]
               = IF s = slot THEN [user |-> u, generation |-> Current(u), port |-> port]
                 ELSE room.visitors[s]
    BY WithFacts
<1> HIDE DEF joined
<1>2. room # None /\ joined # None
    BY <1>1, Values
<1>3. m \in Audience(o, joined)
    BY DEF joined
<1>4. \/ joined.present /\ m = [user |-> o, generation |-> joined.generation]
      \/ \E s \in Seats : /\ joined.visitors[s] # None
                          /\ m = [user |-> joined.visitors[s].user,
                                  generation |-> joined.visitors[s].generation]
    BY <1>2, <1>3 DEF Audience
<1>5. CASE joined.present /\ m = [user |-> o, generation |-> joined.generation]
    <2>1. m.user = o /\ m.generation = room.generation
        BY <1>1, <1>5
    <2>2. CASE slot # OwnerSlot
        BY <1>1, <1>2, <1>5, <2>2 DEF Audience
    <2> QED BY <2>1, <2>2
<1>6. ASSUME NEW s \in Seats, joined.visitors[s] # None,
             m = [user |-> joined.visitors[s].user,
                  generation |-> joined.visitors[s].generation]
      PROVE  m \in Audience(o, room) \/ (m.user = u /\ m.generation = Current(u))
    <2>1. CASE s = slot
        <3>1. joined.visitors[s] = [user |-> u, generation |-> Current(u), port |-> port]
            BY <1>1, <2>1
        <3> QED BY <1>6, <3>1
    <2>2. CASE s # slot
        <3>1. joined.visitors[s] = room.visitors[s]
            BY <1>1, <2>2
        <3> QED BY <1>2, <1>6, <3>1 DEF Audience
    <2> QED BY <2>1, <2>2
<1> QED
    BY <1>4, <1>5, <1>6

\* So Enter tells the rider himself, and others as the hub knows them.
LEMMA InformedMembers ==
    ASSUME HubInv, NEW u \in Riders, NEW o \in Riders, NEW g \in Generations,
           NEW info \in Policies, NEW port \in Generations, NEW room,
           room = IF RoomsLeftBy(u)[o] = None THEN NewRoom(o, g, info) ELSE RoomsLeftBy(u)[o],
           ~Stale(o, g), u = o => g = Current(u), u = o \/ Vacant(room) # {},
           NEW m \in Audience(o, With(room, SlotFor(room, o, u), u, port)) \cup LeftBehind(u)
    PROVE  /\ m.user \in Riders /\ m.generation \in Generations
           /\ \/ m.user = u /\ m.generation = Current(u)
              \/ memberships[m.user] # None /\ m.generation = generations[m.user]
<1> DEFINE left == RoomsLeftBy(u)
           slot == SlotFor(room, o, u)
<1>t. rooms \in RoomTable /\ generations \in KnownTable /\ Sound(rooms, generations)
    BY DEF HubInv, Tables
<1>c. Current(u) \in Generations
    BY CurrentType
<1>1. left \in RoomTable /\ Sound(left, generations)
    BY <1>t, Leaving, ShrunkIsSound
<1> HIDE DEF left
<1>2. CASE m \in LeftBehind(u)
    BY <1>2, BehindMembers
<1>3. CASE m \in Audience(o, With(room, slot, u, port))
    <2>1. room = IF left[o] = None THEN NewRoom(o, g, info) ELSE left[o]
        BY DEF left
    <2>2. left[o] = None =>
            room = [generation |-> g, port |-> 0, present |-> FALSE, info |-> info,
                    revision |-> NextRevision(o), visitors |-> [s \in Seats |-> None]]
        BY <2>1 DEF NewRoom
    <2>3. left[o] # None => room = left[o] /\ room \in Room
        BY <1>1, <2>1 DEF RoomTable
    <2>4. NextRevision(o) \in Nat /\ 0 \in Generations
        BY NextRevisionIsFresh, Zero
    <2>5. room \in Room
        <3>1. CASE left[o] = None
            <4>1. [generation |-> g, port |-> 0, present |-> FALSE, info |-> info,
                   revision |-> NextRevision(o), visitors |-> [s \in Seats |-> None]] \in Room
                BY <2>4 DEF Room
            <4> QED BY <2>2, <3>1, <4>1
        <3> QED BY <2>3, <3>1
    <2>6. ASSUME left[o] = None PROVE Audience(o, room) = {} /\ room.generation = g
        <3>1. ~room.present /\ room.generation = g /\ \A s \in Seats : room.visitors[s] = None
            BY <2>2, <2>6
        <3> QED BY <3>1 DEF Audience
    <2>7. slot \in Places /\ (slot = OwnerSlot => u = o)
        <3>1. CASE u = o
            BY <3>1, Values DEF SlotFor
        <3>2. CASE u # o
            <4>1. Vacant(room) # {} /\ IsFiniteSet(Seats) /\ Seats \in SUBSET Nat
                BY <3>2, HubConstants
            <4>2. Vacant(room) \in SUBSET Seats /\ Vacant(room) \in SUBSET Nat
                BY <4>1 DEF Vacant
            <4>3. Min(Vacant(room)) \in Vacant(room)
                BY <4>1, <4>2, FS_Subset, MinExists
            <4>4. slot = Min(Vacant(room))
                BY <3>2 DEF SlotFor
            <4> HIDE DEF slot
            <4> QED BY <4>2, <4>3, <4>4, Values
        <3> QED BY <3>1, <3>2
    <2> HIDE DEF slot
    <2>8. \/ m \in Audience(o, room)
          \/ m.user = u /\ m.generation = Current(u)
          \/ slot = OwnerSlot /\ m.user = o /\ m.generation = room.generation
        BY <1>3, <1>c, <2>5, <2>7, JoinedMembers
    <2>9. CASE m \in Audience(o, room)
        <3>1. m \in Audience(o, RoomsLeftBy(u)[o])
            BY <2>3, <2>6, <2>9 DEF left
        <3> QED BY <3>1, LeftMembers
    <2>10. CASE slot = OwnerSlot /\ m.user = o /\ m.generation = room.generation
        <3>1. u = o /\ g = Current(u)
            BY <2>7, <2>10
        <3>2. ASSUME left[o] # None PROVE room.generation = g
            <4>1. room.generation = generations[o] /\ room.generation \in Generations
                BY <1>1, <2>3, <3>2 DEF Sound, Agrees, Room
            <4> QED BY <4>1, Values DEF Stale
        <3> QED BY <1>c, <2>6, <2>10, <3>1, <3>2
    <2> QED BY <1>c, <2>8, <2>9, <2>10
<1> QED
    BY <1>2, <1>3 DEF slot

--------------------------------------------------------------------------------
(* The hub and the registry.                                                *)

Members ==
    \A u \in Riders : memberships[u] # None =>
        identity[u].status # "out" /\ generations[u] = Current(u)

Currents == [u \in Riders |-> Current(u)]

\* An owner without a session is known as offline, or still by his generation
\* while a migration permit keeps it.
KnownAsRegistered ==
    \A u \in Riders :
        /\ generations[u] \in {Untracked, Offline, Current(u)}
        /\ identity[u].status = "out" => generations[u] \in {Untracked, Offline}

\* While a rider's write is under way, he stays where he was accepted for it.
WritersStayIn ==
    \A u \in Riders : writes[u] # None =>
        /\ writes[u].generation =< Current(u)
        /\ writes[u].generation = Current(u) /\ identity[u].status # "out" =>
              memberships[u] = [owner |-> u, slot |-> OwnerSlot]

RegistryBounded == Cardinality(Retained) =< Capacity

Follows ==
    /\ Members /\ PortsOf(rooms, Currents) /\ KnownAsRegistered
    /\ WritersStayIn /\ RegistryBounded

FollowInv ==
    /\ HubInv
    /\ halted = None => Follows
    /\ StopsHaveACause

Goes == HubInv /\ Follows /\ halted = None
Ends == halted' # None /\ StopsHaveACause'

LEMMA RunningIsFine ==
    ASSUME HubInv', Follows', halted' = None
    PROVE  FollowInv'
BY DEF FollowInv, StopsHaveACause

LEMMA StoppedIsFine ==
    ASSUME HubInv', Ends
    PROVE  FollowInv'
BY DEF FollowInv, Ends

\* A generation that the registry or the hub itself gave is refused only where
\* the other of the two has the offline one.
LEMMA StaleMeansOffline ==
    ASSUME Goes, NEW x \in Riders, NEW g \in Generations, Halt(x, g, "stale"),
           Stale(x, g), g \in {Offline, Current(x), generations[x]}
    PROVE  Ends
<1>1. halted' = [user |-> x, presented |-> g, why |-> "stale"] /\ generations' = generations
    BY DEF Halt, hub
<1>2. halted' \in Stop
    BY <1>1 DEF Stop
<1>3. halted' # None
    BY <1>2, HubConstants
<1>4. halted'.user = x /\ halted'.presented = g /\ halted'.why = "stale"
    BY <1>1
<1>5. Offline \in {g, generations[x]}
    BY DEF Goes, Follows, KnownAsRegistered, Stale
<1> QED
    BY <1>1, <1>3, <1>4, <1>5 DEF Ends, StopsHaveACause

\* Whom a publication cannot reach, although he is registered as the hub knows
\* him, drains.
LEMMA MismatchEnds ==
    ASSUME Goes, NEW m, m.user \in Riders, m.generation = Current(m.user),
           identity[m.user].status # "out", ~Addressable(m), UNCHANGED identity,
           Halt(m.user, m.generation, "mismatch")
    PROVE  Ends
<1> DEFINE x == m.user
           g == m.generation
<1>1. x \in Riders /\ g = Current(x) /\ identity[x].status # "out"
      /\ identity[x].status \notin {"active", "ownerless", "released"}
    BY DEF Addressable
<1>2. halted' = [user |-> x, presented |-> g, why |-> "mismatch"]
    BY DEF Halt
<1> HIDE DEF x, g
<1>3. g \in Generations /\ identity[x].status \in Status
    BY <1>1, CurrentType DEF Goes, HubInv, HubTypes
<1>4. identity[x].status = "draining"
    BY <1>1, <1>3 DEF Status
<1>5. halted' \in Stop
    BY <1>1, <1>2, <1>3 DEF Stop
<1>6. halted' # None
    BY <1>5, HubConstants
<1>7. halted'.user = x /\ halted'.presented = g /\ halted'.why = "mismatch"
    BY <1>2
<1>8. identity'[halted'.user].status = "draining"
      /\ halted'.presented = (Current(halted.user))'
    BY <1>1, <1>4, <1>7 DEF Current
<1> QED
    BY <1>6, <1>7, <1>8 DEF Ends, StopsHaveACause

\* Whoever has a seat is registered as the hub knows him.
LEMMA SeatedMismatchEnds ==
    ASSUME Goes, NEW S, Mismatch(S), UNCHANGED identity,
           \A m \in S : /\ m.user \in Riders
                        /\ \/ Active(m.user) /\ m.generation = Current(m.user)
                           \/ /\ memberships[m.user] # None
                              /\ m.generation = generations[m.user]
    PROVE  Ends
<1>1. PICK m \in S : ~Addressable(m) /\ Halt(m.user, m.generation, "mismatch")
    BY DEF Mismatch
<1>2. m.user \in Riders /\ m.generation = Current(m.user) /\ identity[m.user].status # "out"
    BY DEF Goes, Follows, Members, Active
<1> QED
    BY <1>1, <1>2, MismatchEnds

LEMMA RetainedIsFinite ==
    /\ IsFiniteSet(Retained) /\ Cardinality(Retained) \in Nat /\ Capacity \in Nat
    /\ \A T \in SUBSET Retained :
          IsFiniteSet(T) /\ Cardinality(T) \in Nat /\ Cardinality(T) =< Cardinality(Retained)
<1>1. IsFiniteSet(Riders) /\ Retained \in SUBSET Riders
    BY HubConstants DEF Retained
<1>2. IsFiniteSet(Retained)
    BY <1>1, FS_Subset
<1> QED
    BY <1>2, FS_Subset, FS_CardinalityType, HubConstants

\* No room shows a port for a rider who is in none.
LEMMA NoSeatNoPort ==
    ASSUME HubInv, NEW u \in Riders, memberships[u] = None,
           NEW N, NEW N1, PortsOf(rooms, N), \A x \in Riders : x # u => N1[x] = N[x]
    PROVE  PortsOf(rooms, N1)
<1> SUFFICES ASSUME NEW o \in Riders, rooms[o] # None
             PROVE  /\ rooms[o].port \in {0, N1[o]}
                    /\ \A s \in Seats : rooms[o].visitors[s] # None =>
                          rooms[o].visitors[s].port \in {0, N1[rooms[o].visitors[s].user]}
    BY DEF PortsOf
<1>t. /\ Seated(rooms, memberships) /\ Alive(rooms[o], o) /\ rooms[o] \in Room
      /\ rooms[o].port \in {0, N[o]}
      /\ \A s \in Seats : rooms[o].visitors[s] # None =>
            rooms[o].visitors[s].port \in {0, N[rooms[o].visitors[s].user]}
    BY DEF HubInv, Tables, Sound, RoomTable, PortsOf
<1>1. ASSUME NEW s \in Places PROVE ~SitsAt(rooms, u, o, s)
    <2>1. [owner |-> o, slot |-> s] # None
        BY Values DEF Membership
    <2> QED BY <1>t, <2>1 DEF Seated
<1>2. rooms[o].port \in {0, N1[o]}
    <2>1. CASE o # u
        BY <2>1, <1>t
    <2>2. CASE o = u
        <3>1. ~rooms[o].present
            BY <1>1, <2>2, Values DEF SitsAt
        <3> QED BY <3>1, <1>t DEF Alive
    <2> QED BY <2>1, <2>2
<1>3. ASSUME NEW s \in Seats, rooms[o].visitors[s] # None
      PROVE  rooms[o].visitors[s].port \in {0, N1[rooms[o].visitors[s].user]}
    <2>1. rooms[o].visitors[s].user \in Riders
        BY <1>t, <1>3 DEF Room, Guest
    <2>2. rooms[o].visitors[s].user # u
        BY <1>1, <1>3, Values DEF SitsAt
    <2> QED BY <1>t, <1>3, <2>1, <2>2
<1> QED
    BY <1>2, <1>3

\* What concerns the registry alone, where no step of it is taken.
LEMMA SameRegistry ==
    ASSUME Goes, UNCHANGED identity
    PROVE  /\ RegistryBounded' /\ Currents' = Currents
           /\ \A u \in Riders : (Current(u))' = Current(u)
BY DEF Goes, Follows, RegistryBounded, Retained, Currents, Current

LEMMA SameHub ==
    ASSUME Goes, UNCHANGED <<identity, hub, writes>>
    PROVE  Follows'
<1>1. RegistryBounded' /\ Currents' = Currents
    BY SameRegistry
<1> QED
    BY <1>1 DEF Goes, Follows, Members, KnownAsRegistered, WritersStayIn, Current, hub

--------------------------------------------------------------------------------

LEMMA EnterFollows ==
    ASSUME Goes, NEW u \in Riders, Idle(u), NEW o \in Riders, NEW g \in Generations,
           NEW info \in Policies, NEW port \in Ports(u), Enter(u, o, g, info, port),
           u = o => g = Current(u), Released = {},
           g = Offline \/ (Active(o) /\ g = Current(o)) \/ g = generations[o]
    PROVE  FollowInv'
<1>t. /\ HubInv /\ Members /\ PortsOf(rooms, Currents) /\ KnownAsRegistered /\ WritersStayIn
      /\ RegistryBounded /\ halted = None
      /\ Tables(rooms, memberships, generations)
      /\ identity[u].status = "active" /\ Current(u) \in Generations
    BY CurrentType DEF Goes, Follows, HubInv, Idle, Active
<1>p. port \in Generations /\ port \in {0, Currents[u]}
    BY <1>t, CurrentType DEF Ports, Currents
<1>h. HubInv'
    BY <1>t, <1>p, EnterKeepsInv
<1>1. CASE Stale(o, g) /\ Halt(o, g, "stale")
    <2>1. g \in {Offline, Current(o), generations[o]}
        OBVIOUS
    <2> QED BY <1>1, <1>h, <2>1, StaleMeansOffline, StoppedIsFine
<1>2. CASE Refused(u) /\ Halt(u, Current(u), "stale")
    BY <1>2, <1>h, <1>t, StaleMeansOffline, StoppedIsFine DEF Refused
<1>3. CASE halted' = None
    <2>1. UNCHANGED <<identity, writes>>
        BY DEF Enter, Mismatch, Halt
    <2>2. /\ RegistryBounded' /\ Currents' = Currents
          /\ \A x \in Riders : (Current(x))' = Current(x)
        BY <2>1, SameRegistry
    <2>3. /\ Tables(rooms', memberships', generations')
          /\ UNCHANGED hub \/ memberships'[u] # None
          /\ \A x \in Riders : x # u => memberships'[x] = memberships[x]
          /\ \A x \in Riders : generations[x] # Untracked =>
                generations'[x] \in {Untracked, generations[x]}
          /\ \A x \in Riders :
                \/ generations'[x] \in {Untracked, generations[x]}
                \/ x = o /\ generations'[x] = g
                \/ x = u /\ generations'[x] = Current(u)
          /\ \A N : PortsOf(rooms, N) /\ port \in {0, N[u]} => PortsOf(rooms', N)
        BY <1>t, <1>p, EnterKeepsTables
    <2>4. PortsOf(rooms', Currents')
        BY <1>t, <1>p, <2>2, <2>3
    <2>5. KnownAsRegistered'
        <3> SUFFICES ASSUME NEW x \in Riders
                     PROVE  /\ generations'[x] \in {Untracked, Offline, Current(x)}
                            /\ identity[x].status = "out" =>
                                  generations'[x] \in {Untracked, Offline}
            BY <2>1, <2>2 DEF KnownAsRegistered
        <3>1. CASE generations'[x] \in {Untracked, generations[x]}
            BY <3>1, <1>t DEF KnownAsRegistered
        <3>2. CASE x = o /\ generations'[x] = g
            BY <3>2, <1>t DEF KnownAsRegistered, Active
        <3>3. CASE x = u /\ generations'[x] = Current(u)
            BY <3>3, <1>t
        <3> QED BY <3>1, <3>2, <3>3, <2>3
    <2>6. Members'
        <3>1. CASE UNCHANGED hub
            BY <3>1, <1>t, <2>1, <2>2 DEF Members, hub
        <3>2. CASE ~UNCHANGED hub
            <4>1. ~Refused(u)
                BY <1>1, <1>2, <1>3, <3>2 DEF Enter, Mismatch, Halt
            <4> SUFFICES ASSUME NEW x \in Riders, memberships'[x] # None
                         PROVE  identity[x].status # "out" /\ generations'[x] = Current(x)
                BY <2>1, <2>2 DEF Members
            <4>2. generations'[x] # Untracked
                BY <2>3, RolesAreKnown
            <4>3. CASE x # u
                <5>1. memberships[x] # None
                    BY <2>3, <4>3
                <5>2. generations[x] # Untracked
                    BY <1>t, <5>1, RolesAreKnown
                <5> QED BY <1>t, <2>3, <4>2, <5>1, <5>2 DEF Members
            <4>4. CASE x = u
                <5>1. generations[u] \in {Untracked, Current(u)}
                    BY <4>1 DEF Refused, Stale
                <5> QED BY <1>t, <2>3, <4>2, <4>4, <5>1
            <4> QED BY <4>3, <4>4
        <3> QED BY <3>1, <3>2
    <2>7. WritersStayIn'
        <3> SUFFICES ASSUME NEW x \in Riders, writes[x] # None
                     PROVE  /\ writes[x].generation =< Current(x)
                            /\ writes[x].generation = Current(x)
                                 /\ identity[x].status # "out" =>
                                  memberships'[x] = [owner |-> x, slot |-> OwnerSlot]
            BY <2>1, <2>2 DEF WritersStayIn
        <3>1. x = u => writes[x].generation # Current(x)
            BY DEF Idle
        <3> QED BY <3>1, <1>t, <2>3 DEF WritersStayIn
    <2>8. Follows'
        BY <2>2, <2>4, <2>5, <2>6, <2>7 DEF Follows
    <2> QED BY <1>3, <1>h, <2>8, RunningIsFine
<1>4. CASE Halt(o, g, "capacity")
    <2> DEFINE left == RoomsLeftBy(u)
               room == IF left[o] = None THEN NewRoom(o, g, info) ELSE left[o]
               slot == SlotFor(room, o, u)
               opened == [left EXCEPT ![o] = With(room, slot, u, port)]
               seated == [memberships EXCEPT ![u] = [owner |-> o, slot |-> slot]]
               named == [[generations EXCEPT ![o] = g] EXCEPT ![u] = Current(u)]
               S == IF memberships[u] = None THEN {} ELSE {memberships[u].owner}
               known == Pruned(named, opened, seated, S)
               ids == {x \in Riders : known[x] # Untracked}
    <2>1. CASE Stale(o, g) \/ Refused(u) \/ halted' = None
        BY <2>1, <1>1, <1>2, <1>3 DEF Enter
    <2>w. halted'.why = "capacity"
        BY <1>4 DEF Halt
    <2>2. CASE ~Stale(o, g) /\ ~Refused(u) /\ halted' # None
        <3>1. Cardinality(ids) > Capacity
            <4>1. \/ Cardinality(ids) > Capacity
                  \/ halted' = halted
                  \/ \E S1 : Mismatch(S1)
                  \/ Stale(o, g) \/ Refused(u)
                BY DEF Enter
            <4>2. (\E S1 : Mismatch(S1)) => halted'.why = "mismatch"
                BY DEF Mismatch, Halt
            <4> HIDE DEF ids
            <4> QED BY <4>1, <4>2, <2>w, <2>2, <1>t
        <3>2. \A x \in Riders : known[x] \in {Untracked, named[x]}
            <4> HIDE DEF named, opened, seated, S
            <4> QED BY DEF Pruned
        <3>3. /\ named[u] = Current(u) /\ (o # u => named[o] = g)
              /\ \A x \in Riders : x # o /\ x # u => named[x] = generations[x]
            BY <1>t DEF Tables, KnownTable
        <3> HIDE DEF known, named
        <3>4. ASSUME g # Offline, \A x \in Riders : generations[x] # Offline PROVE FALSE
            <4>1. ASSUME NEW x \in ids PROVE x \in Retained
                <5>1. x \in Riders /\ known[x] = named[x] /\ named[x] # Untracked
                    BY <3>2
                <5>2. CASE x = u
                    BY <1>t, <5>2 DEF Retained
                <5>r. identity[x].status # "out" => x \in Retained
                    <6>1. identity[x].status \in Status /\ identity[x].status # "released"
                        BY <1>t, <5>1 DEF HubInv, HubTypes, Released
                    <6> QED BY <5>1, <6>1 DEF Status, Retained
                <5>3. CASE x # u /\ x # o
                    BY <1>t, <3>3, <3>4, <5>1, <5>r, <5>3 DEF KnownAsRegistered
                <5>4. CASE x # u /\ x = o
                    BY <1>t, <3>3, <3>4, <5>1, <5>r, <5>4 DEF KnownAsRegistered, Active
                <5> QED BY <5>2, <5>3, <5>4
            <4>2. ids \in SUBSET Retained
                BY <4>1
            <4> HIDE DEF ids
            <4>3. /\ Cardinality(ids) \in Nat /\ Cardinality(Retained) \in Nat
                  /\ Capacity \in Nat /\ Cardinality(ids) =< Cardinality(Retained)
                BY <4>2, RetainedIsFinite
            <4>4. Cardinality(Retained) =< Capacity
                BY <1>t DEF RegistryBounded
            <4> QED BY <3>1, <4>3, <4>4
        <3>5. /\ halted' = [user |-> o, presented |-> g, why |-> "capacity"]
              /\ generations' = generations
            BY <1>4 DEF Halt, hub
        <3>6. halted'.why = "capacity" /\ halted'.presented = g
            BY <3>5
        <3>7. Ends
            BY <2>2, <3>4, <3>5, <3>6 DEF Ends, StopsHaveACause
        <3> QED BY <1>h, <3>7, StoppedIsFine
    <2> QED BY <2>1, <2>2
<1>5. CASE Mismatch(Audience(o, rooms[o]))
    <2>1. UNCHANGED identity
        BY DEF Enter
    <2>2. Ends
        BY <1>5, <1>t, <2>1, RoomMembers, SeatedMismatchEnds
    <2> QED BY <1>h, <2>2, StoppedIsFine
<1>6. ASSUME NEW room,
             room = IF RoomsLeftBy(u)[o] = None THEN NewRoom(o, g, info) ELSE RoomsLeftBy(u)[o],
             ~Stale(o, g), u = o \/ Vacant(room) # {},
             Mismatch(Audience(o, With(room, SlotFor(room, o, u), u, port)) \cup LeftBehind(u))
      PROVE  FollowInv'
    <2> DEFINE informed == Audience(o, With(room, SlotFor(room, o, u), u, port))
                             \cup LeftBehind(u)
    <2>1. UNCHANGED identity /\ Active(u)
        BY <1>t DEF Enter, Active
    <2>2. \A m \in informed :
             /\ m.user \in Riders
             /\ \/ Active(m.user) /\ m.generation = Current(m.user)
                \/ memberships[m.user] # None /\ m.generation = generations[m.user]
        BY <1>t, <1>p, <1>6, <2>1, InformedMembers
    <2>3. Mismatch(informed)
        BY <1>6
    <2> HIDE DEF informed
    <2>4. Ends
        BY <2>1, <2>2, <2>3, SeatedMismatchEnds
    <2> QED BY <1>h, <2>4, StoppedIsFine
<1>7. \/ Stale(o, g) /\ Halt(o, g, "stale")
      \/ Refused(u) /\ Halt(u, Current(u), "stale")
      \/ Halt(o, g, "capacity")
      \/ UNCHANGED halted
      \/ Mismatch(Audience(o, rooms[o]))
      \/ LET room == IF RoomsLeftBy(u)[o] = None THEN NewRoom(o, g, info) ELSE RoomsLeftBy(u)[o]
         IN /\ ~Stale(o, g) /\ (u = o \/ Vacant(room) # {})
            /\ Mismatch(Audience(o, With(room, SlotFor(room, o, u), u, port)) \cup LeftBehind(u))
    BY DEF Enter
<1> QED
    BY <1>1, <1>2, <1>3, <1>4, <1>5, <1>6, <1>7, <1>t

LEMMA EntryFollows ==
    ASSUME Goes, NEW u \in Riders, Entry(u), Released = {}
    PROVE  FollowInv'
<1>t. HubInv
    BY DEF Goes
<1>1. ASSUME EnterOwn(u) PROVE FollowInv'
    <2>1. PICK info \in Profile(u), port \in Ports(u) : Enter(u, u, Current(u), info, port)
        BY <1>1 DEF EnterOwn
    <2>2. Current(u) \in Generations /\ info \in Policies /\ Idle(u) /\ Active(u)
        BY <1>t, <1>1, CurrentType DEF EnterOwn, Idle
    <2> QED BY <2>1, <2>2, EnterFollows
<1>2. CASE Reenter(u)
    <2>1. CASE memberships[u] = None \/ Refused(u)
        BY <1>1, <1>2, <2>1 DEF Reenter
    <2>2. CASE memberships[u] # None /\ ~Refused(u)
        <3> DEFINE o == memberships[u].owner
        <3>1. Enter(u, o, rooms[o].generation, rooms[o].info, 0) /\ Idle(u)
            BY <1>2, <2>2 DEF Reenter
        <3>2. o \in Riders /\ rooms[o] # None
            BY <1>t, <2>2, SeatFacts, Values
        <3> HIDE DEF o
        <3>3. /\ rooms[o].generation \in Generations /\ rooms[o].info \in Policies
              /\ u = o => rooms[o].generation = Current(u)
            BY <1>t, <2>2, <3>2, RoomOfAnOwner
        <3>4. rooms[o].generation = generations[o]
            BY <1>t, <3>2 DEF HubInv, Tables, Sound, Agrees
        <3>5. 0 \in Ports(u)
            BY DEF Ports
        <3> QED BY <3>1, <3>2, <3>3, <3>4, <3>5, EnterFollows
    <2> QED BY <2>1, <2>2
<1>3. CASE EnterRandom(u)
    <2>1. CASE \E o \in Riders : Refused(o) /\ Halt(o, Current(o), "stale") /\ UNCHANGED identity
        <3>1. PICK o \in Riders : Refused(o) /\ Halt(o, Current(o), "stale") /\ UNCHANGED identity
            BY <2>1
        <3>2. Current(o) \in Generations /\ HubInv'
            BY <1>t, <1>3, CurrentType, EntryKeepsInv DEF Entry
        <3> QED BY <3>1, <3>2, StaleMeansOffline, StoppedIsFine DEF Refused
    <2>2. CASE \E o \in Riders, port \in Ports(u) :
                   /\ o # u /\ Active(o) /\ rooms[o] # None
                   /\ Enter(u, o, Current(o), rooms[o].info, port)
        <3>1. PICK o \in Riders, port \in Ports(u) :
                   /\ o # u /\ Active(o) /\ rooms[o] # None
                   /\ Enter(u, o, Current(o), rooms[o].info, port)
            BY <2>2
        <3>2. Current(o) \in Generations /\ rooms[o].info \in Policies /\ Idle(u)
            BY <1>t, <1>3, <3>1, CurrentType, RoomOfAnOwner DEF EnterRandom
        <3> QED BY <3>1, <3>2, EnterFollows
    <2> QED BY <1>3, <2>1, <2>2 DEF EnterRandom, Present
<1>4. ASSUME NEW o \in Riders, EnterDirect(u, o) PROVE FollowInv'
    <2> DEFINE g == IF Active(o) THEN Current(o) ELSE Offline
    <2>1. PICK info \in Profile(o), port \in Ports(u) : Enter(u, o, g, info, port)
        BY <1>4 DEF EnterDirect
    <2>2. /\ g \in Generations /\ info \in Policies /\ Idle(u) /\ u # o
          /\ g = Offline \/ (Active(o) /\ g = Current(o))
        BY <1>t, <1>4, CurrentType DEF EnterDirect
    <2> HIDE DEF g
    <2> QED BY <2>1, <2>2, EnterFollows
<1> QED
    BY <1>1, <1>2, <1>3, <1>4 DEF Entry

LEMMA LoginFollows ==
    ASSUME Goes, NEW u \in Riders, Login(u)
    PROVE  FollowInv'
<1>t. /\ HubInv /\ Members /\ PortsOf(rooms, Currents) /\ KnownAsRegistered /\ WritersStayIn
      /\ RegistryBounded /\ halted = None
      /\ Current(u) \in Nat /\ identity \in [Riders -> [status : Status, generation : Generations]]
    BY CurrentType, Values DEF Goes, Follows, HubInv, HubTypes
<1>1. /\ identity[u].status = "out" /\ UNCHANGED <<rooms, memberships, generations, writes, halted>>
      /\ identity' = [identity EXCEPT ![u] =
                         [status |-> "active", generation |-> Current(u) + 1]]
      /\ Cardinality(Retained) < Capacity
    BY DEF Login, hub, Current
<1>2. /\ identity'[u].status = "active" /\ (Current(u))' = Current(u) + 1
      /\ \A x \in Riders : x # u => identity'[x] = identity[x] /\ (Current(x))' = Current(x)
    BY <1>1, <1>t DEF Current
<1>3. memberships[u] = None
    BY <1>1, <1>t DEF Members
<1>4. Members'
    BY <1>1, <1>2, <1>3, <1>t DEF Members
<1>5. PortsOf(rooms', Currents')
    <2>1. \A x \in Riders : x # u => Currents'[x] = Currents[x]
        BY <1>2 DEF Currents
    <2> QED BY <1>1, <1>3, <1>t, <2>1, NoSeatNoPort
<1>6. KnownAsRegistered'
    BY <1>1, <1>2, <1>t DEF KnownAsRegistered
<1>7. WritersStayIn'
    <2> SUFFICES ASSUME NEW x \in Riders, writes[x] # None
                 PROVE  /\ writes[x].generation =< (Current(x))'
                        /\ writes[x].generation = (Current(x))' /\ identity'[x].status # "out" =>
                              memberships[x] = [owner |-> x, slot |-> OwnerSlot]
        BY <1>1 DEF WritersStayIn
    <2>1. writes[x].generation \in Nat
        BY <1>t, Values DEF HubInv, HubTypes, Write
    <2>2. writes[x].generation =< Current(x)
        BY <1>t DEF WritersStayIn
    <2>3. CASE x = u
        BY <1>2, <1>t, <2>1, <2>2, <2>3
    <2>4. CASE x # u
        BY <1>2, <1>t, <2>4 DEF WritersStayIn
    <2> QED BY <2>3, <2>4
<1>8. RegistryBounded'
    <2>1. Retained' = Retained \cup {u}
        BY <1>2 DEF Retained
    <2>2. Cardinality(Retained') =< Cardinality(Retained) + 1
        BY <2>1, RetainedIsFinite, FS_AddElement
    <2>3. Cardinality(Retained') \in Nat
        BY <2>1, RetainedIsFinite, FS_AddElement, FS_CardinalityType
    <2> QED BY <1>1, <2>2, <2>3, RetainedIsFinite DEF RegistryBounded
<1>9. HubInv' /\ halted' = None
    BY <1>1, <1>t, RegistryKeepsInv DEF Registry
<1> QED
    BY <1>4, <1>5, <1>6, <1>7, <1>8, <1>9, RunningIsFine DEF Follows

\* A rider who loses his session, his permit or his last lease is not out yet.
LEMMA KeepingFollows ==
    ASSUME Goes, HubInv', UNCHANGED <<hub, writes, halted>>, Retained' \in SUBSET Retained,
           \A x \in Riders : /\ identity'[x].generation = identity[x].generation
                             /\ identity'[x].status = "out" <=> identity[x].status = "out"
    PROVE  FollowInv'
<1>t. /\ Members /\ PortsOf(rooms, Currents) /\ KnownAsRegistered /\ WritersStayIn
      /\ RegistryBounded /\ halted = None
      /\ UNCHANGED <<rooms, memberships, generations>>
    BY DEF Goes, Follows, hub
<1>1. (\A x \in Riders : (Current(x))' = Current(x)) /\ Currents' = Currents
    BY DEF Current, Currents
<1>2. Members' /\ KnownAsRegistered' /\ WritersStayIn'
    BY <1>1, <1>t DEF Members, KnownAsRegistered, WritersStayIn
<1>3. RegistryBounded'
    BY <1>t, RetainedIsFinite DEF RegistryBounded
<1>4. Follows'
    BY <1>1, <1>2, <1>3, <1>t DEF Follows
<1> QED
    BY <1>4, <1>t, RunningIsFine

LEMMA CloseFollows ==
    ASSUME Goes, NEW u \in Riders, Close(u)
    PROVE  FollowInv'
<1>1. identity[u].status = "active" /\ UNCHANGED <<hub, writes, halted>>
    BY DEF Close, Active
<1>2. PICK status \in {"ownerless", "draining", "released"} : Become({u}, status)
    BY DEF Close
<1>3. identity \in [Riders -> [status : Status, generation : Generations]]
    BY DEF Goes, HubInv, HubTypes
<1>4. /\ identity'[u].status = status /\ identity'[u].generation = identity[u].generation
      /\ \A x \in Riders : x # u => identity'[x] = identity[x]
    BY <1>2, <1>3 DEF Become
<1>5. Retained' \in SUBSET Retained
    BY <1>1, <1>4 DEF Retained
<1>6. HubInv'
    BY RegistryKeepsInv DEF Registry, Goes
<1> QED
    BY <1>1, <1>4, <1>5, <1>6, KeepingFollows

LEMMA CollectFollows ==
    ASSUME Goes, NEW S \in SUBSET Riders \ {{}}, CollectDrained(S)
    PROVE  FollowInv'
<1>1. /\ \A x \in S : identity[x].status = "draining"
      /\ Become(S, "released") /\ UNCHANGED <<hub, writes, halted>>
    BY DEF CollectDrained
<1>2. identity \in [Riders -> [status : Status, generation : Generations]]
    BY DEF Goes, HubInv, HubTypes
<1>3. \A x \in Riders : /\ identity'[x].generation = identity[x].generation
                        /\ identity'[x].status = IF x \in S THEN "released"
                                                 ELSE identity[x].status
    BY <1>1, <1>2 DEF Become
<1>4. Retained' \in SUBSET Retained
    BY <1>3 DEF Retained
<1>5. HubInv'
    BY RegistryKeepsInv DEF Registry, Goes
<1> QED
    BY <1>1, <1>3, <1>4, <1>5, KeepingFollows

LEMMA ExpireFollows ==
    ASSUME Goes, NEW S \in SUBSET Riders \ {{}}, NEW busy \in SUBSET S,
           ExpireMigrations(S, busy)
    PROVE  FollowInv'
<1>1. /\ \A x \in S : identity[x].status = "ownerless"
      /\ identity' = [x \in Riders |->
            IF x \notin S THEN identity[x]
            ELSE [identity[x] EXCEPT !.status = IF x \in busy THEN "draining" ELSE "released"]]
      /\ UNCHANGED <<hub, writes, halted>>
    BY DEF ExpireMigrations
<1>2. identity \in [Riders -> [status : Status, generation : Generations]]
    BY DEF Goes, HubInv, HubTypes
<1>3. \A x \in Riders : /\ identity'[x].generation = identity[x].generation
                        /\ x \notin S => identity'[x].status = identity[x].status
                        /\ x \in S => identity'[x].status \in {"draining", "released"}
    BY <1>1, <1>2
<1>4. Retained' \in SUBSET Retained
    BY <1>1, <1>3 DEF Retained
<1>5. HubInv'
    BY RegistryKeepsInv DEF Registry, Goes
<1> QED
    BY <1>1, <1>3, <1>4, <1>5, KeepingFollows

LEMMA MigrateFollows ==
    ASSUME Goes, NEW u \in Riders, Migrate(u)
    PROVE  FollowInv'
<1>t. /\ HubInv /\ Members /\ PortsOf(rooms, Currents) /\ KnownAsRegistered /\ WritersStayIn
      /\ RegistryBounded /\ halted = None /\ Tables(rooms, memberships, generations)
      /\ Current(u) \in Nat /\ Current(u) \in Generations
      /\ identity \in [Riders -> [status : Status, generation : Generations]]
    BY CurrentType, Values DEF Goes, Follows, HubInv, HubTypes
<1>h. HubInv'
    BY <1>t, RegistryKeepsInv DEF Registry
<1>1. CASE Refused(u) /\ Halt(u, Current(u), "stale")
    BY <1>1, <1>h, <1>t, StaleMeansOffline, StoppedIsFine DEF Refused
<1>2. CASE /\ Current(u) < Last[u] /\ identity[u].status \in {"active", "ownerless"}
           /\ IF HasRole(u) THEN Advance(u, Current(u) + 1) ELSE UNCHANGED hub
           /\ identity' = [identity EXCEPT
                ![u] = [status |-> "active", generation |-> @.generation + 1]]
           /\ UNCHANGED <<writes, halted>>
    <2>1. /\ identity'[u].status = "active" /\ (Current(u))' = Current(u) + 1
          /\ \A x \in Riders : x # u => identity'[x] = identity[x] /\ (Current(x))' = Current(x)
        BY <1>2, <1>t DEF Current
    <2>2. \A x \in Riders : x # u => Currents'[x] = Currents[x]
        BY <2>1 DEF Currents
    <2>3. UNCHANGED memberships
        BY <1>2 DEF Advance, hub
    <2>4. PortsOf(rooms', Currents')
        <3>1. CASE HasRole(u)
            <4>1. Current(u) + 1 \in Generations
                BY <1>2, <1>t, CurrentType
            <4>2. \A N, N1 : PortsOf(rooms, N) /\ (\A x \in Riders : x # u => N1[x] = N[x])
                                => PortsOf(rooms', N1)
                BY <1>2, <1>t, <3>1, <4>1, AdvanceKeepsTables
            <4> QED BY <1>t, <2>2, <4>2
        <3>2. CASE ~HasRole(u)
            BY <1>2, <1>t, <2>2, <3>2, NoSeatNoPort DEF HasRole, hub
        <3> QED BY <3>1, <3>2
    <2>5. /\ generations'[u] = IF HasRole(u) THEN (Current(u))' ELSE Untracked
          /\ \A x \in Riders : x # u => generations'[x] = generations[x]
        <3>1. CASE HasRole(u)
            BY <1>2, <1>t, <2>1, <3>1 DEF Advance, Tables, KnownTable
        <3>2. CASE ~HasRole(u)
            BY <1>2, <1>t, <3>2 DEF HasRole, hub, Tables, Connected
        <3> QED BY <3>1, <3>2
    <2>6. Members'
        BY <1>t, <2>1, <2>3, <2>5 DEF Members, HasRole
    <2>7. KnownAsRegistered'
        BY <1>t, <2>1, <2>5 DEF KnownAsRegistered
    <2>8. WritersStayIn'
        <3> SUFFICES ASSUME NEW x \in Riders, writes[x] # None
                     PROVE  /\ writes[x].generation =< (Current(x))'
                            /\ writes[x].generation = (Current(x))'
                                 /\ identity'[x].status # "out" =>
                                  memberships[x] = [owner |-> x, slot |-> OwnerSlot]
            BY <1>2, <2>3 DEF WritersStayIn
        <3>1. writes[x].generation \in Nat
            BY <1>t, Values DEF HubInv, HubTypes, Write
        <3>2. writes[x].generation =< Current(x)
            BY <1>t DEF WritersStayIn
        <3>3. CASE x = u
            BY <2>1, <1>t, <3>1, <3>2, <3>3
        <3>4. CASE x # u
            BY <2>1, <1>t, <3>4 DEF WritersStayIn
        <3> QED BY <3>3, <3>4
    <2>9. RegistryBounded'
        <3>1. Retained' = Retained
            BY <1>2, <2>1 DEF Retained
        <3> QED BY <1>t, <3>1 DEF RegistryBounded
    <2>10. Follows'
        BY <2>4, <2>6, <2>7, <2>8, <2>9 DEF Follows
    <2> QED BY <1>2, <1>h, <1>t, <2>10, RunningIsFine
<1> QED
    BY <1>1, <1>2 DEF Migrate

LEMMA ReleaseFollows ==
    ASSUME Goes, NEW u \in Riders, Release(u)
    PROVE  FollowInv'
<1>t. /\ HubInv /\ Members /\ PortsOf(rooms, Currents) /\ KnownAsRegistered /\ WritersStayIn
      /\ RegistryBounded /\ halted = None /\ Tables(rooms, memberships, generations)
      /\ Current(u) \in Generations
      /\ identity \in [Riders -> [status : Status, generation : Generations]]
    BY CurrentType DEF Goes, Follows, HubInv, HubTypes
<1>h. HubInv'
    BY <1>t, ReleaseKeepsInv
<1>1. CASE Refused(u) /\ Halt(u, Current(u), "stale")
    BY <1>1, <1>h, <1>t, StaleMeansOffline, StoppedIsFine DEF Refused
<1>2. CASE Become({u}, "out") /\ Disconnect(u) /\ UNCHANGED <<writes, halted>>
    <2>1. identity' = [identity EXCEPT ![u].status = "out"]
        BY <1>2, <1>t DEF Become
    <2>2. /\ identity'[u].status = "out" /\ (Current(u))' = Current(u)
          /\ \A x \in Riders : x # u => identity'[x] = identity[x] /\ (Current(x))' = Current(x)
        BY <2>1, <1>t DEF Current
    <2>3. Currents' = Currents
        BY <2>2 DEF Currents
    <2>4. /\ Tables(rooms', memberships', generations')
          /\ rooms'[u] = None /\ memberships'[u] = None
          /\ \A x \in Riders : x # u =>
                memberships'[x] = IF Visits(x, u) THEN None ELSE memberships[x]
          /\ \A x \in Riders : generations'[x] \in {Untracked, generations[x]}
          /\ \A N : PortsOf(rooms, N) => PortsOf(rooms', N)
        BY <1>2, <1>t, DisconnectKeepsTables
    <2>5. generations'[u] = Untracked
        BY <2>4 DEF Tables, Connected
    <2>6. Members'
        <3> SUFFICES ASSUME NEW x \in Riders, memberships'[x] # None
                     PROVE  identity'[x].status # "out" /\ generations'[x] = (Current(x))'
            BY DEF Members
        <3>1. x # u /\ memberships[x] # None
            BY <2>4
        <3>2. generations'[x] # Untracked
            BY <2>4, RolesAreKnown
        <3> QED BY <1>t, <2>2, <2>4, <3>1, <3>2 DEF Members
    <2>7. KnownAsRegistered'
        <3> SUFFICES ASSUME NEW x \in Riders
                     PROVE  /\ generations'[x] \in {Untracked, Offline, (Current(x))'}
                            /\ identity'[x].status = "out" =>
                                  generations'[x] \in {Untracked, Offline}
            BY DEF KnownAsRegistered
        <3>1. CASE x = u
            BY <2>5, <3>1
        <3>2. CASE x # u
            BY <1>t, <2>2, <2>4, <3>2 DEF KnownAsRegistered
        <3> QED BY <3>1, <3>2
    <2>8. WritersStayIn'
        <3> SUFFICES ASSUME NEW x \in Riders, writes[x] # None
                     PROVE  /\ writes[x].generation =< (Current(x))'
                            /\ writes[x].generation = (Current(x))'
                                 /\ identity'[x].status # "out" =>
                                  memberships'[x] = [owner |-> x, slot |-> OwnerSlot]
            BY <1>2 DEF WritersStayIn
        <3>1. CASE x = u
            BY <1>t, <2>2, <3>1 DEF WritersStayIn
        <3>2. CASE x # u
            <4>1. memberships[x] = [owner |-> x, slot |-> OwnerSlot] => ~Visits(x, u)
                BY <3>2 DEF Visits
            <4> QED BY <1>t, <2>2, <2>4, <3>2, <4>1 DEF WritersStayIn
        <3> QED BY <3>1, <3>2
    <2>9. RegistryBounded'
        <3>1. Retained' \in SUBSET Retained
            BY <2>2 DEF Retained
        <3> QED BY <1>t, <3>1, RetainedIsFinite DEF RegistryBounded
    <2>10. Follows'
        BY <1>t, <2>3, <2>4, <2>6, <2>7, <2>8, <2>9 DEF Follows
    <2> QED BY <1>2, <1>h, <1>t, <2>10, RunningIsFine
<1> DEFINE informed == LeftBehind(u) \cup Audience(u, RoomsLeftBy(u)[u])
<1>3. \A m \in informed :
          /\ m.user \in Riders /\ m.generation \in Generations
          /\ memberships[m.user] # None /\ m.generation = generations[m.user]
          /\ Meets(m.user, u)
    BY <1>t, BehindMembers, LeftMembers DEF Meets
<1>4. CASE Mismatch(informed) /\ UNCHANGED identity
    <2>1. Ends
        BY <1>3, <1>4, SeatedMismatchEnds
    <2> QED BY <1>h, <2>1, StoppedIsFine
<1>5. CASE /\ \E m \in informed : Active(m.user) /\ Halt(m.user, m.generation, "unavailable")
           /\ UNCHANGED identity /\ identity[u].status = "released"
    <2>1. PICK m \in informed : Active(m.user) /\ Halt(m.user, m.generation, "unavailable")
        BY <1>5
    <2> DEFINE x == m.user
               g == m.generation
    <2>2. x \in Riders /\ g \in Generations /\ Meets(x, u) /\ Active(x)
        BY <1>3, <2>1
    <2>3. halted' = [user |-> x, presented |-> g, why |-> "unavailable"]
          /\ UNCHANGED memberships
        BY <2>1 DEF Halt, hub
    <2> HIDE DEF x, g
    <2>4. halted' \in Stop
        BY <2>2, <2>3 DEF Stop
    <2>5. halted' # None /\ halted'.user = x /\ halted'.why = "unavailable"
        BY <2>3, <2>4, HubConstants
    <2>6. u \in Released' /\ (Active(halted.user))' /\ (Meets(halted.user, u))'
        BY <1>5, <2>2, <2>3, <2>5 DEF Released, Active, Meets
    <2>7. Ends
        BY <2>5, <2>6 DEF Ends, StopsHaveACause
    <2> QED BY <1>h, <2>7, StoppedIsFine
<1> QED
    BY <1>1, <1>2, <1>4, <1>5 DEF Release

LEMMA ExitFollows ==
    ASSUME Goes, NEW u \in Riders, ExitRoom(u)
    PROVE  FollowInv'
<1>t. /\ HubInv /\ Members /\ PortsOf(rooms, Currents) /\ KnownAsRegistered /\ WritersStayIn
      /\ halted = None /\ Tables(rooms, memberships, generations)
    BY DEF Goes, Follows, HubInv
<1>1. HubInv' /\ UNCHANGED <<identity, writes>> /\ Idle(u)
    BY <1>t, ExitKeepsInv DEF ExitRoom, Mismatch, Halt
<1>2. CASE UNCHANGED hub /\ halted' = None
    BY <1>1, <1>2, SameHub, RunningIsFine
<1>3. CASE memberships[u] # None /\ Leave(u) /\ halted' = None
    <2>1. /\ Tables(rooms', memberships', generations')
          /\ memberships'[u] = None
          /\ \A x \in Riders : x # u => memberships'[x] = memberships[x]
          /\ \A x \in Riders : generations'[x] \in {Untracked, generations[x]}
          /\ \A N : PortsOf(rooms, N) => PortsOf(rooms', N)
        BY <1>3, <1>t, LeaveKeepsTables
    <2>2. /\ RegistryBounded' /\ Currents' = Currents
          /\ \A x \in Riders : (Current(x))' = Current(x)
        BY <1>1, SameRegistry
    <2>3. Members'
        <3> SUFFICES ASSUME NEW x \in Riders, memberships'[x] # None
                     PROVE  identity[x].status # "out" /\ generations'[x] = Current(x)
            BY <1>1, <2>2 DEF Members
        <3>1. memberships[x] # None
            BY <2>1
        <3>2. generations'[x] # Untracked
            BY <2>1, RolesAreKnown
        <3> QED BY <1>t, <2>1, <3>1, <3>2 DEF Members
    <2>4. KnownAsRegistered'
        BY <1>1, <1>t, <2>1, <2>2 DEF KnownAsRegistered
    <2>5. WritersStayIn'
        <3> SUFFICES ASSUME NEW x \in Riders, writes[x] # None
                     PROVE  /\ writes[x].generation =< Current(x)
                            /\ writes[x].generation = Current(x)
                                 /\ identity[x].status # "out" =>
                                  memberships'[x] = [owner |-> x, slot |-> OwnerSlot]
            BY <1>1, <2>2 DEF WritersStayIn
        <3>1. x = u => writes[x].generation # Current(x)
            BY <1>1 DEF Idle
        <3> QED BY <3>1, <1>t, <2>1 DEF WritersStayIn
    <2>6. Follows'
        BY <1>t, <2>1, <2>2, <2>3, <2>4, <2>5 DEF Follows
    <2> QED BY <1>1, <1>3, <2>6, RunningIsFine
<1>4. CASE Mismatch(LeftBehind(u))
    <2>1. Ends
        BY <1>1, <1>4, <1>t, BehindMembers, SeatedMismatchEnds
    <2> QED BY <1>1, <2>1, StoppedIsFine
<1> QED
    BY <1>2, <1>3, <1>4, <1>t DEF ExitRoom

LEMMA RefreshFollows ==
    ASSUME Goes, NEW u \in Riders, RefreshPresentation(u)
    PROVE  FollowInv'
<1>t. /\ HubInv /\ Members /\ PortsOf(rooms, Currents) /\ KnownAsRegistered /\ WritersStayIn
      /\ halted = None /\ Tables(rooms, memberships, generations) /\ Current(u) \in Generations
    BY CurrentType DEF Goes, Follows, HubInv
<1>h. HubInv'
    BY <1>t, CommandKeepsInv DEF Command
<1>1. CASE Refused(u) /\ Halt(u, Current(u), "stale")
    BY <1>1, <1>h, <1>t, StaleMeansOffline, StoppedIsFine DEF Refused
<1>2. CASE /\ HasRole(u) /\ Active(u) /\ Advance(u, Current(u))
           /\ UNCHANGED <<identity, writes, halted>>
    <2>1. /\ RegistryBounded' /\ Currents' = Currents
          /\ \A x \in Riders : (Current(x))' = Current(x)
        BY <1>2, SameRegistry
    <2>2. /\ UNCHANGED memberships /\ generations'[u] = Current(u)
          /\ \A x \in Riders : x # u => generations'[x] = generations[x]
        BY <1>2, <1>t DEF Advance, Tables, KnownTable
    <2>3. PortsOf(rooms', Currents')
        <3>1. \A N, N1 : PortsOf(rooms, N) /\ (\A x \in Riders : x # u => N1[x] = N[x])
                            => PortsOf(rooms', N1)
            BY <1>2, <1>t, AdvanceKeepsTables
        <3> QED BY <1>t, <2>1, <3>1
    <2>4. Members' /\ KnownAsRegistered' /\ WritersStayIn'
        BY <1>2, <1>t, <2>1, <2>2 DEF Members, KnownAsRegistered, WritersStayIn, Active
    <2>5. Follows'
        BY <2>1, <2>3, <2>4 DEF Follows
    <2> QED BY <1>2, <1>h, <1>t, <2>5, RunningIsFine
<1> QED
    BY <1>1, <1>2 DEF RefreshPresentation, Idle

LEMMA ReportFollows ==
    ASSUME Goes, NEW u \in Riders, ReportPort(u)
    PROVE  FollowInv'
<1>t. /\ HubInv /\ Members /\ PortsOf(rooms, Currents) /\ KnownAsRegistered /\ WritersStayIn
      /\ halted = None /\ Current(u) \in Generations
    BY CurrentType DEF Goes, Follows
<1>h. HubInv'
    BY <1>t, CommandKeepsInv DEF Command
<1>1. CASE Refused(u) /\ Halt(u, Current(u), "stale")
    BY <1>1, <1>h, <1>t, StaleMeansOffline, StoppedIsFine DEF Refused
<1>2. CASE /\ HasRole(u) /\ ~Refused(u) /\ ShowPort(u, Current(u))
           /\ UNCHANGED <<identity, memberships, generations, writes, halted>>
    <2>1. /\ RegistryBounded' /\ Currents' = Currents
          /\ \A x \in Riders : (Current(x))' = Current(x)
        BY <1>2, SameRegistry
    <2>2. PortsOf(rooms', Currents')
        <3>1. Current(u) \in {0, Currents[u]}
            BY DEF Currents
        <3>2. \A N : PortsOf(rooms, N) /\ Current(u) \in {0, N[u]} => PortsOf(rooms', N)
            BY <1>2, <1>t, ShowPortKeepsTables
        <3> QED BY <1>t, <2>1, <3>1, <3>2
    <2>3. Members' /\ KnownAsRegistered' /\ WritersStayIn'
        BY <1>2, <1>t, <2>1 DEF Members, KnownAsRegistered, WritersStayIn
    <2>4. Follows'
        BY <2>1, <2>2, <2>3 DEF Follows
    <2> QED BY <1>2, <1>h, <1>t, <2>4, RunningIsFine
<1> QED
    BY <1>1, <1>2 DEF ReportPort

LEMMA WriteFollows ==
    ASSUME Goes, NEW u \in Riders, RegisterInfo(u) \/ CompleteInfo(u)
    PROVE  FollowInv'
<1>t. /\ HubInv /\ Members /\ PortsOf(rooms, Currents) /\ KnownAsRegistered /\ WritersStayIn
      /\ halted = None /\ writes \in [Riders -> Write \cup {None}]
      /\ Current(u) \in Nat
    BY CurrentType, Values DEF Goes, Follows, HubInv, HubTypes
<1>h. HubInv' /\ UNCHANGED identity
    BY <1>t, CommandKeepsInv DEF Command, RegisterInfo, CompleteInfo
<1>r. /\ RegistryBounded' /\ Currents' = Currents
      /\ \A x \in Riders : (Current(x))' = Current(x)
    BY <1>h, SameRegistry
<1>1. CASE RegisterInfo(u)
    <2>1. PICK info \in Policies :
              writes' = [writes EXCEPT ![u] = [generation |-> Current(u), info |-> info]]
        BY <1>1 DEF RegisterInfo
    <2>2. /\ writes'[u].generation = Current(u)
          /\ \A x \in Riders : x # u => writes'[x] = writes[x]
        BY <1>t, <2>1
    <2>3. /\ UNCHANGED <<rooms, memberships, generations, halted>>
          /\ memberships[u] = [owner |-> u, slot |-> OwnerSlot]
        BY <1>1 DEF RegisterInfo, hub
    <2>4. WritersStayIn'
        <3> SUFFICES ASSUME NEW x \in Riders, writes'[x] # None
                     PROVE  /\ writes'[x].generation =< Current(x)
                            /\ writes'[x].generation = Current(x)
                                 /\ identity[x].status # "out" =>
                                  memberships[x] = [owner |-> x, slot |-> OwnerSlot]
            BY <1>h, <1>r, <2>3 DEF WritersStayIn
        <3>1. CASE x = u
            BY <1>t, <2>2, <2>3, <3>1
        <3>2. CASE x # u
            BY <1>t, <2>2, <3>2 DEF WritersStayIn
        <3> QED BY <3>1, <3>2
    <2>5. Members' /\ KnownAsRegistered'
        BY <1>h, <1>r, <1>t, <2>3 DEF Members, KnownAsRegistered
    <2>6. Follows' /\ halted' = None
        BY <1>r, <1>t, <2>3, <2>4, <2>5 DEF Follows
    <2> QED BY <1>h, <2>6, RunningIsFine
<1>2. CASE CompleteInfo(u)
    \* A write of the present generation finds its writer in his own room.
    <2>1. ~Halt(u, writes[u].generation,
                IF generations[u] = Untracked THEN "untracked" ELSE "stale")
            \/ generations[u] = writes[u].generation
            \/ Current(u) # writes[u].generation
            \/ identity[u].status \notin {"active", "ownerless"}
        <3> SUFFICES ASSUME Current(u) = writes[u].generation,
                            identity[u].status \in {"active", "ownerless"}
                     PROVE  generations[u] = writes[u].generation
            OBVIOUS
        <3>1. memberships[u] = [owner |-> u, slot |-> OwnerSlot]
            BY <1>2, <1>t DEF CompleteInfo, WritersStayIn
        <3>2. memberships[u] # None
            BY <3>1, Values DEF Membership
        <3> QED BY <1>t, <3>2 DEF Members
    <2>2. /\ writes' = [writes EXCEPT ![u] = None]
          /\ UNCHANGED <<memberships, generations, halted>>
        BY <1>2, <2>1 DEF CompleteInfo, hub
    <2>3. PortsOf(rooms', Currents')
        BY <1>2, <1>r, <1>t, CompleteInfoKeepsTables
    <2>4. writes'[u] = None /\ \A x \in Riders : x # u => writes'[x] = writes[x]
        BY <1>t, <2>2
    <2>5. Members' /\ KnownAsRegistered' /\ WritersStayIn'
        BY <1>h, <1>r, <1>t, <2>2, <2>4 DEF Members, KnownAsRegistered, WritersStayIn
    <2>6. Follows' /\ halted' = None
        BY <1>r, <1>t, <2>2, <2>3, <2>5 DEF Follows
    <2> QED BY <1>h, <2>6, RunningIsFine
<1> QED
    BY <1>1, <1>2

LEMMA CommandFollows ==
    ASSUME Goes, NEW u \in Riders, Command(u)
    PROVE  FollowInv'
<1>1. CASE Query(u)
    <2>1. HubInv' /\ Current(u) \in Generations
        BY <1>1, CommandKeepsInv, CurrentType DEF Goes, Command
    <2> QED BY <1>1, <2>1, StaleMeansOffline, StoppedIsFine DEF Query, Refused
<1>2. CASE PeerCommand(u)
    <2>1. HubInv'
        BY <1>2, CommandKeepsInv DEF Goes, Command
    <2>2. Ends
        BY <1>2, BehindMembers, SeatedMismatchEnds DEF PeerCommand, Goes
    <2> QED BY <2>1, <2>2, StoppedIsFine
<1> QED
    BY <1>1, <1>2, ExitFollows, RefreshFollows, ReportFollows, WriteFollows
       DEF Command, Secede, EnterClientStage

LEMMA ReadFollows ==
    ASSUME Goes, NEW u \in Riders, Read(u)
    PROVE  FollowInv'
<1>1. UNCHANGED <<identity, hub, writes, halted>>
    BY DEF Read, CheckPassword, PrepareRead, PublishRead
<1>2. HubInv' /\ halted' = None
    BY <1>1, ReadKeepsInv DEF Goes
<1> QED
    BY <1>1, <1>2, SameHub, RunningIsFine

LEMMA InitFollows == Init => FollowInv
<1> SUFFICES ASSUME Init PROVE FollowInv
    OBVIOUS
<1>1. HubInv
    BY InitEstablishesInv
<1>2. Members /\ KnownAsRegistered /\ WritersStayIn /\ PortsOf(rooms, Currents)
    BY DEF Init, Members, KnownAsRegistered, WritersStayIn, PortsOf
<1>3. RegistryBounded
    <2>1. Retained = {}
        BY DEF Init, Retained
    <2>2. Cardinality({}) = 0 /\ Capacity \in Nat
        BY FS_EmptySet, HubConstants
    <2> QED BY <2>1, <2>2 DEF RegistryBounded
<1>4. StopsHaveACause
    BY DEF Init, StopsHaveACause
<1> QED
    BY <1>1, <1>2, <1>3, <1>4 DEF FollowInv, Follows

LEMMA NextFollows == FollowInv /\ [Next]_vars => FollowInv'
<1> SUFFICES ASSUME FollowInv, [Next]_vars PROVE FollowInv'
    OBVIOUS
<1>1. CASE UNCHANGED vars
    <2>1. HubInv'
        BY NextKeepsInv DEF FollowInv
    <2>2. /\ UNCHANGED <<identity, rooms, memberships, generations, writes, halted>>
        BY <1>1 DEF vars, hub
    <2>3. StopsHaveACause'
        BY <2>2 DEF FollowInv, StopsHaveACause, Current, Active, Released, Meets
    <2>4. halted' = None => Follows'
        BY <2>2, SameHub DEF FollowInv, Goes, hub
    <2> QED BY <2>1, <2>3, <2>4 DEF FollowInv
<1>2. CASE Next
    <2>1. \/ Registry
          \/ \E u \in Riders : Release(u)
          \/ Released = {} /\ \E u \in Riders : Entry(u) \/ Command(u) \/ Read(u)
        BY <1>2 DEF Next
    <2>2. Goes
        BY <1>2 DEF FollowInv, Goes, Next
    <2>3. CASE Registry
        BY <2>2, <2>3, LoginFollows, CloseFollows, MigrateFollows, CollectFollows, ExpireFollows
           DEF Registry
    <2> QED
        BY <2>1, <2>2, <2>3, ReleaseFollows, EntryFollows, CommandFollows, ReadFollows
<1> QED
    BY <1>1, <1>2

LEMMA FollowingIsCurrent == FollowInv => PresenceIsCurrent
<1> SUFFICES ASSUME HubInv, Follows PROVE PresenceIsCurrent
    BY DEF FollowInv, PresenceIsCurrent
<1>1. Members /\ PortsOf(rooms, Currents)
    BY DEF Follows
<1>2. ASSUME NEW o \in Riders, rooms[o] # None
      PROVE  /\ rooms[o].port \in {0, Current(o)}
             /\ \A s \in Seats : rooms[o].visitors[s] # None =>
                  rooms[o].visitors[s].port \in {0, Current(rooms[o].visitors[s].user)}
    <2>1. rooms[o] \in Room
        BY <1>2 DEF HubInv, Tables, RoomTable
    <2>2. \A s \in Seats : rooms[o].visitors[s] # None => rooms[o].visitors[s].user \in Riders
        BY <2>1 DEF Room, Guest
    <2> QED BY <1>1, <1>2, <2>2 DEF PortsOf, Currents
<1> QED
    BY <1>1, <1>2 DEF Members, PresenceIsCurrent

\* Whatever order logins, migrations and releases take with the moves of any
\* number of riders: a member of a room is one the registry retains, known by his
\* present generation, and no port of an earlier one is shown (refresh_p2p_endpoint,
\* advance_migrated_identity_if_tracked).
THEOREM PresenceStaysCurrent == Spec => []PresenceIsCurrent
<1>1. Init => FollowInv
    BY InitFollows
<1>2. FollowInv /\ [Next]_vars => FollowInv'
    BY NextFollows
<1>3. FollowInv => PresenceIsCurrent
    BY FollowingIsCurrent
<1> QED
    BY <1>1, <1>2, <1>3, PTL DEF Spec

\* For every number of riders, seats and identities: whatever order commands,
\* migrations and releases take, a MyRoomLifecycleError ends the actor's loop over
\* an owner who is bound as offline, over a room-mate who drains, or over the queue
\* of somebody who shares a room with a rider being released; never over an
\* accepted write of a room's policy, a permit or a migration.
THEOREM TheWorldStopsForACause == Spec => []StopsHaveACause
<1>1. Init => FollowInv
    BY InitFollows
<1>2. FollowInv /\ [Next]_vars => FollowInv'
    BY NextFollows
<1>3. FollowInv => StopsHaveACause
    BY DEF FollowInv
<1> QED
    BY <1>1, <1>2, <1>3, PTL DEF Spec

--------------------------------------------------------------------------------
(* Protected reads.                                                         *)

\* x, a grant or a plan of rider u, is for the room he is in as it is now.
Fits(u, x) ==
    /\ memberships[u] # None /\ memberships[u].owner = x.owner
    /\ rooms[x.owner] # None /\ rooms[x.owner].revision = x.revision

\* A grant that is still good was given for the password that is set now.
GrantsProven ==
    \A u \in Riders : grants[u] # None /\ Fits(u, grants[u]) => proven[u] = grants[u].resource

\* So is a read under way, and the grant it came with is gone.
PlansGranted ==
    \A u \in Riders : plans[u] # None /\ ~plans[u].visible =>
        /\ grants[u] = None
        /\ Fits(u, plans[u]) => proven[u] = plans[u].resource

ReadTypes ==
    /\ grants \in [Riders -> Grant \cup {None}]
    /\ plans \in [Riders -> Plan \cup {None}]
    /\ proven \in [Riders -> Resources \cup {None}]

ReadInv == HubInv /\ ReadTypes /\ GrantsProven /\ PlansGranted

\* What a transition leaves of the reads: room o has the policy it had, or one
\* nobody has asked about; rider x has lost his reads, or has what he had.
FreshAt(o) == rooms'[o].revision \notin HeldRevisions(o)
RevisionKept(o) ==
    rooms'[o] # None => \/ FreshAt(o)
                        \/ rooms[o] # None /\ rooms'[o].revision = rooms[o].revision
Cleared(x) == grants'[x] = None /\ plans'[x] = None
SeatKept(x) ==
    memberships'[x] # None =>
        memberships[x] # None /\ memberships'[x].owner = memberships[x].owner
ProofKept(x) ==
    \/ proven'[x] = proven[x]
    \/ memberships'[x] = None
    \/ FreshAt(memberships'[x].owner)
Kept(x) ==
    /\ grants'[x] = grants[x] \/ grants'[x] = None
    /\ plans'[x] = plans[x] \/ plans'[x] = None
    /\ SeatKept(x) /\ ProofKept(x)
Turn ==
    /\ ReadTypes'
    /\ \A o \in Riders : RevisionKept(o)
    /\ \A x \in Riders : Cleared(x) \/ Kept(x)

LEMMA TurnKeepsReads ==
    ASSUME ReadInv, HubInv', Turn
    PROVE  ReadInv'
<1>t. /\ \A o \in Riders : RevisionKept(o)
      /\ \A x \in Riders : Cleared(x) \/ Kept(x)
    BY DEF Turn
<1>1. ASSUME NEW x \in Riders, Kept(x), NEW y, y.revision \in HeldRevisions(y.owner), Fits(x, y)'
      PROVE  Fits(x, y) /\ proven'[x] = proven[x]
    <2> DEFINE o == memberships[x].owner
    <2>1. /\ memberships'[x] # None /\ memberships'[x].owner = y.owner
          /\ rooms'[y.owner] # None /\ rooms'[y.owner].revision = y.revision
        BY <1>1 DEF Fits
    <2>2. memberships[x] # None /\ o = y.owner
        BY <1>1, <2>1 DEF Kept, SeatKept
    <2>3. y.owner \in Riders
        BY <2>2, SeatFacts DEF ReadInv
    <2>4. ~FreshAt(y.owner)
        BY <1>1, <2>1 DEF FreshAt
    <2>5. rooms[y.owner] # None /\ rooms[y.owner].revision = y.revision
        BY <2>1, <2>3, <2>4, <1>t DEF RevisionKept
    <2>6. proven'[x] = proven[x]
        BY <1>1, <2>1, <2>4 DEF Kept, ProofKept
    <2> QED BY <2>2, <2>5, <2>6 DEF Fits
<1>2. ASSUME NEW x \in Riders, grants'[x] # None, Fits(x, grants[x])'
      PROVE  proven'[x] = grants'[x].resource
    <2>1. Kept(x) /\ grants'[x] = grants[x] /\ grants[x] # None
        BY <1>2, <1>t DEF Cleared, Kept
    <2>2. PICK y : y = grants[x]
        OBVIOUS
    <2>3. y.revision \in HeldRevisions(y.owner)
        BY <2>1, <2>2 DEF HeldRevisions
    <2>4. Fits(x, y)'
        BY <1>2, <2>1, <2>2 DEF Fits
    <2>5. Fits(x, y) /\ proven'[x] = proven[x]
        BY <1>1, <2>1, <2>3, <2>4
    <2> QED BY <2>1, <2>2, <2>5 DEF ReadInv, GrantsProven
<1>3. ASSUME NEW x \in Riders, plans'[x] # None, ~plans'[x].visible
      PROVE  /\ grants'[x] = None
             /\ Fits(x, plans[x])' => proven'[x] = plans'[x].resource
    <2>1. Kept(x) /\ plans'[x] = plans[x] /\ plans[x] # None
        BY <1>3, <1>t DEF Cleared, Kept
    <2>2. PICK y : y = plans[x]
        OBVIOUS
    <2>3. y.revision \in HeldRevisions(y.owner)
        BY <2>1, <2>2 DEF HeldRevisions
    <2>4. grants'[x] = None
        BY <1>3, <2>1 DEF ReadInv, PlansGranted, Kept
    <2>5. ASSUME Fits(x, plans[x])' PROVE proven'[x] = plans'[x].resource
        <3>1. Fits(x, y)'
            BY <2>1, <2>2, <2>5 DEF Fits
        <3>2. Fits(x, y) /\ proven'[x] = proven[x]
            BY <1>1, <2>1, <2>3, <3>1
        <3> QED BY <1>3, <2>1, <2>2, <3>2 DEF ReadInv, PlansGranted
    <2> QED BY <2>4, <2>5
<1> QED
    BY <1>2, <1>3 DEF GrantsProven, PlansGranted, ReadInv, Turn

LEMMA LeftRevision ==
    ASSUME HubInv, NEW u \in Riders, NEW o \in Riders, RoomsLeftBy(u)[o] # None
    PROVE  rooms[o] # None /\ RoomsLeftBy(u)[o].revision = rooms[o].revision
<1>1. CASE memberships[u] = None
    BY <1>1 DEF RoomsLeftBy
<1>2. CASE memberships[u] # None
    <2> DEFINE p == memberships[u].owner
               slot == memberships[u].slot
               left == Without(rooms[p], slot)
    <2>1. p \in Riders /\ rooms[p] \in Room /\ rooms[p] # None
        BY <1>2, SeatFacts, Values
    <2>2. left.revision = rooms[p].revision
        BY <2>1 DEF Without, Room
    <2>3. RoomsLeftBy(u) = [rooms EXCEPT ![p] = IF Empty(left) THEN None ELSE left]
        BY <1>2 DEF RoomsLeftBy
    <2>4. rooms \in RoomTable
        BY DEF HubInv, Tables
    <2> HIDE DEF p, slot, left
    <2>5. /\ RoomsLeftBy(u)[p] = IF Empty(left) THEN None ELSE left
          /\ o # p => RoomsLeftBy(u)[o] = rooms[o]
        BY <2>1, <2>3, <2>4 DEF RoomTable
    <2>6. CASE o = p
        BY <2>1, <2>2, <2>5, <2>6
    <2>7. CASE o # p
        BY <2>5, <2>7
    <2> QED BY <2>6, <2>7
<1> QED
    BY <1>1, <1>2

\* Revoke clears the reads of a rider who has none under way.
LEMMA RevokeClears ==
    ASSUME ReadInv, NEW u \in Riders, Revoke(u), plans' = plans, plans[u] = None
    PROVE  /\ ReadTypes' /\ Cleared(u)
           /\ \A x \in Riders : x # u => /\ grants'[x] = grants[x] /\ plans'[x] = plans[x]
                                         /\ proven'[x] = proven[x]
BY DEF ReadInv, ReadTypes, Revoke, Cleared

LEMMA SameReads ==
    ASSUME ReadInv, UNCHANGED <<grants, plans, proven>>
    PROVE  /\ ReadTypes'
           /\ \A x \in Riders : /\ grants'[x] = grants[x] /\ plans'[x] = plans[x]
                                /\ proven'[x] = proven[x]
BY DEF ReadInv, ReadTypes

LEMMA SameHubKeepsReads ==
    ASSUME UNCHANGED hub
    PROVE  /\ \A o \in Riders : RevisionKept(o)
           /\ \A x \in Riders : SeatKept(x)
BY DEF hub, RevisionKept, SeatKept

LEMMA HaltTurns ==
    ASSUME ReadInv, NEW u, NEW g, NEW why, Halt(u, g, why)
    PROVE  Turn
<1>1. UNCHANGED hub /\ UNCHANGED <<grants, plans, proven>>
    BY DEF Halt, reads
<1> QED
    BY <1>1, SameReads, SameHubKeepsReads DEF Turn, Kept, ProofKept

LEMMA MismatchTurns ==
    ASSUME ReadInv, NEW S, Mismatch(S)
    PROVE  Turn
BY HaltTurns DEF Mismatch

LEMMA EnterTurns ==
    ASSUME ReadInv, NEW u \in Riders, NEW o \in Riders, NEW g \in Generations,
           NEW info \in Policies, NEW port \in Generations,
           Enter(u, o, g, info, port), plans[u] = None
    PROVE  Turn
<1> DEFINE left == RoomsLeftBy(u)
           room == IF left[o] = None THEN NewRoom(o, g, info) ELSE left[o]
           slot == SlotFor(room, o, u)
           opened == [left EXCEPT ![o] = With(room, slot, u, port)]
<1>1. CASE \E x, h, why : Halt(x, h, why)
    BY <1>1, HaltTurns
<1>2. CASE UNCHANGED hub /\ Revoke(u) /\ UNCHANGED plans
    BY <1>2, RevokeClears, SameHubKeepsReads DEF Turn, Kept, ProofKept
<1>3. CASE /\ rooms' = opened
           /\ memberships' = [memberships EXCEPT ![u] = [owner |-> o, slot |-> slot]]
           /\ Revoke(u) /\ UNCHANGED plans
    <2>1. left \in RoomTable
        BY Leaving DEF ReadInv
    <2>2. room \in Room /\ (left[o] = None => room.revision = NextRevision(o))
        <3>1. CASE left[o] = None
            <4>1. room = [generation |-> g, port |-> 0, present |-> FALSE, info |-> info,
                          revision |-> NextRevision(o), visitors |-> [s \in Seats |-> None]]
                BY <3>1 DEF NewRoom
            <4> HIDE DEF room, left
            <4>2. NextRevision(o) \in Nat /\ 0 \in Generations
                BY NextRevisionIsFresh, Zero
            <4> QED BY <4>1, <4>2 DEF Room
        <3>2. CASE left[o] # None
            BY <2>1, <3>2 DEF RoomTable
        <3> QED BY <3>1, <3>2
    <2>3. With(room, slot, u, port).revision = room.revision
        <3> HIDE DEF room, slot
        <3> QED BY <2>2 DEF With, Room
    <2>4. ASSUME NEW p \in Riders PROVE RevisionKept(p)
        <3>1. CASE p = o
            <4>1. rooms'[o].revision = room.revision
                <5> HIDE DEF room, slot, left
                <5> QED BY <1>3, <2>1, <2>3 DEF RoomTable
            <4>2. CASE left[o] = None
                BY <2>2, <3>1, <4>1, <4>2, NextRevisionIsFresh DEF RevisionKept, FreshAt
            <4>3. CASE left[o] # None
                <5>1. rooms[o] # None /\ left[o].revision = rooms[o].revision
                    BY <4>3, LeftRevision DEF ReadInv
                <5>2. room = left[o]
                    BY <4>3
                <5> HIDE DEF room, left
                <5> QED BY <3>1, <4>1, <5>1, <5>2 DEF RevisionKept
            <4> QED BY <4>2, <4>3
        <3>2. CASE p # o
            <4>1. rooms'[p] = left[p]
                <5> HIDE DEF room, slot, left
                <5> QED BY <1>3, <2>1, <3>2 DEF RoomTable
            <4>2. left[p] # None => rooms[p] # None /\ left[p].revision = rooms[p].revision
                BY LeftRevision DEF ReadInv
            <4> HIDE DEF left
            <4> QED BY <4>1, <4>2 DEF RevisionKept
        <3> QED BY <3>1, <3>2
    <2> HIDE DEF left, room, slot, opened
    <2>5. ASSUME NEW x \in Riders, x # u PROVE SeatKept(x)
        BY <1>3, <2>5 DEF SeatKept, ReadInv, HubInv, Tables, SeatTable
    <2>6. ReadTypes' /\ Cleared(u)
            /\ \A x \in Riders : x # u => /\ grants'[x] = grants[x] /\ plans'[x] = plans[x]
                                         /\ proven'[x] = proven[x]
        BY <1>3, RevokeClears
    <2> QED BY <2>4, <2>5, <2>6 DEF Turn, Kept, ProofKept
<1> QED
    BY <1>1, <1>2, <1>3 DEF Enter, Mismatch

LEMMA EntryTurns ==
    ASSUME ReadInv, NEW u \in Riders, Entry(u)
    PROVE  Turn
<1>i. HubInv
    BY DEF ReadInv
<1>1. ASSUME EnterOwn(u) PROVE Turn
    <2>1. PICK info \in Profile(u), port \in Ports(u) : Enter(u, u, Current(u), info, port)
        BY <1>1 DEF EnterOwn
    <2>2. Current(u) \in Generations /\ info \in Policies /\ port \in Generations
        BY <1>i, CurrentType
    <2>3. plans[u] = None
        BY <1>1 DEF EnterOwn, Idle
    <2> QED BY <2>1, <2>2, <2>3, EnterTurns
<1>2. CASE Reenter(u)
    <2>1. CASE memberships[u] = None \/ Refused(u)
        BY <1>1, <1>2, <2>1 DEF Reenter
    <2>2. CASE memberships[u] # None /\ ~Refused(u)
        <3> DEFINE o == memberships[u].owner
        <3>1. Enter(u, o, rooms[o].generation, rooms[o].info, 0) /\ plans[u] = None
            BY <1>2, <2>2 DEF Reenter, Idle
        <3>2. o \in Riders /\ rooms[o] # None
            BY <1>i, <2>2, SeatFacts, Values
        <3> HIDE DEF o
        <3>3. rooms[o].generation \in Generations /\ rooms[o].info \in Policies
            BY <1>i, <3>2, RoomOfAnOwner
        <3>4. 0 \in Generations
            BY Zero
        <3> QED BY <3>1, <3>2, <3>3, <3>4, EnterTurns
    <2> QED BY <2>1, <2>2
<1>3. CASE EnterRandom(u)
    <2>1. CASE \E o \in Riders : Halt(o, Current(o), "stale")
        BY <2>1, HaltTurns
    <2>2. CASE \E o \in Riders, port \in Ports(u) :
                   rooms[o] # None /\ Enter(u, o, Current(o), rooms[o].info, port)
        <3>1. PICK o \in Riders, port \in Ports(u) :
                   rooms[o] # None /\ Enter(u, o, Current(o), rooms[o].info, port)
            BY <2>2
        <3>2. Current(o) \in Generations /\ rooms[o].info \in Policies /\ port \in Generations
            BY <1>i, <3>1, CurrentType, RoomOfAnOwner
        <3>3. plans[u] = None
            BY <1>3 DEF EnterRandom, Idle
        <3> QED BY <3>1, <3>2, <3>3, EnterTurns
    <2> QED BY <1>3, <2>1, <2>2 DEF EnterRandom, Present
<1>4. ASSUME NEW o \in Riders, EnterDirect(u, o) PROVE Turn
    <2> DEFINE g == IF Active(o) THEN Current(o) ELSE Offline
    <2>1. PICK info \in Profile(o), port \in Ports(u) : Enter(u, o, g, info, port)
        BY <1>4 DEF EnterDirect
    <2>2. g \in Generations /\ info \in Policies /\ port \in Generations
        BY <1>i, CurrentType
    <2>3. plans[u] = None
        BY <1>4 DEF EnterDirect, Idle
    <2> HIDE DEF g
    <2> QED BY <2>1, <2>2, <2>3, EnterTurns
<1> QED
    BY <1>1, <1>2, <1>3, <1>4 DEF Entry

LEMMA ExitTurns ==
    ASSUME ReadInv, NEW u \in Riders, ExitRoom(u)
    PROVE  Turn
<1>1. ASSUME Revoke(u), UNCHANGED plans
      PROVE  /\ ReadTypes' /\ Cleared(u)
             /\ \A x \in Riders : x # u => /\ grants'[x] = grants[x] /\ plans'[x] = plans[x]
                                          /\ proven'[x] = proven[x]
    BY <1>1, RevokeClears DEF ExitRoom, Idle
<1>2. CASE UNCHANGED hub /\ Revoke(u) /\ UNCHANGED plans
    BY <1>1, <1>2, SameHubKeepsReads DEF Turn, Kept, ProofKept
<1>3. CASE Leave(u) /\ Revoke(u) /\ UNCHANGED plans
    <2>1. \A o \in Riders : RevisionKept(o)
        BY <1>3, LeftRevision DEF Leave, RevisionKept, ReadInv
    <2>2. \A x \in Riders : SeatKept(x)
        BY <1>3 DEF Leave, SeatKept, ReadInv, HubInv, Tables, SeatTable
    <2> QED BY <1>1, <1>3, <2>1, <2>2 DEF Turn, Kept, ProofKept
<1>4. CASE Mismatch(LeftBehind(u))
    BY <1>4, MismatchTurns
<1> QED
    BY <1>2, <1>3, <1>4 DEF ExitRoom

LEMMA DisconnectTurns ==
    ASSUME ReadInv, NEW u \in Riders, Disconnect(u), UNCHANGED plans
    PROVE  Turn
<1> DEFINE left == RoomsLeftBy(u)
<1>1. left \in RoomTable
    BY Leaving DEF ReadInv
<1>2. \A o \in Riders : left[o] # None =>
          rooms[o] # None /\ left[o].revision = rooms[o].revision
    BY LeftRevision DEF ReadInv
<1>3. rooms' = [left EXCEPT ![u] = None]
    BY DEF Disconnect
<1> HIDE DEF left
<1>4. \A o \in Riders : RevisionKept(o)
    BY <1>1, <1>2, <1>3 DEF RevisionKept, RoomTable
<1>5. ReadTypes'
    BY DEF ReadInv, ReadTypes, Disconnect
<1>6. ASSUME NEW x \in Riders PROVE Kept(x)
    <2>1. grants'[x] \in {grants[x], None} /\ plans'[x] = plans[x]
        BY DEF Disconnect, ReadInv, ReadTypes
    <2>2. SeatKept(x) /\ ProofKept(x)
        BY DEF Disconnect, SeatKept, ProofKept
    <2> QED BY <2>1, <2>2 DEF Kept
<1> QED
    BY <1>4, <1>5, <1>6 DEF Turn

\* Rewriting a rider's roles leaves every policy as it is.
LEMMA RolesKeepRevisions ==
    ASSUME HubInv, NEW u \in Riders, NEW owned, NEW guest,
           rooms[u] # None => owned.revision = rooms[u].revision,
           rooms' = Roles(u, owned, guest)
    PROVE  \A o \in Riders : RevisionKept(o)
<1>1. ASSUME NEW o \in Riders, rooms'[o] # None PROVE RevisionKept(o)
    <2>1. rooms[o] # None
        BY <1>1 DEF Roles
    <2>2. CASE o = u
        BY <2>1, <2>2 DEF Roles, RevisionKept
    <2>3. CASE o # u
        <3> DEFINE seats == [s \in Seats |->
                IF memberships[u] = [owner |-> o, slot |-> s] THEN guest
                ELSE rooms[o].visitors[s]]
        <3>1. rooms'[o] = [rooms[o] EXCEPT !.visitors = seats]
            BY <2>1, <2>3 DEF Roles
        <3>2. rooms[o] \in Room
            BY <2>1 DEF HubInv, Tables, RoomTable
        <3> HIDE DEF seats
        <3>3. rooms'[o].revision = rooms[o].revision
            BY <3>1, <3>2 DEF Room
        <3> QED BY <2>1, <3>3 DEF RevisionKept
    <2> QED BY <2>2, <2>3
<1> QED
    BY <1>1 DEF RevisionKept

LEMMA AdvanceKeepsRevisions ==
    ASSUME HubInv, NEW u \in Riders, NEW g, Advance(u, g)
    PROVE  (\A o \in Riders : RevisionKept(o)) /\ (\A x \in Riders : SeatKept(x))
<1> DEFINE owned == [rooms[u] EXCEPT !.generation = g, !.port = 0]
<1>1. rooms[u] # None => owned.revision = rooms[u].revision
    BY DEF HubInv, Tables, RoomTable, Room
<1>2. rooms' = Roles(u, owned, [user |-> u, generation |-> g, port |-> 0])
    BY DEF Advance
<1> HIDE DEF owned
<1>3. \A o \in Riders : RevisionKept(o)
    BY <1>1, <1>2, RolesKeepRevisions
<1> QED
    BY <1>3 DEF Advance, SeatKept

\* A step that leaves the hub alone and may only take plans away.
LEMMA QuietTurns ==
    ASSUME ReadInv, UNCHANGED <<rooms, memberships, generations, grants, proven>>,
           NEW u, plans' = plans \/ plans' = [plans EXCEPT ![u] = None]
    PROVE  Turn
<1>1. UNCHANGED hub
    BY DEF hub
<1>2. ReadTypes' /\ \A x \in Riders : plans'[x] \in {plans[x], None}
    BY DEF ReadInv, ReadTypes
<1> QED
    BY <1>1, <1>2, SameHubKeepsReads DEF Turn, Kept, ProofKept

LEMMA RegistryTurns ==
    ASSUME ReadInv, Registry
    PROVE  Turn
<1>1. ASSUME NEW u \in Riders, Login(u) \/ Close(u) PROVE Turn
    <2>1. /\ UNCHANGED <<rooms, memberships, generations, grants, proven>>
          /\ plans' = plans \/ plans' = [plans EXCEPT ![u] = None]
        BY <1>1 DEF Login, Close, hub, reads
    <2> QED BY <2>1, QuietTurns
<1>2. ASSUME NEW S, CollectDrained(S) \/ \E busy : ExpireMigrations(S, busy) PROVE Turn
    <2>1. UNCHANGED <<rooms, memberships, generations, grants, proven>> /\ plans' = plans
        BY <1>2 DEF CollectDrained, ExpireMigrations, hub, reads
    <2> QED BY <2>1, QuietTurns
<1>3. ASSUME NEW u \in Riders, Migrate(u) PROVE Turn
    <2>1. CASE Halt(u, Current(u), "stale")
        BY <2>1, HaltTurns
    <2>2. CASE /\ IF HasRole(u) THEN Advance(u, Current(u) + 1) ELSE UNCHANGED hub
               /\ plans' = [plans EXCEPT ![u] = None]
               /\ Revoke(u)
        <3>1. (\A o \in Riders : RevisionKept(o)) /\ (\A x \in Riders : SeatKept(x))
            BY <2>2, AdvanceKeepsRevisions, SameHubKeepsReads DEF ReadInv
        <3>2. /\ ReadTypes' /\ Cleared(u)
              /\ \A x \in Riders : x # u => /\ grants'[x] = grants[x] /\ plans'[x] = plans[x]
                                           /\ proven'[x] = proven[x]
            BY <2>2 DEF ReadInv, ReadTypes, Revoke, Cleared
        <3> QED BY <3>1, <3>2 DEF Turn, Kept, ProofKept
    <2> QED BY <1>3, <2>1, <2>2 DEF Migrate
<1> QED
    BY <1>1, <1>2, <1>3 DEF Registry

LEMMA ReleaseTurns ==
    ASSUME ReadInv, NEW u \in Riders, Release(u)
    PROVE  Turn
<1>1. \/ \E x, g, why : Halt(x, g, why)
      \/ Disconnect(u) /\ UNCHANGED plans
    BY DEF Release, Mismatch
<1> QED
    BY <1>1, HaltTurns, DisconnectTurns

LEMMA CompleteInfoTurns ==
    ASSUME ReadInv, NEW u \in Riders, CompleteInfo(u)
    PROVE  Turn
<1>1. CASE UNCHANGED <<rooms, memberships, generations, grants, plans, proven>>
    <2>1. UNCHANGED hub /\ UNCHANGED <<grants, plans, proven>>
        BY <1>1 DEF hub
    <2> QED BY <2>1, SameReads, SameHubKeepsReads DEF Turn, Kept, ProofKept
<1>2. CASE /\ memberships[u] = [owner |-> u, slot |-> OwnerSlot]
           /\ rooms' = [rooms EXCEPT ![u].info = writes[u].info,
                                     ![u].revision = NextRevision(u)]
           /\ proven' = [x \in Riders |-> IF Visits(x, u) THEN None ELSE proven[x]]
           /\ UNCHANGED <<memberships, grants, plans>>
    <2> DEFINE room == [rooms[u] EXCEPT !.info = writes[u].info, !.revision = NextRevision(u)]
    <2>1. memberships[u] # None /\ memberships[u].owner = u
        BY <1>2, Values DEF Membership, Places
    <2>2. rooms[u] \in Room
        BY <2>1, SeatFacts DEF ReadInv
    <2>3. rooms' = [rooms EXCEPT ![u] = room] /\ room.revision = NextRevision(u)
        BY <1>2, <2>2 DEF ReadInv, HubInv, Tables, RoomTable, Room
    <2> HIDE DEF room
    <2>4. FreshAt(u) /\ \A o \in Riders : o # u => rooms'[o] = rooms[o]
        BY <2>3, NextRevisionIsFresh DEF FreshAt, ReadInv, HubInv, Tables, RoomTable
    <2>5. \A o \in Riders : RevisionKept(o)
        BY <2>4 DEF RevisionKept
    <2>6. \A x \in Riders : SeatKept(x) /\ ProofKept(x)
        BY <1>2, <2>4 DEF SeatKept, ProofKept, Visits
    <2>7. ReadTypes'
        BY <1>2 DEF ReadInv, ReadTypes
    <2> QED BY <1>2, <2>5, <2>6, <2>7 DEF Turn, Kept
<1>3. CASE \E g, why : Halt(u, g, why)
    BY <1>3, HaltTurns
<1> QED
    BY <1>1, <1>2, <1>3 DEF CompleteInfo, hub, reads

LEMMA CommandTurns ==
    ASSUME ReadInv, NEW u \in Riders, Command(u)
    PROVE  Turn
<1>q. ASSUME UNCHANGED <<rooms, memberships, generations, grants, plans, proven>> PROVE Turn
    <2>1. UNCHANGED hub /\ UNCHANGED <<grants, plans, proven>>
        BY <1>q DEF hub
    <2> QED BY <2>1, SameReads, SameHubKeepsReads DEF Turn, Kept, ProofKept
<1>r. ASSUME (\A o \in Riders : RevisionKept(o)) /\ (\A x \in Riders : SeatKept(x)),
             UNCHANGED reads
      PROVE Turn
    <2>1. UNCHANGED <<grants, plans, proven>>
        BY <1>r DEF reads
    <2> QED BY <1>r, <2>1, SameReads DEF Turn, Kept, ProofKept
<1>1. CASE Query(u) \/ PeerCommand(u)
    BY <1>1, HaltTurns, MismatchTurns DEF Query, PeerCommand
<1>2. CASE Secede(u) \/ EnterClientStage(u)
    BY <1>2, ExitTurns DEF Secede, EnterClientStage
<1>3. CASE RefreshPresentation(u)
    <2>1. CASE Halt(u, Current(u), "stale")
        BY <2>1, HaltTurns
    <2>2. CASE Advance(u, Current(u)) /\ UNCHANGED reads
        BY <2>2, <1>r, AdvanceKeepsRevisions DEF ReadInv
    <2> QED BY <1>3, <2>1, <2>2 DEF RefreshPresentation
<1>4. CASE ReportPort(u)
    <2>1. CASE Halt(u, Current(u), "stale")
        BY <2>1, HaltTurns
    <2>2. CASE ShowPort(u, Current(u)) /\ UNCHANGED <<memberships, reads>>
        <3> DEFINE owned == IF Present(u) THEN [rooms[u] EXCEPT !.port = Current(u)] ELSE rooms[u]
                   guest == [user |-> u, generation |-> Current(u), port |-> Current(u)]
        <3>1. rooms[u] # None => owned.revision = rooms[u].revision
            BY DEF ReadInv, HubInv, Tables, RoomTable, Room
        <3>2. rooms' = Roles(u, owned, guest)
            BY <2>2 DEF ShowPort
        <3> HIDE DEF owned, guest
        <3>3. \A o \in Riders : RevisionKept(o)
            BY <3>1, <3>2, RolesKeepRevisions DEF ReadInv
        <3>4. \A x \in Riders : SeatKept(x)
            BY <2>2 DEF SeatKept
        <3> QED BY <2>2, <3>3, <3>4, <1>r
    <2> QED BY <1>4, <2>1, <2>2 DEF ReportPort
<1>5. CASE RegisterInfo(u)
    BY <1>5, <1>q DEF RegisterInfo, hub, reads
<1>6. CASE CompleteInfo(u)
    BY <1>6, CompleteInfoTurns
<1> QED
    BY <1>1, <1>2, <1>3, <1>4, <1>5, <1>6 DEF Command

--------------------------------------------------------------------------------
LEMMA PlanIsTyped ==
    ASSUME HubInv, NEW u \in Riders, NEW resource \in Resources, NEW granted \in BOOLEAN,
           memberships[u] # None
    PROVE  /\ PlanFor(u, resource, granted) \in Plan
           /\ Fits(u, PlanFor(u, resource, granted))
<1> DEFINE o == memberships[u].owner
<1>1. o \in Riders /\ rooms[o] \in Room /\ rooms[o] # None
    BY SeatFacts, Values
<1> HIDE DEF o
<1>2. PlanFor(u, resource, granted) =
        [resource |-> resource, owner |-> o, generation |-> rooms[o].generation,
         revision |-> rooms[o].revision,
         visible |-> u = o \/ rooms[o].info \notin ItemsLocked, granted |-> granted]
    BY DEF PlanFor, o
<1>3. PlanFor(u, resource, granted) \in Plan
    BY <1>1, <1>2 DEF Plan, Room
<1>4. Fits(u, PlanFor(u, resource, granted))
    BY <1>1, <1>2 DEF Fits, o
<1> QED
    BY <1>3, <1>4

LEMMA CheckPasswordKeepsReads ==
    ASSUME ReadInv, NEW u \in Riders, NEW resource \in Resources, CheckPassword(u, resource)
    PROVE  ReadTypes' /\ GrantsProven' /\ PlansGranted'
<1> DEFINE plan == PlanFor(u, resource, FALSE)
           grant == [resource |-> resource, owner |-> plan.owner,
                     generation |-> plan.generation, revision |-> plan.revision]
<1>1. UNCHANGED hub /\ UNCHANGED plans /\ plans[u] = None
    BY DEF CheckPassword, Idle
<1>2. CASE Revoke(u)
    <2>1. /\ ReadTypes' /\ Cleared(u)
          /\ \A x \in Riders : x # u => /\ grants'[x] = grants[x] /\ plans'[x] = plans[x]
                                       /\ proven'[x] = proven[x]
        BY <1>1, <1>2, RevokeClears
    <2> QED BY <1>1, <2>1 DEF ReadInv, GrantsProven, PlansGranted, Fits, Cleared, hub
<1>3. CASE /\ memberships[u] # None
           /\ grants' = [grants EXCEPT ![u] = grant]
           /\ proven' = [proven EXCEPT ![u] = resource]
    <2>1. plan \in Plan
        BY <1>3, PlanIsTyped DEF ReadInv
    <2>2. grant \in Grant
        <3> HIDE DEF plan
        <3> QED BY <2>1 DEF Plan, Grant
    <2>3. grant.resource = resource
        OBVIOUS
    <2> HIDE DEF grant
    <2>4. ReadTypes'
        BY <1>1, <1>3, <2>2 DEF ReadInv, ReadTypes
    <2>5. /\ grants'[u].resource = resource /\ proven'[u] = resource
          /\ \A x \in Riders : x # u => grants'[x] = grants[x] /\ proven'[x] = proven[x]
        BY <1>3, <2>3 DEF ReadInv, ReadTypes
    <2> QED
        BY <1>1, <2>4, <2>5 DEF ReadInv, GrantsProven, PlansGranted, Fits, hub
<1> QED
    BY <1>2, <1>3 DEF CheckPassword

LEMMA PrepareReadKeepsReads ==
    ASSUME ReadInv, NEW u \in Riders, NEW resource \in Resources, PrepareRead(u, resource)
    PROVE  ReadTypes' /\ GrantsProven' /\ PlansGranted'
<1> DEFINE plan == PlanFor(u, resource, FALSE)
           taken == /\ grants[u] # None /\ grants[u].resource = resource
                    /\ plan.visible => resource = OwnerItems
           granted == ~plan.visible /\ Matches(grants[u], plan) /\ Present(plan.owner)
           prepared == [plan EXCEPT !.granted = granted]
<1>1. UNCHANGED hub /\ UNCHANGED proven /\ memberships[u] # None
    BY DEF PrepareRead
<1>2. plan \in Plan /\ Fits(u, plan) /\ plan.resource = resource
    BY <1>1, PlanIsTyped DEF ReadInv, PlanFor
<1>3. /\ grants' = [grants EXCEPT ![u] = IF taken THEN None ELSE @]
      /\ plans' = [plans EXCEPT ![u] = IF plan.visible \/ granted THEN prepared ELSE None]
    BY DEF PrepareRead
<1>4. granted \in BOOLEAN
    OBVIOUS
<1>5. granted => /\ grants[u] # None /\ grants[u].resource = plan.resource
                 /\ grants[u].owner = plan.owner /\ grants[u].revision = plan.revision
                 /\ ~plan.visible
    <2> HIDE DEF plan
    <2>1. PICK grant : grant = grants[u]
        OBVIOUS
    <2>2. ASSUME granted PROVE ~plan.visible /\ Matches(grant, plan)
        BY <2>1, <2>2
    <2>3. ASSUME granted
          PROVE  /\ grant # None /\ grant.resource = plan.resource
                 /\ grant.owner = plan.owner /\ grant.revision = plan.revision
        BY <2>2, <2>3 DEF Matches
    <2> QED BY <2>1, <2>2, <2>3
<1>6. granted => taken
    BY <1>2, <1>5
<1>7. granted => proven[u] = plan.resource
    <2>1. granted => Fits(u, grants[u])
        <3> HIDE DEF plan, granted
        <3> QED BY <1>2, <1>5 DEF Fits
    <2> HIDE DEF granted
    <2> QED BY <1>5, <2>1 DEF ReadInv, GrantsProven
<1> HIDE DEF plan, granted, taken
<1>8. /\ prepared \in Plan /\ prepared.visible = plan.visible
      /\ prepared.resource = plan.resource
    BY <1>2, <1>4 DEF Plan
<1> HIDE DEF prepared
<1>9. ReadTypes'
    BY <1>1, <1>3, <1>8 DEF ReadInv, ReadTypes
<1>10. /\ grants'[u] \in {grants[u], None} /\ (taken => grants'[u] = None)
       /\ plans'[u] = IF plan.visible \/ granted THEN prepared ELSE None
       /\ \A x \in Riders : x # u => grants'[x] = grants[x] /\ plans'[x] = plans[x]
    BY <1>3 DEF ReadInv, ReadTypes
<1>11. GrantsProven'
    BY <1>1, <1>10 DEF ReadInv, GrantsProven, Fits, hub
<1>12. ASSUME NEW x \in Riders, plans'[x] # None, ~plans'[x].visible
       PROVE  /\ grants'[x] = None
              /\ Fits(x, plans[x])' => proven'[x] = plans'[x].resource
    <2>1. CASE x # u
        BY <1>1, <1>10, <1>12, <2>1 DEF ReadInv, PlansGranted, Fits, hub
    <2>2. CASE x = u
        <3>1. plans'[u] = prepared /\ granted
            BY <1>4, <1>8, <1>10, <1>12, <2>2
        <3> QED BY <1>1, <1>6, <1>7, <1>8, <1>10, <2>2, <3>1
    <2> QED BY <2>1, <2>2
<1> QED
    BY <1>9, <1>11, <1>12 DEF PlansGranted

LEMMA PublishReadKeepsReads ==
    ASSUME ReadInv, NEW u \in Riders, PublishRead(u)
    PROVE  ReadTypes' /\ GrantsProven' /\ PlansGranted'
<1>1. UNCHANGED hub /\ UNCHANGED grants /\ plans' = [plans EXCEPT ![u] = None]
        /\ plans[u] # None
    BY DEF PublishRead
<1>2. proven' = proven \/ proven' = [proven EXCEPT ![u] = IF plans[u].visible THEN @ ELSE None]
    BY DEF PublishRead
<1>3. ReadTypes'
    BY <1>1, <1>2 DEF ReadInv, ReadTypes
<1>4. /\ plans'[u] = None /\ \A x \in Riders : x # u => plans'[x] = plans[x]
      /\ \A x \in Riders : proven'[x] = proven[x] \/ (x = u /\ ~plans[u].visible)
    <2>1. plans'[u] = None /\ \A x \in Riders : x # u => plans'[x] = plans[x]
        BY <1>1 DEF ReadInv, ReadTypes
    <2>2. plans[u] \in Plan
        BY <1>1 DEF ReadInv, ReadTypes
    <2>3. CASE plans[u].visible
        BY <1>2, <2>1, <2>3 DEF ReadInv, ReadTypes
    <2>4. CASE ~plans[u].visible
        BY <1>2, <2>1, <2>4 DEF ReadInv, ReadTypes
    <2> QED BY <2>3, <2>4
<1>5. ~plans[u].visible => grants'[u] = None
    BY <1>1 DEF ReadInv, PlansGranted
<1>6. GrantsProven'
    BY <1>1, <1>4, <1>5 DEF ReadInv, GrantsProven, Fits, hub
<1>7. PlansGranted'
    BY <1>1, <1>4 DEF ReadInv, PlansGranted, Fits, hub
<1> QED
    BY <1>3, <1>6, <1>7

LEMMA InitReads == Init => ReadInv
<1> SUFFICES ASSUME Init PROVE ReadInv
    OBVIOUS
<1>1. HubInv
    BY InitEstablishesInv
<1>2. ReadTypes /\ GrantsProven /\ PlansGranted
    BY DEF Init, ReadTypes, GrantsProven, PlansGranted
<1> QED
    BY <1>1, <1>2 DEF ReadInv

LEMMA NextKeepsReads == ReadInv /\ [Next]_vars => ReadInv'
<1> SUFFICES ASSUME ReadInv, [Next]_vars PROVE ReadInv'
    OBVIOUS
<1>1. HubInv'
    BY NextKeepsInv DEF ReadInv
<1>2. CASE UNCHANGED vars
    BY <1>1, <1>2 DEF ReadInv, ReadTypes, GrantsProven, PlansGranted, Fits, vars, hub, reads
<1>3. CASE Next
    <2>1. Registry \/ \E u \in Riders : Release(u) \/ Entry(u) \/ Command(u) \/ Read(u)
        BY <1>3 DEF Next
    <2>2. CASE Registry \/ \E u \in Riders : Release(u) \/ Entry(u) \/ Command(u)
        <3>1. Turn
            BY <2>2, RegistryTurns, ReleaseTurns, EntryTurns, CommandTurns
        <3> QED BY <1>1, <3>1, TurnKeepsReads
    <2>3. ASSUME NEW u \in Riders, Read(u) PROVE ReadInv'
        <3>1. ReadTypes' /\ GrantsProven' /\ PlansGranted'
            BY <2>3, CheckPasswordKeepsReads, PrepareReadKeepsReads, PublishReadKeepsReads DEF Read
        <3> QED BY <1>1, <3>1 DEF ReadInv
    <2> QED BY <2>1, <2>2, <2>3
<1> QED
    BY <1>2, <1>3

\* Only PublishRead answers a read, and its plan is still the room's.
LEMMA AnswersAreEntitled ==
    ASSUME ReadInv, [Next]_vars, served' # served, served' # None
    PROVE  Entitled(served'.reader, served'.owner, served'.resource)
<1>h. ASSUME NEW x, NEW g, NEW why, Halt(x, g, why) PROVE FALSE
    BY <1>h DEF Halt, reads
<1>m. ASSUME NEW S, Mismatch(S) PROVE FALSE
    BY <1>m, <1>h DEF Mismatch
<1>1. Registry \/ \E u \in Riders : Release(u) \/ Entry(u) \/ Command(u) \/ Read(u)
    BY DEF Next, vars, reads
<1>2. ~Registry /\ \A u : ~Release(u)
    <2>1. ~Registry
        BY <1>h DEF Registry, Login, Close, Migrate, ExpireMigrations, CollectDrained, Revoke, reads
    <2>2. \A u : ~Release(u)
        BY <1>h, <1>m DEF Release
    <2> QED BY <2>1, <2>2
<1>3. ASSUME NEW u \in Riders, Entry(u) PROVE FALSE
    <2>1. ASSUME NEW o, NEW g, NEW info, NEW port, Enter(u, o, g, info, port) PROVE FALSE
        BY <2>1, <1>h, <1>m DEF Enter, Revoke
    <2>2. ~EnterOwn(u)
        BY <2>1 DEF EnterOwn
    <2> QED BY <1>3, <1>h, <2>1, <2>2 DEF Entry, Reenter, EnterRandom, EnterDirect
<1>4. ASSUME NEW u \in Riders, Command(u) PROVE FALSE
    <2>1. ~Query(u) /\ ~PeerCommand(u)
        BY <1>h, <1>m DEF Query, PeerCommand
    <2>2. ~Secede(u) /\ ~EnterClientStage(u)
        BY <1>m DEF Secede, EnterClientStage, ExitRoom, Revoke
    <2>3. ~RefreshPresentation(u) /\ ~ReportPort(u) /\ ~RegisterInfo(u)
        BY <1>h DEF RefreshPresentation, ReportPort, RegisterInfo, reads
    <2>4. ~CompleteInfo(u)
        BY <1>h DEF CompleteInfo, reads
    <2> QED BY <1>4, <2>1, <2>2, <2>3, <2>4 DEF Command
<1>s. PICK u \in Riders : Read(u)
    BY <1>1, <1>2, <1>3, <1>4
<1>5. PublishRead(u)
    BY <1>s DEF Read, CheckPassword, PrepareRead, Revoke
<1> DEFINE plan == plans[u]
<1>6. /\ plan # None /\ memberships[u] # None
      /\ plan = PlanFor(u, plan.resource, plan.granted)
      /\ plan.visible \/ Present(plan.owner)
      /\ served' = [reader |-> u, owner |-> plan.owner, resource |-> plan.resource]
    BY <1>5 DEF PublishRead
<1>7. plan \in Plan
    BY <1>6 DEF ReadInv, ReadTypes
<1>8. PICK resource \in Resources, granted \in BOOLEAN : plan = PlanFor(u, resource, granted)
    BY <1>6, <1>7 DEF Plan
<1> HIDE DEF plan
<1>9. /\ plan.owner = memberships[u].owner
      /\ plan.visible = (u = plan.owner \/ rooms[plan.owner].info \notin ItemsLocked)
    BY <1>8 DEF PlanFor
<1>10. ~plan.visible => proven[u] = plan.resource
    BY <1>6, <1>8, PlanIsTyped DEF ReadInv, PlansGranted, plan
<1>11. served'.reader = u /\ served'.owner = plan.owner /\ served'.resource = plan.resource
    BY <1>6
<1> QED
    BY <1>6, <1>9, <1>10, <1>11 DEF Entitled, Visits

\* For every number of riders, seats and policies: whatever happens while a
\* session reads the owner's profile outside the actor, publish_myroom_owner_items
\* and publish_myroom_owner_resource answer a rider who is in that owner's room
\* and, if it protects its items now, has given the password that is set now.
THEOREM ReadsStayEntitled == Spec => ReadsAreEntitled
<1> DEFINE P == served' # served /\ served' # None =>
                    Entitled(served'.reader, served'.owner, served'.resource)
<1>1. Init => ReadInv
    BY InitReads
<1>2. ReadInv /\ [Next]_vars => ReadInv'
    BY NextKeepsReads
<1>3. ReadInv /\ [Next]_vars => [P]_vars
    BY AnswersAreEntitled
<1>4. [][P]_vars => ReadsAreEntitled
    BY DEF ReadsAreEntitled
<1> HIDE DEF P
<1> QED
    BY <1>1, <1>2, <1>3, <1>4, PTL DEF Spec
--------------------------------------------------------------------------------
(* Types: besides the tables, the error that stopped the World and the read *)
(* answered last.                                                          *)

ErrorTypes ==
    /\ halted \in Stop \cup {None}
    /\ served \in [reader : Riders, owner : Riders, resource : Resources] \cup {None}

LEMMA HaltTyped ==
    ASSUME ErrorTypes, NEW u \in Riders, NEW g \in Generations,
           NEW why \in {"stale", "untracked", "capacity", "mismatch", "unavailable"},
           Halt(u, g, why)
    PROVE  ErrorTypes'
BY DEF Halt, reads, Stop, ErrorTypes

LEMMA MismatchTyped ==
    ASSUME ErrorTypes, NEW S, Mismatch(S),
           \A m \in S : m.user \in Riders /\ m.generation \in Generations
    PROVE  ErrorTypes'
BY HaltTyped DEF Mismatch

LEMMA EnterTyped ==
    ASSUME HubInv, ErrorTypes, NEW u \in Riders, NEW o \in Riders, NEW g \in Generations,
           NEW info \in Policies, NEW port \in Generations, Enter(u, o, g, info, port),
           u = o => g = Current(u)
    PROVE  ErrorTypes'
<1>1. Current(u) \in Generations
    BY CurrentType
<1>2. ASSUME UNCHANGED halted, served' = None PROVE ErrorTypes'
    BY <1>2 DEF ErrorTypes
<1>3. \/ Halt(o, g, "stale") \/ Halt(u, Current(u), "stale") \/ Halt(o, g, "capacity")
      \/ UNCHANGED halted /\ served' = None
      \/ Mismatch(Audience(o, rooms[o]))
      \/ LET room == IF RoomsLeftBy(u)[o] = None THEN NewRoom(o, g, info) ELSE RoomsLeftBy(u)[o]
         IN /\ ~Stale(o, g) /\ (u = o \/ Vacant(room) # {})
            /\ Mismatch(Audience(o, With(room, SlotFor(room, o, u), u, port)) \cup LeftBehind(u))
    BY DEF Enter, Revoke
<1>4. CASE Mismatch(Audience(o, rooms[o]))
    BY <1>4, RoomMembers, MismatchTyped
<1>5. ASSUME NEW room,
             room = IF RoomsLeftBy(u)[o] = None THEN NewRoom(o, g, info) ELSE RoomsLeftBy(u)[o],
             ~Stale(o, g), u = o \/ Vacant(room) # {},
             Mismatch(Audience(o, With(room, SlotFor(room, o, u), u, port)) \cup LeftBehind(u))
      PROVE  ErrorTypes'
    <2> DEFINE informed == Audience(o, With(room, SlotFor(room, o, u), u, port))
                             \cup LeftBehind(u)
    <2>1. \A m \in informed : m.user \in Riders /\ m.generation \in Generations
        BY <1>5, InformedMembers
    <2>2. Mismatch(informed)
        BY <1>5
    <2> HIDE DEF informed
    <2> QED BY <2>1, <2>2, MismatchTyped
<1> QED
    BY <1>1, <1>2, <1>3, <1>4, <1>5, HaltTyped

LEMMA EntryTyped ==
    ASSUME HubInv, ErrorTypes, NEW u \in Riders, Entry(u)
    PROVE  ErrorTypes'
<1>1. ASSUME EnterOwn(u) PROVE ErrorTypes'
    <2>1. PICK info \in Profile(u), port \in Ports(u) : Enter(u, u, Current(u), info, port)
        BY <1>1 DEF EnterOwn
    <2>2. Current(u) \in Generations /\ info \in Policies /\ port \in Generations
        BY CurrentType
    <2> QED BY <2>1, <2>2, EnterTyped
<1>2. CASE Reenter(u)
    <2>1. CASE memberships[u] = None \/ Refused(u)
        BY <1>1, <1>2, <2>1 DEF Reenter
    <2>2. CASE memberships[u] # None /\ ~Refused(u)
        <3> DEFINE o == memberships[u].owner
        <3>1. Enter(u, o, rooms[o].generation, rooms[o].info, 0)
            BY <1>2, <2>2 DEF Reenter
        <3>2. o \in Riders /\ rooms[o] # None
            BY <2>2, SeatFacts, Values
        <3> HIDE DEF o
        <3>3. /\ rooms[o].generation \in Generations /\ rooms[o].info \in Policies
              /\ u = o => rooms[o].generation = Current(u)
            BY <2>2, <3>2, RoomOfAnOwner
        <3>4. 0 \in Generations
            BY Zero
        <3> QED BY <3>1, <3>2, <3>3, <3>4, EnterTyped
    <2> QED BY <2>1, <2>2
<1>3. CASE EnterRandom(u)
    <2>1. PICK o \in Riders : \/ Halt(o, Current(o), "stale")
                              \/ /\ o # u /\ rooms[o] # None
                                 /\ \E port \in Ports(u) :
                                       Enter(u, o, Current(o), rooms[o].info, port)
        BY <1>3 DEF EnterRandom, Present
    <2>2. Current(o) \in Generations /\ Ports(u) \subseteq Generations
        BY CurrentType
    <2>3. rooms[o] # None => rooms[o].info \in Policies
        BY RoomOfAnOwner
    <2> QED BY <2>1, <2>2, <2>3, HaltTyped, EnterTyped
<1>4. ASSUME NEW o \in Riders, EnterDirect(u, o) PROVE ErrorTypes'
    <2> DEFINE g == IF Active(o) THEN Current(o) ELSE Offline
    <2>1. PICK info \in Profile(o), port \in Ports(u) : Enter(u, o, g, info, port)
        BY <1>4 DEF EnterDirect
    <2>2. g \in Generations /\ info \in Policies /\ port \in Generations /\ u # o
        BY <1>4, CurrentType DEF EnterDirect
    <2> HIDE DEF g
    <2> QED BY <2>1, <2>2, EnterTyped
<1> QED
    BY <1>1, <1>2, <1>3, <1>4 DEF Entry

LEMMA NextTyped == ReadInv /\ ErrorTypes /\ [Next]_vars => ErrorTypes'
<1> SUFFICES ASSUME ReadInv, ErrorTypes, [Next]_vars PROVE ErrorTypes'
    OBVIOUS
<1>1. HubInv
    BY DEF ReadInv
<1>2. ASSUME UNCHANGED halted, served' \in {served, None} PROVE ErrorTypes'
    BY <1>2 DEF ErrorTypes
<1>3. CASE UNCHANGED vars
    BY <1>2, <1>3 DEF vars, reads
<1>4. ASSUME NEW u \in Riders, NEW g \in Generations,
             NEW why \in {"stale", "untracked", "capacity", "mismatch", "unavailable"},
             Halt(u, g, why)
      PROVE  ErrorTypes'
    BY <1>4, HaltTyped
<1>5. CASE Registry
    <2>1. \A u \in Riders : Current(u) \in Generations
        BY <1>1, CurrentType
    <2>2. \/ \E u \in Riders : Halt(u, Current(u), "stale")
          \/ UNCHANGED halted /\ served' \in {served, None}
        BY <1>5 DEF Registry, Login, Close, Migrate, ExpireMigrations, CollectDrained,
                    Revoke, reads
    <2> QED BY <1>2, <1>4, <2>1, <2>2
<1>8. ASSUME NEW u \in Riders, Release(u) PROVE ErrorTypes'
    <2> DEFINE informed == LeftBehind(u) \cup Audience(u, RoomsLeftBy(u)[u])
    <2>1. Current(u) \in Generations
        BY <1>1, CurrentType
    <2>2. \A m \in informed : m.user \in Riders /\ m.generation \in Generations
        BY <1>1, BehindMembers, LeftMembers
    <2>3. \/ Halt(u, Current(u), "stale")
          \/ Mismatch(informed)
          \/ \E m \in informed : Halt(m.user, m.generation, "unavailable")
          \/ UNCHANGED halted /\ served' \in {served, None}
        BY <1>8 DEF Release
    <2> HIDE DEF informed
    <2> QED BY <1>2, <1>4, <2>1, <2>2, <2>3, MismatchTyped
<1>6. ASSUME NEW u \in Riders, Command(u) PROVE ErrorTypes'
    <2>1. Current(u) \in Generations
        BY <1>1, CurrentType
    <2>2. CASE CompleteInfo(u)
        <3>1. writes[u] # None /\ writes[u] \in Write \cup {None}
            BY <1>1, <2>2 DEF CompleteInfo, HubInv, HubTypes
        <3>2. writes[u].generation \in Generations
            BY <3>1 DEF Write
        <3>3. \/ Halt(u, writes[u].generation, "untracked")
              \/ Halt(u, writes[u].generation, "stale")
              \/ UNCHANGED halted /\ served' \in {served, None}
            BY <2>2 DEF CompleteInfo, reads
        <3> QED BY <1>2, <1>4, <3>2, <3>3
    <2>3. CASE ~CompleteInfo(u)
        <3>1. \/ Halt(u, Current(u), "stale") \/ Mismatch(LeftBehind(u))
              \/ UNCHANGED halted /\ served' \in {served, None}
            BY <1>6, <2>3 DEF Command, Query, PeerCommand, Secede, EnterClientStage, ExitRoom,
                              RefreshPresentation, ReportPort, RegisterInfo, Revoke, reads
        <3> QED BY <1>1, <1>2, <1>4, <2>1, <3>1, BehindMembers, MismatchTyped
    <2> QED BY <2>2, <2>3
<1>7. ASSUME NEW u \in Riders, Read(u) PROVE ErrorTypes'
    <2>1. CASE served' \in {served, None}
        BY <1>2, <1>7, <2>1 DEF Read, CheckPassword, PrepareRead, PublishRead
    <2>2. CASE served' \notin {served, None}
        <3>1. PublishRead(u)
            BY <1>7, <2>2 DEF Read, CheckPassword, PrepareRead, Revoke
        <3>2. plans[u] \in Plan
            BY <3>1 DEF PublishRead, ReadInv, ReadTypes
        <3>3. plans[u].owner \in Riders /\ plans[u].resource \in Resources
            BY <3>2 DEF Plan
        <3>4. /\ UNCHANGED halted
              /\ served' = [reader |-> u, owner |-> plans[u].owner,
                            resource |-> plans[u].resource]
            BY <2>2, <3>1 DEF PublishRead
        <3> QED BY <3>3, <3>4 DEF ErrorTypes
    <2> QED BY <2>1, <2>2
<1> QED
    BY <1>1, <1>3, <1>5, <1>6, <1>7, <1>8, EntryTyped DEF Next

\* The hub's tables, the reads under way and the error that stops the World
\* name riders, seats, resources and generations of the instance only.
THEOREM HubTyped == Spec => []TypeOK
<1>1. Init => ErrorTypes
    BY DEF Init, ErrorTypes
<1>2. ReadInv /\ ErrorTypes => TypeOK
    BY DEF ReadInv, HubInv, HubTypes, ReadTypes, Tables, RoomTable, SeatTable, KnownTable,
           ErrorTypes, TypeOK
<1> QED
    BY InitReads, NextKeepsReads, NextTyped, <1>1, <1>2, PTL DEF Spec
================================================================================
