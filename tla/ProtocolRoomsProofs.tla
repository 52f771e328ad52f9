--------------------------- MODULE ProtocolRoomsProofs ---------------------------
(***************************************************************************)
(* What holds of the protocol rooms for any number of riders, seats, rooms, *)
(* channels and races.                                                      *)
(*                                                                         *)
(* Every action ends with Commit, so the state within a turn is a value of  *)
(* its own: the rooms, identities, memberships and lanes a command leaves   *)
(* before the turn's end looks at them (Mid).  The lemmas about a command   *)
(* say that it leads from one such value to another, CommitHolds that the   *)
(* end of a turn restores what is true only between turns (Attendance), and *)
(* CommitCoheres that it leaves the rooms' tables coherent.                 *)
(*                                                                         *)
(* RoomsInv is inductive by itself; CohInv adds what each room's seats,     *)
(* teams, master and grid have to agree about (Coherent).                   *)
(***************************************************************************)
EXTENDS ProtocolRooms, FiniteSetTheorems, WellFoundedInduction, TLAPS

--------------------------------------------------------------------------------
(* Partial maps.                                                            *)

Maps(D, R) == UNION {[S -> R] : S \in SUBSET D}

LEMMA MapIs ==
    ASSUME NEW D, NEW R, NEW f
    PROVE  f \in Maps(D, R) <=> DOMAIN f \subseteq D /\ f \in [DOMAIN f -> R]
<1>1. ASSUME f \in Maps(D, R) PROVE DOMAIN f \subseteq D /\ f \in [DOMAIN f -> R]
    <2>1. PICK S \in SUBSET D : f \in [S -> R]
        BY <1>1 DEF Maps
    <2> QED BY <2>1
<1>2. ASSUME DOMAIN f \subseteq D, f \in [DOMAIN f -> R] PROVE f \in Maps(D, R)
    BY <1>2 DEF Maps
<1> QED
    BY <1>1, <1>2

LEMMA NoMap ==
    ASSUME NEW D, NEW R
    PROVE  << >> \in Maps(D, R) /\ DOMAIN << >> = {}
<1>1. DOMAIN << >> = {}
    OBVIOUS
<1>2. << >> \in [{} -> R]
    OBVIOUS
<1> QED
    BY <1>1, <1>2, MapIs

LEMMA Putting ==
    ASSUME NEW D, NEW R, NEW f \in Maps(D, R), NEW x \in D, NEW v \in R
    PROVE  /\ Put(f, x, v) \in Maps(D, R)
           /\ DOMAIN Put(f, x, v) = DOMAIN f \cup {x}
           /\ Put(f, x, v)[x] = v
           /\ \A y \in DOMAIN f : y # x => Put(f, x, v)[y] = f[y]
<1>1. DOMAIN f \subseteq D /\ f \in [DOMAIN f -> R]
    BY MapIs
<1>2. DOMAIN Put(f, x, v) \subseteq D /\ Put(f, x, v) \in [DOMAIN Put(f, x, v) -> R]
    BY <1>1 DEF Put
<1>3. Put(f, x, v) \in Maps(D, R)
    BY <1>2, MapIs
<1> QED
    BY <1>3 DEF Put

LEMMA Dropping ==
    ASSUME NEW D, NEW R, NEW f \in Maps(D, R), NEW S
    PROVE  /\ Drop(f, S) \in Maps(D, R)
           /\ DOMAIN Drop(f, S) = DOMAIN f \ S
           /\ \A y \in DOMAIN f \ S : Drop(f, S)[y] = f[y]
<1>1. DOMAIN f \subseteq D /\ f \in [DOMAIN f -> R]
    BY MapIs
<1>2. DOMAIN Drop(f, S) \subseteq D /\ Drop(f, S) \in [DOMAIN Drop(f, S) -> R]
    BY <1>1 DEF Drop
<1>3. Drop(f, S) \in Maps(D, R)
    BY <1>2, MapIs
<1> QED
    BY <1>3 DEF Drop

--------------------------------------------------------------------------------
(* The state as values.                                                     *)

Room == [channel : Channels, phase : Phases, master : Players \cup {-1},
         members : Maps(Players, Member), ais : Maps(Seats, Teams),
         closed : Maps(Seats, Seats), positions : Maps(Seats, Seats),
         fence : 0 .. MaxEpoch, frozen : Maps(Riders, Participant),
         frozen_ais : Maps(Seats, Teams), stage : Stages,
         expected : SUBSET Riders, ready : SUBSET Riders,
         finish : Maps(Seats, Times), settlement : Settlements]

\* A room and its race: what a phase implies, and that a frozen player id is
\* one rider's and no AI's.
RaceSound(room) ==
    /\ room.fence = 0 <=> room.phase = "lobby"
    /\ room.fence = 0 => room.frozen = << >>
    /\ room.stage # "dormant" => room.phase = "loading"
    /\ room.settlement # "none" <=> room.phase = "settling"
    /\ room.expected \subseteq DOMAIN room.frozen /\ room.ready \subseteq room.expected
    /\ \A u, v \in DOMAIN room.frozen : room.frozen[u].player = room.frozen[v].player => u = v
    /\ \A u \in DOMAIN room.frozen : room.frozen[u].player \notin DOMAIN room.frozen_ais
    /\ DOMAIN room.ais \cap DOMAIN room.members = {}
Sound(room) == room \in Room /\ RaceSound(room)

\* Who is in which room.
Houses(rs, where) ==
    /\ \A r \in DOMAIN rs :
          /\ \A p \in DOMAIN rs[r].members : where[rs[r].members[p].user] = r
          /\ \A p, q \in DOMAIN rs[r].members :
                rs[r].members[p].user = rs[r].members[q].user => p = q
          /\ DOMAIN rs[r].members = {} => rs[r].phase \in {"running", "settling"}
    /\ \A u \in Riders : where[u] # 0 =>
          where[u] \in DOMAIN rs /\ u \in Occupants(rs[where[u]])

\* Whose race which lane is.
Lanes(rs, lanes) ==
    /\ \A r \in DOMAIN rs : rs[r].fence # 0 =>
          \A u \in FrozenRacers(rs[r]) : lanes[u] = rs[r].fence
    /\ \A r, q \in DOMAIN rs : rs[r].fence = rs[q].fence => r = q \/ rs[r].fence = 0
    /\ \A u \in Riders : lanes[u] # 0 =>
          \E r \in DOMAIN rs : rs[r].fence = lanes[u] /\ u \in FrozenRacers(rs[r])

IdentityTable ==
    {who \in [Riders -> Identity] :
        \A u \in Riders : who[u].status # "out" =>
            who[u].generation # 0 /\ who[u].channel \in Channels}

Mid(rs, who, where, lanes, next) ==
    /\ DOMAIN rs \subseteq RoomIds /\ \A r \in DOMAIN rs : Sound(rs[r])
    /\ who \in IdentityTable
    /\ where \in [Riders -> 0 .. MaxRoom]
    /\ lanes \in [Riders -> 0 .. MaxEpoch]
    /\ next \in 1 .. MaxEpoch + 1
    /\ \A r \in DOMAIN rs : rs[r].fence < next
    /\ Houses(rs, where)
    /\ Lanes(rs, lanes)

\* A room between turns.
Attended(r, room, who, where) ==
    LET here == Exact(r, room, who, where)
    IN /\ room.phase \in {"loading", "running"} => here \cap FrozenRacers(room) # {}
       /\ room.stage = "awaiting" => room.expected \subseteq here /\ room.ready # room.expected

SameUsers(new, old) ==
    /\ DOMAIN new.members = DOMAIN old.members
    /\ \A p \in DOMAIN old.members : new.members[p].user = old.members[p].user
SameRoster(new, old) ==
    new.fence = old.fence /\ new.frozen = old.frozen /\ new.frozen_ais = old.frozen_ais

--------------------------------------------------------------------------------
(* The end of a turn.                                                       *)

LEMMA UnracedFacts ==
    ASSUME NEW room, Sound(room)
    PROVE  /\ Sound(Unraced(room)) /\ SameUsers(Unraced(room), room)
           /\ Unraced(room).fence = 0 /\ Unraced(room).phase = "lobby"
           /\ Unraced(room).stage = "dormant" /\ Unraced(room).finish = << >>
<1> DEFINE rested == [p \in DOMAIN room.members |-> [room.members[p] EXCEPT !.ready = FALSE]]
           new == [room EXCEPT !.phase = "lobby", !.fence = 0, !.frozen = << >>,
                      !.frozen_ais = << >>, !.stage = "dormant", !.expected = {}, !.ready = {},
                      !.finish = << >>, !.settlement = "none", !.members = rested]
<1>1. Unraced(room) = new
    BY DEF Unraced
<1>2. room \in Room
    BY DEF Sound
<1>3. room.members \in Maps(Players, Member)
    BY <1>2 DEF Room
<1>4. DOMAIN room.members \subseteq Players /\ room.members \in [DOMAIN room.members -> Member]
    BY <1>3, MapIs
<1>5. /\ rested \in [DOMAIN room.members -> Member] /\ DOMAIN rested = DOMAIN room.members
      /\ \A p \in DOMAIN room.members : rested[p].user = room.members[p].user
    BY <1>4 DEF Member
<1>6. rested \in Maps(Players, Member)
    BY <1>4, <1>5, MapIs
<1>7. /\ << >> \in Maps(Riders, Participant) /\ << >> \in Maps(Seats, Teams)
      /\ << >> \in Maps(Seats, Times)
      /\ DOMAIN << >> = {}
    BY NoMap
<1>8. 0 \in 0 .. MaxEpoch /\ "lobby" \in Phases /\ "dormant" \in Stages /\ "none" \in Settlements
    BY RoomConstants DEF Phases, Stages, Settlements
<1> HIDE DEF rested
<1>9. new \in Room
    BY <1>2, <1>6, <1>7, <1>8 DEF Room
<1>10. /\ new.fence = 0 /\ new.phase = "lobby" /\ new.stage = "dormant" /\ new.finish = << >>
       /\ new.settlement = "none" /\ new.frozen = << >> /\ new.expected = {} /\ new.ready = {}
       /\ new.members = rested /\ new.ais = room.ais
    BY <1>2 DEF Room
<1> HIDE DEF new
<1>11. RaceSound(new)
    BY <1>5, <1>7, <1>10 DEF RaceSound, Sound
<1> QED
    BY <1>1, <1>5, <1>9, <1>10, <1>11 DEF Sound, SameUsers

\* What a turn's end makes of a room.
LEMMA ReconciledFacts ==
    ASSUME NEW room, Sound(room), NEW r, NEW who, NEW where
    PROVE  LET new == Reconciled(r, room, who, where)
           IN /\ Sound(new) /\ SameUsers(new, room) /\ Attended(r, new, who, where)
              /\ Aborts(r, room, who, where) => new = Unraced(room)
              /\ ~Aborts(r, room, who, where) => SameRoster(new, room)
              /\ new.finish = room.finish \/ new.finish = << >>
              /\ room.phase \in {"running", "settling"} => new.phase \in {"running", "settling"}
<1> DEFINE new == Reconciled(r, room, who, where)
           exact == Exact(r, room, who, where)
<1>r. room \in Room /\ RaceSound(room)
    BY DEF Sound
<1>s. SameUsers(room, room)
    BY DEF SameUsers
<1>1. CASE Aborts(r, room, who, where)
    <2>1. new = Unraced(room)
        BY <1>1 DEF Reconciled, Aborts
    <2> HIDE DEF new
    <2>2. /\ Sound(new) /\ SameUsers(new, room) /\ new.phase = "lobby"
          /\ new.stage = "dormant" /\ new.finish = << >>
        BY <2>1, UnracedFacts
    <2>3. Attended(r, new, who, where)
        BY <2>2 DEF Attended
    <2>4. room.phase = "loading"
        BY <1>1 DEF Aborts
    <2> QED BY <1>1, <2>1, <2>2, <2>3, <2>4 DEF new
<1>2. CASE room.phase = "loading" /\ ~Forsaken(r, room, who, where)
    <2> DEFINE expected == room.expected \cap exact
               ready == room.ready \cap expected
    <2>1. ~Aborts(r, room, who, where) /\ new = HandshakeReconciled(room, exact)
        BY <1>2 DEF Reconciled, Aborts
    <2>2. exact \cap FrozenRacers(room) # {}
        BY <1>2 DEF Forsaken
    <2>3. CASE room.stage # "awaiting"
        <3>1. new = room
            BY <2>1, <2>3 DEF HandshakeReconciled
        <3>2. Attended(r, room, who, where)
            BY <2>2, <2>3 DEF Attended
        <3> QED BY <1>2, <1>r, <1>s, <2>1, <3>1, <3>2 DEF Sound, SameRoster
    <2>4. CASE room.stage = "awaiting" /\ ready = expected
        <3>1. new = [room EXCEPT !.stage = "scheduled", !.expected = {}, !.ready = {}]
            BY <2>1, <2>4 DEF HandshakeReconciled
        <3> HIDE DEF new, expected, ready
        <3>2. new \in Room
            BY <1>r, <3>1 DEF Room, Stages
        <3>3. /\ new.stage = "scheduled" /\ new.expected = {} /\ new.ready = {}
              /\ new.phase = room.phase /\ new.fence = room.fence /\ new.frozen = room.frozen
              /\ new.frozen_ais = room.frozen_ais /\ new.finish = room.finish
              /\ new.settlement = room.settlement /\ new.members = room.members
              /\ new.ais = room.ais
            BY <1>r, <3>1 DEF Room
        <3>4. RaceSound(new)
            BY <1>r, <1>2, <3>3 DEF RaceSound
        <3>5. Exact(r, new, who, where) = exact /\ FrozenRacers(new) = FrozenRacers(room)
            BY <3>3 DEF Exact, FrozenRacers
        <3>6. Attended(r, new, who, where)
            BY <2>2, <3>3, <3>5 DEF Attended
        <3>7. SameUsers(new, room) /\ SameRoster(new, room)
            BY <3>3 DEF SameUsers, SameRoster
        <3> QED BY <1>2, <2>1, <3>2, <3>3, <3>4, <3>6, <3>7 DEF Sound, new
    <2>5. CASE room.stage = "awaiting" /\ ready # expected
        <3>1. new = [room EXCEPT !.expected = expected, !.ready = ready]
            BY <2>1, <2>5 DEF HandshakeReconciled
        <3>0. expected \subseteq room.expected /\ ready \subseteq expected /\ expected \subseteq exact
            OBVIOUS
        <3> HIDE DEF new, expected, ready
        <3>2. new \in Room
            BY <1>r, <3>0, <3>1 DEF Room
        <3>3. /\ new.stage = "awaiting" /\ new.expected = expected /\ new.ready = ready
              /\ new.phase = room.phase /\ new.fence = room.fence /\ new.frozen = room.frozen
              /\ new.frozen_ais = room.frozen_ais /\ new.finish = room.finish
              /\ new.settlement = room.settlement /\ new.members = room.members
              /\ new.ais = room.ais
            BY <1>r, <2>5, <3>1 DEF Room
        <3>4. RaceSound(new)
            BY <1>r, <1>2, <3>0, <3>3 DEF RaceSound
        <3>5. Exact(r, new, who, where) = exact /\ FrozenRacers(new) = FrozenRacers(room)
            BY <3>3 DEF Exact, FrozenRacers
        <3>6. Attended(r, new, who, where)
            BY <2>2, <2>5, <3>0, <3>3, <3>5 DEF Attended
        <3>7. SameUsers(new, room) /\ SameRoster(new, room)
            BY <3>3 DEF SameUsers, SameRoster
        <3> QED BY <1>2, <2>1, <3>2, <3>3, <3>4, <3>6, <3>7 DEF Sound, new
    <2> QED BY <2>3, <2>4, <2>5
<1>3. CASE room.phase = "running" /\ Forsaken(r, room, who, where)
    <2>1. new = [room EXCEPT !.phase = "settling", !.settlement = "awaiting"]
            /\ ~Aborts(r, room, who, where)
        BY <1>3 DEF Reconciled, Aborts
    <2> HIDE DEF new
    <2>2. new \in Room
        BY <1>r, <2>1 DEF Room, Phases, Settlements
    <2>3. /\ new.stage = room.stage /\ new.expected = room.expected /\ new.ready = room.ready
          /\ new.phase = "settling" /\ new.fence = room.fence /\ new.frozen = room.frozen
          /\ new.frozen_ais = room.frozen_ais /\ new.finish = room.finish
          /\ new.settlement = "awaiting" /\ new.members = room.members
          /\ new.ais = room.ais
        BY <1>r, <2>1 DEF Room
    <2>4. room.stage = "dormant"
        BY <1>r, <1>3 DEF RaceSound
    <2>5. RaceSound(new)
        BY <1>r, <1>3, <2>3, <2>4 DEF RaceSound
    <2>6. Attended(r, new, who, where)
        BY <2>3, <2>4 DEF Attended
    <2>7. SameUsers(new, room) /\ SameRoster(new, room)
        BY <2>3 DEF SameUsers, SameRoster
    <2> QED BY <2>1, <2>2, <2>3, <2>5, <2>6, <2>7 DEF Sound, new
<1>4. CASE /\ room.phase # "loading"
           /\ ~(room.phase = "running" /\ Forsaken(r, room, who, where))
    <2>1. new = room /\ ~Aborts(r, room, who, where)
        BY <1>4 DEF Reconciled, Aborts
    <2>2. room.stage = "dormant"
        BY <1>r, <1>4 DEF RaceSound
    <2>3. Attended(r, room, who, where)
        BY <1>4, <2>2 DEF Attended, Forsaken
    <2> QED BY <1>r, <1>s, <2>1, <2>3 DEF Sound, SameRoster
<1> QED
    BY <1>1, <1>2, <1>3, <1>4 DEF Aborts

Attendance == \A r \in DOMAIN rooms : Attended(r, rooms[r], identity, room_by_user)

\* The end of a turn keeps what holds within it, and more.
LEMMA CommitHolds ==
    ASSUME NEW rs, NEW who, NEW where, NEW lanes, NEW next,
           Mid(rs, who, where, lanes, next), Commit(rs, who, where, lanes)
    PROVE  /\ Mid(rooms', identity', room_by_user', reward_lanes', next)
           /\ Attendance' /\ DOMAIN rooms' = DOMAIN rs
           /\ identity' = who /\ room_by_user' = where
           /\ \A r \in DOMAIN rs : rooms'[r].finish = rs[r].finish \/ rooms'[r].finish = << >>
<1> DEFINE gone == {r \in DOMAIN rs : Aborts(r, rs[r], who, where)}
           over == {rs[r].fence : r \in gone}
<1>1. /\ rooms' = [r \in DOMAIN rs |-> Reconciled(r, rs[r], who, where)]
      /\ identity' = who /\ room_by_user' = where
      /\ reward_lanes' = Released(lanes, over)
    BY DEF Commit
<1>2. ASSUME NEW r \in DOMAIN rs
      PROVE  /\ Sound(rooms'[r]) /\ SameUsers(rooms'[r], rs[r])
             /\ Attended(r, rooms'[r], who, where)
             /\ r \in gone => /\ rooms'[r].fence = 0 /\ rooms'[r].frozen = << >>
                              /\ rs[r].phase = "loading" /\ rs[r].fence # 0
             /\ r \notin gone => SameRoster(rooms'[r], rs[r])
             /\ rooms'[r].finish = rs[r].finish \/ rooms'[r].finish = << >>
             /\ rs[r].phase \in {"running", "settling"} =>
                    rooms'[r].phase \in {"running", "settling"}
    <2>1. Sound(rs[r])
        BY DEF Mid
    <2>2. rooms'[r] = Reconciled(r, rs[r], who, where)
        BY <1>1
    <2>3. r \in gone => rooms'[r] = Unraced(rs[r])
        BY <2>1, <2>2, ReconciledFacts
    <2>4. r \in gone => rooms'[r].fence = 0 /\ Sound(rooms'[r])
        BY <2>1, <2>3, UnracedFacts
    <2>5. r \in gone => rooms'[r].frozen = << >>
        BY <2>4 DEF Sound, RaceSound
    <2>6. r \in gone => rs[r].phase = "loading" /\ rs[r].fence # 0
        BY <2>1 DEF Aborts, Sound, RaceSound
    <2> QED BY <2>1, <2>2, <2>4, <2>5, <2>6, ReconciledFacts
<1>3. DOMAIN rooms' = DOMAIN rs
    BY <1>1
<1>m. /\ DOMAIN rs \subseteq RoomIds /\ who \in IdentityTable /\ where \in [Riders -> 0 .. MaxRoom]
      /\ lanes \in [Riders -> 0 .. MaxEpoch] /\ next \in 1 .. MaxEpoch + 1
      /\ Houses(rs, where) /\ Lanes(rs, lanes)
      /\ \A r \in DOMAIN rs : rs[r].fence < next
    BY DEF Mid
<1>4. reward_lanes' \in [Riders -> 0 .. MaxEpoch]
    BY <1>1, <1>m, RoomConstants DEF Released
<1>l. \A u \in Riders : reward_lanes'[u] = IF lanes[u] \in over THEN 0 ELSE lanes[u]
    BY <1>1 DEF Released
<1>5. ASSUME NEW r \in DOMAIN rs PROVE rooms'[r].fence < next
    <2>1. rooms'[r].fence = 0 \/ rooms'[r].fence = rs[r].fence
        BY <1>2 DEF SameRoster
    <2> QED BY <1>m, <2>1
<1>6. Houses(rooms', where)
    <2>1. ASSUME NEW r \in DOMAIN rs
          PROVE  /\ DOMAIN rooms'[r].members = DOMAIN rs[r].members
                 /\ \A p \in DOMAIN rs[r].members :
                       rooms'[r].members[p].user = rs[r].members[p].user
                 /\ Occupants(rooms'[r]) = Occupants(rs[r])
        <3>1. /\ DOMAIN rooms'[r].members = DOMAIN rs[r].members
              /\ \A p \in DOMAIN rs[r].members :
                    rooms'[r].members[p].user = rs[r].members[p].user
            BY <1>2 DEF SameUsers
        <3> QED BY <3>1 DEF Occupants
    <2>2. ASSUME NEW r \in DOMAIN rs
          PROVE  /\ \A p \in DOMAIN rooms'[r].members : where[rooms'[r].members[p].user] = r
                 /\ \A p, q \in DOMAIN rooms'[r].members :
                       rooms'[r].members[p].user = rooms'[r].members[q].user => p = q
        BY <2>1, <1>m DEF Houses
    <2>3. ASSUME NEW r \in DOMAIN rs, DOMAIN rooms'[r].members = {}
          PROVE  rooms'[r].phase \in {"running", "settling"}
        BY <1>2, <2>1, <2>3, <1>m DEF Houses
    <2>4. ASSUME NEW u \in Riders, where[u] # 0
          PROVE  where[u] \in DOMAIN rs /\ u \in Occupants(rooms'[where[u]])
        <3>1. where[u] \in DOMAIN rs /\ u \in Occupants(rs[where[u]])
            BY <1>m, <2>4 DEF Houses
        <3> QED BY <2>1, <3>1
    <2> QED BY <1>3, <2>2, <2>3, <2>4 DEF Houses
<1>7. Lanes(rooms', reward_lanes')
    <2> HIDE DEF gone
    <2>1. ASSUME NEW r \in DOMAIN rs, rooms'[r].fence # 0
          PROVE  /\ r \notin gone /\ rooms'[r].fence = rs[r].fence
                 /\ FrozenRacers(rooms'[r]) = FrozenRacers(rs[r])
                 /\ rs[r].fence \notin over
        <3>1. r \notin gone /\ rooms'[r].fence = rs[r].fence
                /\ FrozenRacers(rooms'[r]) = FrozenRacers(rs[r])
            BY <1>2, <2>1 DEF SameRoster, FrozenRacers
        <3>2. ASSUME NEW q \in gone PROVE rs[q].fence # rs[r].fence
            <4>1. q \in DOMAIN rs /\ q # r
                BY <3>1 DEF gone
            <4> QED BY <1>m, <2>1, <3>1, <4>1 DEF Lanes
        <3> QED BY <3>1, <3>2
    <2>2. ASSUME NEW r \in DOMAIN rs, rooms'[r].fence # 0, NEW u \in FrozenRacers(rooms'[r])
          PROVE  reward_lanes'[u] = rooms'[r].fence
        <3>1. lanes[u] = rs[r].fence /\ u \in FrozenRacers(rs[r])
            BY <1>m, <2>1, <2>2 DEF Lanes
        <3>2. u \in Riders
            <4>1. rs[r].frozen \in Maps(Riders, Participant)
                BY DEF Mid, Sound, Room
            <4> QED BY <3>1, <4>1, MapIs DEF FrozenRacers
        <3> QED BY <1>l, <2>1, <2>2, <3>1, <3>2
    <2>3. ASSUME NEW r \in DOMAIN rs, NEW q \in DOMAIN rs, rooms'[r].fence = rooms'[q].fence
          PROVE  r = q \/ rooms'[r].fence = 0
        BY <1>m, <2>1, <2>3 DEF Lanes
    <2>4. ASSUME NEW u \in Riders, reward_lanes'[u] # 0
          PROVE  \E r \in DOMAIN rs : rooms'[r].fence = reward_lanes'[u]
                                        /\ u \in FrozenRacers(rooms'[r])
        <3>1. reward_lanes'[u] = lanes[u] /\ lanes[u] \notin over
            BY <1>l, <2>4
        <3>2. PICK r \in DOMAIN rs : rs[r].fence = lanes[u] /\ u \in FrozenRacers(rs[r])
            BY <1>m, <2>4, <3>1 DEF Lanes
        <3>3. r \notin gone
            BY <3>1, <3>2
        <3> QED BY <1>2, <3>1, <3>2, <3>3 DEF SameRoster, FrozenRacers
    <2> QED BY <1>3, <2>2, <2>3, <2>4 DEF Lanes
<1>8. Attendance'
    BY <1>1, <1>2, <1>3 DEF Attendance, Attended, Exact
<1>9. Mid(rooms', identity', room_by_user', reward_lanes', next)
    BY <1>1, <1>2, <1>3, <1>4, <1>5, <1>6, <1>7, <1>m DEF Mid
<1> QED
    BY <1>1, <1>2, <1>3, <1>8, <1>9

--------------------------------------------------------------------------------
(* The least of a set of player ids, slots or room ids.                     *)

LEMMA MinExists ==
    ASSUME NEW S \in SUBSET Nat, IsFiniteSet(S), S # {}
    PROVE  Min(S) \in S /\ \A x \in S : Min(S) =< x
<1> DEFINE upto(x) == {y \in S : y =< x}
           B == {upto(x) : x \in S}
<1>1. IsWellFoundedOn(StrictSubsetOrdering(S), FiniteSubsetsOf(S))
    BY FS_StrictSubsetOrderingWellFounded
<1>2. B \subseteq FiniteSubsetsOf(S) /\ B # {}
    <2>1. B \subseteq SUBSET S /\ B # {}
        OBVIOUS
    <2> QED BY <2>1, FS_FiniteSubsetsOfFinite
<1>3. \E b \in B : \A c \in B : ~ (<<c, b>> \in StrictSubsetOrdering(S))
    <2> HIDE DEF B
    <2> QED BY <1>1, <1>2, WFMin
<1>4. PICK x \in S : \A c \in B : ~ (<<c, upto(x)>> \in StrictSubsetOrdering(S))
    BY <1>3
<1>5. ASSUME NEW y \in S, y < x PROVE FALSE
    <2>1. ASSUME NEW z \in upto(y) PROVE z \in upto(x)
        <3>1. z \in Nat /\ y \in Nat /\ x \in Nat /\ z =< y
            OBVIOUS
        <3> QED BY <1>5, <3>1
    <2>2. x \in upto(x) /\ x \notin upto(y)
        BY <1>5
    <2>3. <<upto(y), upto(x)>> \in StrictSubsetOrdering(S)
        BY <2>1, <2>2 DEF StrictSubsetOrdering
    <2> QED BY <1>4, <2>3
<1>6. \A y \in S : x =< y
    BY <1>5
<1> QED
    BY <1>6 DEF Min

LEMMA SeatNumbers ==
    /\ Seats \subseteq Nat /\ Galleries \subseteq Nat /\ Players \subseteq Nat
    /\ Seats \cap Galleries = {} /\ 0 \in Seats /\ -1 \notin Players
    /\ IsFiniteSet(Seats) /\ IsFiniteSet(Galleries) /\ IsFiniteSet(Players)
<1>1. Slots \in Nat /\ Slots >= 2 /\ ObserverSlots \in Nat
    BY RoomConstants
<1>2. Seats \subseteq Nat /\ Galleries \subseteq Nat /\ Seats \cap Galleries = {} /\ 0 \in Seats
    BY <1>1 DEF Seats, Galleries
<1>3. IsFiniteSet(Seats)
    BY <1>1, FS_Interval DEF Seats
<1>4. IsFiniteSet(Galleries)
    <2>1. Slots \in Int /\ Slots + ObserverSlots - 1 \in Int
        BY <1>1
    <2> QED BY <2>1, FS_Interval DEF Galleries
<1>5. IsFiniteSet(Players)
    BY <1>3, <1>4, FS_Union DEF Players
<1>6. Players \subseteq Nat
    BY <1>2 DEF Players
<1>7. -1 \notin Players
    BY <1>6
<1> QED
    BY <1>2, <1>3, <1>4, <1>5, <1>6, <1>7

LEMMA LeastPlayer ==
    ASSUME NEW S \in SUBSET Players, S # {}
    PROVE  Min(S) \in S
<1>1. S \in SUBSET Nat /\ IsFiniteSet(S)
    BY SeatNumbers, FS_Subset
<1> QED
    BY <1>1, MinExists

LEMMA Halves ==
    ASSUME NEW team
    PROVE  Half(team) \subseteq Seats
<1>1. Slots \in Nat
    BY RoomConstants
<1>2. Slots \div 2 \in Nat /\ Slots \div 2 =< Slots
    BY <1>1
<1>3. /\ 0 .. (Slots \div 2) - 1 \subseteq 0 .. Slots - 1
      /\ Slots \div 2 .. Slots - 1 \subseteq 0 .. Slots - 1
    <2> DEFINE h == Slots \div 2
    <2> HIDE DEF h
    <2>1. h \in Nat /\ h =< Slots
        BY <1>2 DEF h
    <2>2. 0 .. h - 1 \subseteq 0 .. Slots - 1 /\ h .. Slots - 1 \subseteq 0 .. Slots - 1
        BY <1>1, <2>1
    <2> QED BY <2>2 DEF h
<1> QED
    BY <1>3 DEF Half, Seats

LEMMA LeastOpenSlot ==
    ASSUME NEW room, NEW team, OpenSlots(room, team) # {}
    PROVE  /\ Min(OpenSlots(room, team)) \in Seats
           /\ Min(OpenSlots(room, team)) \in Half(team) \ DOMAIN room.positions
<1>1. OpenSlots(room, team) \in SUBSET Players
    BY Halves DEF OpenSlots, Players
<1>2. Min(OpenSlots(room, team)) \in OpenSlots(room, team)
    BY <1>1, LeastPlayer
<1> QED
    BY <1>2, Halves DEF OpenSlots

LEMMA LeastVacant ==
    ASSUME NEW room
    PROVE  /\ Vacant(room) # {} => Min(Vacant(room)) \in Vacant(room)
           /\ VacantGalleries(room) # {} =>
                 Min(VacantGalleries(room)) \in VacantGalleries(room)
<1>1. Vacant(room) \in SUBSET Players /\ VacantGalleries(room) \in SUBSET Players
    BY DEF Vacant, VacantGalleries, Players
<1> QED
    BY <1>1, LeastPlayer

--------------------------------------------------------------------------------
(* What the commands do to a room.                                          *)

SameRace(new, old) ==
    /\ new.channel = old.channel /\ new.phase = old.phase
    /\ new.fence = old.fence /\ new.frozen = old.frozen /\ new.frozen_ais = old.frozen_ais
    /\ new.stage = old.stage /\ new.expected = old.expected /\ new.ready = old.ready
    /\ new.finish = old.finish /\ new.settlement = old.settlement

LEMMA RoomFields ==
    ASSUME NEW room, Sound(room)
    PROVE  /\ room \in Room /\ RaceSound(room)
           /\ DOMAIN room.members \subseteq Players
           /\ \A p \in DOMAIN room.members : room.members[p] \in Member
           /\ DOMAIN room.ais \subseteq Seats /\ DOMAIN room.frozen \subseteq Riders
           /\ \A u \in DOMAIN room.frozen : room.frozen[u] \in Participant
<1>1. room \in Room /\ RaceSound(room)
    BY DEF Sound
<1>2. /\ room.members \in Maps(Players, Member) /\ room.ais \in Maps(Seats, Teams)
      /\ room.frozen \in Maps(Riders, Participant)
    BY <1>1 DEF Room
<1> QED
    BY <1>1, <1>2, MapIs

\* A command to the lobby: it moves seats and leaves the race alone.
LEMMA SeatsMoved ==
    ASSUME NEW room, Sound(room), NEW new \in Room, SameRace(new, room),
           DOMAIN new.ais \cap DOMAIN new.members = {}
    PROVE  Sound(new) /\ SameRoster(new, room)
BY DEF Sound, RaceSound, SameRace, SameRoster

LobbyMove(new, old) == Sound(new) /\ SameRace(new, old) /\ SameUsers(new, old)

SlotReady(room, player, ready) == [room EXCEPT !.members[player].ready = ready]

LEMMA ReadyMoves ==
    ASSUME NEW room, Sound(room), NEW player, NEW ready \in BOOLEAN
    PROVE  LET new == SlotReady(room, player, ready)
           IN /\ LobbyMove(new, room)
              /\ new.ais = room.ais /\ new.closed = room.closed /\ new.master = room.master
              /\ new.positions = room.positions
              /\ \A p \in DOMAIN room.members :
                    /\ new.members[p].team = room.members[p].team
                    /\ new.members[p].ranking = room.members[p].ranking
<1> DEFINE m == [room.members EXCEPT ![player].ready = ready]
           new == [room EXCEPT !.members = m]
<1>r. /\ room \in Room /\ RaceSound(room) /\ room.members \in Maps(Players, Member)
      /\ room.members \in [DOMAIN room.members -> Member] /\ DOMAIN room.members \subseteq Players
    <2>1. room \in Room /\ RaceSound(room) /\ room.members \in Maps(Players, Member)
        BY DEF Sound, Room
    <2> QED BY <2>1, MapIs
<1>1. /\ m \in [DOMAIN room.members -> Member]
      /\ \A p \in DOMAIN room.members : /\ m[p].user = room.members[p].user
                                        /\ m[p].team = room.members[p].team
                                        /\ m[p].ranking = room.members[p].ranking
    BY <1>r DEF Member
<1>2. m \in Maps(Players, Member)
    BY <1>1, <1>r, MapIs
<1>3. SlotReady(room, player, ready) = new
    BY <1>r DEF Room, SlotReady
<1> HIDE DEF m
<1>4. new \in Room
    BY <1>r, <1>2 DEF Room
<1>5. /\ SameRace(new, room) /\ new.members = m /\ new.ais = room.ais
      /\ new.closed = room.closed /\ new.master = room.master /\ new.positions = room.positions
    BY <1>r DEF Room, SameRace
<1> HIDE DEF new
<1>6. SameUsers(new, room)
    BY <1>1, <1>5 DEF SameUsers
<1>7. Sound(new)
    BY <1>r, <1>4, <1>5, <1>6, SeatsMoved DEF SameUsers, RaceSound
<1> QED
    BY <1>1, <1>3, <1>5, <1>6, <1>7 DEF LobbyMove

LEMMA TeamMoves ==
    ASSUME NEW room, Sound(room), NEW player \in Racers(room), NEW team \in Teams,
           OpenSlots(room, team) # {}, room.members[player].team # team
    PROVE  LET new == TeamChanged(room, player, team)
               slot == Min(OpenSlots(room, team))
           IN /\ LobbyMove(new, room)
              /\ new.ais = room.ais /\ new.closed = room.closed /\ new.master = room.master
              /\ \A p \in DOMAIN room.members : p # player => new.members[p] = room.members[p]
              /\ new.members[player].team = team
              /\ new.members[player].ranking = room.members[player].ranking
              /\ new.positions =
                    Put(Drop(room.positions, {s \in DOMAIN room.positions :
                                                 room.positions[s] = player}), slot, player)
<1> DEFINE new == TeamChanged(room, player, team)
           m == [room.members EXCEPT ![player].team = team, ![player].ready = FALSE]
           slot == Min(OpenSlots(room, team))
           left == {s \in DOMAIN room.positions : room.positions[s] = player}
           pos == Put(Drop(room.positions, left), slot, player)
<1>r. /\ room \in Room /\ RaceSound(room) /\ room.positions \in Maps(Seats, Seats)
      /\ room.members \in [DOMAIN room.members -> Member] /\ DOMAIN room.members \subseteq Players
    <2>1. room \in Room /\ RaceSound(room) /\ room.members \in Maps(Players, Member)
            /\ room.positions \in Maps(Seats, Seats)
        BY DEF Sound, Room
    <2> QED BY <2>1, MapIs
<1>p. player \in DOMAIN room.members /\ player \in Seats
    BY DEF Racers
<1>1. /\ m \in [DOMAIN room.members -> Member]
      /\ \A p \in DOMAIN room.members : m[p].user = room.members[p].user
      /\ \A p \in DOMAIN room.members : p # player => m[p] = room.members[p]
      /\ m[player].team = team /\ m[player].ranking = room.members[player].ranking
    BY <1>r, <1>p DEF Member
<1>2. m \in Maps(Players, Member)
    BY <1>1, <1>r, MapIs
<1>3. slot \in Seats
    BY LeastOpenSlot
<1>4. pos \in Maps(Seats, Seats)
    <2>1. Drop(room.positions, left) \in Maps(Seats, Seats)
        BY <1>r, Dropping
    <2> HIDE DEF left, slot
    <2> QED BY <2>1, <1>3, <1>p, Putting
<1>5. new = [room EXCEPT !.members = m, !.positions = pos]
    <2>1. new = [room EXCEPT !.members[player].team = team, !.members[player].ready = FALSE,
                             !.positions = pos]
        BY DEF TeamChanged
    <2> HIDE DEF pos, new
    <2>2. [room EXCEPT !.members[player].team = team, !.members[player].ready = FALSE]
            = [room EXCEPT !.members = m]
        BY <1>r DEF Room
    <2> QED BY <2>1, <2>2
<1> HIDE DEF m, pos, new
<1>6. new \in Room
    BY <1>2, <1>4, <1>5, <1>r DEF Room
<1>7. /\ SameRace(new, room) /\ new.members = m /\ new.ais = room.ais
      /\ new.closed = room.closed /\ new.master = room.master /\ new.positions = pos
    BY <1>5, <1>r DEF Room, SameRace
<1>8. SameUsers(new, room)
    BY <1>1, <1>7 DEF SameUsers
<1>9. Sound(new)
    BY <1>r, <1>6, <1>7, <1>8, SeatsMoved DEF SameUsers, RaceSound
<1> QED
    BY <1>1, <1>7, <1>8, <1>9 DEF LobbyMove, pos, new

LEMMA MasterMoves ==
    ASSUME NEW room, Sound(room), NEW next \in Racers(room)
    PROVE  LET new == MasterChanged(room, next)
           IN /\ LobbyMove(new, room)
              /\ new.ais = room.ais /\ new.closed = room.closed /\ new.master = next
              /\ new.positions = room.positions
              /\ \A p \in DOMAIN room.members :
                    /\ new.members[p].team = room.members[p].team
                    /\ new.members[p].ranking = room.members[p].ranking
<1> DEFINE new == MasterChanged(room, next)
           m == [room.members EXCEPT ![room.master].ready = FALSE, ![next].ready = FALSE]
<1>r. /\ room \in Room /\ RaceSound(room) /\ room.members \in Maps(Players, Member)
      /\ room.members \in [DOMAIN room.members -> Member] /\ DOMAIN room.members \subseteq Players
    <2>1. room \in Room /\ RaceSound(room) /\ room.members \in Maps(Players, Member)
        BY DEF Sound, Room
    <2> QED BY <2>1, MapIs
<1>p. next \in Players
    BY <1>r DEF Racers
<1>1. /\ m \in [DOMAIN room.members -> Member]
      /\ \A p \in DOMAIN room.members :
            /\ m[p].user = room.members[p].user /\ m[p].team = room.members[p].team
            /\ m[p].ranking = room.members[p].ranking
    BY <1>r DEF Member
<1>2. m \in Maps(Players, Member)
    <2> HIDE DEF m
    <2> QED BY <1>1, <1>r, MapIs
<1>5. new = [room EXCEPT !.members = m, !.master = next]
    BY <1>r DEF MasterChanged, Room
<1> HIDE DEF m, new
<1>6. new \in Room
    BY <1>2, <1>p, <1>5, <1>r DEF Room
<1>7. /\ SameRace(new, room) /\ new.members = m /\ new.ais = room.ais
      /\ new.closed = room.closed /\ new.master = next /\ new.positions = room.positions
    BY <1>5, <1>r DEF Room, SameRace
<1>8. SameUsers(new, room)
    BY <1>1, <1>7 DEF SameUsers
<1>9. Sound(new)
    BY <1>r, <1>6, <1>7, <1>8, SeatsMoved DEF SameUsers, RaceSound
<1> QED
    BY <1>1, <1>7, <1>8, <1>9 DEF LobbyMove, new

LEMMA AiLeaves ==
    ASSUME NEW room, Sound(room), NEW player
    PROVE  LET new == WithoutAi(room, player)
           IN /\ LobbyMove(new, room)
              /\ new.members = room.members /\ new.closed = room.closed
              /\ new.master = room.master /\ new.ais = Drop(room.ais, {player})
              /\ new.positions = Drop(room.positions, {s \in DOMAIN room.positions :
                                                          room.positions[s] = player})
<1> DEFINE new == WithoutAi(room, player)
           a == Drop(room.ais, {player})
           left == {s \in DOMAIN room.positions : room.positions[s] = player}
           pos == Drop(room.positions, left)
<1>r. /\ room \in Room /\ RaceSound(room) /\ room.positions \in Maps(Seats, Seats)
      /\ room.ais \in Maps(Seats, Teams)
    BY DEF Sound, Room
<1>1. a \in Maps(Seats, Teams) /\ DOMAIN a \subseteq DOMAIN room.ais
    <2>1. a \in Maps(Seats, Teams)
        BY <1>r, Dropping
    <2>2. DOMAIN a = DOMAIN room.ais \ {player}
        BY DEF Drop
    <2> HIDE DEF a
    <2> QED BY <2>1, <2>2
<1>2. pos \in Maps(Seats, Seats)
    BY <1>r, Dropping
<1>3. new = [room EXCEPT !.ais = a, !.positions = pos]
    BY <1>r DEF WithoutAi, Room
<1> HIDE DEF a, pos, new
<1>6. new \in Room
    BY <1>1, <1>2, <1>3, <1>r DEF Room
<1>7. /\ SameRace(new, room) /\ new.members = room.members /\ new.ais = a
      /\ new.closed = room.closed /\ new.master = room.master /\ new.positions = pos
    BY <1>3, <1>r DEF Room, SameRace
<1>8. SameUsers(new, room)
    BY <1>7 DEF SameUsers
<1>9. Sound(new)
    BY <1>r, <1>1, <1>6, <1>7, SeatsMoved DEF RaceSound
<1> QED
    BY <1>7, <1>8, <1>9 DEF LobbyMove, new, a, pos

LEMMA AiComes ==
    ASSUME NEW room, Sound(room), NEW team \in Teams, CanAddAi(room, team)
    PROVE  LET new == WithAi(room, team)
           IN /\ LobbyMove(new, room)
              /\ new.members = room.members /\ new.closed = room.closed
              /\ new.master = room.master
              /\ new.ais = Put(room.ais, Min(Vacant(room)), team)
              /\ new.positions =
                    Put(room.positions, Min(OpenSlots(room, team)), Min(Vacant(room)))
<1> DEFINE new == WithAi(room, team)
           player == Min(Vacant(room))
           slot == Min(OpenSlots(room, team))
           a == Put(room.ais, player, team)
           pos == Put(room.positions, slot, player)
<1>r. /\ room \in Room /\ RaceSound(room) /\ room.positions \in Maps(Seats, Seats)
      /\ room.ais \in Maps(Seats, Teams)
    BY DEF Sound, Room
<1>1. player \in Seats /\ player \notin DOMAIN room.members
    BY LeastVacant DEF CanAddAi, Vacant
<1>2. slot \in Seats
    BY LeastOpenSlot DEF CanAddAi
<1>3. new = [room EXCEPT !.ais = a, !.positions = pos]
    BY DEF WithAi
<1> HIDE DEF player, slot
<1>4. a \in Maps(Seats, Teams) /\ DOMAIN a = DOMAIN room.ais \cup {player}
    <2>1. a \in Maps(Seats, Teams)
        BY <1>r, <1>1, Putting
    <2>2. DOMAIN a = DOMAIN room.ais \cup {player}
        BY DEF Put
    <2> QED BY <2>1, <2>2
<1>5. pos \in Maps(Seats, Seats)
    BY <1>r, <1>1, <1>2, Putting
<1> HIDE DEF a, pos, new
<1>6. new \in Room
    BY <1>3, <1>4, <1>5, <1>r DEF Room
<1>7. /\ SameRace(new, room) /\ new.members = room.members /\ new.ais = a
      /\ new.closed = room.closed /\ new.master = room.master /\ new.positions = pos
    BY <1>3, <1>r DEF Room, SameRace
<1>8. SameUsers(new, room)
    BY <1>7 DEF SameUsers
<1>9. Sound(new)
    BY <1>r, <1>1, <1>4, <1>6, <1>7, SeatsMoved DEF RaceSound
<1> QED
    BY <1>7, <1>8, <1>9 DEF LobbyMove, new, a, pos, player, slot

\* Each blocked seat comes with a slot of its own.
LEMMA PairsMatch ==
    ASSUME NEW room, NEW pairs \in SlotPairs(room)
    PROVE  /\ \A x \in pairs : x[1] \in Seats /\ x[2] \in Seats /\ x = <<x[1], x[2]>>
           /\ \A x, y \in pairs : x[1] = y[1] \/ x[2] = y[2] => x = y
<1>1. CASE InTeams(room)
    <2>1. PICK x \in Seats \X Seats \X Seats \X Seats :
              x[1] < x[3] /\ x[2] # x[4] /\ pairs = {<<x[1], x[2]>>, <<x[3], x[4]>>}
        BY <1>1 DEF SlotPairs
    <2>2. x[1] \in Seats /\ x[2] \in Seats /\ x[3] \in Seats /\ x[4] \in Seats
        OBVIOUS
    <2>3. ASSUME NEW i \in Seats, NEW j \in Seats, i < j PROVE i # j
        BY <2>3, SeatNumbers
    <2>4. x[1] # x[3]
        BY <2>1, <2>2, <2>3
    <2> QED BY <2>1, <2>2, <2>4
<1>2. CASE ~InTeams(room)
    <2>1. PICK x \in Seats \X Seats : pairs = {x}
        BY <1>2 DEF SlotPairs
    <2> QED BY <2>1
<1> QED
    BY <1>1, <1>2

LEMMA SeatsClose ==
    ASSUME NEW room, Sound(room), NEW pairs \in SlotPairs(room), Closable(room, pairs)
    PROVE  LET new == Closed(room, pairs)
               players == {pair[1] : pair \in pairs}
               slots == {pair[2] : pair \in pairs}
           IN /\ LobbyMove(new, room)
              /\ new.members = room.members /\ new.ais = room.ais /\ new.master = room.master
              /\ DOMAIN new.closed = DOMAIN room.closed \cup players
              /\ DOMAIN new.positions = DOMAIN room.positions \cup slots
              /\ \A x \in pairs : new.closed[x[1]] = x[2] /\ new.positions[x[2]] = x[1]
              /\ \A p \in DOMAIN room.closed : p \notin players => new.closed[p] = room.closed[p]
              /\ \A s \in DOMAIN room.positions : new.positions[s] = room.positions[s]
<1> DEFINE new == Closed(room, pairs)
           players == {pair[1] : pair \in pairs}
           slots == {pair[2] : pair \in pairs}
           slotOf(p) == CHOOSE s \in Seats : <<p, s>> \in pairs
           playerOf(s) == CHOOSE p \in players : <<p, s>> \in pairs
           cl == [p \in DOMAIN room.closed \cup players |->
                    IF p \in players THEN slotOf(p) ELSE room.closed[p]]
           pos == [s \in DOMAIN room.positions \cup slots |->
                     IF s \in DOMAIN room.positions THEN room.positions[s] ELSE playerOf(s)]
<1>r. /\ room \in Room /\ RaceSound(room)
      /\ room.positions \in [DOMAIN room.positions -> Seats] /\ DOMAIN room.positions \subseteq Seats
      /\ room.closed \in [DOMAIN room.closed -> Seats] /\ DOMAIN room.closed \subseteq Seats
    <2>1. room \in Room /\ RaceSound(room) /\ room.positions \in Maps(Seats, Seats)
            /\ room.closed \in Maps(Seats, Seats)
        BY DEF Sound, Room
    <2> QED BY <2>1, MapIs
<1>1. \A x \in pairs : x[1] \in Seats /\ x[2] \in Seats /\ x = <<x[1], x[2]>>
    BY PairsMatch
<1>2. ASSUME NEW x \in pairs PROVE slotOf(x[1]) = x[2] /\ playerOf(x[2]) = x[1]
    <2>1. <<x[1], slotOf(x[1])>> \in pairs
        BY <1>1
    <2>2. <<playerOf(x[2]), x[2]>> \in pairs
        BY <1>1
    <2> HIDE DEF slotOf, playerOf
    <2>3. <<x[1], slotOf(x[1])>> = x
        BY <2>1, PairsMatch
    <2>4. <<playerOf(x[2]), x[2]>> = x
        BY <2>2, PairsMatch
    <2> QED BY <2>3, <2>4
<1>3. \A x \in pairs : x[2] \notin DOMAIN room.positions
    BY DEF Closable
<1>4. new = [room EXCEPT !.closed = cl, !.positions = pos]
    BY DEF Closed
<1> HIDE DEF slotOf, playerOf
<1>5. cl \in [DOMAIN room.closed \cup players -> Seats]
    BY <1>r, <1>1, <1>2
<1>6. pos \in [DOMAIN room.positions \cup slots -> Seats]
    BY <1>r, <1>1, <1>2
<1>7. \A x \in pairs : cl[x[1]] = x[2] /\ pos[x[2]] = x[1]
    BY <1>2, <1>3
<1>8. /\ \A p \in DOMAIN room.closed : p \notin players => cl[p] = room.closed[p]
      /\ \A s \in DOMAIN room.positions : pos[s] = room.positions[s]
    OBVIOUS
<1>d. DOMAIN cl = DOMAIN room.closed \cup players
        /\ DOMAIN pos = DOMAIN room.positions \cup slots
    OBVIOUS
<1>9. players \subseteq Seats /\ slots \subseteq Seats
    BY <1>1
<1> HIDE DEF cl, pos, players, slots, new
<1>10. cl \in Maps(Seats, Seats) /\ pos \in Maps(Seats, Seats)
    BY <1>r, <1>5, <1>6, <1>9, <1>d, MapIs
<1>11. new \in Room
    BY <1>4, <1>10, <1>r DEF Room
<1>12. /\ SameRace(new, room) /\ new.members = room.members /\ new.ais = room.ais
       /\ new.closed = cl /\ new.master = room.master /\ new.positions = pos
    BY <1>4, <1>r DEF Room, SameRace
<1>13. SameUsers(new, room)
    BY <1>12 DEF SameUsers
<1>14. Sound(new)
    BY <1>r, <1>11, <1>12, SeatsMoved DEF RaceSound
<1> QED
    BY <1>7, <1>8, <1>d, <1>12, <1>13, <1>14 DEF LobbyMove, new, players, slots

LEMMA SeatsOpen ==
    ASSUME NEW room, Sound(room), NEW pairs
    PROVE  LET new == Opened(room, pairs)
           IN /\ LobbyMove(new, room)
              /\ new.members = room.members /\ new.ais = room.ais /\ new.master = room.master
              /\ new.closed = Drop(room.closed, {pair[1] : pair \in pairs})
              /\ new.positions = Drop(room.positions, {pair[2] : pair \in pairs})
<1> DEFINE new == Opened(room, pairs)
           cl == Drop(room.closed, {pair[1] : pair \in pairs})
           pos == Drop(room.positions, {pair[2] : pair \in pairs})
<1>r. /\ room \in Room /\ RaceSound(room) /\ room.positions \in Maps(Seats, Seats)
      /\ room.closed \in Maps(Seats, Seats)
    BY DEF Sound, Room
<1>1. cl \in Maps(Seats, Seats)
    BY <1>r, Dropping
<1>2. pos \in Maps(Seats, Seats)
    BY <1>r, Dropping
<1>3. new = [room EXCEPT !.closed = cl, !.positions = pos]
    BY DEF Opened
<1> HIDE DEF cl, pos, new
<1>6. new \in Room
    BY <1>1, <1>2, <1>3, <1>r DEF Room
<1>7. /\ SameRace(new, room) /\ new.members = room.members /\ new.ais = room.ais
      /\ new.closed = cl /\ new.master = room.master /\ new.positions = pos
    BY <1>3, <1>r DEF Room, SameRace
<1>8. SameUsers(new, room)
    BY <1>7 DEF SameUsers
<1>9. Sound(new)
    BY <1>r, <1>6, <1>7, SeatsMoved DEF RaceSound
<1> QED
    BY <1>7, <1>8, <1>9 DEF LobbyMove, new, cl, pos

--------------------------------------------------------------------------------
(* Riders come and go.                                                      *)

LEMMA FewerThanSeats ==
    ASSUME NEW S \in SUBSET Seats, NEW x \in Seats, x \notin S
    PROVE  IsFiniteSet(S) /\ Cardinality(S) \in 0 .. Slots - 1
<1>1. Slots \in Nat /\ Slots >= 2
    BY RoomConstants
<1>2. IsFiniteSet(S) /\ IsFiniteSet(Seats \ {x})
    BY SeatNumbers, FS_Subset
<1>3. Cardinality(Seats) = Slots
    <2>1. Cardinality(0 .. Slots - 1) = Slots - 1 - 0 + 1
        BY <1>1, FS_Interval, SMT
    <2> QED BY <1>1, <2>1 DEF Seats
<1>4. Cardinality(Seats \ {x}) = Slots - 1
    BY <1>1, <1>3, SeatNumbers, FS_RemoveElement
<1>5. Cardinality(S) =< Cardinality(Seats \ {x})
    <2>1. S \subseteq Seats \ {x}
        OBVIOUS
    <2> QED BY <1>2, <2>1, FS_Subset
<1>6. Cardinality(S) \in Nat
    BY <1>2, FS_CardinalityType
<1> QED
    BY <1>1, <1>2, <1>4, <1>5, <1>6

LEMMA TeamNumbers ==
    /\ NoTeam \in Teams /\ Red \in Teams /\ Blue \in Teams
    /\ NoTeam # Red /\ NoTeam # Blue /\ Red # Blue
BY DEF Teams, NoTeam, Red, Blue

LEMMA AdmissionTeamIs ==
    ASSUME NEW room
    PROVE  /\ AdmissionTeam(room) \in Teams
           /\ AdmissionTeam(room) = NoTeam <=> ~InTeams(room)
<1>1. CASE ~InTeams(room)
    BY <1>1, TeamNumbers DEF AdmissionTeam
<1>2. CASE InTeams(room)
    <2>1. AdmissionTeam(room) \in {Red, Blue}
        BY <1>2, TeamNumbers DEF AdmissionTeam, Opponent
    <2> QED BY <1>2, <2>1, TeamNumbers
<1> QED
    BY <1>1, <1>2

LEMMA ObserverAdmitted ==
    ASSUME NEW room, Sound(room), NEW u \in Riders, Observes(u), CanAdmit(room, u)
    PROVE  LET new == Admitted(room, u)
               player == Min(VacantGalleries(room))
           IN /\ Sound(new) /\ SameRace(new, room)
              /\ player \in Galleries \ DOMAIN room.members
              /\ new.members = Put(room.members, player, Newcomer(u, NoTeam, 0))
              /\ new.ais = room.ais /\ new.closed = room.closed
              /\ new.positions = room.positions
              /\ new.master = IF u \in Referees THEN player ELSE room.master
<1> DEFINE new == Admitted(room, u)
           player == Min(VacantGalleries(room))
           member == Newcomer(u, NoTeam, 0)
           m == Put(room.members, player, member)
           master == IF u \in Referees THEN player ELSE room.master
<1>r. room \in Room /\ RaceSound(room) /\ room.members \in Maps(Players, Member)
        /\ room.ais \in Maps(Seats, Teams)
    BY DEF Sound, Room
<1>1. player \in Galleries \ DOMAIN room.members
    BY LeastVacant DEF CanAdmit, VacantGalleries
<1>2. member \in Member
    <2>1. 0 \in 0 .. Slots - 1
        BY SeatNumbers DEF Seats
    <2> QED BY <2>1, TeamNumbers DEF Newcomer, Member
<1>3. new = [room EXCEPT !.members = m, !.master = master]
    BY DEF Admitted
<1> HIDE DEF player, member
<1>4. m \in Maps(Players, Member)
    BY <1>r, <1>1, <1>2, Putting DEF Players
<1>5. DOMAIN m = DOMAIN room.members \cup {player}
    BY DEF Put
<1>6. master \in Players \cup {-1}
    BY <1>r, <1>1 DEF Room, Players
<1> HIDE DEF m, master, new
<1>7. new \in Room
    BY <1>3, <1>4, <1>6, <1>r DEF Room
<1>8. /\ SameRace(new, room) /\ new.members = m /\ new.ais = room.ais
      /\ new.closed = room.closed /\ new.master = master /\ new.positions = room.positions
    BY <1>3, <1>r DEF Room, SameRace
<1>9. DOMAIN new.ais \cap DOMAIN new.members = {}
    <2>1. DOMAIN room.ais \subseteq Seats
        BY <1>r, MapIs
    <2> QED BY <1>r, <1>1, <1>5, <1>8, <2>1, SeatNumbers DEF RaceSound
<1>10. Sound(new)
    BY <1>7, <1>8, <1>9, SeatsMoved
<1> QED
    BY <1>1, <1>8, <1>10 DEF new, player, member, m, master

LEMMA RacerAdmitted ==
    ASSUME NEW room, Sound(room), NEW u \in Riders, ~Observes(u), CanAdmit(room, u)
    PROVE  LET new == Admitted(room, u)
               player == Min(Vacant(room))
               team == AdmissionTeam(room)
           IN /\ Sound(new) /\ SameRace(new, room)
              /\ player \in Vacant(room) /\ OpenSlots(room, team) # {}
              /\ new.members = Put(room.members, player, Newcomer(u, team, JoinRanking(room)))
              /\ new.ais = room.ais /\ new.closed = room.closed
              /\ new.positions = Put(room.positions, Min(OpenSlots(room, team)), player)
              /\ new.master = IF room.master \in DOMAIN room.members THEN room.master ELSE player
<1> DEFINE new == Admitted(room, u)
           player == Min(Vacant(room))
           team == AdmissionTeam(room)
           slot == Min(OpenSlots(room, team))
           member == Newcomer(u, team, JoinRanking(room))
           m == Put(room.members, player, member)
           pos == Put(room.positions, slot, player)
           master == IF room.master \in DOMAIN room.members THEN room.master ELSE player
<1>r. room \in Room /\ RaceSound(room) /\ room.members \in Maps(Players, Member)
        /\ room.positions \in Maps(Seats, Seats) /\ room.master \in Players \cup {-1}
    BY DEF Sound, Room
<1>1. player \in Vacant(room) /\ OpenSlots(room, team) # {}
    BY LeastVacant DEF CanAdmit
<1>p. player \in Seats /\ player \notin DOMAIN room.members /\ player \notin DOMAIN room.ais
        /\ player \in Players
    BY <1>1 DEF Vacant, Players
<1>s. slot \in Seats
    BY <1>1, LeastOpenSlot
<1>2. member \in Member
    <2>1. JoinRanking(room) \in 0 .. Slots - 1
        BY <1>p, FewerThanSeats DEF JoinRanking, Racers
    <2> QED BY <2>1, AdmissionTeamIs DEF Newcomer, Member
<1>3. new = [room EXCEPT !.members = m, !.positions = pos, !.master = master]
    <2>1. new = [room EXCEPT !.members = m, !.positions = pos,
                             !.master = IF @ \in DOMAIN room.members THEN @ ELSE player]
        BY DEF Admitted
    <2> HIDE DEF m, pos, new, player
    <2> QED BY <2>1, <1>r DEF Room
<1> HIDE DEF player, member, slot
<1>4. m \in Maps(Players, Member)
    BY <1>r, <1>p, <1>2, Putting
<1>5. DOMAIN m = DOMAIN room.members \cup {player}
    BY DEF Put
<1>6. master \in Players \cup {-1}
    BY <1>r, <1>p
<1>7. pos \in Maps(Seats, Seats)
    BY <1>r, <1>p, <1>s, Putting
<1> HIDE DEF m, master, pos, new
<1>8. new \in Room
    BY <1>3, <1>4, <1>6, <1>7, <1>r DEF Room
<1>9. /\ SameRace(new, room) /\ new.members = m /\ new.ais = room.ais
      /\ new.closed = room.closed /\ new.master = master /\ new.positions = pos
    BY <1>3, <1>r DEF Room, SameRace
<1>10. DOMAIN new.ais \cap DOMAIN new.members = {}
    BY <1>r, <1>p, <1>5, <1>9 DEF RaceSound
<1>11. Sound(new)
    BY <1>8, <1>9, <1>10, SeatsMoved
<1> QED
    BY <1>1, <1>9, <1>11 DEF new, player, member, m, master, pos, slot

\* Where a rider sits.
LEMMA SeatOf ==
    ASSUME NEW room, NEW u \in Occupants(room)
    PROVE  PlayerOf(room, u) \in DOMAIN room.members
           /\ room.members[PlayerOf(room, u)].user = u
BY DEF Occupants, PlayerOf

\* Who is ahead of p among the racers S.
Ahead(m, S, p) ==
    {o \in S : \/ m[o].ranking < m[p].ranking
               \/ m[o].ranking = m[p].ranking /\ o < p}

\* What is left of a room and its riders when a player id is given up.
Vacated(new, room, player) ==
    LET left == DOMAIN room.members \ {player}
    IN /\ Sound(new) /\ SameRace(new, room)
       /\ DOMAIN new.members = left
       /\ \A p \in left : /\ new.members[p].user = room.members[p].user
                          /\ new.members[p].team = room.members[p].team
       /\ \A p \in left : new.members[p].ranking =
             IF player \in Seats /\ p \in Seats
             THEN Cardinality(Ahead(room.members, left \cap Seats, p))
             ELSE room.members[p].ranking
       /\ new.ais = room.ais /\ new.closed = room.closed
       /\ new.positions =
             Drop(room.positions, {s \in DOMAIN room.positions : room.positions[s] = player})
       /\ new.master = IF room.master # player THEN room.master
                       ELSE IF left = {} THEN -1 ELSE Min(left)

LEMMA SeatGivenUp ==
    ASSUME NEW room, Sound(room), NEW player
    PROVE  Vacated(Without(room, player), room, player)
<1> DEFINE new == Without(room, player)
           kept == Drop(room.members, {player})
           left == DOMAIN room.members \ {player}
           ahead(q) == {o \in DOMAIN kept \cap Seats :
                          \/ kept[o].ranking < kept[q].ranking
                          \/ kept[o].ranking = kept[q].ranking /\ o < q}
           deposed == room.master = player
           master == IF ~deposed THEN room.master
                     ELSE IF DOMAIN kept = {} THEN -1 ELSE Min(DOMAIN kept)
           m == [q \in DOMAIN kept |->
                   [kept[q] EXCEPT
                      !.ready = @ /\ ~(deposed /\ q = master),
                      !.ranking = IF player \in Seats /\ q \in Seats
                                  THEN Cardinality(ahead(q)) ELSE @]]
           pos == Drop(room.positions, {s \in DOMAIN room.positions :
                                          room.positions[s] = player})
<1>r. /\ room \in Room /\ RaceSound(room) /\ room.master \in Players \cup {-1}
      /\ room.positions \in Maps(Seats, Seats)
      /\ room.members \in [DOMAIN room.members -> Member] /\ DOMAIN room.members \subseteq Players
    <2>1. room \in Room /\ RaceSound(room) /\ room.members \in Maps(Players, Member)
            /\ room.positions \in Maps(Seats, Seats) /\ room.master \in Players \cup {-1}
        BY DEF Sound, Room
    <2> QED BY <2>1, MapIs
<1>k. DOMAIN kept = left /\ \A q \in left : kept[q] = room.members[q] /\ kept[q] \in Member
    BY <1>r DEF Drop
<1>1. new = [room EXCEPT !.members = m, !.positions = pos, !.master = master]
    BY DEF Without
<1> HIDE DEF kept, master
<1>2. ASSUME NEW q \in left \cap Seats PROVE Cardinality(ahead(q)) \in 0 .. Slots - 1
    <2>1. q \notin ahead(q)
        <3>1. q \in Int
            <4> HIDE DEF left, m, pos, new, ahead
            <4>1. q \in Seats
                OBVIOUS
            <4>2. Seats \subseteq Nat
                BY SeatNumbers
            <4> QED BY <4>1, <4>2
        <3>2. kept[q] \in Member
            BY <1>k
        <3>3. kept[q].ranking \in Int
            <4> HIDE DEF ahead
            <4> QED BY <3>2, RoomConstants DEF Member
        <3> QED BY <3>1, <3>3
    <2> HIDE DEF ahead
    <2>2. ahead(q) \in SUBSET Seats
        BY DEF ahead
    <2> QED BY <2>1, <2>2, FewerThanSeats
<1>3. ASSUME NEW q \in left
      PROVE  /\ m[q] \in Member /\ m[q].user = room.members[q].user
             /\ m[q].team = room.members[q].team
             /\ m[q].ranking = IF player \in Seats /\ q \in Seats
                               THEN Cardinality(ahead(q)) ELSE room.members[q].ranking
    <2> DEFINE ready == kept[q].ready /\ ~(deposed /\ q = master)
               ranking == IF player \in Seats /\ q \in Seats
                          THEN Cardinality(ahead(q)) ELSE kept[q].ranking
    <2>1. kept[q] \in Member /\ kept[q] = room.members[q]
        BY <1>k
    <2>2. m[q] = [kept[q] EXCEPT !.ready = ready, !.ranking = ranking]
        BY <1>k, <2>1 DEF Member
    <2>3. ready \in BOOLEAN
        OBVIOUS
    <2>4. ranking \in 0 .. Slots - 1
        BY <1>2, <2>1 DEF Member
    <2>5. m[q].ranking = ranking
        <3> HIDE DEF m, ready, ranking
        <3> QED BY <2>1, <2>2 DEF Member
    <2>6. ranking = IF player \in Seats /\ q \in Seats
                    THEN Cardinality(ahead(q)) ELSE room.members[q].ranking
        BY <2>1
    <2> HIDE DEF m, ready, ranking, ahead
    <2> QED BY <2>1, <2>2, <2>3, <2>4, <2>5, <2>6 DEF Member
<1>4. DOMAIN m = left
    BY <1>k
<1>5. ASSUME NEW q \in left PROVE ahead(q) = Ahead(room.members, left \cap Seats, q)
    BY <1>k DEF Ahead
<1>6. master \in Players \cup {-1}
    BY <1>r, <1>k, LeastPlayer DEF master
<1>7. pos \in Maps(Seats, Seats)
    BY <1>r, Dropping
<1>f. m = [q \in DOMAIN m |-> m[q]]
    OBVIOUS
<1> HIDE DEF m, pos, new, ahead
<1>8. m \in Maps(Players, Member)
    BY <1>r, <1>3, <1>4, <1>f, MapIs
<1>9. new \in Room
    BY <1>1, <1>6, <1>7, <1>8, <1>r DEF Room
<1>10. /\ SameRace(new, room) /\ new.members = m /\ new.ais = room.ais
       /\ new.closed = room.closed /\ new.master = master /\ new.positions = pos
    BY <1>1, <1>r DEF Room, SameRace
<1>11. Sound(new)
    BY <1>r, <1>4, <1>9, <1>10, SeatsMoved DEF RaceSound
<1>12. master = IF room.master # player THEN room.master
                ELSE IF left = {} THEN -1 ELSE Min(left)
    BY <1>k DEF master
<1> QED
    BY <1>3, <1>4, <1>5, <1>10, <1>11, <1>12 DEF new, pos, Vacated

--------------------------------------------------------------------------------
(* The end of a race.                                                       *)

LEMMA EntrantsAreSeats ==
    ASSUME NEW room, Sound(room)
    PROVE  /\ Entrants(room) \subseteq Seats /\ IsFiniteSet(Entrants(room))
           /\ \A p : Rank(room, p) \in Nat
<1>1. DOMAIN room.frozen_ais \subseteq Seats
    <2>1. room.frozen_ais \in Maps(Seats, Teams)
        BY DEF Sound, Room
    <2> QED BY <2>1, MapIs
<1>2. Entrants(room) \subseteq Seats
    BY <1>1 DEF Entrants, FrozenRacers
<1>3. IsFiniteSet(Entrants(room))
    BY <1>2, SeatNumbers, FS_Subset
<1>4. ASSUME NEW p PROVE Rank(room, p) \in Nat
    <2>1. {q \in Entrants(room) : Beats(room, q, p)} \subseteq Entrants(room)
        OBVIOUS
    <2>2. IsFiniteSet({q \in Entrants(room) : Beats(room, q, p)})
        BY <1>3, <2>1, FS_Subset
    <2> QED BY <2>2, FS_CardinalityType DEF Rank
<1> QED
    BY <1>2, <1>3, <1>4

LEMMA BestOf ==
    ASSUME NEW room, Sound(room), NEW S \in SUBSET Seats, S # {}
    PROVE  (CHOOSE p \in S : \A q \in S : Rank(room, p) <= Rank(room, q)) \in S
<1> DEFINE ranks == {Rank(room, p) : p \in S}
<1>1. ranks \in SUBSET Nat /\ ranks # {}
    BY EntrantsAreSeats
<1>2. IsFiniteSet(ranks)
    <2>1. IsFiniteSet(S)
        BY SeatNumbers, FS_Subset
    <2> DEFINE f == [p \in S |-> Rank(room, p)]
    <2>2. f \in Surjection(S, ranks)
        BY DEF Surjection
    <2> HIDE DEF f, ranks
    <2> QED BY <2>1, <2>2, FS_Surjection
<1>3. Min(ranks) \in ranks /\ \A x \in ranks : Min(ranks) =< x
    <2> HIDE DEF ranks
    <2> QED BY <1>1, <1>2, MinExists
<1>4. PICK p \in S : Rank(room, p) = Min(ranks)
    BY <1>3
<1>5. \A q \in S : Rank(room, p) <= Rank(room, q)
    BY <1>3, <1>4
<1> QED
    BY <1>5

\* Who of S did better than p.
Better(room, S, p) == {q \in S : Rank(room, q) < Rank(room, p)}

LEMMA RaceSettled ==
    ASSUME NEW room, Sound(room)
    PROVE  LET new == Settled(room)
               stayed == Racers(room) \cap Entrants(room)
           IN /\ Sound(new) /\ SameUsers(new, room)
              /\ new.fence = 0 /\ new.phase = "lobby" /\ new.finish = << >>
              /\ new.channel = room.channel
              /\ \A p \in DOMAIN room.members :
                    /\ new.members[p].team = room.members[p].team
                    /\ new.members[p].ranking =
                          IF p \in stayed
                          THEN Cardinality(Better(room, stayed, p))
                          ELSE room.members[p].ranking
              /\ new.ais = room.ais /\ new.closed = room.closed
              /\ new.positions = room.positions
              /\ new.master = room.master \/ new.master \in Racers(room)
<1> DEFINE stayed == Racers(room) \cap Entrants(room)
           ahead(p) == Better(room, stayed, p)
           m == NextGrid(room)
           rested == [p \in DOMAIN m |-> [m[p] EXCEPT !.ready = FALSE]]
           master == NextLobbyMaster(room)
           old == [room EXCEPT !.members = m, !.master = master]
           new == Settled(room)
<1>r. /\ room \in Room /\ RaceSound(room) /\ room.master \in Players \cup {-1}
      /\ room.members \in [DOMAIN room.members -> Member] /\ DOMAIN room.members \subseteq Players
    <2>1. room \in Room /\ RaceSound(room) /\ room.members \in Maps(Players, Member)
            /\ room.master \in Players \cup {-1}
        BY DEF Sound, Room
    <2> QED BY <2>1, MapIs
<1>1. ASSUME NEW p \in stayed PROVE Cardinality(ahead(p)) \in 0 .. Slots - 1
    <2>1. p \notin ahead(p)
        <3>1. Rank(room, p) \in Nat
            BY EntrantsAreSeats
        <3> QED BY <3>1 DEF Better
    <2>2. ahead(p) \in SUBSET Seats /\ p \in Seats
        BY DEF Racers, Better
    <2> HIDE DEF ahead
    <2> QED BY <2>1, <2>2, FewerThanSeats
<1>2. DOMAIN m = DOMAIN room.members /\ m = [p \in DOMAIN m |-> m[p]]
    BY DEF NextGrid
<1>3. ASSUME NEW p \in DOMAIN room.members
      PROVE  /\ m[p] \in Member /\ m[p].user = room.members[p].user
             /\ m[p].team = room.members[p].team
             /\ m[p].ranking = IF p \in stayed THEN Cardinality(ahead(p))
                               ELSE room.members[p].ranking
    <2>1. room.members[p] \in Member
        BY <1>r
    <2>2. CASE p \in stayed
        <3>1. m[p] = [room.members[p] EXCEPT !.ranking = Cardinality(ahead(p))]
            BY <2>2 DEF NextGrid, Better
        <3>2. Cardinality(ahead(p)) \in 0 .. Slots - 1
            BY <1>1, <2>2
        <3> HIDE DEF m, stayed
        <3> QED BY <2>1, <2>2, <3>1, <3>2 DEF Member
    <2>3. CASE p \notin stayed
        <3>1. m[p] = room.members[p]
            BY <2>3 DEF NextGrid
        <3> HIDE DEF m
        <3> QED BY <2>1, <2>3, <3>1
    <2> QED BY <2>2, <2>3
<1>4. master = room.master \/ master \in Racers(room)
    <2> DEFINE heirs == {p \in stayed : InTeams(room) => TeamOf(room, p) = WinningTeam(room)}
    <2>1. \/ master = room.master
          \/ heirs # {} /\ master = CHOOSE p \in heirs :
                                        \A q \in heirs : Rank(room, p) <= Rank(room, q)
        BY DEF NextLobbyMaster
    <2>2. heirs \in SUBSET Seats /\ heirs \subseteq Racers(room)
        BY DEF Racers
    <2> HIDE DEF heirs, master
    <2> QED BY <2>1, <2>2, BestOf
<1>5. new = Unraced(old)
    BY DEF Settled
<1> HIDE DEF m, master, stayed
<1>6. m \in Maps(Players, Member)
    BY <1>r, <1>2, <1>3, MapIs
<1>7. master \in Players \cup {-1}
    BY <1>r, <1>4 DEF Racers
<1> HIDE DEF old, new
<1>8. old \in Room
    BY <1>r, <1>6, <1>7 DEF old, Room
<1>9. /\ SameRace(old, room) /\ old.members = m /\ old.ais = room.ais
      /\ old.closed = room.closed /\ old.master = master /\ old.positions = room.positions
    BY <1>r DEF old, Room, SameRace
<1>10. Sound(old)
    BY <1>r, <1>2, <1>8, <1>9, SeatsMoved DEF RaceSound
<1>11. /\ Sound(new) /\ SameUsers(new, old) /\ new.fence = 0 /\ new.phase = "lobby"
       /\ new.finish = << >>
    BY <1>5, <1>10, UnracedFacts
<1>12. /\ new.members = rested /\ new.ais = old.ais /\ new.closed = old.closed
       /\ new.master = old.master /\ new.positions = old.positions
       /\ new.channel = old.channel
    BY <1>5, <1>8, <1>9 DEF Unraced, Room
<1>13. ASSUME NEW p \in DOMAIN room.members
       PROVE  /\ new.members[p].team = room.members[p].team
              /\ new.members[p].ranking = IF p \in stayed THEN Cardinality(ahead(p))
                                          ELSE room.members[p].ranking
    <2>1. new.members[p] = [m[p] EXCEPT !.ready = FALSE]
        BY <1>2, <1>12
    <2>2. m[p] \in Member
        BY <1>3
    <2>3. new.members[p].team = m[p].team /\ new.members[p].ranking = m[p].ranking
        BY <2>1, <2>2 DEF Member
    <2> QED BY <1>3, <2>3
<1>14. SameUsers(new, room)
    BY <1>2, <1>3, <1>9, <1>11 DEF SameUsers
<1> HIDE DEF rested
<1>15. new.channel = room.channel
    BY <1>9, <1>12 DEF SameRace
<1> QED
    BY <1>4, <1>9, <1>11, <1>12, <1>13, <1>14, <1>15 DEF new, stayed, master

--------------------------------------------------------------------------------
(* What a turn does to the tables.                                          *)

\* rs has new in room r and is old elsewhere.
Placed(rs, old, r, new) ==
    /\ DOMAIN rs = DOMAIN old \cup {r} /\ rs[r] = new
    /\ \A q \in DOMAIN old : q # r => rs[q] = old[q]

LEMMA Placing ==
    ASSUME NEW rs, NEW r, NEW new
    PROVE  /\ Placed(Put(rs, r, new), rs, r, new)
           /\ r \in DOMAIN rs => Placed([rs EXCEPT ![r] = new], rs, r, new)
BY DEF Placed, Put

\* Other identities, the same rooms.
LEMMA Reidentified ==
    ASSUME NEW rs, NEW who, NEW where, NEW lanes, NEW next, Mid(rs, who, where, lanes, next),
           NEW others \in IdentityTable
    PROVE  Mid(rs, others, where, lanes, next)
BY DEF Mid

\* A room changes and keeps its riders and its roster.
LEMMA Replacing ==
    ASSUME NEW rs, NEW who, NEW where, NEW lanes, NEW next, Mid(rs, who, where, lanes, next),
           NEW r \in DOMAIN rs, NEW new, Sound(new), SameUsers(new, rs[r]),
           SameRoster(new, rs[r]),
           rs[r].phase \in {"running", "settling"} => new.phase \in {"running", "settling"}
    PROVE  Mid([rs EXCEPT ![r] = new], who, where, lanes, next)
<1> DEFINE after == [rs EXCEPT ![r] = new]
<1>1. Placed(after, rs, r, new) /\ DOMAIN after = DOMAIN rs
    BY Placing
<1> HIDE DEF after
<1>2. \A q \in DOMAIN rs : SameUsers(after[q], rs[q]) /\ SameRoster(after[q], rs[q])
    BY <1>1 DEF Placed, SameUsers, SameRoster
<1>3. \A q \in DOMAIN rs : Sound(after[q])
    BY <1>1 DEF Placed, Mid
<1>4. Houses(after, where)
    <2>1. Houses(rs, where)
        BY DEF Mid
    <2>2. ASSUME NEW q \in DOMAIN rs
          PROVE  /\ \A p \in DOMAIN after[q].members : where[after[q].members[p].user] = q
                 /\ \A p, s \in DOMAIN after[q].members :
                       after[q].members[p].user = after[q].members[s].user => p = s
        BY <1>2, <2>1 DEF Houses, SameUsers
    <2>3. ASSUME NEW q \in DOMAIN rs, DOMAIN after[q].members = {}
          PROVE  after[q].phase \in {"running", "settling"}
        <3>1. rs[q].phase \in {"running", "settling"}
            BY <1>2, <2>1, <2>3 DEF Houses, SameUsers
        <3> QED BY <1>1, <3>1 DEF Placed
    <2>4. \A q \in DOMAIN rs : Occupants(after[q]) = Occupants(rs[q])
        BY <1>2 DEF SameUsers, Occupants
    <2> QED BY <1>1, <2>1, <2>2, <2>3, <2>4 DEF Houses
<1>5. \A q \in DOMAIN rs : after[q].fence = rs[q].fence /\ FrozenRacers(after[q]) = FrozenRacers(rs[q])
    BY <1>2 DEF SameRoster, FrozenRacers
<1>6. Lanes(after, lanes)
    <2>1. Lanes(rs, lanes)
        BY DEF Mid
    <2> QED BY <1>1, <1>5, <2>1 DEF Lanes
<1> QED
    BY <1>1, <1>3, <1>4, <1>5, <1>6 DEF Mid, after

\* A rider enters a room that is there, or that is opened for him.
LEMMA Entering ==
    ASSUME NEW rs, NEW who, NEW where, NEW lanes, NEW next, Mid(rs, who, where, lanes, next),
           NEW u \in Riders, where[u] = 0, NEW r \in RoomIds, NEW old, NEW new,
           r \in DOMAIN rs => old = rs[r],
           r \notin DOMAIN rs => DOMAIN old.members = {} /\ old.fence = 0,
           Sound(new), SameRace(new, old), NEW player, player \notin DOMAIN old.members,
           NEW member, member.user = u, new.members = Put(old.members, player, member),
           NEW after, Placed(after, rs, r, new), next >= 1
    PROVE  Mid(after, who, [where EXCEPT ![u] = r], lanes, next)
<1> DEFINE there == [where EXCEPT ![u] = r]
<1>1. /\ DOMAIN rs \subseteq RoomIds /\ where \in [Riders -> 0 .. MaxRoom]
      /\ Houses(rs, where) /\ Lanes(rs, lanes) /\ \A q \in DOMAIN rs : rs[q].fence < next
      /\ \A q \in DOMAIN rs : Sound(rs[q])
    BY DEF Mid
<1>2. there \in [Riders -> 0 .. MaxRoom] /\ there[u] = r /\ r # 0
      /\ \A v \in Riders : v # u => there[v] = where[v]
    BY <1>1, RoomConstants DEF RoomIds
<1> HIDE DEF there
<1>3. /\ DOMAIN new.members = DOMAIN old.members \cup {player}
      /\ new.members[player].user = u
      /\ \A p \in DOMAIN old.members : new.members[p] = old.members[p]
    BY DEF Put
<1>4. \A q \in DOMAIN rs : \A p \in DOMAIN rs[q].members : rs[q].members[p].user \in Riders \ {u}
    <2> TAKE q \in DOMAIN rs
    <2> TAKE p \in DOMAIN rs[q].members
    <2>1. rs[q].members[p] \in Member
        BY <1>1, RoomFields
    <2>2. where[rs[q].members[p].user] = q /\ q # 0
        BY <1>1 DEF Houses, RoomIds
    <2> QED BY <2>1, <2>2 DEF Member
<1>5. Houses(after, there)
    <2>1. ASSUME NEW q \in DOMAIN after
          PROVE  /\ \A p \in DOMAIN after[q].members : there[after[q].members[p].user] = q
                 /\ \A p, s \in DOMAIN after[q].members :
                       after[q].members[p].user = after[q].members[s].user => p = s
                 /\ DOMAIN after[q].members = {} => after[q].phase \in {"running", "settling"}
        <3>1. CASE q # r
            <4>1. q \in DOMAIN rs /\ after[q] = rs[q]
                BY <3>1 DEF Placed
            <4> QED BY <1>1, <1>2, <1>4, <4>1 DEF Houses
        <3>2. CASE q = r
            <4>1. after[q] = new
                BY <3>2 DEF Placed
            <4>2. ASSUME NEW p \in DOMAIN old.members
                  PROVE  /\ new.members[p].user \in Riders \ {u}
                         /\ there[new.members[p].user] = r
                         /\ \A s \in DOMAIN old.members :
                               new.members[p].user = new.members[s].user => p = s
                <5>1. r \in DOMAIN rs /\ old = rs[r]
                    OBVIOUS
                <5> QED BY <1>1, <1>2, <1>3, <1>4, <5>1 DEF Houses
            <4> QED BY <1>2, <1>3, <3>2, <4>1, <4>2
        <3> QED BY <3>1, <3>2
    <2>2. ASSUME NEW v \in Riders, there[v] # 0
          PROVE  there[v] \in DOMAIN after /\ v \in Occupants(after[there[v]])
        <3>1. CASE v = u
            BY <1>2, <1>3, <3>1 DEF Placed, Occupants
        <3>2. CASE v # u
            <4>1. there[v] \in DOMAIN rs /\ v \in Occupants(rs[there[v]])
                BY <1>1, <1>2, <2>2, <3>2 DEF Houses
            <4>2. CASE there[v] = r
                <5>1. v \in Occupants(old) /\ after[there[v]] = new
                    BY <4>1, <4>2 DEF Placed
                <5> QED BY <1>3, <4>2, <5>1 DEF Occupants, Placed
            <4>3. CASE there[v] # r
                BY <4>1, <4>3 DEF Placed
            <4> QED BY <4>2, <4>3
        <3> QED BY <3>1, <3>2
    <2> QED BY <2>1, <2>2 DEF Houses
<1>6. /\ r \notin DOMAIN rs => new.fence = 0
      /\ \A q \in DOMAIN rs : /\ after[q].fence = rs[q].fence
                              /\ FrozenRacers(after[q]) = FrozenRacers(rs[q])
    BY DEF Placed, SameRace, FrozenRacers
<1>7. Lanes(after, lanes)
    <2>1. DOMAIN after = DOMAIN rs \cup {r} /\ after[r] = new
        BY DEF Placed
    <2> QED BY <1>1, <1>6, <2>1 DEF Lanes
<1>8. \A q \in DOMAIN after : after[q].fence < next /\ Sound(after[q])
    <2> TAKE q \in DOMAIN after
    <2>1. CASE q \in DOMAIN rs
        BY <1>1, <1>6, <2>1 DEF Placed
    <2>2. CASE q \notin DOMAIN rs
        <3>1. q = r /\ after[q] = new /\ new.fence = 0
            BY <1>6, <2>2 DEF Placed
        <3>2. next \in Nat
            BY RoomConstants DEF Mid
        <3> QED BY <3>1, <3>2
    <2> QED BY <2>1, <2>2
<1>9. DOMAIN after \subseteq RoomIds
    BY <1>1 DEF Placed
<1> QED
    BY <1>2, <1>5, <1>7, <1>8, <1>9 DEF Mid, there

LEMMA SeatFreed ==
    ASSUME NEW room, Sound(room), NEW player
    PROVE  LET new == Without(room, player)
           IN /\ Sound(new) /\ SameRace(new, room)
              /\ DOMAIN new.members = DOMAIN room.members \ {player}
              /\ \A p \in DOMAIN new.members : new.members[p].user = room.members[p].user
<1> DEFINE new == Without(room, player)
<1>1. Vacated(new, room, player)
    BY SeatGivenUp
<1> HIDE DEF new
<1> QED
    BY <1>1 DEF Vacated, new

\* A rider leaves a room that stays: someone is left, or it races.
LEMMA Leaving ==
    ASSUME NEW rs, NEW who, NEW where, NEW lanes, NEW next, Mid(rs, who, where, lanes, next),
           NEW u \in Riders, where[u] # 0,
           ~Gone(Without(rs[where[u]], PlayerOf(rs[where[u]], u)))
    PROVE  Mid([rs EXCEPT ![where[u]] = Without(rs[where[u]], PlayerOf(rs[where[u]], u))],
               who, [where EXCEPT ![u] = 0], lanes, next)
<1> DEFINE r == where[u]
           player == PlayerOf(rs[r], u)
           new == Without(rs[r], player)
           there == [where EXCEPT ![u] = 0]
           after == [rs EXCEPT ![r] = new]
<1>1. /\ DOMAIN rs \subseteq RoomIds /\ where \in [Riders -> 0 .. MaxRoom]
      /\ Houses(rs, where) /\ Lanes(rs, lanes) /\ \A q \in DOMAIN rs : rs[q].fence < next
      /\ \A q \in DOMAIN rs : Sound(rs[q])
    BY DEF Mid
<1>2. r \in DOMAIN rs /\ u \in Occupants(rs[r])
    BY <1>1 DEF Houses
<1>3. player \in DOMAIN rs[r].members /\ rs[r].members[player].user = u
    BY <1>2, SeatOf
<1>4. /\ Sound(new) /\ SameRace(new, rs[r]) /\ DOMAIN new.members = DOMAIN rs[r].members \ {player}
      /\ \A p \in DOMAIN new.members : new.members[p].user = rs[r].members[p].user
    <2>1. Sound(rs[r])
        BY <1>1, <1>2
    <2> HIDE DEF player, r
    <2> QED BY <2>1, SeatFreed
<1>5. DOMAIN after = DOMAIN rs /\ after[r] = new /\ \A q \in DOMAIN rs : q # r => after[q] = rs[q]
    BY <1>2
<1>6. there \in [Riders -> 0 .. MaxRoom] /\ there[u] = 0
      /\ \A v \in Riders : v # u => there[v] = where[v]
    <2>1. 0 \in 0 .. MaxRoom
        BY RoomConstants
    <2> QED BY <1>1, <2>1
<1> HIDE DEF after, there, new, player, r
<1>7. \A q \in DOMAIN rs : \A p \in DOMAIN rs[q].members :
          rs[q].members[p].user \in Riders /\ where[rs[q].members[p].user] = q
    <2> TAKE q \in DOMAIN rs
    <2> TAKE p \in DOMAIN rs[q].members
    <2>1. rs[q].members[p] \in Member
        BY <1>1, RoomFields
    <2> QED BY <1>1, <2>1 DEF Member, Houses
<1>8. Houses(after, there)
    <2>1. ASSUME NEW q \in DOMAIN rs
          PROVE  /\ \A p \in DOMAIN after[q].members : there[after[q].members[p].user] = q
                 /\ \A p, s \in DOMAIN after[q].members :
                       after[q].members[p].user = after[q].members[s].user => p = s
                 /\ DOMAIN after[q].members = {} => after[q].phase \in {"running", "settling"}
        <3>1. CASE q # r
            <4>1. after[q] = rs[q]
                BY <1>5, <3>1
            <4>2. \A p \in DOMAIN rs[q].members : rs[q].members[p].user # u
                BY <1>7, <3>1 DEF r
            <4> QED BY <1>1, <1>6, <1>7, <4>1, <4>2 DEF Houses
        <3>2. CASE q = r
            <4>1. after[q] = new
                BY <1>5, <3>2
            <4>2. ASSUME NEW p \in DOMAIN new.members
                  PROVE  there[new.members[p].user] = r
                <5>1. p \in DOMAIN rs[r].members /\ p # player
                    BY <1>4
                <5>2. rs[r].members[p].user # u
                    BY <1>1, <1>2, <1>3, <5>1 DEF Houses
                <5> QED BY <1>2, <1>4, <1>6, <1>7, <5>1, <5>2
            <4>3. \A p, s \in DOMAIN new.members :
                      new.members[p].user = new.members[s].user => p = s
                BY <1>1, <1>2, <1>4 DEF Houses
            <4>4. DOMAIN new.members = {} => new.phase \in {"running", "settling"}
                <5>1. new.phase \in Phases
                    BY <1>4 DEF Sound, Room
                <5>2. ~Gone(new)
                    BY DEF new, player, r
                <5> QED BY <5>1, <5>2 DEF Gone, Phases
            <4> QED BY <3>2, <4>1, <4>2, <4>3, <4>4
        <3> QED BY <3>1, <3>2
    <2>2. ASSUME NEW v \in Riders, there[v] # 0
          PROVE  there[v] \in DOMAIN rs /\ v \in Occupants(after[there[v]])
        <3>1. v # u /\ there[v] = where[v]
            BY <1>6, <2>2
        <3>2. there[v] \in DOMAIN rs /\ v \in Occupants(rs[there[v]])
            BY <1>1, <2>2, <3>1 DEF Houses
        <3>3. PICK p \in DOMAIN rs[there[v]].members : rs[there[v]].members[p].user = v
            BY <3>2 DEF Occupants
        <3>4. CASE there[v] # r
            BY <1>5, <3>2, <3>4
        <3>5. CASE there[v] = r
            <4>1. p \in DOMAIN new.members
                BY <1>3, <1>4, <3>1, <3>3, <3>5
            <4> QED BY <1>4, <1>5, <3>2, <3>3, <3>5, <4>1 DEF Occupants
        <3> QED BY <3>2, <3>4, <3>5
    <2> QED BY <1>5, <2>1, <2>2 DEF Houses
<1>9. \A q \in DOMAIN rs : /\ after[q].fence = rs[q].fence /\ Sound(after[q])
                           /\ FrozenRacers(after[q]) = FrozenRacers(rs[q])
    BY <1>1, <1>4, <1>5 DEF SameRace, FrozenRacers
<1>10. Lanes(after, lanes)
    BY <1>1, <1>5, <1>9 DEF Lanes
<1>11. Mid(after, who, there, lanes, next)
    BY <1>1, <1>5, <1>6, <1>8, <1>9, <1>10 DEF Mid
<1> QED
    BY <1>11 DEF after, new, player, r, there

\* A room goes, with its race.
LEMMA Dissolving ==
    ASSUME NEW rs, NEW who, NEW where, NEW lanes, NEW next, Mid(rs, who, where, lanes, next),
           NEW r \in DOMAIN rs, NEW there \in [Riders -> 0 .. MaxRoom],
           \A v \in Riders : there[v] = IF where[v] = r THEN 0 ELSE where[v]
    PROVE  Mid(Drop(rs, {r}), who, there, Released(lanes, {rs[r].fence} \ {0}), next)
<1> DEFINE after == Drop(rs, {r})
           freed == Released(lanes, {rs[r].fence} \ {0})
<1>1. /\ DOMAIN rs \subseteq RoomIds /\ lanes \in [Riders -> 0 .. MaxEpoch]
      /\ Houses(rs, where) /\ Lanes(rs, lanes) /\ \A q \in DOMAIN rs : rs[q].fence < next
      /\ \A q \in DOMAIN rs : Sound(rs[q])
    BY DEF Mid
<1>2. DOMAIN after = DOMAIN rs \ {r} /\ \A q \in DOMAIN after : after[q] = rs[q]
    BY DEF Drop
<1>3. freed \in [Riders -> 0 .. MaxEpoch]
      /\ \A v \in Riders : freed[v] = IF lanes[v] = rs[r].fence THEN 0 ELSE lanes[v]
    BY <1>1, RoomConstants DEF Released
<1> HIDE DEF after, freed
<1>4. Houses(after, there)
    <2>1. ASSUME NEW q \in DOMAIN after, NEW p \in DOMAIN after[q].members
          PROVE  there[after[q].members[p].user] = q
        <3>1. q \in DOMAIN rs /\ q # r /\ after[q] = rs[q] /\ rs[q].members[p] \in Member
            BY <1>1, <1>2, RoomFields
        <3>2. where[rs[q].members[p].user] = q /\ rs[q].members[p].user \in Riders
            BY <1>1, <1>2, <3>1 DEF Houses, Member
        <3> QED BY <3>1, <3>2
    <2>2. ASSUME NEW v \in Riders, there[v] # 0
          PROVE  there[v] \in DOMAIN after /\ v \in Occupants(after[there[v]])
        <3>1. there[v] = where[v] /\ where[v] # r
            BY <2>2
        <3> QED BY <1>1, <1>2, <2>2, <3>1 DEF Houses
    <2> QED BY <1>1, <1>2, <2>1, <2>2 DEF Houses
<1>5. Lanes(after, freed)
    <2>1. ASSUME NEW q \in DOMAIN after, after[q].fence # 0, NEW u \in FrozenRacers(after[q])
          PROVE  freed[u] = after[q].fence
        <3>1. q \in DOMAIN rs /\ q # r /\ after[q] = rs[q]
            BY <1>2
        <3>2. lanes[u] = rs[q].fence /\ rs[q].fence # rs[r].fence
            BY <1>1, <2>1, <3>1 DEF Lanes
        <3>3. u \in Riders
            <4>1. DOMAIN rs[q].frozen \subseteq Riders
                BY <1>1, <3>1, RoomFields
            <4> QED BY <3>1, <4>1 DEF FrozenRacers
        <3> QED BY <1>3, <3>1, <3>2, <3>3
    <2>2. ASSUME NEW u \in Riders, freed[u] # 0
          PROVE  \E q \in DOMAIN after : after[q].fence = freed[u] /\ u \in FrozenRacers(after[q])
        <3>1. freed[u] = lanes[u] /\ lanes[u] # rs[r].fence
            BY <1>3, <2>2
        <3>2. PICK q \in DOMAIN rs : rs[q].fence = lanes[u] /\ u \in FrozenRacers(rs[q])
            BY <1>1, <2>2, <3>1 DEF Lanes
        <3> QED BY <1>2, <3>1, <3>2
    <2>3. \A q, s \in DOMAIN after : after[q].fence = after[s].fence => q = s \/ after[q].fence = 0
        BY <1>1, <1>2 DEF Lanes
    <2> QED BY <2>1, <2>2, <2>3 DEF Lanes
<1>6. Mid(after, who, there, freed, next)
    <2>1. who \in IdentityTable /\ next \in 1 .. MaxEpoch + 1
        BY DEF Mid
    <2> QED BY <1>1, <1>2, <1>3, <1>4, <1>5, <2>1 DEF Mid
<1> QED
    BY <1>6 DEF after, freed

\* A race ends; its riders stay.
LEMMA Resting ==
    ASSUME NEW rs, NEW who, NEW where, NEW lanes, NEW next, Mid(rs, who, where, lanes, next),
           NEW r \in DOMAIN rs, DOMAIN rs[r].members # {}, NEW new, Sound(new),
           SameUsers(new, rs[r]), new.fence = 0
    PROVE  Mid([rs EXCEPT ![r] = new], who, where, Released(lanes, {rs[r].fence}), next)
<1> DEFINE after == [rs EXCEPT ![r] = new]
           freed == Released(lanes, {rs[r].fence})
<1>1. /\ DOMAIN rs \subseteq RoomIds /\ lanes \in [Riders -> 0 .. MaxEpoch]
      /\ Houses(rs, where) /\ Lanes(rs, lanes) /\ \A q \in DOMAIN rs : rs[q].fence < next
      /\ \A q \in DOMAIN rs : Sound(rs[q])
    BY DEF Mid
<1>2. DOMAIN after = DOMAIN rs /\ after[r] = new /\ \A q \in DOMAIN rs : q # r => after[q] = rs[q]
    OBVIOUS
<1>3. freed \in [Riders -> 0 .. MaxEpoch]
      /\ \A v \in Riders : freed[v] = IF lanes[v] = rs[r].fence THEN 0 ELSE lanes[v]
    BY <1>1, RoomConstants DEF Released
<1>4. FrozenRacers(new) = {}
    <2>1. new.frozen = << >>
        BY DEF Sound, RaceSound
    <2> QED BY <2>1, NoMap DEF FrozenRacers
<1> HIDE DEF after, freed
<1>5. Houses(after, where)
    <2>1. \A q \in DOMAIN rs : SameUsers(after[q], rs[q])
        BY <1>2 DEF SameUsers
    <2>2. \A q \in DOMAIN rs : Occupants(after[q]) = Occupants(rs[q])
        BY <2>1 DEF SameUsers, Occupants
    <2>3. ASSUME NEW q \in DOMAIN rs
          PROVE  /\ \A p \in DOMAIN after[q].members : where[after[q].members[p].user] = q
                 /\ \A p, s \in DOMAIN after[q].members :
                       after[q].members[p].user = after[q].members[s].user => p = s
        BY <1>1, <2>1 DEF Houses, SameUsers
    <2>4. ASSUME NEW q \in DOMAIN rs, DOMAIN after[q].members = {}
          PROVE  after[q].phase \in {"running", "settling"}
        <3>1. q # r
            BY <1>2, <2>4 DEF SameUsers
        <3> QED BY <1>1, <1>2, <2>4, <3>1 DEF Houses
    <2> QED BY <1>1, <1>2, <2>2, <2>3, <2>4 DEF Houses
<1>6. Lanes(after, freed)
    <2>1. ASSUME NEW q \in DOMAIN after, after[q].fence # 0, NEW u \in FrozenRacers(after[q])
          PROVE  freed[u] = after[q].fence
        <3>1. q \in DOMAIN rs /\ q # r /\ after[q] = rs[q]
            BY <1>2, <2>1
        <3>2. lanes[u] = rs[q].fence /\ rs[q].fence # rs[r].fence
            BY <1>1, <2>1, <3>1 DEF Lanes
        <3>3. u \in Riders
            <4>1. DOMAIN rs[q].frozen \subseteq Riders
                BY <1>1, <3>1, RoomFields
            <4> QED BY <3>1, <4>1 DEF FrozenRacers
        <3> QED BY <1>3, <3>1, <3>2, <3>3
    <2>2. ASSUME NEW u \in Riders, freed[u] # 0
          PROVE  \E q \in DOMAIN after : after[q].fence = freed[u] /\ u \in FrozenRacers(after[q])
        <3>1. freed[u] = lanes[u] /\ lanes[u] # rs[r].fence
            BY <1>3, <2>2
        <3>2. PICK q \in DOMAIN rs : rs[q].fence = lanes[u] /\ u \in FrozenRacers(rs[q])
            BY <1>1, <2>2, <3>1 DEF Lanes
        <3> QED BY <1>2, <3>1, <3>2
    <2>3. \A q, s \in DOMAIN after : after[q].fence = after[s].fence => q = s \/ after[q].fence = 0
        BY <1>1, <1>2 DEF Lanes
    <2> QED BY <2>1, <2>2, <2>3 DEF Lanes
<1>7. \A q \in DOMAIN rs : Sound(after[q]) /\ after[q].fence < next
    <2>1. 0 < next
        BY RoomConstants DEF Mid
    <2> QED BY <1>1, <1>2, <2>1
<1>8. Mid(after, who, where, freed, next)
    <2>1. who \in IdentityTable /\ next \in 1 .. MaxEpoch + 1 /\ where \in [Riders -> 0 .. MaxRoom]
        BY DEF Mid
    <2> QED BY <1>1, <1>2, <1>3, <1>5, <1>6, <1>7, <2>1 DEF Mid
<1> QED
    BY <1>8 DEF after, freed

\* The roster a room starts its race with: everyone in it, each once.
LEMMA RosterIs ==
    ASSUME NEW room, Sound(room), identity \in IdentityTable, AllActive(Occupants(room))
    PROVE  /\ Roster(room) \in Maps(Riders, Participant)
           /\ DOMAIN Roster(room) = Occupants(room)
           /\ \A u \in Occupants(room) :
                 /\ Roster(room)[u].player = PlayerOf(room, u)
                 /\ Roster(room)[u].generation = identity[u].generation
<1>1. /\ DOMAIN room.members \subseteq Players
      /\ \A p \in DOMAIN room.members : room.members[p] \in Member
    BY RoomFields
<1>2. Occupants(room) \subseteq Riders
    BY <1>1 DEF Occupants, Member
<1>3. ASSUME NEW u \in Occupants(room)
      PROVE  [player |-> PlayerOf(room, u), generation |-> identity[u].generation,
              team |-> room.members[PlayerOf(room, u)].team] \in Participant
    <2>1. PlayerOf(room, u) \in DOMAIN room.members
        BY SeatOf
    <2>2. room.members[PlayerOf(room, u)].team \in Teams /\ PlayerOf(room, u) \in Players
        BY <1>1, <2>1 DEF Member
    <2>3. identity[u].generation \in 1 .. MaxGeneration
        <3>1. identity[u] \in Identity /\ identity[u].status = "active"
            BY <1>2 DEF IdentityTable, AllActive
        <3>2. identity[u].generation \in 0 .. MaxGeneration /\ identity[u].generation # 0
            BY <1>2, <3>1 DEF IdentityTable, Identity
        <3> QED BY <3>2, RoomConstants
    <2> QED BY <2>2, <2>3 DEF Participant
<1>4. /\ DOMAIN Roster(room) = Occupants(room)
      /\ \A u \in Occupants(room) : Roster(room)[u] =
            [player |-> PlayerOf(room, u), generation |-> identity[u].generation,
             team |-> room.members[PlayerOf(room, u)].team]
      /\ Roster(room) \in [Occupants(room) -> Participant]
    BY <1>3 DEF Roster
<1>5. Roster(room) \in Maps(Riders, Participant)
    BY <1>2, <1>4, MapIs
<1> QED
    BY <1>4, <1>5

\* A room as it starts, and the lanes its racers take.
Started(room, epoch) ==
    [room EXCEPT !.phase = "loading", !.fence = epoch,
                 !.frozen = Roster(room), !.frozen_ais = room.ais]
Taken(lanes, room, epoch) ==
    [v \in Riders |-> IF v \in {room.members[p].user : p \in Racers(room)}
                      THEN epoch ELSE lanes[v]]

\* A lobby becomes a loading room and takes the lanes of its racers.
LEMMA Starting ==
    ASSUME NEW rs, NEW who, NEW where, NEW lanes, NEW next, Mid(rs, who, where, lanes, next),
           who = identity, lanes = reward_lanes,
           NEW r \in DOMAIN rs, rs[r].phase = "lobby", AllActive(Occupants(rs[r])),
           \A p \in Racers(rs[r]) : lanes[rs[r].members[p].user] = 0, next <= MaxEpoch
    PROVE  Mid([rs EXCEPT ![r] = Started(rs[r], next)], who, where,
               Taken(lanes, rs[r], next), next + 1)
<1> DEFINE room == rs[r]
           racers == {rs[r].members[p].user : p \in Racers(rs[r])}
           new == Started(rs[r], next)
           after == [rs EXCEPT ![r] = new]
           taken == Taken(lanes, rs[r], next)
<1>1. /\ DOMAIN rs \subseteq RoomIds /\ lanes \in [Riders -> 0 .. MaxEpoch]
      /\ Houses(rs, where) /\ Lanes(rs, lanes) /\ \A q \in DOMAIN rs : rs[q].fence < next
      /\ \A q \in DOMAIN rs : Sound(rs[q])
      /\ next \in 1 .. MaxEpoch + 1 /\ who \in IdentityTable
      /\ where \in [Riders -> 0 .. MaxRoom]
    BY DEF Mid
<1>2. next \in 1 .. MaxEpoch /\ next \in Nat /\ next # 0
    BY <1>1, RoomConstants
<1>3. room \in Room /\ RaceSound(room) /\ Sound(room) /\ room.phase = "lobby"
    BY <1>1 DEF Sound
<1>4. /\ Roster(room) \in Maps(Riders, Participant) /\ DOMAIN Roster(room) = Occupants(room)
      /\ \A u \in Occupants(room) : Roster(room)[u].player = PlayerOf(room, u)
    <2> HIDE DEF room
    <2> QED BY <1>1, <1>3, RosterIs DEF room
<1>5. DOMAIN after = DOMAIN rs /\ after[r] = new /\ \A q \in DOMAIN rs : q # r => after[q] = rs[q]
    OBVIOUS
<1>6. /\ taken \in [Riders -> 0 .. MaxEpoch]
      /\ \A v \in Riders : taken[v] = IF v \in racers THEN next ELSE lanes[v]
    BY <1>1, <1>2 DEF Taken
<1>7. /\ new.phase = "loading" /\ new.fence = next /\ new.frozen = Roster(room)
      /\ new.frozen_ais = room.ais /\ new.members = room.members /\ new.ais = room.ais
      /\ new.stage = room.stage /\ new.settlement = room.settlement
      /\ new.expected = room.expected /\ new.ready = room.ready
    BY <1>3 DEF Room, Started
<1>8. new \in Room
    <2>1. "loading" \in Phases /\ room.ais \in Maps(Seats, Teams) /\ next \in 0 .. MaxEpoch
        BY <1>2, <1>3 DEF Phases, Room
    <2> QED BY <1>3, <1>4, <2>1 DEF Room, Started
<1> HIDE DEF after, taken, new, racers, room
<1>9. RaceSound(new)
    <2>1. /\ room.fence = 0 /\ room.frozen = << >> /\ room.stage = "dormant"
          /\ room.settlement = "none"
        BY <1>3 DEF RaceSound
    <2>2. room.expected = {} /\ room.ready = {}
        BY <1>3, <2>1, NoMap DEF RaceSound
    <2>3. ASSUME NEW u \in Occupants(room), NEW v \in Occupants(room),
                 Roster(room)[u].player = Roster(room)[v].player
          PROVE  u = v
        BY <1>4, <2>3, SeatOf
    <2>4. ASSUME NEW u \in Occupants(room) PROVE Roster(room)[u].player \notin DOMAIN room.ais
        <3>1. Roster(room)[u].player \in DOMAIN room.members
            BY <1>4, SeatOf
        <3> QED BY <1>3, <3>1 DEF RaceSound
    <2>5. DOMAIN room.ais \cap DOMAIN room.members = {}
        BY <1>3 DEF RaceSound
    <2> QED BY <1>2, <1>4, <1>7, <2>1, <2>2, <2>3, <2>4, <2>5 DEF RaceSound
<1>10. /\ FrozenRacers(new) = racers /\ racers \subseteq Riders
       /\ \A v \in racers : lanes[v] = 0
    <2>1. \A v \in racers : v \in Riders /\ lanes[v] = 0
        <3> TAKE v \in racers
        <3>1. PICK p \in Racers(room) : v = room.members[p].user
            BY DEF racers, room
        <3>2. room.members[p] \in Member
            BY <1>3, <3>1, RoomFields DEF Racers
        <3> QED BY <3>1, <3>2 DEF Member, room
    <2>2. FrozenRacers(new) = {u \in Occupants(room) : PlayerOf(room, u) \in Seats}
        BY <1>4, <1>7 DEF FrozenRacers
    <2>3. ASSUME NEW u \in Occupants(room), PlayerOf(room, u) \in Seats PROVE u \in racers
        <3>1. PlayerOf(room, u) \in Racers(room) /\ room.members[PlayerOf(room, u)].user = u
            BY <2>3, SeatOf DEF Racers
        <3> QED BY <3>1 DEF racers, room
    <2>4. ASSUME NEW u \in racers PROVE u \in Occupants(room) /\ PlayerOf(room, u) \in Seats
        <3>1. PICK p \in Racers(room) : u = room.members[p].user
            BY DEF racers, room
        <3>2. p \in DOMAIN room.members /\ p \in Seats
            BY <3>1 DEF Racers
        <3>3. u \in Occupants(room)
            BY <3>1, <3>2 DEF Occupants
        <3>4. PlayerOf(room, u) = p
            <4>1. PlayerOf(room, u) \in DOMAIN room.members
                  /\ room.members[PlayerOf(room, u)].user = u
                BY <3>3, SeatOf
            <4>2. \A s, q \in DOMAIN room.members :
                      room.members[s].user = room.members[q].user => s = q
                BY <1>1 DEF Houses, room
            <4> QED BY <3>1, <3>2, <4>1, <4>2
        <3> QED BY <3>2, <3>3, <3>4
    <2> QED BY <2>1, <2>2, <2>3, <2>4
<1>11. \A q \in DOMAIN rs : Sound(after[q]) /\ after[q].fence < next + 1
    <2> TAKE q \in DOMAIN rs
    <2>1. CASE q = r
        BY <1>2, <1>5, <1>7, <1>8, <1>9, <2>1 DEF Sound
    <2>2. CASE q # r
        <3>1. rs[q].fence < next /\ rs[q].fence \in Int /\ Sound(rs[q])
            <4>1. rs[q] \in Room
                BY <1>1 DEF Sound
            <4>2. rs[q].fence \in 0 .. MaxEpoch
                BY <4>1 DEF Room
            <4> QED BY <1>1, <4>2
        <3> QED BY <1>2, <1>5, <2>2, <3>1
    <2> QED BY <2>1, <2>2
<1>12. Houses(after, where)
    <2>1. Houses(rs, where)
        BY <1>1
    <2>2. \A q \in DOMAIN rs : after[q].members = rs[q].members
        BY <1>5, <1>7 DEF room
    <2>3. \A q \in DOMAIN rs : Occupants(after[q]) = Occupants(rs[q])
        BY <2>2 DEF Occupants
    <2>4. ASSUME NEW q \in DOMAIN rs, DOMAIN after[q].members = {}
          PROVE  after[q].phase \in {"running", "settling"}
        <3>1. rs[q].phase \in {"running", "settling"}
            BY <2>1, <2>2, <2>4 DEF Houses
        <3>2. q # r
            BY <3>1
        <3> QED BY <1>5, <3>1, <3>2
    <2> QED BY <1>5, <2>1, <2>2, <2>3, <2>4 DEF Houses
<1>13. Lanes(after, taken)
    <2>0. \A q \in DOMAIN rs : rs[q].fence # next
        <3> TAKE q \in DOMAIN rs
        <3>1. rs[q] \in Room /\ rs[q].fence < next
            BY <1>1 DEF Sound
        <3>2. rs[q].fence \in 0 .. MaxEpoch
            BY <3>1 DEF Room
        <3> QED BY <1>2, <3>1, <3>2
    <2>1. ASSUME NEW q \in DOMAIN after, after[q].fence # 0, NEW u \in FrozenRacers(after[q])
          PROVE  taken[u] = after[q].fence
        <3>1. CASE q = r
            BY <1>5, <1>6, <1>7, <1>10, <2>1, <3>1
        <3>2. CASE q # r
            <4>1. after[q] = rs[q] /\ q \in DOMAIN rs
                BY <1>5, <3>2
            <4>2. lanes[u] = rs[q].fence /\ lanes[u] # 0
                BY <1>1, <2>1, <4>1 DEF Lanes
            <4>3. u \in Riders
                <5>1. DOMAIN rs[q].frozen \subseteq Riders
                    BY <1>1, <4>1, RoomFields
                <5> QED BY <4>1, <5>1 DEF FrozenRacers
            <4> QED BY <1>6, <1>10, <4>1, <4>2, <4>3
        <3> QED BY <3>1, <3>2
    <2>2. ASSUME NEW u \in Riders, taken[u] # 0
          PROVE  \E q \in DOMAIN after : after[q].fence = taken[u] /\ u \in FrozenRacers(after[q])
        <3>1. CASE u \in racers
            BY <1>5, <1>6, <1>7, <1>10, <3>1
        <3>2. CASE u \notin racers
            <4>1. taken[u] = lanes[u]
                BY <1>6, <3>2
            <4>2. PICK q \in DOMAIN rs : rs[q].fence = lanes[u] /\ u \in FrozenRacers(rs[q])
                BY <1>1, <2>2, <4>1 DEF Lanes
            <4>3. q # r
                <5>1. rs[q].fence # 0 /\ room.fence = 0
                    BY <1>3, <2>2, <4>1, <4>2 DEF RaceSound
                <5> QED BY <5>1 DEF room
            <4> QED BY <1>5, <4>1, <4>2, <4>3
        <3> QED BY <3>1, <3>2
    <2>3. ASSUME NEW q \in DOMAIN after, NEW s \in DOMAIN after, after[q].fence = after[s].fence
          PROVE  q = s \/ after[q].fence = 0
        <3>1. CASE q = r /\ s # r
            BY <1>5, <1>7, <2>0, <2>3, <3>1
        <3>2. CASE q # r /\ s = r
            BY <1>5, <1>7, <2>0, <2>3, <3>2
        <3>3. CASE q # r /\ s # r
            BY <1>1, <1>5, <2>3, <3>3 DEF Lanes
        <3> QED BY <3>1, <3>2, <3>3
    <2> QED BY <2>1, <2>2, <2>3 DEF Lanes
<1>14. Mid(after, who, where, taken, next + 1)
    <2>1. next + 1 \in 1 .. MaxEpoch + 1
        BY <1>2, RoomConstants
    <2> QED BY <1>1, <1>5, <1>6, <1>11, <1>12, <1>13, <2>1 DEF Mid
<1> QED
    BY <1>14 DEF after, taken, racers, new, room

--------------------------------------------------------------------------------
(* The invariant, and what each kind of turn does to it.                    *)

IdsFree == free_ids \subseteq RoomIds /\ free_ids \cap DOMAIN rooms = {} /\ next_room_id \in RoomIds

RoomsInv ==
    /\ Mid(rooms, identity, room_by_user, reward_lanes, next_epoch)
    /\ Attendance
    /\ IdsFree

\* No finish is added to a race.
FinishKept == \A r \in DOMAIN rooms \cap DOMAIN rooms' :
                  DOMAIN rooms'[r].finish \subseteq DOMAIN rooms[r].finish

LEMMA RoomsInit ==
    ASSUME Init
    PROVE  RoomsInv
<1>1. DOMAIN rooms = {}
    BY NoMap DEF Init
<1>2. identity \in IdentityTable
    <2>1. 0 \in 0 .. MaxGeneration
        BY RoomConstants
    <2> QED BY <2>1 DEF Init, IdentityTable, Identity, NoChannel
<1>3. /\ room_by_user \in [Riders -> 0 .. MaxRoom] /\ reward_lanes \in [Riders -> 0 .. MaxEpoch]
      /\ next_epoch \in 1 .. MaxEpoch + 1 /\ next_room_id \in RoomIds
    BY RoomConstants DEF Init, RoomIds
<1>4. Houses(rooms, room_by_user) /\ Lanes(rooms, reward_lanes)
    BY <1>1 DEF Houses, Lanes, Init
<1> QED
    BY <1>1, <1>2, <1>3, <1>4 DEF RoomsInv, Mid, Attendance, IdsFree, Init

LEMMA Turn ==
    ASSUME RoomsInv, NEW rs, NEW who, NEW where, NEW lanes,
           Mid(rs, who, where, lanes, next_epoch'), Commit(rs, who, where, lanes),
           free_ids' \subseteq RoomIds, free_ids' \cap DOMAIN rs = {}, next_room_id' \in RoomIds
    PROVE  /\ RoomsInv' /\ DOMAIN rooms' = DOMAIN rs
           /\ \A r \in DOMAIN rs : rooms'[r].finish = rs[r].finish \/ rooms'[r].finish = << >>
<1> DEFINE next == next_epoch'
<1>1. Mid(rs, who, where, lanes, next)
    OBVIOUS
<1> HIDE DEF next
<1>2. /\ Mid(rooms', identity', room_by_user', reward_lanes', next)
      /\ Attendance' /\ DOMAIN rooms' = DOMAIN rs
      /\ \A r \in DOMAIN rs : rooms'[r].finish = rs[r].finish \/ rooms'[r].finish = << >>
    BY <1>1, CommitHolds
<1>3. IdsFree'
    BY <1>2 DEF IdsFree
<1> QED
    BY <1>2, <1>3 DEF RoomsInv, next

\* A turn that keeps every race as it is, or ends it.
LEMMA QuietTurn ==
    ASSUME RoomsInv, NEW rs, NEW who, NEW where, NEW lanes,
           Mid(rs, who, where, lanes, next_epoch'), Commit(rs, who, where, lanes),
           free_ids' \subseteq RoomIds, free_ids' \cap DOMAIN rs = {}, next_room_id' \in RoomIds,
           \A r \in DOMAIN rooms \cap DOMAIN rs :
                rs[r].finish = rooms[r].finish \/ rs[r].finish = << >>
    PROVE  RoomsInv' /\ FinishKept
<1>1. /\ RoomsInv' /\ DOMAIN rooms' = DOMAIN rs
      /\ \A r \in DOMAIN rs : rooms'[r].finish = rs[r].finish \/ rooms'[r].finish = << >>
    BY Turn
<1>2. \A r \in DOMAIN rooms \cap DOMAIN rs :
          rooms'[r].finish = rooms[r].finish \/ rooms'[r].finish = << >>
    BY <1>1
<1> QED
    BY <1>1, <1>2, NoMap DEF FinishKept

LEMMA IdsKept ==
    ASSUME RoomsInv, UNCHANGED ids
    PROVE  /\ free_ids' \subseteq RoomIds /\ free_ids' \cap DOMAIN rooms = {}
           /\ next_room_id' \in RoomIds
BY DEF RoomsInv, IdsFree, ids

\* One room changes and keeps its riders and its roster.
LEMMA RoomTurn ==
    ASSUME RoomsInv, NEW r \in DOMAIN rooms, NEW new, Sound(new), SameUsers(new, rooms[r]),
           SameRoster(new, rooms[r]),
           rooms[r].phase \in {"running", "settling"} => new.phase \in {"running", "settling"},
           Replace(r, new)
    PROVE  /\ RoomsInv' /\ DOMAIN rooms' = DOMAIN rooms
           /\ rooms'[r].finish = new.finish \/ rooms'[r].finish = << >>
           /\ \A q \in DOMAIN rooms : q # r =>
                  rooms'[q].finish = rooms[q].finish \/ rooms'[q].finish = << >>
           /\ new.finish = rooms[r].finish => FinishKept
<1> DEFINE rs == [rooms EXCEPT ![r] = new]
<1>1. Mid(rs, identity, room_by_user, reward_lanes, next_epoch)
    BY Replacing DEF RoomsInv
<1>2. /\ Commit(rs, identity, room_by_user, reward_lanes) /\ UNCHANGED ids
      /\ next_epoch' = next_epoch
    BY DEF Replace
<1>3. DOMAIN rs = DOMAIN rooms /\ rs[r] = new /\ \A q \in DOMAIN rooms : q # r => rs[q] = rooms[q]
    OBVIOUS
<1>4. Mid(rs, identity, room_by_user, reward_lanes, next_epoch')
    BY <1>1, <1>2
<1> HIDE DEF rs
<1>5. /\ RoomsInv' /\ DOMAIN rooms' = DOMAIN rs
      /\ \A q \in DOMAIN rs : rooms'[q].finish = rs[q].finish \/ rooms'[q].finish = << >>
    BY <1>2, <1>3, <1>4, IdsKept, Turn
<1>6. /\ rooms'[r].finish = new.finish \/ rooms'[r].finish = << >>
      /\ \A q \in DOMAIN rooms : q # r =>
            rooms'[q].finish = rooms[q].finish \/ rooms'[q].finish = << >>
    BY <1>3, <1>5
<1>7. ASSUME new.finish = rooms[r].finish PROVE FinishKept
    BY <1>3, <1>5, <1>6, <1>7, NoMap DEF FinishKept
<1> QED
    BY <1>3, <1>5, <1>6, <1>7

\* The room of a rider who is in one.
LEMMA RoomIsThere ==
    ASSUME RoomsInv, NEW u \in Riders, room_by_user[u] # 0
    PROVE  /\ room_by_user[u] \in DOMAIN rooms /\ u \in Occupants(RoomOf(u))
           /\ Sound(RoomOf(u)) /\ PlayerOf(RoomOf(u), u) \in DOMAIN RoomOf(u).members
BY SeatOf DEF RoomsInv, Mid, Houses, RoomOf

LEMMA Exits ==
    ASSUME RoomsInv, NEW u \in Riders, NEW who \in IdentityTable, Exit(u, who),
           next_epoch' = next_epoch
    PROVE  RoomsInv' /\ FinishKept
<1> DEFINE r == room_by_user[u]
           room == Without(rooms[r], PlayerOf(rooms[r], u))
           where == [room_by_user EXCEPT ![u] = 0]
<1>1. /\ Mid(rooms, who, room_by_user, reward_lanes, next_epoch)
      /\ room_by_user \in [Riders -> 0 .. MaxRoom] /\ Houses(rooms, room_by_user)
      /\ \A q \in DOMAIN rooms : Sound(rooms[q])
    BY Reidentified DEF RoomsInv, Mid
<1>2. CASE r = 0
    <2>1. where = room_by_user
        BY <1>1, <1>2
    <2>2. Mid(rooms, who, where, reward_lanes, next_epoch')
        BY <1>1, <2>1
    <2>3. Commit(rooms, who, where, reward_lanes) /\ UNCHANGED ids
        BY <1>2 DEF Exit
    <2> HIDE DEF where
    <2> QED BY <2>2, <2>3, IdsKept, QuietTurn
<1>3. CASE r # 0 /\ Gone(room)
    <2> DEFINE fence == rooms[r].fence
               rs == Drop(rooms, {r})
               lanes == Released(reward_lanes, {fence} \ {0})
    <2>1. r \in DOMAIN rooms /\ u \in Occupants(rooms[r]) /\ Sound(rooms[r])
        BY <1>1, <1>3 DEF Houses
    <2>2. /\ SameRace(room, rooms[r])
          /\ DOMAIN room.members = DOMAIN rooms[r].members \ {PlayerOf(rooms[r], u)}
        <3> HIDE DEF r
        <3> QED BY <2>1, SeatFreed
    <2>3. /\ Commit(rs, who, where, lanes)
          /\ free_ids' = free_ids \cup {r} /\ next_room_id' = next_room_id
        <3>1. room.fence = fence
            BY <2>2 DEF SameRace
        <3> QED BY <1>3, <3>1 DEF Exit
    <2>4. \A v \in Riders : room_by_user[v] = r => v = u
        <3> TAKE v \in Riders
        <3> HAVE room_by_user[v] = r
        <3>1. v \in Occupants(rooms[r])
            BY <1>1, <1>3 DEF Houses
        <3>2. DOMAIN rooms[r].members \subseteq {PlayerOf(rooms[r], u)}
            BY <1>3, <2>2 DEF Gone
        <3>3. PlayerOf(rooms[r], v) = PlayerOf(rooms[r], u)
            <4> HIDE DEF r
            <4> QED BY <3>1, <3>2, SeatOf
        <3> HIDE DEF r
        <3> QED BY <2>1, <3>1, <3>3, SeatOf
    <2>5. /\ where \in [Riders -> 0 .. MaxRoom]
          /\ \A v \in Riders : where[v] = IF room_by_user[v] = r THEN 0 ELSE room_by_user[v]
        <3>1. 0 \in 0 .. MaxRoom
            BY RoomConstants
        <3> QED BY <1>1, <2>4, <3>1
    <2>6. DOMAIN rs = DOMAIN rooms \ {r} /\ \A q \in DOMAIN rs : rs[q] = rooms[q]
        BY DEF Drop
    <2>7. r \in RoomIds /\ IdsFree
        BY <2>1 DEF RoomsInv, Mid
    <2> HIDE DEF where, r
    <2>8. Mid(rs, who, where, lanes, next_epoch')
        BY <1>1, <2>1, <2>5, Dissolving
    <2>9. free_ids' \subseteq RoomIds /\ free_ids' \cap DOMAIN rs = {} /\ next_room_id' \in RoomIds
        BY <2>3, <2>6, <2>7 DEF IdsFree
    <2> HIDE DEF rs, lanes
    <2> QED BY <2>3, <2>6, <2>8, <2>9, QuietTurn
<1>4. CASE r # 0 /\ ~Gone(room)
    <2> DEFINE rs == [rooms EXCEPT ![r] = room]
    <2>1. r \in DOMAIN rooms /\ Sound(rooms[r])
        BY <1>1, <1>4 DEF Houses
    <2>2. room.finish = rooms[r].finish
        <3>1. SameRace(room, rooms[r])
            <4> HIDE DEF r
            <4> QED BY <2>1, SeatFreed
        <3> QED BY <3>1 DEF SameRace
    <2>3. Commit(rs, who, where, reward_lanes) /\ UNCHANGED ids
        BY <1>4 DEF Exit
    <2>4. Mid(rs, who, where, reward_lanes, next_epoch')
        BY <1>1, <1>4, Leaving
    <2>5. DOMAIN rs = DOMAIN rooms /\ \A q \in DOMAIN rs : rs[q].finish = rooms[q].finish
        BY <2>2
    <2> HIDE DEF rs, where, room
    <2> QED BY <2>3, <2>4, <2>5, IdsKept, QuietTurn
<1> QED
    BY <1>2, <1>3, <1>4

--------------------------------------------------------------------------------
(* Riders come, move and go.                                                *)

LEMMA ArriveHolds ==
    ASSUME RoomsInv, NEW u \in Riders, NEW c \in Channels, Arrive(u, c) \/ Migrate(u, c)
    PROVE  RoomsInv' /\ FinishKept
<1> DEFINE who == [identity EXCEPT ![u] = [generation |-> identity[u].generation + 1,
                                           channel |-> c, status |-> "active"]]
<1>1. /\ Mid(rooms, identity, room_by_user, reward_lanes, next_epoch)
      /\ identity \in IdentityTable
    BY DEF RoomsInv, Mid
<1>2. who \in IdentityTable
    <2>1. identity[u] \in Identity /\ identity[u].generation < MaxGeneration
        BY <1>1 DEF IdentityTable, Arrive, Migrate
    <2>2. identity[u].generation \in 0 .. MaxGeneration
        BY <2>1 DEF Identity
    <2>3. /\ identity[u].generation + 1 \in 0 .. MaxGeneration
          /\ identity[u].generation + 1 # 0
        BY <2>1, <2>2, RoomConstants
    <2>4. [generation |-> identity[u].generation + 1, channel |-> c, status |-> "active"] \in Identity
        BY <2>3 DEF Identity
    <2>5. who \in [Riders -> Identity]
        BY <1>1, <2>4 DEF IdentityTable
    <2>6. \A v \in Riders : who[v].status # "out" => who[v].generation # 0 /\ who[v].channel \in Channels
        BY <1>1, <2>3 DEF IdentityTable
    <2> HIDE DEF who
    <2> QED BY <2>5, <2>6 DEF IdentityTable
<1>3. Mid(rooms, who, room_by_user, reward_lanes, next_epoch)
    <2> HIDE DEF who
    <2> QED BY <1>1, <1>2, Reidentified
<1>4. ASSUME Commit(rooms, who, room_by_user, reward_lanes), UNCHANGED <<ids, next_epoch>>
      PROVE  RoomsInv' /\ FinishKept
    <2> HIDE DEF who
    <2>1. UNCHANGED ids /\ Mid(rooms, who, room_by_user, reward_lanes, next_epoch')
        BY <1>3, <1>4
    <2> QED BY <1>4, <2>1, IdsKept, QuietTurn
<1>5. CASE Arrive(u, c)
    BY <1>4, <1>5 DEF Arrive
<1>6. CASE Migrate(u, c)
    <2>1. who = [identity EXCEPT ![u] = [generation |-> @.generation + 1, channel |-> c,
                                         status |-> "active"]]
        OBVIOUS
    <2>2. \/ Commit(rooms, who, room_by_user, reward_lanes) /\ UNCHANGED <<ids, next_epoch>>
          \/ Exit(u, who) /\ next_epoch' = next_epoch
        BY <1>6, <2>1 DEF Migrate
    <2> HIDE DEF who
    <2> QED BY <1>2, <1>4, <2>2, Exits
<1> QED
    BY <1>5, <1>6

LEMMA DisconnectHolds ==
    ASSUME RoomsInv, NEW u \in Riders, Disconnect(u) \/ Release(u)
    PROVE  RoomsInv' /\ FinishKept
<1>1. /\ Mid(rooms, identity, room_by_user, reward_lanes, next_epoch)
      /\ identity \in IdentityTable
    BY DEF RoomsInv, Mid
<1>2. CASE Disconnect(u)
    <2> DEFINE who == [identity EXCEPT ![u].status = "ownerless"]
    <2>1. who \in IdentityTable
        <3>1. identity[u].status # "out" /\ identity[u] \in Identity
            BY <1>1, <1>2 DEF Disconnect, IdentityTable
        <3>2. [identity[u] EXCEPT !.status = "ownerless"] \in Identity
            BY <3>1 DEF Identity
        <3>3. /\ [identity[u] EXCEPT !.status = "ownerless"].generation = identity[u].generation
              /\ [identity[u] EXCEPT !.status = "ownerless"].channel = identity[u].channel
            BY <3>1 DEF Identity
        <3> QED BY <1>1, <3>1, <3>2, <3>3 DEF IdentityTable
    <2>2. /\ Commit(rooms, who, room_by_user, reward_lanes) /\ UNCHANGED ids
          /\ next_epoch' = next_epoch
        BY <1>2 DEF Disconnect
    <2> HIDE DEF who
    <2>3. Mid(rooms, who, room_by_user, reward_lanes, next_epoch')
        BY <1>1, <2>1, <2>2, Reidentified
    <2> QED BY <2>2, <2>3, IdsKept, QuietTurn
<1>3. CASE Release(u)
    <2> DEFINE who == [identity EXCEPT ![u].channel = NoChannel, ![u].status = "out"]
    <2>1. who \in IdentityTable
        <3>1. identity[u] \in Identity
            BY <1>1 DEF IdentityTable
        <3>2. /\ [identity[u] EXCEPT !.channel = NoChannel, !.status = "out"] \in Identity
              /\ [identity[u] EXCEPT !.channel = NoChannel, !.status = "out"].status = "out"
            BY <3>1 DEF Identity
        <3>3. who = [identity EXCEPT ![u] = [identity[u] EXCEPT !.channel = NoChannel,
                                                                !.status = "out"]]
            BY <1>1 DEF IdentityTable
        <3> HIDE DEF who
        <3> QED BY <1>1, <3>2, <3>3 DEF IdentityTable
    <2>2. Exit(u, who) /\ next_epoch' = next_epoch
        BY <1>3 DEF Release
    <2> HIDE DEF who
    <2> QED BY <2>1, <2>2, Exits
<1> QED
    BY <1>2, <1>3

--------------------------------------------------------------------------------
(* Rooms open, fill and empty.                                              *)

LEMMA ActorFacts ==
    ASSUME RoomsInv, NEW u \in Riders, MayAct(u)
    PROVE  identity[u].channel \in Channels /\ identity[u].generation # 0
BY DEF RoomsInv, Mid, IdentityTable, MayAct

\* However the rider comes in, he takes a player id no one has.
LEMMA SomeoneAdmitted ==
    ASSUME NEW room, Sound(room), NEW u \in Riders, CanAdmit(room, u)
    PROVE  /\ Sound(Admitted(room, u)) /\ SameRace(Admitted(room, u), room)
           /\ \E player, member :
                 /\ player \notin DOMAIN room.members /\ member.user = u
                 /\ Admitted(room, u).members = Put(room.members, player, member)
<1>1. CASE Observes(u)
    <2>1. /\ Sound(Admitted(room, u)) /\ SameRace(Admitted(room, u), room)
          /\ Min(VacantGalleries(room)) \notin DOMAIN room.members
          /\ Admitted(room, u).members =
                Put(room.members, Min(VacantGalleries(room)), Newcomer(u, NoTeam, 0))
        BY <1>1, ObserverAdmitted
    <2>2. Newcomer(u, NoTeam, 0).user = u
        BY DEF Newcomer
    <2> QED BY <2>1, <2>2
<1>2. CASE ~Observes(u)
    <2>1. /\ Sound(Admitted(room, u)) /\ SameRace(Admitted(room, u), room)
          /\ Min(Vacant(room)) \in Vacant(room)
          /\ Admitted(room, u).members =
                Put(room.members, Min(Vacant(room)),
                    Newcomer(u, AdmissionTeam(room), JoinRanking(room)))
        BY <1>2, RacerAdmitted
    <2>2. Newcomer(u, AdmissionTeam(room), JoinRanking(room)).user = u
        BY DEF Newcomer
    <2>3. Min(Vacant(room)) \notin DOMAIN room.members
        BY <2>1 DEF Vacant
    <2> QED BY <2>1, <2>2, <2>3
<1> QED
    BY <1>1, <1>2

LEMMA EmptyRoomSound ==
    ASSUME NEW c \in Channels
    PROVE  Sound(EmptyRoom(c)) /\ DOMAIN EmptyRoom(c).members = {} /\ EmptyRoom(c).fence = 0
<1>1. /\ << >> \in Maps(Players, Member) /\ << >> \in Maps(Seats, Teams)
      /\ << >> \in Maps(Seats, Seats) /\ << >> \in Maps(Riders, Participant)
      /\ << >> \in Maps(Seats, Times) /\ DOMAIN << >> = {}
    BY NoMap
<1>2. 0 \in Players /\ 0 \in 0 .. MaxEpoch
    BY SeatNumbers, RoomConstants DEF Players
<1>3. EmptyRoom(c) \in Room
    BY <1>1, <1>2 DEF EmptyRoom, Room, Phases, Stages, Settlements
<1> QED
    BY <1>1, <1>3 DEF EmptyRoom, Sound, RaceSound

LEMMA LeastRoomId ==
    ASSUME NEW S \in SUBSET RoomIds, S # {}
    PROVE  Min(S) \in S
<1>1. IsFiniteSet(RoomIds) /\ RoomIds \subseteq Nat
    BY RoomConstants, FS_Interval DEF RoomIds
<1> QED
    BY <1>1, FS_Subset, MinExists

LEMMA NewRoomIdIsFree ==
    ASSUME RoomsInv, UsableIds # {} \/ UnusedFrom(1) # {}
    PROVE  NewRoomId \in RoomIds \ DOMAIN rooms
<1>1. IdsFree /\ MaxRoom \in Nat
    BY RoomConstants DEF RoomsInv
<1>2. /\ UsableIds \in SUBSET RoomIds /\ UnusedFrom(next_room_id) \in SUBSET RoomIds
      /\ UnusedFrom(1) \in SUBSET RoomIds
    <2>1. \A first \in RoomIds : first .. MaxRoom \subseteq RoomIds
        BY <1>1 DEF RoomIds
    <2>2. 1 \in RoomIds /\ next_room_id \in RoomIds
        BY <1>1, RoomConstants DEF IdsFree, RoomIds
    <2>3. \A first \in RoomIds : UnusedFrom(first) \subseteq RoomIds
        BY <2>1 DEF UnusedFrom
    <2> QED BY <1>1, <2>2, <2>3 DEF IdsFree, UsableIds
<1>3. CASE UsableIds # {}
    <2>1. Min(UsableIds) \in UsableIds
        BY <1>2, <1>3, LeastRoomId
    <2> QED BY <1>2, <1>3, <2>1 DEF NewRoomId, UsableIds
<1>4. CASE UsableIds = {} /\ UnusedFrom(next_room_id) # {}
    <2>1. Min(UnusedFrom(next_room_id)) \in UnusedFrom(next_room_id)
        BY <1>2, <1>4, LeastRoomId
    <2>2. NewRoomId = Min(UnusedFrom(next_room_id))
        BY <1>4 DEF NewRoomId
    <2> QED BY <1>2, <2>1, <2>2 DEF UnusedFrom
<1>5. CASE UsableIds = {} /\ UnusedFrom(next_room_id) = {}
    <2>1. Min(UnusedFrom(1)) \in UnusedFrom(1)
        BY <1>2, <1>5, LeastRoomId
    <2>2. NewRoomId = Min(UnusedFrom(1))
        BY <1>5 DEF NewRoomId
    <2> QED BY <1>2, <2>1, <2>2 DEF UnusedFrom
<1> QED
    BY <1>3, <1>4, <1>5

LEMMA CreateHolds ==
    ASSUME RoomsInv, NEW u \in Riders, Create(u)
    PROVE  RoomsInv' /\ FinishKept
<1> DEFINE old == EmptyRoom(identity[u].channel)
           new == Admitted(old, u)
           r == NewRoomId
           rs == Put(rooms, r, new)
           where == [room_by_user EXCEPT ![u] = r]
<1>1. /\ MayAct(u) /\ room_by_user[u] = 0 /\ CanAdmit(old, u)
      /\ UsableIds # {} \/ UnusedFrom(1) # {}
      /\ Commit(rs, identity, where, reward_lanes)
      /\ Allocated(r) /\ next_epoch' = next_epoch
    BY DEF Create
<1>2. Sound(old) /\ DOMAIN old.members = {} /\ old.fence = 0
    BY <1>1, ActorFacts, EmptyRoomSound
<1>3. r \in RoomIds \ DOMAIN rooms
    BY <1>1, NewRoomIdIsFree
<1> HIDE DEF old, r
<1>4. Sound(new) /\ SameRace(new, old)
    BY <1>1, <1>2, SomeoneAdmitted
<1>5. PICK player, member : /\ player \notin DOMAIN old.members /\ member.user = u
                            /\ new.members = Put(old.members, player, member)
    BY <1>1, <1>2, SomeoneAdmitted
<1>6. Placed(rs, rooms, r, new)
    BY Placing
<1>7. next_epoch >= 1
    BY RoomConstants DEF RoomsInv, Mid
<1> HIDE DEF new, rs
<1>8. Mid(rs, identity, where, reward_lanes, next_epoch')
    <2>1. Mid(rooms, identity, room_by_user, reward_lanes, next_epoch) /\ r \in RoomIds
          /\ r \notin DOMAIN rooms
        BY <1>3 DEF RoomsInv
    <2>2. Mid(rs, identity, where, reward_lanes, next_epoch)
        BY <1>1, <1>2, <1>4, <1>5, <1>6, <1>7, <2>1, Entering
    <2> QED BY <1>1, <2>2
<1> HIDE DEF where
<1>9. free_ids' \subseteq RoomIds /\ free_ids' \cap DOMAIN rs = {} /\ next_room_id' \in RoomIds
    <2>1. IdsFree /\ DOMAIN rs = DOMAIN rooms \cup {r}
        BY <1>6 DEF RoomsInv, Placed
    <2>2. r \in 1 .. MaxRoom /\ MaxRoom \in Nat \ {0}
        BY <1>3, RoomConstants DEF RoomIds
    <2>3. CASE UsableIds # {}
        <3>1. free_ids' = {id \in free_ids : id > r} /\ next_room_id' = next_room_id
            BY <1>1, <2>3 DEF Allocated
        <3> QED BY <2>1, <2>2, <3>1 DEF IdsFree
    <2>4. CASE UsableIds = {}
        <3>1. free_ids' = {} /\ next_room_id' = IF r = MaxRoom THEN 1 ELSE r + 1
            BY <1>1, <2>4 DEF Allocated
        <3>2. next_room_id' \in RoomIds
            BY <2>2, <3>1 DEF RoomIds
        <3> QED BY <3>1, <3>2
    <2> QED BY <2>3, <2>4
<1>10. \A q \in DOMAIN rooms \cap DOMAIN rs : rs[q].finish = rooms[q].finish
    BY <1>3, <1>6 DEF Placed
<1> QED
    BY <1>1, <1>8, <1>9, <1>10, QuietTurn

LEMMA JoinHolds ==
    ASSUME RoomsInv, NEW u \in Riders, NEW r \in RoomIds, Join(u, r)
    PROVE  RoomsInv' /\ FinishKept
<1> DEFINE old == rooms[r]
           new == Admitted(old, u)
           rs == [rooms EXCEPT ![r] = new]
           where == [room_by_user EXCEPT ![u] = r]
<1>1. /\ room_by_user[u] = 0 /\ r \in DOMAIN rooms /\ CanAdmit(old, u)
      /\ Commit(rs, identity, where, reward_lanes)
      /\ UNCHANGED ids /\ next_epoch' = next_epoch
    BY DEF Join
<1>2. Sound(old) /\ Mid(rooms, identity, room_by_user, reward_lanes, next_epoch)
    BY <1>1 DEF RoomsInv, Mid
<1> HIDE DEF old
<1>4. Sound(new) /\ SameRace(new, old)
    BY <1>1, <1>2, SomeoneAdmitted
<1>5. PICK player, member : /\ player \notin DOMAIN old.members /\ member.user = u
                            /\ new.members = Put(old.members, player, member)
    BY <1>1, <1>2, SomeoneAdmitted
<1>6. Placed(rs, rooms, r, new)
    BY <1>1, Placing
<1>7. next_epoch >= 1
    BY RoomConstants DEF RoomsInv, Mid
<1> HIDE DEF new, rs
<1>8. Mid(rs, identity, where, reward_lanes, next_epoch')
    <2>1. Mid(rs, identity, where, reward_lanes, next_epoch)
        BY <1>1, <1>2, <1>4, <1>5, <1>6, <1>7, Entering DEF old
    <2> QED BY <1>1, <2>1
<1> HIDE DEF where
<1>9. DOMAIN rs = DOMAIN rooms /\ \A q \in DOMAIN rooms : rs[q].finish = rooms[q].finish
    <2>1. new.finish = rooms[r].finish
        BY <1>4 DEF SameRace, old
    <2> QED BY <1>1, <1>6, <2>1 DEF Placed
<1> QED
    BY <1>1, <1>8, <1>9, IdsKept, QuietTurn

LEMMA LeaveHolds ==
    ASSUME RoomsInv, NEW u \in Riders, Leave(u)
    PROVE  RoomsInv' /\ FinishKept
<1>1. identity \in IdentityTable /\ Exit(u, identity) /\ next_epoch' = next_epoch
    BY DEF RoomsInv, Mid, Leave
<1> QED
    BY <1>1, Exits

--------------------------------------------------------------------------------
(* Lobby commands.                                                          *)

LEMMA LobbyTurnHolds ==
    ASSUME RoomsInv, NEW u \in Riders, InLobby(u), NEW new, LobbyMove(new, RoomOf(u)),
           LobbyTurn(u, new)
    PROVE  RoomsInv' /\ FinishKept
<1> DEFINE r == room_by_user[u]
<1>1. r # 0 /\ Replace(r, new)
    BY DEF InLobby, LobbyTurn
<1>2. r \in DOMAIN rooms
    BY <1>1, RoomIsThere
<1>3. /\ Sound(new) /\ SameUsers(new, rooms[r]) /\ SameRoster(new, rooms[r])
      /\ new.phase = rooms[r].phase /\ new.finish = rooms[r].finish
    BY DEF LobbyMove, SameRace, SameRoster, RoomOf
<1> HIDE DEF r
<1> QED
    BY <1>1, <1>2, <1>3, RoomTurn

LEMMA LobbyRoom ==
    ASSUME RoomsInv, NEW u \in Riders, InLobby(u)
    PROVE  Sound(RoomOf(u)) /\ PlayerOf(RoomOf(u), u) \in DOMAIN RoomOf(u).members
BY RoomIsThere DEF InLobby

LEMMA SlotStateHolds ==
    ASSUME RoomsInv, NEW u \in Riders, NEW ready \in BOOLEAN, SetSlotState(u, ready)
    PROVE  RoomsInv' /\ FinishKept
<1> DEFINE room == RoomOf(u)
           player == PlayerOf(RoomOf(u), u)
           new == SlotReady(room, player, ready)
<1>1. InLobby(u) /\ LobbyTurn(u, new)
    BY DEF SetSlotState, SlotReady
<1>2. Sound(room)
    BY <1>1, LobbyRoom
<1>3. LobbyMove(new, room)
    <2> HIDE DEF room, player
    <2> QED BY <1>2, ReadyMoves
<1> HIDE DEF new
<1> QED
    BY <1>1, <1>3, LobbyTurnHolds

LEMMA TeamHolds ==
    ASSUME RoomsInv, NEW u \in Riders, NEW team \in {Red, Blue}, ChangeTeam(u, team)
    PROVE  RoomsInv' /\ FinishKept
<1> DEFINE room == RoomOf(u)
           player == PlayerOf(RoomOf(u), u)
           new == TeamChanged(room, player, team)
<1>1. /\ InLobby(u) /\ LobbyTurn(u, new) /\ player \in Seats
      /\ room.members[player].team = team \/ OpenSlots(room, team) # {}
    BY DEF ChangeTeam, CanChangeTeam
<1>2. Sound(room) /\ player \in Racers(room) /\ team \in Teams
    BY <1>1, LobbyRoom, TeamNumbers DEF Racers
<1>3. LobbyMove(new, room)
    <2>1. CASE room.members[player].team = team
        <3>1. new = room
            BY <2>1 DEF TeamChanged
        <3> HIDE DEF room, new
        <3> QED BY <1>2, <3>1 DEF LobbyMove, SameRace, SameUsers
    <2>2. CASE room.members[player].team # team
        <3> HIDE DEF room, player
        <3> QED BY <1>1, <1>2, <2>2, TeamMoves
    <2> QED BY <2>1, <2>2
<1> HIDE DEF new
<1> QED
    BY <1>1, <1>3, LobbyTurnHolds

LEMMA MasterHolds ==
    ASSUME RoomsInv, NEW u \in Riders, NEW next \in Seats, ChangeMaster(u, next)
    PROVE  RoomsInv' /\ FinishKept
<1> DEFINE room == RoomOf(u)
           new == MasterChanged(room, next)
<1>1. InLobby(u) /\ LobbyTurn(u, new) /\ next \in Racers(room)
    BY DEF ChangeMaster
<1>2. Sound(room)
    BY <1>1, LobbyRoom
<1>3. LobbyMove(new, room)
    <2> HIDE DEF room
    <2> QED BY <1>1, <1>2, MasterMoves
<1> HIDE DEF new
<1> QED
    BY <1>1, <1>3, LobbyTurnHolds

\* The ways an AI command can go.
LEMMA AiWays ==
    ASSUME NEW room, NEW player, NEW new \in AiChanges(room, player)
    PROVE  \/ player \in DOMAIN room.ais /\ new = WithoutAi(room, player)
           \/ ~InTeams(room) /\ CanAddAi(room, NoTeam) /\ new = WithAi(room, NoTeam)
           \/ /\ InTeams(room) /\ CanAddAi(room, Blue) /\ CanAddAi(WithAi(room, Blue), Red)
              /\ new = WithAi(WithAi(room, Blue), Red)
BY DEF AiChanges, AisAdded

LEMMA AiHolds ==
    ASSUME RoomsInv, NEW u \in Riders, NEW player \in Seats, ChangeBasicAi(u, player)
    PROVE  RoomsInv' /\ FinishKept
<1> DEFINE room == RoomOf(u)
<1>1. InLobby(u) /\ Sound(room)
    BY LobbyRoom DEF ChangeBasicAi
<1>2. PICK new \in AiChanges(room, player) : LobbyTurn(u, new)
    BY DEF ChangeBasicAi
<1>3. NoTeam \in Teams /\ Red \in Teams /\ Blue \in Teams
    BY TeamNumbers
<1> HIDE DEF room
<1>4. LobbyMove(new, room)
    <2>1. CASE new = WithoutAi(room, player)
        BY <1>1, <2>1, AiLeaves
    <2>2. CASE CanAddAi(room, NoTeam) /\ new = WithAi(room, NoTeam)
        BY <1>1, <1>3, <2>2, AiComes
    <2>3. CASE /\ CanAddAi(room, Blue) /\ CanAddAi(WithAi(room, Blue), Red)
               /\ new = WithAi(WithAi(room, Blue), Red)
        <3> DEFINE half == WithAi(room, Blue)
        <3>1. LobbyMove(half, room)
            BY <1>1, <1>3, <2>3, AiComes
        <3> HIDE DEF half
        <3>2. Sound(half) /\ CanAddAi(half, Red) /\ new = WithAi(half, Red)
            BY <2>3, <3>1 DEF LobbyMove, half
        <3>3. LobbyMove(new, half)
            BY <1>3, <3>2, AiComes
        <3> QED BY <3>1, <3>3 DEF LobbyMove, SameRace, SameUsers
    <2> QED BY <2>1, <2>2, <2>3, AiWays
<1> QED
    BY <1>1, <1>2, <1>4, LobbyTurnHolds DEF room

LEMMA ClosedSlotsHold ==
    ASSUME RoomsInv, NEW u \in Riders, ChangeClosedSlots(u)
    PROVE  RoomsInv' /\ FinishKept
<1> DEFINE room == RoomOf(u)
<1>1. InLobby(u) /\ Sound(room)
    BY LobbyRoom DEF ChangeClosedSlots
<1>2. PICK new \in SlotChanges(room) : LobbyTurn(u, new)
    BY DEF ChangeClosedSlots
<1> HIDE DEF room
<1>3. PICK pairs \in SlotPairs(room) : \/ Closable(room, pairs) /\ new = Closed(room, pairs)
                                       \/ Openable(room, pairs) /\ new = Opened(room, pairs)
    BY DEF SlotChanges
<1>4. LobbyMove(new, room)
    <2>1. CASE Closable(room, pairs) /\ new = Closed(room, pairs)
        BY <1>1, <2>1, SeatsClose
    <2>2. CASE new = Opened(room, pairs)
        BY <1>1, <2>2, SeatsOpen
    <2> QED BY <1>3, <2>1, <2>2
<1> QED
    BY <1>1, <1>2, <1>4, LobbyTurnHolds DEF room

LEMMA KickHolds ==
    ASSUME RoomsInv, NEW u \in Riders, NEW player \in Seats, Kick(u, player)
    PROVE  RoomsInv' /\ FinishKept
<1> DEFINE kicked == RoomOf(u).members[player].user
<1>1. /\ identity \in IdentityTable /\ Exit(kicked, identity) /\ next_epoch' = next_epoch
      /\ InLobby(u) /\ player \in Racers(RoomOf(u))
    BY DEF RoomsInv, Mid, Kick
<1>2. kicked \in Riders
    <2>1. RoomOf(u).members[player] \in Member
        BY <1>1, LobbyRoom, RoomFields DEF Racers
    <2> QED BY <2>1 DEF Member
<1> HIDE DEF kicked
<1> QED
    BY <1>1, <1>2, Exits

LEMMA StartHolds ==
    ASSUME RoomsInv, NEW u \in Riders, StartRoom(u)
    PROVE  RoomsInv' /\ FinishKept
<1> DEFINE r == room_by_user[u]
           room == rooms[r]
           new == Started(rooms[r], next_epoch)
           rs == [rooms EXCEPT ![r] = new]
           lanes == Taken(reward_lanes, rooms[r], next_epoch)
<1>1. /\ InLobby(u) /\ Startable(room) /\ AllActive(Occupants(room)) /\ next_epoch <= MaxEpoch
      /\ Commit(rs, identity, room_by_user, lanes)
      /\ next_epoch' = next_epoch + 1 /\ UNCHANGED ids
    BY DEF StartRoom, RoomOf, Started, Taken
<1>2. r \in DOMAIN rooms /\ room.phase = "lobby" /\ room \in Room
    <2>1. r \in DOMAIN rooms /\ Sound(RoomOf(u)) /\ RoomOf(u) = room /\ RoomOf(u).phase = "lobby"
        BY <1>1, RoomIsThere DEF InLobby, RoomOf
    <2> QED BY <2>1 DEF Sound
<1>3. \A p \in Racers(room) : reward_lanes[room.members[p].user] = 0
    BY <1>1 DEF Startable
<1>4. new.finish = room.finish
    BY <1>2 DEF Room, Started
<1>5. DOMAIN rs = DOMAIN rooms /\ \A q \in DOMAIN rooms : rs[q].finish = rooms[q].finish
    <2> HIDE DEF new
    <2> QED BY <1>4
<1> HIDE DEF r
<1>6. Mid(rs, identity, room_by_user, lanes, next_epoch + 1)
    <2>1. Mid(rooms, identity, room_by_user, reward_lanes, next_epoch)
        BY DEF RoomsInv
    <2> QED BY <1>1, <1>2, <1>3, <2>1, Starting
<1> HIDE DEF rs, lanes
<1>7. Mid(rs, identity, room_by_user, lanes, next_epoch')
    BY <1>1, <1>6
<1> QED
    BY <1>1, <1>5, <1>7, IdsKept, QuietTurn

--------------------------------------------------------------------------------
(* Loading and racing.                                                      *)

\* A step of the race: the roster stands.
RaceMove(new, old) ==
    /\ Sound(new) /\ SameUsers(new, old) /\ SameRoster(new, old)
    /\ old.phase \in {"running", "settling"} => new.phase \in {"running", "settling"}
    /\ new.channel = old.channel /\ new.master = old.master /\ new.members = old.members
    /\ new.ais = old.ais /\ new.closed = old.closed /\ new.positions = old.positions

LEMMA RaceTurn ==
    ASSUME RoomsInv, NEW r \in DOMAIN rooms, NEW new, RaceMove(new, rooms[r]), Replace(r, new)
    PROVE  /\ RoomsInv' /\ DOMAIN rooms' = DOMAIN rooms
           /\ rooms'[r].finish = new.finish \/ rooms'[r].finish = << >>
           /\ \A q \in DOMAIN rooms : q # r =>
                  rooms'[q].finish = rooms[q].finish \/ rooms'[q].finish = << >>
           /\ new.finish = rooms[r].finish => FinishKept
BY RoomTurn DEF RaceMove

\* Phases, stages and settlements are values of their own.
LEMMA PhaseNames ==
    /\ \A p \in {"lobby", "loading", "running", "settling"} : p \in Phases
    /\ \A s \in {"dormant", "awaiting", "scheduled"} : s \in Stages
    /\ \A s \in {"none", "awaiting", "persisting", "ready", "failed"} : s \in Settlements
BY DEF Phases, Stages, Settlements

Handshake(room, stage, expected, ready) ==
    [room EXCEPT !.stage = stage, !.expected = expected, !.ready = ready]

LEMMA HandshakeMoves ==
    ASSUME NEW room, Sound(room), NEW expected \in SUBSET Riders, NEW ready \in SUBSET Riders,
           NEW stage \in Stages, expected \subseteq DOMAIN room.frozen, ready \subseteq expected,
           room.phase = "loading"
    PROVE  /\ RaceMove(Handshake(room, stage, expected, ready), room)
           /\ Handshake(room, stage, expected, ready).finish = room.finish
<1> DEFINE new == Handshake(room, stage, expected, ready)
<1>1. room \in Room /\ RaceSound(room)
    BY DEF Sound
<1>2. new \in Room
    BY <1>1 DEF Room, Handshake
<1>3. /\ new.channel = room.channel /\ new.phase = room.phase /\ new.master = room.master
      /\ new.members = room.members /\ new.ais = room.ais /\ new.closed = room.closed
      /\ new.positions = room.positions /\ new.fence = room.fence /\ new.frozen = room.frozen
      /\ new.frozen_ais = room.frozen_ais /\ new.stage = stage /\ new.expected = expected
      /\ new.ready = ready /\ new.finish = room.finish /\ new.settlement = room.settlement
    BY <1>1 DEF Room, Handshake
<1> HIDE DEF new
<1>4. RaceSound(new)
    BY <1>1, <1>3 DEF RaceSound
<1>5. SameUsers(new, room) /\ SameRoster(new, room)
    BY <1>3 DEF SameUsers, SameRoster
<1> QED
    BY <1>2, <1>3, <1>4, <1>5 DEF RaceMove, Sound, new

LEMMA ArmingMoves ==
    ASSUME NEW room, Sound(room), room.phase = "loading", room.stage = "dormant"
    PROVE  LET new == [room EXCEPT !.stage = "awaiting", !.expected = DOMAIN room.frozen]
           IN RaceMove(new, room) /\ new.finish = room.finish
<1>1. /\ room \in Room /\ DOMAIN room.frozen \subseteq Riders
      /\ room.ready \subseteq DOMAIN room.frozen
    BY RoomFields DEF RaceSound
<1>2. [room EXCEPT !.stage = "awaiting", !.expected = DOMAIN room.frozen]
        = Handshake(room, "awaiting", DOMAIN room.frozen, room.ready)
    BY <1>1 DEF Room, Handshake
<1> DEFINE expected == DOMAIN room.frozen
           new == Handshake(room, "awaiting", expected, room.ready)
<1>3. /\ "awaiting" \in Stages /\ room.ready \in SUBSET Riders /\ expected \in SUBSET Riders
      /\ room.ready \subseteq expected /\ expected \subseteq DOMAIN room.frozen
    <2>1. room.ready \in SUBSET Riders
        BY <1>1 DEF Room
    <2> QED BY <1>1, <2>1, PhaseNames
<1>4. RaceMove(new, room) /\ new.finish = room.finish
    <2> HIDE DEF expected
    <2> QED BY <1>3, HandshakeMoves
<1> HIDE DEF new
<1> QED
    BY <1>2, <1>4 DEF new

LEMMA ReadyMarkMoves ==
    ASSUME NEW room, Sound(room), room.stage = "awaiting", NEW u \in room.expected
    PROVE  LET new == [room EXCEPT !.ready = @ \cup {u}]
           IN RaceMove(new, room) /\ new.finish = room.finish
<1>1. /\ room \in Room /\ DOMAIN room.frozen \subseteq Riders /\ room.phase = "loading"
      /\ room.expected \subseteq DOMAIN room.frozen /\ room.ready \subseteq room.expected
    BY RoomFields DEF RaceSound
<1>2. [room EXCEPT !.ready = @ \cup {u}]
        = Handshake(room, "awaiting", room.expected, room.ready \cup {u})
    BY <1>1 DEF Room, Handshake
<1> DEFINE expected == room.expected
           ready == room.ready \cup {u}
           new == Handshake(room, "awaiting", expected, ready)
<1>3. /\ "awaiting" \in Stages /\ expected \in SUBSET Riders /\ ready \in SUBSET Riders
      /\ ready \subseteq expected /\ expected \subseteq DOMAIN room.frozen
    BY <1>1, PhaseNames
<1>4. RaceMove(new, room) /\ new.finish = room.finish
    <2> HIDE DEF expected, ready
    <2> QED BY <1>1, <1>3, HandshakeMoves
<1> HIDE DEF new
<1> QED
    BY <1>2, <1>4 DEF new

LEMMA TimeoutMoves ==
    ASSUME NEW room, Sound(room), room.stage = "awaiting"
    PROVE  LET new == [room EXCEPT !.stage = "scheduled", !.expected = {}, !.ready = {}]
           IN RaceMove(new, room) /\ new.finish = room.finish
<1>1. room.phase = "loading"
    BY RoomFields DEF RaceSound
<1>2. "scheduled" \in Stages /\ {} \in SUBSET Riders /\ {} \subseteq DOMAIN room.frozen
    BY PhaseNames
<1> QED
    BY <1>1, <1>2, HandshakeMoves DEF Handshake

LEMMA StartMoves ==
    ASSUME NEW room, Sound(room), room.stage = "scheduled"
    PROVE  LET new == [room EXCEPT !.phase = "running", !.stage = "dormant"]
           IN RaceMove(new, room) /\ new.finish = room.finish
<1> DEFINE new == [room EXCEPT !.phase = "running", !.stage = "dormant"]
<1>1. room \in Room /\ RaceSound(room)
    BY DEF Sound
<1>2. new \in Room
    BY <1>1 DEF Room, Phases, Stages
<1>3. /\ new.channel = room.channel /\ new.phase = "running" /\ new.master = room.master
      /\ new.members = room.members /\ new.ais = room.ais /\ new.closed = room.closed
      /\ new.positions = room.positions /\ new.fence = room.fence /\ new.frozen = room.frozen
      /\ new.frozen_ais = room.frozen_ais /\ new.stage = "dormant"
      /\ new.expected = room.expected
      /\ new.ready = room.ready /\ new.finish = room.finish /\ new.settlement = room.settlement
    BY <1>1 DEF Room
<1> HIDE DEF new
<1>4. RaceSound(new)
    BY <1>1, <1>3 DEF RaceSound
<1>5. SameUsers(new, room) /\ SameRoster(new, room)
    BY <1>3 DEF SameUsers, SameRoster
<1> QED
    BY <1>2, <1>3, <1>4, <1>5 DEF RaceMove, Sound, new

LEMMA FinishMoves ==
    ASSUME NEW room, Sound(room), NEW player \in Seats, NEW time \in Times,
           TakesFinish(room, player)
    PROVE  LET new == FinishRecorded(room, player, time)
           IN RaceMove(new, room) /\ new.finish = Put(room.finish, player, time)
<1> DEFINE new == FinishRecorded(room, player, time)
           finish == Put(room.finish, player, time)
<1>1. room \in Room /\ RaceSound(room) /\ room.finish \in Maps(Seats, Times)
    BY DEF Sound, Room
<1>2. finish \in Maps(Seats, Times)
    BY <1>1, Putting
<1>3. new = [room EXCEPT !.finish = finish, !.phase = "settling", !.settlement = "awaiting"]
    BY DEF FinishRecorded
<1> HIDE DEF new, finish
<1>4. new \in Room
    BY <1>1, <1>2, <1>3 DEF Room, Phases, Settlements
<1>5. /\ new.channel = room.channel /\ new.phase = "settling" /\ new.master = room.master
      /\ new.members = room.members /\ new.ais = room.ais /\ new.closed = room.closed
      /\ new.positions = room.positions /\ new.fence = room.fence /\ new.frozen = room.frozen
      /\ new.frozen_ais = room.frozen_ais /\ new.stage = room.stage
      /\ new.expected = room.expected
      /\ new.ready = room.ready /\ new.finish = finish /\ new.settlement = "awaiting"
    BY <1>1, <1>3 DEF Room
<1>6. room.phase \in {"running", "settling"} /\ room.stage = "dormant" /\ room.fence # 0
    BY <1>1 DEF RaceSound, TakesFinish
<1>7. RaceSound(new)
    BY <1>1, <1>5, <1>6 DEF RaceSound
<1>8. SameUsers(new, room) /\ SameRoster(new, room)
    BY <1>5 DEF SameUsers, SameRoster
<1> QED
    BY <1>4, <1>5, <1>7, <1>8 DEF RaceMove, Sound, new, finish

LEMMA SettlementMoves ==
    ASSUME NEW room, Sound(room), room.settlement # "none",
           NEW to \in {"persisting", "ready", "failed"}
    PROVE  LET new == [room EXCEPT !.settlement = to]
           IN RaceMove(new, room) /\ new.finish = room.finish
<1> DEFINE new == [room EXCEPT !.settlement = to]
<1>1. room \in Room /\ RaceSound(room)
    BY DEF Sound
<1>2. new \in Room
    BY <1>1 DEF Room, Settlements
<1>3. /\ new.channel = room.channel /\ new.phase = room.phase /\ new.master = room.master
      /\ new.members = room.members /\ new.ais = room.ais /\ new.closed = room.closed
      /\ new.positions = room.positions /\ new.fence = room.fence /\ new.frozen = room.frozen
      /\ new.frozen_ais = room.frozen_ais /\ new.stage = room.stage
      /\ new.expected = room.expected
      /\ new.ready = room.ready /\ new.finish = room.finish /\ new.settlement = to
    BY <1>1 DEF Room
<1> HIDE DEF new
<1>4. RaceSound(new)
    BY <1>1, <1>3 DEF RaceSound
<1>5. SameUsers(new, room) /\ SameRoster(new, room)
    BY <1>3 DEF SameUsers, SameRoster
<1> QED
    BY <1>2, <1>3, <1>4, <1>5 DEF RaceMove, Sound, new

\* A turn of a race that records no finish.
LEMMA QuietRaceTurn ==
    ASSUME RoomsInv, NEW r \in DOMAIN rooms, NEW new,
           RaceMove(new, rooms[r]) /\ new.finish = rooms[r].finish, Replace(r, new)
    PROVE  RoomsInv' /\ FinishKept
BY RaceTurn

LEMMA LoadingHolds ==
    ASSUME RoomsInv, NEW u \in Riders, ArmLoading(u) \/ MarkReady(u)
    PROVE  RoomsInv' /\ FinishKept
<1> DEFINE r == room_by_user[u]
           room == rooms[r]
<1>1. r \in DOMAIN rooms /\ Sound(room) /\ RoomOf(u) = room
    BY RoomIsThere DEF ArmLoading, MarkReady, Racing, RoomOf
<1>2. CASE ArmLoading(u)
    <2> DEFINE new == [room EXCEPT !.stage = "awaiting", !.expected = DOMAIN room.frozen]
    <2>1. room.phase = "loading" /\ room.stage = "dormant" /\ Replace(r, new)
        BY <1>1, <1>2 DEF ArmLoading
    <2> HIDE DEF r
    <2>2. RaceMove(new, room) /\ new.finish = room.finish
        BY <1>1, <2>1, ArmingMoves
    <2> HIDE DEF new
    <2> QED BY <1>1, <2>1, <2>2, QuietRaceTurn
<1>3. CASE MarkReady(u)
    <2> DEFINE new == [room EXCEPT !.ready = @ \cup {u}]
    <2>1. room.stage = "awaiting" /\ u \in room.expected /\ Replace(r, new)
        BY <1>1, <1>3 DEF MarkReady
    <2> HIDE DEF r
    <2>2. RaceMove(new, room) /\ new.finish = room.finish
        BY <1>1, <2>1, ReadyMarkMoves
    <2> HIDE DEF new
    <2> QED BY <1>1, <2>1, <2>2, QuietRaceTurn
<1> QED
    BY <1>2, <1>3

LEMMA TimersHold ==
    ASSUME RoomsInv, NEW r \in RoomIds, LoadingTimesOut(r) \/ StartRace(r)
    PROVE  RoomsInv' /\ FinishKept
<1> DEFINE room == rooms[r]
<1>1. r \in DOMAIN rooms /\ Sound(room)
    BY DEF LoadingTimesOut, StartRace, RoomsInv, Mid
<1>2. CASE LoadingTimesOut(r)
    <2> DEFINE new == [room EXCEPT !.stage = "scheduled", !.expected = {}, !.ready = {}]
    <2>1. room.stage = "awaiting" /\ Replace(r, new)
        BY <1>2 DEF LoadingTimesOut
    <2>2. RaceMove(new, room) /\ new.finish = room.finish
        BY <1>1, <2>1, TimeoutMoves
    <2> HIDE DEF new
    <2> QED BY <1>1, <2>1, <2>2, QuietRaceTurn
<1>3. CASE StartRace(r)
    <2> DEFINE new == [room EXCEPT !.phase = "running", !.stage = "dormant"]
    <2>1. room.stage = "scheduled" /\ Replace(r, new)
        BY <1>3 DEF StartRace
    <2>2. RaceMove(new, room) /\ new.finish = room.finish
        BY <1>1, <2>1, StartMoves
    <2> HIDE DEF new
    <2> QED BY <1>1, <2>1, <2>2, QuietRaceTurn
<1> QED
    BY <1>2, <1>3

LEMMA SettlementHolds ==
    ASSUME RoomsInv, NEW r \in RoomIds,
           BeginPersistence(r) \/ RewardReport(r)
    PROVE  RoomsInv' /\ FinishKept
<1>1. PICK from \in {"awaiting", "persisting", "failed"}, to \in {"persisting", "ready", "failed"} :
          Settlement(r, from, to)
    BY DEF BeginPersistence, RewardReport, RewardsDurable, RewardsFail, RetryDeadLetter
<1> DEFINE room == rooms[r]
           new == [room EXCEPT !.settlement = to]
<1>2. /\ r \in DOMAIN rooms /\ Sound(room) /\ room.settlement # "none" /\ Replace(r, new)
    BY <1>1 DEF Settlement, RoomsInv, Mid
<1>3. RaceMove(new, room) /\ new.finish = room.finish
    BY <1>2, SettlementMoves
<1> HIDE DEF new
<1> QED
    BY <1>2, <1>3, QuietRaceTurn

LEMMA FinalizeHolds ==
    ASSUME RoomsInv, NEW r \in RoomIds, Finalize(r)
    PROVE  RoomsInv' /\ FinishKept
<1> DEFINE room == rooms[r]
           lanes == Released(reward_lanes, {room.fence})
<1>1. /\ r \in DOMAIN rooms /\ room.settlement = "ready" /\ next_epoch' = next_epoch
      /\ Mid(rooms, identity, room_by_user, reward_lanes, next_epoch)
      /\ Sound(room) /\ IdsFree
    BY DEF Finalize, RoomsInv, Mid
<1>2. room.fence # 0
    BY <1>1 DEF Sound, RaceSound
<1>3. CASE DOMAIN room.members = {}
    <2> DEFINE rs == Drop(rooms, {r})
    <2>1. /\ Commit(rs, identity, room_by_user, lanes)
          /\ free_ids' = free_ids \cup {r} /\ next_room_id' = next_room_id
        BY <1>3 DEF Finalize
    <2>2. /\ room_by_user \in [Riders -> 0 .. MaxRoom]
          /\ \A v \in Riders : room_by_user[v] = IF room_by_user[v] = r THEN 0 ELSE room_by_user[v]
        <3>1. \A v \in Riders : room_by_user[v] # r
            BY <1>1, <1>3, RoomConstants DEF Mid, Houses, Occupants, RoomIds
        <3> QED BY <1>1, <3>1 DEF Mid
    <2>3. {room.fence} \ {0} = {room.fence}
        BY <1>2
    <2>4. Mid(rs, identity, room_by_user, Released(reward_lanes, {room.fence} \ {0}), next_epoch)
        <3> HIDE DEF room
        <3> QED BY <1>1, <2>2, Dissolving DEF room
    <2>5. Mid(rs, identity, room_by_user, lanes, next_epoch')
        BY <1>1, <2>3, <2>4
    <2>6. DOMAIN rs = DOMAIN rooms \ {r} /\ \A q \in DOMAIN rs : rs[q] = rooms[q]
        BY DEF Drop
    <2>7. free_ids' \subseteq RoomIds /\ free_ids' \cap DOMAIN rs = {} /\ next_room_id' \in RoomIds
        BY <1>1, <2>1, <2>6 DEF IdsFree
    <2> HIDE DEF rs, lanes
    <2> QED BY <2>1, <2>5, <2>6, <2>7, QuietTurn
<1>4. CASE DOMAIN room.members # {}
    <2> DEFINE new == Settled(room)
               rs == [rooms EXCEPT ![r] = new]
    <2>1. Commit(rs, identity, room_by_user, lanes) /\ UNCHANGED ids
        BY <1>4 DEF Finalize
    <2>2. Sound(new) /\ SameUsers(new, room) /\ new.fence = 0 /\ new.finish = << >>
        <3> HIDE DEF room
        <3> QED BY <1>1, RaceSettled
    <2> HIDE DEF new
    <2>3. Mid(rs, identity, room_by_user, lanes, next_epoch')
        BY <1>1, <1>4, <2>2, Resting
    <2>4. /\ DOMAIN rs = DOMAIN rooms
          /\ \A q \in DOMAIN rooms : rs[q].finish = rooms[q].finish \/ rs[q].finish = << >>
        BY <1>1, <2>2
    <2> HIDE DEF rs, lanes
    <2> QED BY <2>1, <2>3, <2>4, IdsKept, QuietTurn
<1> QED
    BY <1>3, <1>4

\* A finish is recorded for the player id that gives the report its room.
FinishOf(u, player) ==
    /\ DOMAIN rooms' = DOMAIN rooms /\ room_by_user[u] \in DOMAIN rooms
    /\ DOMAIN rooms'[room_by_user[u]].finish \subseteq DOMAIN RoomOf(u).finish \cup {player}
    /\ \A r \in DOMAIN rooms : r # room_by_user[u] =>
            DOMAIN rooms'[r].finish \subseteq DOMAIN rooms[r].finish

LEMMA FinishTurn ==
    ASSUME RoomsInv, NEW u \in Riders, NEW player \in Seats, NEW time \in Times, Racing(u),
           TakesFinish(RoomOf(u), player),
           Replace(room_by_user[u], FinishRecorded(RoomOf(u), player, time))
    PROVE  RoomsInv' /\ FinishOf(u, player)
<1> DEFINE r == room_by_user[u]
           room == rooms[r]
           new == FinishRecorded(room, player, time)
<1>1. r \in DOMAIN rooms /\ Sound(room) /\ RoomOf(u) = room /\ TakesFinish(room, player)
      /\ Replace(r, new)
    BY RoomIsThere DEF Racing, RoomOf
<1> HIDE DEF r
<1>2. RaceMove(new, room) /\ new.finish = Put(room.finish, player, time)
    BY <1>1, FinishMoves
<1>3. DOMAIN new.finish = DOMAIN room.finish \cup {player}
    BY <1>2 DEF Put
<1> HIDE DEF new
<1>4. /\ RoomsInv' /\ DOMAIN rooms' = DOMAIN rooms
      /\ rooms'[r].finish = new.finish \/ rooms'[r].finish = << >>
      /\ \A q \in DOMAIN rooms : q # r =>
            rooms'[q].finish = rooms[q].finish \/ rooms'[q].finish = << >>
    BY <1>1, <1>2, RaceTurn
<1>5. DOMAIN rooms'[r].finish \subseteq DOMAIN room.finish \cup {player}
    BY <1>3, <1>4, NoMap
<1>6. \A q \in DOMAIN rooms : q # r => DOMAIN rooms'[q].finish \subseteq DOMAIN rooms[q].finish
    BY <1>4, NoMap
<1> QED
    BY <1>1, <1>4, <1>5, <1>6 DEF FinishOf, r

\* What a turn may add to a race's finishes.
FinishExact ==
    \A r \in DOMAIN rooms \cap DOMAIN rooms' :
        \A u \in FrozenRacers(rooms[r]) :
            rooms[r].frozen[u].player \in DOMAIN rooms'[r].finish \ DOMAIN rooms[r].finish =>
                identity[u].generation = rooms[r].frozen[u].generation /\ room_by_user[u] = r

LEMMA KeptIsExact ==
    ASSUME FinishKept
    PROVE  FinishExact
BY DEF FinishKept, FinishExact

LEMMA FinishHolds ==
    ASSUME RoomsInv, NEW u \in Riders, NEW time \in Times,
           HumanFinish(u, time) \/ \E player \in Seats : AiFinish(u, player, time)
    PROVE  RoomsInv' /\ FinishExact
<1>1. /\ room_by_user[u] \in DOMAIN rooms /\ RaceSound(RoomOf(u))
      /\ RoomOf(u) = rooms[room_by_user[u]]
    BY RoomIsThere DEF HumanFinish, AiFinish, Racing, Sound, RoomOf
<1>2. CASE HumanFinish(u, time)
    <2> DEFINE player == RoomOf(u).frozen[u].player
    <2>1. /\ Racing(u) /\ player \in Seats /\ TakesFinish(RoomOf(u), player)
          /\ Replace(room_by_user[u], FinishRecorded(RoomOf(u), player, time))
        BY <1>2 DEF HumanFinish
    <2>2. RoomsInv' /\ FinishOf(u, player)
        <3> HIDE DEF player
        <3> QED BY <2>1, FinishTurn
    <2>3. /\ u \in DOMAIN RoomOf(u).frozen
          /\ RoomOf(u).frozen[u].generation = identity[u].generation
        BY <2>1 DEF Racing, FrozenAs
    <2>4. ASSUME NEW r \in DOMAIN rooms, NEW v \in FrozenRacers(rooms[r]),
                 rooms[r].frozen[v].player \in DOMAIN rooms'[r].finish \ DOMAIN rooms[r].finish
          PROVE  identity[v].generation = rooms[r].frozen[v].generation /\ room_by_user[v] = r
        <3>1. r = room_by_user[u] /\ rooms[r].frozen[v].player = player
            BY <1>1, <2>2, <2>4 DEF FinishOf
        <3>2. v = u
            BY <1>1, <2>3, <3>1 DEF RaceSound, FrozenRacers
        <3> QED BY <1>1, <2>3, <3>1, <3>2
    <2> QED BY <2>2, <2>4 DEF FinishExact
<1>3. CASE \E player \in Seats : AiFinish(u, player, time)
    <2>1. PICK player \in Seats : AiFinish(u, player, time)
        BY <1>3
    <2>2. RoomsInv' /\ FinishOf(u, player)
        BY <2>1, FinishTurn DEF AiFinish
    <2>3. player \in DOMAIN RoomOf(u).frozen_ais
        BY <2>1 DEF AiFinish
    <2>4. ASSUME NEW r \in DOMAIN rooms, NEW v \in FrozenRacers(rooms[r])
          PROVE  rooms[r].frozen[v].player \notin DOMAIN rooms'[r].finish \ DOMAIN rooms[r].finish
        <3>1. CASE r = room_by_user[u]
            <4>1. rooms[r].frozen[v].player # player
                BY <1>1, <2>3, <3>1 DEF RaceSound, FrozenRacers
            <4> QED BY <1>1, <2>2, <3>1, <4>1 DEF FinishOf
        <3>2. CASE r # room_by_user[u]
            BY <2>2, <3>2 DEF FinishOf
        <3> QED BY <3>1, <3>2
    <2> QED BY <2>2, <2>4 DEF FinishExact
<1> QED
    BY <1>2, <1>3

--------------------------------------------------------------------------------
(* The theorems.                                                            *)

LEMMA RoomsStep ==
    ASSUME RoomsInv, [Next]_vars
    PROVE  RoomsInv' /\ FinishExact
<1>1. ASSUME RoomsInv' /\ FinishKept PROVE RoomsInv' /\ FinishExact
    BY <1>1, KeptIsExact
<1>2. CASE UNCHANGED vars
    <2>1. UNCHANGED <<identity, rooms, room_by_user, free_ids, next_room_id, next_epoch, reward_lanes>>
        BY <1>2 DEF vars, ids
    <2> QED BY <2>1 DEF RoomsInv, Mid, Houses, Lanes, Attendance, Attended, IdsFree, FinishExact,
                        Exact
<1>3. ASSUME NEW u \in Riders, NEW c \in Channels, Arrive(u, c) \/ Migrate(u, c)
      PROVE  RoomsInv' /\ FinishExact
    BY <1>1, <1>3, ArriveHolds
<1>4. ASSUME NEW u \in Riders, Disconnect(u) \/ Release(u)
      PROVE  RoomsInv' /\ FinishExact
    BY <1>1, <1>4, DisconnectHolds
<1>5. ASSUME NEW u \in Riders, Create(u) \/ Leave(u) \/ \E r \in RoomIds : Join(u, r)
      PROVE  RoomsInv' /\ FinishExact
    BY <1>1, <1>5, CreateHolds, LeaveHolds, JoinHolds
<1>6. ASSUME NEW u \in Riders, LobbyCommand(u)
      PROVE  RoomsInv' /\ FinishExact
    BY <1>1, <1>6, SlotStateHolds, TeamHolds, MasterHolds, AiHolds, KickHolds, ClosedSlotsHold,
       StartHolds DEF LobbyCommand
<1>7. ASSUME NEW u \in Riders, RaceCommand(u)
      PROVE  RoomsInv' /\ FinishExact
    BY <1>1, <1>7, LoadingHolds, FinishHolds DEF RaceCommand
<1>8. ASSUME NEW r \in RoomIds, Timer(r) \/ RewardReport(r)
      PROVE  RoomsInv' /\ FinishExact
    BY <1>1, <1>8, TimersHold, SettlementHolds, FinalizeHolds DEF Timer
<1> QED
    BY <1>2, <1>3, <1>4, <1>5, <1>6, <1>7, <1>8 DEF Next

LEMMA RoomsInvariant == Spec => []RoomsInv
<1>1. Init => RoomsInv
    BY RoomsInit
<1>2. RoomsInv /\ [Next]_vars => RoomsInv'
    BY RoomsStep
<1> QED
    BY <1>1, <1>2, PTL DEF Spec

LEMMA MembershipFollows ==
    ASSUME RoomsInv
    PROVE  MembershipCoherent
<1>1. /\ Houses(rooms, room_by_user) /\ IdsFree
      /\ \A r \in DOMAIN rooms : r # 0 /\ Sound(rooms[r])
    BY DEF RoomsInv, Mid, RoomIds
<1>2. ASSUME NEW u \in Riders, NEW r \in DOMAIN rooms
      PROVE  Cardinality({p \in DOMAIN rooms[r].members : rooms[r].members[p].user = u})
               = IF room_by_user[u] = r THEN 1 ELSE 0
    <2> DEFINE seats == {p \in DOMAIN rooms[r].members : rooms[r].members[p].user = u}
    <2>1. CASE room_by_user[u] = r
        <3>1. u \in Occupants(rooms[r])
            BY <1>1, <2>1 DEF Houses
        <3>2. PICK p \in DOMAIN rooms[r].members : rooms[r].members[p].user = u
            BY <3>1 DEF Occupants
        <3>3. seats = {p}
            BY <1>1, <3>2 DEF Houses
        <3> HIDE DEF seats
        <3>4. Cardinality(seats) = 1
            BY <3>3, FS_Singleton
        <3> QED BY <2>1, <3>4 DEF seats
    <2>2. CASE room_by_user[u] # r
        <3>1. seats = {}
            BY <1>1, <2>2 DEF Houses
        <3> HIDE DEF seats
        <3>2. Cardinality(seats) = 0
            BY <3>1, FS_EmptySet
        <3> QED BY <2>2, <3>2 DEF seats
    <2> QED BY <2>1, <2>2
<1>3. /\ \A u \in Riders : room_by_user[u] # 0 => room_by_user[u] \in DOMAIN rooms
      /\ \A r \in DOMAIN rooms : DOMAIN rooms[r].members = {} =>
            rooms[r].phase \in {"running", "settling"}
      /\ free_ids \cap DOMAIN rooms = {}
    BY <1>1 DEF Houses, IdsFree
<1> QED
    BY <1>2, <1>3 DEF MembershipCoherent

LEMMA LanesFollow ==
    ASSUME RoomsInv
    PROVE  LanesMatchRosters
<1>1. Lanes(rooms, reward_lanes) /\ \A r \in DOMAIN rooms : RaceSound(rooms[r])
    BY DEF RoomsInv, Mid, Sound
<1>2. \A r \in DOMAIN rooms : rooms[r].fence # 0 =>
         /\ rooms[r].phase # "lobby"
         /\ \A u \in FrozenRacers(rooms[r]) : reward_lanes[u] = rooms[r].fence
    BY <1>1 DEF Lanes, RaceSound
<1>3. \A r \in DOMAIN rooms : rooms[r].fence = 0 =>
         rooms[r].phase = "lobby" /\ rooms[r].frozen = << >>
    BY <1>1 DEF RaceSound
<1> QED
    BY <1>1, <1>2, <1>3 DEF Lanes, LanesMatchRosters

LEMMA TypesFollow ==
    ASSUME RoomsInv
    PROVE  TypeOK
<1>1. /\ Mid(rooms, identity, room_by_user, reward_lanes, next_epoch) /\ IdsFree
    BY DEF RoomsInv
<1>2. ASSUME NEW r \in DOMAIN rooms PROVE IsRoom(rooms[r])
    <2> DEFINE room == rooms[r]
    <2>1. room \in Room /\ RaceSound(room)
        BY <1>1 DEF Mid, Sound
    <2> HIDE DEF room
    <2>2. /\ room.members \in Maps(Players, Member) /\ room.ais \in Maps(Seats, Teams)
          /\ room.closed \in Maps(Seats, Seats) /\ room.positions \in Maps(Seats, Seats)
          /\ room.frozen \in Maps(Riders, Participant) /\ room.frozen_ais \in Maps(Seats, Teams)
          /\ room.finish \in Maps(Seats, Times)
        BY <2>1 DEF Room
    <2>3. /\ DOMAIN room.members \subseteq Players
          /\ room.members \in [DOMAIN room.members -> Member]
          /\ DOMAIN room.ais \subseteq Seats /\ room.ais \in [DOMAIN room.ais -> Teams]
          /\ DOMAIN room.closed \subseteq Seats /\ room.closed \in [DOMAIN room.closed -> Seats]
          /\ DOMAIN room.positions \subseteq Seats
          /\ room.positions \in [DOMAIN room.positions -> Seats]
          /\ DOMAIN room.frozen \subseteq Riders
          /\ room.frozen \in [DOMAIN room.frozen -> Participant]
          /\ DOMAIN room.frozen_ais \subseteq Seats
          /\ room.frozen_ais \in [DOMAIN room.frozen_ais -> Teams]
          /\ DOMAIN room.finish \subseteq Seats /\ room.finish \in [DOMAIN room.finish -> Times]
        BY <2>2, MapIs
    <2>4. /\ room.channel \in Channels /\ room.phase \in Phases
          /\ room.master \in Players \cup {-1} /\ room.fence \in 0 .. MaxEpoch
          /\ room.stage \in Stages /\ room.settlement \in Settlements
          /\ room.expected \subseteq DOMAIN room.frozen /\ room.ready \subseteq room.expected
        BY <2>1 DEF Room, RaceSound
    <2> QED BY <2>3, <2>4 DEF IsRoom, room
<1> QED
    BY <1>1, <1>2 DEF TypeOK, Mid, IdsFree, IdentityTable

\* Every table of the rooms keeps its type: a room's maps go from player ids,
\* slots or riders to what they hold, and who is waited for in a loading room
\* is in its frozen roster (ProtocolRoomState and the World's room tables).
THEOREM RoomsTyped == Spec => []TypeOK
BY RoomsInvariant, TypesFollow, PTL

\* A rider is in the one room the membership map names, and only there, no
\* empty room outlives its race, and no room in use has an id that may be given
\* out again: through joins, exits, kicks, migrations and settlements
\* (protocol_room_by_user, remove_protocol_user, free_protocol_room_ids).
THEOREM RidersHaveOneRoom == Spec => []MembershipCoherent
BY RoomsInvariant, MembershipFollows, PTL

\* A reward lane belongs to the one race whose frozen roster has its rider, from
\* validate_start_racers to release_reward_lanes: a rider who left his race, or
\* came back under a new identity, is frozen into no second one before his
\* reward is settled, and no lane outlives its race.
THEOREM LanesFollowRosters == Spec => []LanesMatchRosters
BY RoomsInvariant, LanesFollow, PTL

\* After every turn a room that loads or races has a racer left who is the very
\* one frozen, and a loading room waits for someone who is there and has not
\* answered (advance_loading_room, reconcile_loading_handshake,
\* reconcile_running_room).
THEOREM RacesStayAttended == Spec => []RacesAreAttended
<1>1. RoomsInv => RacesAreAttended
    BY DEF RoomsInv, Attendance, Attended, RacesAreAttended
<1> QED
    BY <1>1, RoomsInvariant, PTL

\* A finish of a rider counts for the identity that was frozen, and while it is
\* in the room: a rider who comes back under a new identity finishes no race of
\* the old, and no report about an AI finishes a rider's race
\* (record_human_finish, record_ai_finish).
THEOREM FinishesStayExact == Spec => FinishesAreExact
<1>1. RoomsInv /\ [Next]_vars => [FinishExact]_vars
    BY RoomsStep
<1>2. [][FinishExact]_vars => FinishesAreExact
    BY DEF FinishesAreExact, FinishExact
<1> HIDE DEF FinishExact
<1> QED
    BY <1>1, <1>2, RoomsInvariant, PTL DEF Spec

--------------------------------------------------------------------------------
(* The seats of a room.                                                     *)

\* SeatsCoherent of one room, said without counting.
Seating(room) ==
    /\ Racers(room) \cap DOMAIN room.ais = {}
    /\ Racers(room) \cap DOMAIN room.closed = {}
    /\ DOMAIN room.ais \cap DOMAIN room.closed = {}
    /\ \A p \in Occupied(room) : \E s \in DOMAIN room.positions : room.positions[s] = p
    /\ \A s, t \in DOMAIN room.positions : room.positions[s] = room.positions[t] => s = t
    /\ \A s \in DOMAIN room.positions : room.positions[s] \in Occupied(room)
    /\ \A p \in DOMAIN room.closed :
          room.closed[p] \in DOMAIN room.positions /\ room.positions[room.closed[p]] = p
    /\ \A s \in DOMAIN room.positions : LET p == room.positions[s] IN
          /\ p \in Racers(room) => s \in Half(room.members[p].team)
          /\ p \in DOMAIN room.ais => s \in Half(room.ais[p])
    /\ \A p \in Racers(room) : room.members[p].team = NoTeam <=> ~InTeams(room)

\* What the seating is read from.
SameSeats(new, old) ==
    /\ new.channel = old.channel /\ Racers(new) = Racers(old)
    /\ \A p \in Racers(old) : new.members[p].team = old.members[p].team
    /\ new.ais = old.ais /\ new.closed = old.closed /\ new.positions = old.positions

LEMMA SeatingKept ==
    ASSUME NEW old, NEW new, Seating(old), SameSeats(new, old)
    PROVE  Seating(new)
<1>1. Racers(new) = Racers(old) /\ Occupied(new) = Occupied(old) /\ (InTeams(new) <=> InTeams(old))
    BY DEF SameSeats, Occupied, InTeams
<1>2. \A p \in Racers(old) : new.members[p].team = old.members[p].team
    BY DEF SameSeats
<1> QED
    BY <1>1, <1>2 DEF Seating, SameSeats

\* A racer or an AI takes a free player id and a free slot.
LEMMA SeatTaken ==
    ASSUME NEW old, NEW new, Seating(old), NEW player, player \notin Occupied(old),
           NEW slot, slot \notin DOMAIN old.positions,
           new.positions = Put(old.positions, slot, player),
           new.closed = old.closed, new.channel = old.channel,
           Occupied(new) = Occupied(old) \cup {player},
           Racers(old) \subseteq Racers(new), Racers(new) \subseteq Racers(old) \cup {player},
           DOMAIN old.ais \subseteq DOMAIN new.ais, Racers(new) \cap DOMAIN new.ais = {},
           DOMAIN new.ais \subseteq DOMAIN old.ais \cup {player},
           \A p \in Racers(old) : new.members[p].team = old.members[p].team,
           \A p \in DOMAIN old.ais : new.ais[p] = old.ais[p],
           player \in Racers(new) =>
              /\ slot \in Half(new.members[player].team)
              /\ new.members[player].team = NoTeam <=> ~InTeams(new),
           player \in DOMAIN new.ais => slot \in Half(new.ais[player])
    PROVE  Seating(new)
<1>1. /\ DOMAIN new.positions = DOMAIN old.positions \cup {slot} /\ new.positions[slot] = player
      /\ \A s \in DOMAIN old.positions : new.positions[s] = old.positions[s]
    BY DEF Put
<1>2. InTeams(new) <=> InTeams(old)
    BY DEF InTeams
<1>3. player \notin Racers(old) /\ player \notin DOMAIN old.ais /\ player \notin DOMAIN old.closed
    BY DEF Occupied
<1>4. /\ Racers(new) \cap DOMAIN new.closed = {} /\ DOMAIN new.ais \cap DOMAIN new.closed = {}
    BY <1>3 DEF Seating
<1>5. \A s \in DOMAIN old.positions : old.positions[s] \in Occupied(old) /\ old.positions[s] # player
    BY DEF Seating
<1>6. \A p \in Occupied(new) : \E s \in DOMAIN new.positions : new.positions[s] = p
    <2> TAKE p \in Occupied(new)
    <2>1. CASE p = player
        BY <1>1, <2>1
    <2>2. CASE p \in Occupied(old)
        <3>1. PICK s \in DOMAIN old.positions : old.positions[s] = p
            BY <2>2 DEF Seating
        <3> QED BY <1>1, <3>1
    <2> QED BY <2>1, <2>2
<1>7. \A s, t \in DOMAIN new.positions : new.positions[s] = new.positions[t] => s = t
    BY <1>1, <1>5 DEF Seating
<1>8. \A s \in DOMAIN new.positions : new.positions[s] \in Occupied(new)
    BY <1>1, <1>5
<1>9. \A p \in DOMAIN new.closed :
          new.closed[p] \in DOMAIN new.positions /\ new.positions[new.closed[p]] = p
    BY <1>1 DEF Seating
<1>10. ASSUME NEW s \in DOMAIN new.positions
       PROVE  /\ new.positions[s] \in Racers(new) => s \in Half(new.members[new.positions[s]].team)
              /\ new.positions[s] \in DOMAIN new.ais => s \in Half(new.ais[new.positions[s]])
    <2>1. CASE s = slot
        BY <1>1, <2>1
    <2>2. CASE s \in DOMAIN old.positions
        <3> DEFINE p == old.positions[s]
        <3>1. new.positions[s] = p /\ p # player
            BY <1>1, <1>5, <2>2
        <3>2. /\ p \in Racers(old) => s \in Half(old.members[p].team)
              /\ p \in DOMAIN old.ais => s \in Half(old.ais[p])
            BY <2>2 DEF Seating
        <3> HIDE DEF p
        <3> QED BY <3>1, <3>2
    <2> QED BY <1>1, <2>1, <2>2
<1>11. \A p \in Racers(new) : new.members[p].team = NoTeam <=> ~InTeams(new)
    <2> TAKE p \in Racers(new)
    <2>1. CASE p = player
        BY <2>1
    <2>2. CASE p \in Racers(old)
        BY <1>2, <2>2 DEF Seating
    <2> QED BY <2>1, <2>2
<1> QED
    BY <1>4, <1>6, <1>7, <1>8, <1>9, <1>10, <1>11 DEF Seating

\* A player id that is not closed and its slot become free.
LEMMA SeatCleared ==
    ASSUME NEW old, NEW new, Seating(old), NEW player, player \notin DOMAIN old.closed,
           new.positions = Drop(old.positions, {s \in DOMAIN old.positions :
                                                   old.positions[s] = player}),
           new.closed = old.closed, new.channel = old.channel,
           Racers(new) = Racers(old) \ {player}, DOMAIN new.ais = DOMAIN old.ais \ {player},
           \A p \in Racers(new) : new.members[p].team = old.members[p].team,
           \A p \in DOMAIN new.ais : new.ais[p] = old.ais[p]
    PROVE  Seating(new)
<1>1. /\ DOMAIN new.positions = {s \in DOMAIN old.positions : old.positions[s] # player}
      /\ \A s \in DOMAIN new.positions : new.positions[s] = old.positions[s]
    BY DEF Drop
<1>2. (InTeams(new) <=> InTeams(old)) /\ Occupied(new) = Occupied(old) \ {player}
    BY DEF InTeams, Occupied
<1>3. \A p \in Occupied(new) : \E s \in DOMAIN new.positions : new.positions[s] = p
    <2> TAKE p \in Occupied(new)
    <2>1. PICK s \in DOMAIN old.positions : old.positions[s] = p
        BY <1>2 DEF Seating
    <2>2. p # player
        BY <1>2
    <2> QED BY <1>1, <2>1, <2>2
<1>4. \A s \in DOMAIN new.positions : new.positions[s] \in Occupied(new)
    BY <1>1, <1>2 DEF Seating
<1>5. \A p \in DOMAIN new.closed :
          new.closed[p] \in DOMAIN new.positions /\ new.positions[new.closed[p]] = p
    BY <1>1 DEF Seating
<1>6. ASSUME NEW s \in DOMAIN new.positions
      PROVE  /\ new.positions[s] \in Racers(new) => s \in Half(new.members[new.positions[s]].team)
             /\ new.positions[s] \in DOMAIN new.ais => s \in Half(new.ais[new.positions[s]])
    <2> DEFINE p == old.positions[s]
    <2>1. new.positions[s] = p /\ s \in DOMAIN old.positions
        BY <1>1
    <2>2. /\ p \in Racers(old) => s \in Half(old.members[p].team)
          /\ p \in DOMAIN old.ais => s \in Half(old.ais[p])
        BY <2>1 DEF Seating
    <2> HIDE DEF p
    <2> QED BY <2>1, <2>2
<1>7. \A p \in Racers(new) : new.members[p].team = NoTeam <=> ~InTeams(new)
    BY <1>2 DEF Seating
<1>8. /\ Racers(new) \cap DOMAIN new.ais = {} /\ Racers(new) \cap DOMAIN new.closed = {}
      /\ DOMAIN new.ais \cap DOMAIN new.closed = {}
      /\ \A s, t \in DOMAIN new.positions : new.positions[s] = new.positions[t] => s = t
    BY <1>1 DEF Seating
<1> QED
    BY <1>3, <1>4, <1>5, <1>6, <1>7, <1>8 DEF Seating

--------------------------------------------------------------------------------
(* The places on the grid.                                                  *)

\* Who is below p in a strict order.
Below(S, less, p) == {o \in S : <<o, p>> \in less}

LEMMA BelowIsSmaller ==
    ASSUME NEW S, IsFiniteSet(S), NEW less, NEW p \in S, NEW q \in S, <<p, q>> \in less,
           \A x \in S : <<x, x>> \notin less,
           \A x, y, z \in S : <<x, y>> \in less /\ <<y, z>> \in less => <<x, z>> \in less
    PROVE  Cardinality(Below(S, less, p)) < Cardinality(Below(S, less, q))
<1> DEFINE P == Below(S, less, p)
           Q == Below(S, less, q)
<1>1. P \subseteq Q /\ p \in Q /\ p \notin P /\ Q \subseteq S
    BY DEF Below
<1> HIDE DEF P, Q
<1>2. IsFiniteSet(P) /\ IsFiniteSet(Q)
    BY <1>1, FS_Subset
<1>3. Cardinality(P) <= Cardinality(Q) /\ Cardinality(P) # Cardinality(Q)
    BY <1>1, <1>2, FS_Subset
<1>4. Cardinality(P) \in Nat /\ Cardinality(Q) \in Nat
    BY <1>2, FS_CardinalityType
<1> QED
    BY <1>3, <1>4 DEF P, Q

\* In a strict total order of a finite set, everyone's number of predecessors
\* is its place, and the places are 0, 1, ... without gap or tie.
LEMMA PlacesArePermutation ==
    ASSUME NEW S, IsFiniteSet(S), NEW less,
           \A x \in S : <<x, x>> \notin less,
           \A x, y, z \in S : <<x, y>> \in less /\ <<y, z>> \in less => <<x, z>> \in less,
           \A x, y \in S : x # y => <<x, y>> \in less \/ <<y, x>> \in less
    PROVE  {Cardinality(Below(S, less, p)) : p \in S} = 0 .. Cardinality(S) - 1
<1> DEFINE place == [p \in S |-> Cardinality(Below(S, less, p))]
           n == Cardinality(S)
           places == 0 .. n - 1
<1>1. n \in Nat
    BY FS_CardinalityType
<1>2. \A p \in S : Cardinality(Below(S, less, p)) \in places
    <2> TAKE p \in S
    <2> DEFINE P == Below(S, less, p)
    <2>1. P \subseteq S /\ p \notin P
        BY DEF Below
    <2> HIDE DEF P
    <2>2. IsFiniteSet(P) /\ Cardinality(P) <= n /\ Cardinality(P) # n
        BY <2>1, FS_Subset
    <2>3. Cardinality(P) \in Nat
        BY <2>2, FS_CardinalityType
    <2>4. Cardinality(P) \in places
        <3> HIDE DEF n
        <3> QED BY <1>1, <2>2, <2>3
    <2> QED BY <2>4 DEF P
<1>3. \A p, q \in S : p # q => place[p] # place[q]
    <2> TAKE p, q \in S
    <2> HAVE p # q
    <2>1. \A x \in S : Cardinality(Below(S, less, x)) \in Int
        <3> HIDE DEF n
        <3> QED BY <1>1, <1>2
    <2>2. CASE <<p, q>> \in less
        <3>1. Cardinality(Below(S, less, p)) < Cardinality(Below(S, less, q))
            BY <2>2, BelowIsSmaller
        <3> QED BY <2>1, <3>1
    <2>3. CASE <<q, p>> \in less
        <3>1. Cardinality(Below(S, less, q)) < Cardinality(Below(S, less, p))
            BY <2>3, BelowIsSmaller
        <3> QED BY <2>1, <3>1
    <2> QED BY <2>2, <2>3
<1>4. place \in Injection(S, places)
    <2>1. place \in [S -> places]
        BY <1>2
    <2> QED BY <1>3, <2>1 DEF Injection, IsInjective
<1>5. IsFiniteSet(places) /\ Cardinality(places) = n
    <2> HIDE DEF n
    <2>1. 0 \in Int /\ n - 1 \in Int
        BY <1>1
    <2>2. Cardinality(0 .. n - 1) = IF 0 > n - 1 THEN 0 ELSE n - 1 - 0 + 1
        BY <2>1, FS_Interval
    <2> QED BY <1>1, <2>1, <2>2, FS_Interval
<1>6. place \in Surjection(S, places)
    <2> HIDE DEF place, places
    <2> QED BY <1>4, <1>5, FS_Injection
<1>7. \A x \in places : \E p \in S : place[p] = x
    <2> HIDE DEF place, places
    <2> QED BY <1>6 DEF Surjection
<1>8. \A p \in S : place[p] = Cardinality(Below(S, less, p))
    OBVIOUS
<1> HIDE DEF place, places
<1>9. {Cardinality(Below(S, less, p)) : p \in S} = places
    BY <1>2, <1>7, <1>8
<1> QED
    BY <1>9 DEF places, n

\* GridIsPermutation of one room.
Graded(room) ==
    {room.members[p].ranking : p \in Racers(room)} = 0 .. Cardinality(Racers(room)) - 1

\* MasterPresent of one room.
Mastered(room) ==
    DOMAIN room.members # {} =>
        \/ room.master \in DOMAIN room.members
        \/ Racers(room) = {} /\ room.master = 0

\* Who races in the room is in its frozen roster, with the player id he has.
Enrolled(room) ==
    room.fence # 0 => \A p \in Racers(room) :
        /\ room.members[p].user \in DOMAIN room.frozen
        /\ room.frozen[room.members[p].user].player = p

Coherent(room) == Seating(room) /\ Graded(room) /\ Mastered(room) /\ Enrolled(room)

LEMMA RacersFinite ==
    ASSUME NEW room
    PROVE  Racers(room) \subseteq Seats /\ IsFiniteSet(Racers(room))
           /\ Cardinality(Racers(room)) \in Nat
<1>1. Racers(room) \subseteq Seats
    BY DEF Racers
<1>2. IsFiniteSet(Racers(room))
    BY <1>1, SeatNumbers, FS_Subset
<1> QED
    BY <1>1, <1>2, FS_CardinalityType

\* Members who keep their user, their team and their place on the grid.
SamePlaces(new, old) ==
    /\ SameSeats(new, old) /\ SameUsers(new, old)
    /\ \A p \in Racers(old) : new.members[p].ranking = old.members[p].ranking

LEMMA GradingKept ==
    ASSUME NEW old, NEW new, Graded(old), Racers(new) = Racers(old),
           \A p \in Racers(old) : new.members[p].ranking = old.members[p].ranking
    PROVE  Graded(new)
BY DEF Graded

LEMMA CoherenceKept ==
    ASSUME NEW old, NEW new, Coherent(old), SamePlaces(new, old), new.master = old.master,
           SameRoster(new, old) \/ new.fence = 0
    PROVE  Coherent(new)
<1>1. Seating(new)
    BY SeatingKept DEF Coherent, SamePlaces
<1>2. Racers(new) = Racers(old) /\ Racers(old) \subseteq DOMAIN old.members
    BY DEF SamePlaces, SameSeats, Racers
<1>3. Graded(new)
    BY <1>2, GradingKept DEF Coherent, SamePlaces
<1>4. Mastered(new)
    BY <1>2 DEF Coherent, Mastered, SamePlaces, SameUsers
<1>5. Enrolled(new)
    BY <1>2 DEF Coherent, Enrolled, SamePlaces, SameUsers, SameRoster
<1> QED
    BY <1>1, <1>3, <1>4, <1>5 DEF Coherent

\* Who is ahead of whom among racers in a lobby, and in a race.
InLine(m, S) ==
    {x \in S \X S : \/ m[x[1]].ranking < m[x[2]].ranking
                    \/ m[x[1]].ranking = m[x[2]].ranking /\ x[1] < x[2]}
InRace(room, S) == {x \in S \X S : Beats(room, x[1], x[2])}
InGrid(room, S) == {x \in S \X S : Rank(room, x[1]) < Rank(room, x[2])}

LEMMA SeatSet ==
    ASSUME NEW S \in SUBSET Seats
    PROVE  IsFiniteSet(S) /\ \A p \in S : p \in Int
<1>1. IsFiniteSet(S)
    BY SeatNumbers, FS_Subset
<1>2. Seats \subseteq Int
    BY SeatNumbers
<1> QED
    BY <1>1, <1>2

\* Closing up leaves no gap and no tie.
LEMMA LineIsPermutation ==
    ASSUME NEW m, NEW S \in SUBSET Seats, \A p \in S : m[p].ranking \in Nat
    PROVE  {Cardinality(Ahead(m, S, p)) : p \in S} = 0 .. Cardinality(S) - 1
<1> DEFINE less == InLine(m, S)
<1>1. IsFiniteSet(S) /\ \A p \in S : p \in Int
    BY SeatSet
<1>2. \A x, y \in S : <<x, y>> \in less <=> \/ m[x].ranking < m[y].ranking
                                            \/ m[x].ranking = m[y].ranking /\ x < y
    BY DEF InLine
<1> HIDE DEF less
<1>3. \A x \in S : <<x, x>> \notin less
    BY <1>1, <1>2
<1>4. \A x, y, z \in S : <<x, y>> \in less /\ <<y, z>> \in less => <<x, z>> \in less
    BY <1>1, <1>2
<1>5. \A x, y \in S : x # y => <<x, y>> \in less \/ <<y, x>> \in less
    BY <1>1, <1>2
<1>6. \A p \in S : Ahead(m, S, p) = Below(S, less, p)
    BY <1>2 DEF Ahead, Below
<1>7. {Cardinality(Below(S, less, p)) : p \in S} = 0 .. Cardinality(S) - 1
    BY <1>1, <1>3, <1>4, <1>5, PlacesArePermutation
<1> QED
    BY <1>6, <1>7

\* No two entrants have the same rank.
LEMMA RanksDiffer ==
    ASSUME NEW room, Sound(room), NEW p \in Entrants(room), NEW q \in Entrants(room), p # q
    PROVE  Rank(room, p) # Rank(room, q)
<1> DEFINE S == Entrants(room)
           less == InRace(room, S)
<1>1. IsFiniteSet(S) /\ \A x \in S : x \in Int
    BY EntrantsAreSeats, SeatSet
<1>2. \A x \in S : FinishTime(room, x) \in Int
    <2>1. room.finish \in Maps(Seats, Times)
        BY DEF Sound, Room
    <2>2. room.finish \in [DOMAIN room.finish -> Times]
        BY <2>1, MapIs
    <2> QED BY <2>2, RoomConstants DEF FinishTime, Times
<1>3. \A x, y \in S : <<x, y>> \in less <=> \/ FinishTime(room, x) < FinishTime(room, y)
                                            \/ /\ FinishTime(room, x) = FinishTime(room, y)
                                               /\ x < y
    BY DEF InRace, Beats
<1>4. \A x \in S : Rank(room, x) = Cardinality(Below(S, less, x)) /\ Rank(room, x) \in Int
    <2> TAKE x \in S
    <2>1. {y \in S : Beats(room, y, x)} = Below(S, less, x)
        BY DEF InRace, Below
    <2>2. Rank(room, x) \in Nat
        BY EntrantsAreSeats
    <2> QED BY <2>1, <2>2 DEF Rank
<1> HIDE DEF less, S
<1>5. \A x \in S : <<x, x>> \notin less
    BY <1>1, <1>2, <1>3
<1>6. \A x, y, z \in S : <<x, y>> \in less /\ <<y, z>> \in less => <<x, z>> \in less
    BY <1>1, <1>2, <1>3
<1>7. p \in S /\ q \in S /\ (<<p, q>> \in less \/ <<q, p>> \in less)
    BY <1>1, <1>2, <1>3 DEF S
<1>8. CASE <<p, q>> \in less
    <2>1. Cardinality(Below(S, less, p)) < Cardinality(Below(S, less, q))
        BY <1>1, <1>5, <1>6, <1>7, <1>8, BelowIsSmaller
    <2> QED BY <1>4, <1>7, <2>1
<1>9. CASE <<q, p>> \in less
    <2>1. Cardinality(Below(S, less, q)) < Cardinality(Below(S, less, p))
        BY <1>1, <1>5, <1>6, <1>7, <1>9, BelowIsSmaller
    <2> QED BY <1>4, <1>7, <2>1
<1> QED
    BY <1>7, <1>8, <1>9

\* The next grid has no gap and no tie.
LEMMA GridIsNew ==
    ASSUME NEW room, Sound(room), NEW S \in SUBSET Entrants(room)
    PROVE  {Cardinality(Better(room, S, p)) : p \in S} = 0 .. Cardinality(S) - 1
<1> DEFINE less == InGrid(room, S)
<1>1. IsFiniteSet(S)
    BY EntrantsAreSeats, FS_Subset
<1>2. \A p \in S : Rank(room, p) \in Int
    BY EntrantsAreSeats
<1>3. \A x, y \in S : <<x, y>> \in less <=> Rank(room, x) < Rank(room, y)
    BY DEF InGrid
<1>4. \A x, y \in S : x # y => Rank(room, x) # Rank(room, y)
    BY RanksDiffer
<1> HIDE DEF less
<1>5. \A x \in S : <<x, x>> \notin less
    BY <1>2, <1>3
<1>6. \A x, y, z \in S : <<x, y>> \in less /\ <<y, z>> \in less => <<x, z>> \in less
    BY <1>2, <1>3
<1>7. \A x, y \in S : x # y => <<x, y>> \in less \/ <<y, x>> \in less
    BY <1>2, <1>3, <1>4
<1>8. \A p \in S : Better(room, S, p) = Below(S, less, p)
    BY <1>3 DEF Better, Below
<1>9. {Cardinality(Below(S, less, p)) : p \in S} = 0 .. Cardinality(S) - 1
    BY <1>1, <1>5, <1>6, <1>7, PlacesArePermutation
<1> QED
    BY <1>8, <1>9

--------------------------------------------------------------------------------
(* Every command keeps a room coherent.                                     *)

\* A lobby command that moves no one's place on the grid.
LEMMA LobbyCoheres ==
    ASSUME NEW old, NEW new, Coherent(old), LobbyMove(new, old), Seating(new),
           new.master = old.master \/ new.master \in Racers(old),
           \A p \in Racers(old) : new.members[p].ranking = old.members[p].ranking
    PROVE  Coherent(new)
<1>1. Racers(new) = Racers(old) /\ DOMAIN new.members = DOMAIN old.members
      /\ Racers(old) \subseteq DOMAIN old.members
    BY DEF LobbyMove, SameUsers, Racers
<1>2. Graded(new)
    BY <1>1, GradingKept DEF Coherent
<1>3. Mastered(new)
    BY <1>1 DEF Coherent, Mastered
<1>4. Enrolled(new)
    BY <1>1 DEF Coherent, Enrolled, LobbyMove, SameRace, SameUsers
<1> QED
    BY <1>2, <1>3, <1>4 DEF Coherent

LEMMA ReadyCoheres ==
    ASSUME NEW room, Sound(room), Coherent(room), NEW player, NEW ready \in BOOLEAN
    PROVE  Coherent(SlotReady(room, player, ready))
<1> DEFINE new == SlotReady(room, player, ready)
<1>1. /\ LobbyMove(new, room)
      /\ new.ais = room.ais /\ new.closed = room.closed /\ new.master = room.master
      /\ new.positions = room.positions
      /\ \A p \in DOMAIN room.members :
            /\ new.members[p].team = room.members[p].team
            /\ new.members[p].ranking = room.members[p].ranking
    BY ReadyMoves
<1> HIDE DEF new
<1>2. Racers(room) \subseteq DOMAIN room.members /\ SameSeats(new, room)
    BY <1>1 DEF LobbyMove, SameUsers, SameRace, Racers, SameSeats
<1>3. Seating(new)
    BY <1>2, SeatingKept DEF Coherent
<1>4. Coherent(new)
    BY <1>1, <1>2, <1>3, LobbyCoheres
<1> QED
    BY <1>4 DEF new

LEMMA TeamCoheres ==
    ASSUME NEW room, Sound(room), Coherent(room), NEW player \in Racers(room), NEW team \in {Red, Blue},
           CanChangeTeam(room, player, team)
    PROVE  Coherent(TeamChanged(room, player, team))
<1>1. CASE room.members[player].team = team
    BY <1>1 DEF TeamChanged
<1>2. CASE room.members[player].team # team
    <2> DEFINE new == TeamChanged(room, player, team)
               slot == Min(OpenSlots(room, team))
               left == {s \in DOMAIN room.positions : room.positions[s] = player}
               kept == Drop(room.members, {player})
               free == Drop(room.positions, left)
               mid == [room EXCEPT !.members = kept, !.positions = free]
    <2>1. OpenSlots(room, team) # {} /\ InTeams(room) /\ team \in Teams /\ team # NoTeam
        BY <1>2, TeamNumbers DEF CanChangeTeam
    <2>2. /\ LobbyMove(new, room)
          /\ new.ais = room.ais /\ new.closed = room.closed /\ new.master = room.master
          /\ \A p \in DOMAIN room.members : p # player => new.members[p] = room.members[p]
          /\ new.members[player].team = team
          /\ new.members[player].ranking = room.members[player].ranking
          /\ new.positions = Put(free, slot, player)
        BY <1>2, <2>1, TeamMoves
    <2>3. slot \in Half(team) /\ slot \notin DOMAIN room.positions
        BY <2>1, LeastOpenSlot
    <2>4. DOMAIN free \subseteq DOMAIN room.positions
        BY DEF Drop
    <2>5. DOMAIN kept = DOMAIN room.members \ {player}
          /\ \A p \in DOMAIN kept : kept[p] = room.members[p]
        BY DEF Drop
    <2>6. room \in Room
        BY DEF Sound
    <2>7. /\ mid.members = kept /\ mid.positions = free /\ mid.ais = room.ais
          /\ mid.closed = room.closed /\ mid.channel = room.channel
        BY <2>6 DEF Room
    <2>8. player \notin DOMAIN room.closed /\ player \notin DOMAIN room.ais
          /\ Seating(room)
        BY DEF Coherent, Seating
    <2> HIDE DEF mid, new, kept
    <2>9. Racers(mid) = Racers(room) \ {player}
          /\ \A p \in Racers(mid) : mid.members[p].team = room.members[p].team
        BY <2>5, <2>7 DEF Racers
    <2>10. mid.positions = Drop(room.positions, {s \in DOMAIN room.positions :
                                                    room.positions[s] = player})
        BY <2>7
    <2>11. DOMAIN mid.ais = DOMAIN room.ais \ {player}
        BY <2>7, <2>8
    <2> HIDE DEF free, slot, left
    <2>12. Seating(mid)
        BY <2>7, <2>8, <2>9, <2>10, <2>11, SeatCleared
    <2>13. Racers(new) = Racers(room) /\ player \in Racers(new)
           /\ (InTeams(new) <=> InTeams(room)) /\ new.channel = room.channel
        BY <2>2 DEF LobbyMove, SameUsers, SameRace, Racers, InTeams
    <2>14. Seating(new)
        <3>1. player \notin Occupied(mid) /\ Occupied(new) = Occupied(mid) \cup {player}
            BY <2>2, <2>7, <2>8, <2>9, <2>13 DEF Occupied
        <3>2. slot \notin DOMAIN mid.positions /\ new.positions = Put(mid.positions, slot, player)
            BY <2>2, <2>3, <2>4, <2>7
        <3>3. \A p \in Racers(mid) : new.members[p].team = mid.members[p].team
            BY <2>2, <2>5, <2>7, <2>9 DEF Racers
        <3>4. /\ slot \in Half(new.members[player].team)
              /\ new.members[player].team = NoTeam <=> ~InTeams(new)
            BY <2>1, <2>2, <2>3, <2>13
        <3>5. Racers(mid) \subseteq Racers(new) /\ Racers(new) \subseteq Racers(mid) \cup {player}
            BY <2>9, <2>13
        <3>6. /\ new.closed = mid.closed /\ new.channel = mid.channel /\ new.ais = mid.ais
              /\ Racers(new) \cap DOMAIN new.ais = {} /\ player \notin DOMAIN new.ais
            BY <2>2, <2>7, <2>8, <2>13 DEF Seating
        <3>7. DOMAIN new.ais \subseteq DOMAIN mid.ais \cup {player}
            BY <3>6
        <3> QED BY <2>12, <3>1, <3>2, <3>3, <3>4, <3>5, <3>6, <3>7, SeatTaken
    <2>15. \A p \in Racers(room) : new.members[p].ranking = room.members[p].ranking
        BY <2>2 DEF Racers
    <2>16. Coherent(new)
        BY <2>2, <2>14, <2>15, LobbyCoheres
    <2> QED BY <2>16 DEF new
<1> QED
    BY <1>1, <1>2

LEMMA MasterCoheres ==
    ASSUME NEW room, Sound(room), Coherent(room), NEW next \in Racers(room)
    PROVE  Coherent(MasterChanged(room, next))
<1> DEFINE new == MasterChanged(room, next)
<1>1. /\ LobbyMove(new, room)
      /\ new.ais = room.ais /\ new.closed = room.closed /\ new.master = next
      /\ new.positions = room.positions
      /\ \A p \in DOMAIN room.members :
            /\ new.members[p].team = room.members[p].team
            /\ new.members[p].ranking = room.members[p].ranking
    BY MasterMoves
<1> HIDE DEF new
<1>2. Racers(room) \subseteq DOMAIN room.members /\ SameSeats(new, room)
    BY <1>1 DEF LobbyMove, SameUsers, SameRace, Racers, SameSeats
<1>3. Seating(new)
    BY <1>2, SeatingKept DEF Coherent
<1>4. Coherent(new)
    BY <1>1, <1>2, <1>3, LobbyCoheres
<1> QED
    BY <1>4 DEF new

LEMMA AiLeavesCoheres ==
    ASSUME NEW room, Sound(room), Coherent(room), NEW player \in DOMAIN room.ais
    PROVE  Coherent(WithoutAi(room, player))
<1> DEFINE new == WithoutAi(room, player)
<1>1. /\ LobbyMove(new, room)
      /\ new.members = room.members /\ new.closed = room.closed
      /\ new.master = room.master /\ new.ais = Drop(room.ais, {player})
      /\ new.positions = Drop(room.positions, {s \in DOMAIN room.positions :
                                                  room.positions[s] = player})
    BY AiLeaves
<1> HIDE DEF new
<1>2. /\ player \notin DOMAIN room.closed /\ player \notin Racers(room) /\ Seating(room)
      /\ Racers(new) = Racers(room) /\ new.channel = room.channel
    BY <1>1 DEF Coherent, Seating, LobbyMove, SameRace, Racers
<1>3. DOMAIN new.ais = DOMAIN room.ais \ {player} /\ \A p \in DOMAIN new.ais : new.ais[p] = room.ais[p]
    BY <1>1 DEF Drop
<1>4. Racers(new) = Racers(room) \ {player}
    BY <1>2
<1>5. Seating(new)
    BY <1>1, <1>2, <1>3, <1>4, SeatCleared
<1>6. Coherent(new)
    BY <1>1, <1>5, LobbyCoheres
<1> QED
    BY <1>6 DEF new

LEMMA AiComesCoheres ==
    ASSUME NEW room, Sound(room), Coherent(room), NEW team \in Teams, CanAddAi(room, team)
    PROVE  Coherent(WithAi(room, team))
<1> DEFINE new == WithAi(room, team)
           player == Min(Vacant(room))
           slot == Min(OpenSlots(room, team))
<1>1. /\ LobbyMove(new, room)
      /\ new.members = room.members /\ new.closed = room.closed
      /\ new.master = room.master /\ new.ais = Put(room.ais, player, team)
      /\ new.positions = Put(room.positions, slot, player)
    BY AiComes
<1>2. player \in Vacant(room) /\ slot \in Half(team) /\ slot \notin DOMAIN room.positions
    BY LeastVacant, LeastOpenSlot DEF CanAddAi
<1> HIDE DEF new, player, slot
<1>3. /\ player \notin Occupied(room) /\ player \notin Racers(room) /\ Seating(room)
      /\ Racers(new) = Racers(room) /\ new.channel = room.channel
    BY <1>1, <1>2 DEF Coherent, LobbyMove, SameRace, Racers, Vacant, Occupied
<1>4. /\ DOMAIN new.ais = DOMAIN room.ais \cup {player} /\ new.ais[player] = team
      /\ player \notin DOMAIN room.ais
      /\ \A p \in DOMAIN room.ais : new.ais[p] = room.ais[p]
    BY <1>1, <1>3 DEF Put, Occupied
<1>5. Occupied(new) = Occupied(room) \cup {player} /\ Racers(new) \cap DOMAIN new.ais = {}
    BY <1>1, <1>3, <1>4 DEF Occupied, Seating
<1>6. Seating(new)
    BY <1>1, <1>2, <1>3, <1>4, <1>5, SeatTaken
<1>7. Coherent(new)
    BY <1>1, <1>6, LobbyCoheres
<1> QED
    BY <1>7 DEF new

LEMMA SeatsCloseCoheres ==
    ASSUME NEW room, Sound(room), Coherent(room), NEW pairs \in SlotPairs(room),
           Closable(room, pairs)
    PROVE  Coherent(Closed(room, pairs))
<1> DEFINE new == Closed(room, pairs)
           players == {pair[1] : pair \in pairs}
           slots == {pair[2] : pair \in pairs}
<1>1. /\ LobbyMove(new, room)
      /\ new.members = room.members /\ new.ais = room.ais /\ new.master = room.master
      /\ DOMAIN new.closed = DOMAIN room.closed \cup players
      /\ DOMAIN new.positions = DOMAIN room.positions \cup slots
      /\ \A x \in pairs : new.closed[x[1]] = x[2] /\ new.positions[x[2]] = x[1]
      /\ \A p \in DOMAIN room.closed : p \notin players => new.closed[p] = room.closed[p]
      /\ \A s \in DOMAIN room.positions : new.positions[s] = room.positions[s]
    BY SeatsClose
<1>2. /\ \A x \in pairs : /\ x[1] \notin Racers(room) /\ x[1] \notin DOMAIN room.ais
                          /\ x[1] \notin DOMAIN room.closed /\ x[1] \notin Occupied(room)
                          /\ x[2] \notin DOMAIN room.positions
      /\ \A x, y \in pairs : x[1] = y[1] \/ x[2] = y[2] => x = y
    BY PairsMatch DEF Closable, Vacant, Racers, Occupied
<1> HIDE DEF new
<1>3. /\ Racers(new) = Racers(room) /\ (InTeams(new) <=> InTeams(room)) /\ Seating(room)
      /\ Occupied(new) = Occupied(room) \cup players
      /\ \A p \in Racers(room) : new.members[p].team = room.members[p].team
      /\ \A p \in Racers(room) : new.members[p].ranking = room.members[p].ranking
    BY <1>1 DEF Coherent, LobbyMove, SameRace, Racers, InTeams, Occupied
<1>4. ASSUME NEW s \in DOMAIN room.positions
      PROVE  new.positions[s] = room.positions[s] /\ room.positions[s] \in Occupied(room)
    BY <1>1, <1>3 DEF Seating
<1>5. Seating(new)
    <2>1. /\ Racers(new) \cap DOMAIN new.ais = {} /\ Racers(new) \cap DOMAIN new.closed = {}
          /\ DOMAIN new.ais \cap DOMAIN new.closed = {}
        BY <1>1, <1>2, <1>3 DEF Seating
    <2>2. ASSUME NEW p \in Occupied(new)
          PROVE  \E s \in DOMAIN new.positions : new.positions[s] = p
        <3>1. CASE p \in Occupied(room)
            <4>1. PICK s \in DOMAIN room.positions : room.positions[s] = p
                BY <1>3, <3>1 DEF Seating
            <4> QED BY <1>1, <4>1
        <3>2. CASE p \in players
            <4>1. PICK x \in pairs : p = x[1]
                BY <3>2
            <4>2. x[2] \in DOMAIN new.positions /\ new.positions[x[2]] = p
                BY <1>1, <4>1
            <4> QED BY <4>2
        <3> QED BY <1>3, <3>1, <3>2
    <2>3. ASSUME NEW s \in DOMAIN new.positions
          PROVE  \/ s \in DOMAIN room.positions /\ new.positions[s] \in Occupied(room)
                 \/ \E x \in pairs : /\ s = x[2] /\ new.positions[s] = x[1]
                                     /\ x[1] \notin Occupied(room)
        <3>1. CASE s \in DOMAIN room.positions
            BY <1>4, <3>1
        <3>2. CASE s \in slots
            <4>1. PICK x \in pairs : s = x[2]
                BY <3>2
            <4> QED BY <1>1, <1>2, <4>1
        <3> QED BY <1>1, <3>1, <3>2
    <2>4. ASSUME NEW s \in DOMAIN new.positions, NEW t \in DOMAIN new.positions,
                 new.positions[s] = new.positions[t]
          PROVE  s = t
        <3>1. CASE s \in DOMAIN room.positions /\ t \in DOMAIN room.positions
            BY <1>3, <1>4, <2>4, <3>1 DEF Seating
        <3>2. CASE s \notin DOMAIN room.positions /\ t \notin DOMAIN room.positions
            <4>1. PICK x \in pairs : s = x[2] /\ new.positions[s] = x[1]
                BY <2>3, <3>2
            <4>2. PICK y \in pairs : t = y[2] /\ new.positions[t] = y[1]
                BY <2>3, <3>2
            <4>3. x = y
                BY <1>2, <2>4, <4>1, <4>2
            <4> QED BY <4>1, <4>2, <4>3
        <3>3. CASE s \in DOMAIN room.positions /\ t \notin DOMAIN room.positions
            BY <1>4, <2>3, <2>4, <3>3
        <3>4. CASE s \notin DOMAIN room.positions /\ t \in DOMAIN room.positions
            BY <1>4, <2>3, <2>4, <3>4
        <3> QED BY <3>1, <3>2, <3>3, <3>4
    <2>5. \A s \in DOMAIN new.positions : new.positions[s] \in Occupied(new)
        BY <1>3, <2>3
    <2>6. ASSUME NEW p \in DOMAIN new.closed
          PROVE  new.closed[p] \in DOMAIN new.positions /\ new.positions[new.closed[p]] = p
        <3>1. CASE p \in players
            <4>1. PICK x \in pairs : p = x[1]
                BY <3>1
            <4>2. x[2] \in slots
                OBVIOUS
            <4> QED BY <1>1, <4>1, <4>2
        <3>2. CASE p \in DOMAIN room.closed /\ p \notin players
            BY <1>1, <1>3, <3>2 DEF Seating
        <3> QED BY <1>1, <3>1, <3>2
    <2>7. ASSUME NEW s \in DOMAIN new.positions
          PROVE  /\ new.positions[s] \in Racers(new) =>
                        s \in Half(new.members[new.positions[s]].team)
                 /\ new.positions[s] \in DOMAIN new.ais => s \in Half(new.ais[new.positions[s]])
        <3>1. CASE s \in DOMAIN room.positions
            <4> DEFINE p == room.positions[s]
            <4>1. new.positions[s] = p
                BY <1>4, <3>1
            <4>2. /\ p \in Racers(room) => s \in Half(room.members[p].team)
                  /\ p \in DOMAIN room.ais => s \in Half(room.ais[p])
                BY <1>3, <3>1 DEF Seating
            <4> HIDE DEF p
            <4> QED BY <1>1, <1>3, <4>1, <4>2
        <3>2. CASE s \notin DOMAIN room.positions
            BY <1>1, <1>2, <1>3, <2>3, <3>2
        <3> QED BY <3>1, <3>2
    <2>8. \A p \in Racers(new) : new.members[p].team = NoTeam <=> ~InTeams(new)
        BY <1>1, <1>3 DEF Seating
    <2> QED BY <2>1, <2>2, <2>4, <2>5, <2>6, <2>7, <2>8 DEF Seating
<1>6. Coherent(new)
    BY <1>1, <1>3, <1>5, LobbyCoheres
<1> QED
    BY <1>6 DEF new

LEMMA SeatsOpenCoheres ==
    ASSUME NEW room, Sound(room), Coherent(room), NEW pairs, Openable(room, pairs)
    PROVE  Coherent(Opened(room, pairs))
<1> DEFINE new == Opened(room, pairs)
           players == {pair[1] : pair \in pairs}
           slots == {pair[2] : pair \in pairs}
<1>1. /\ LobbyMove(new, room)
      /\ new.members = room.members /\ new.ais = room.ais /\ new.master = room.master
      /\ new.closed = Drop(room.closed, players) /\ new.positions = Drop(room.positions, slots)
    BY SeatsOpen
<1>2. /\ DOMAIN new.closed = DOMAIN room.closed \ players
      /\ \A p \in DOMAIN new.closed : new.closed[p] = room.closed[p]
      /\ DOMAIN new.positions = DOMAIN room.positions \ slots
      /\ \A s \in DOMAIN new.positions : new.positions[s] = room.positions[s]
    BY <1>1 DEF Drop
<1>3. Seating(room) /\ \A x \in pairs : /\ x[1] \in DOMAIN room.closed
                                        /\ x[2] \in DOMAIN room.positions
                                        /\ room.positions[x[2]] = x[1]
    BY DEF Coherent, Openable, Seating
<1> HIDE DEF new, slots, players
<1>4. /\ Racers(new) = Racers(room) /\ (InTeams(new) <=> InTeams(room))
      /\ \A p \in Racers(room) : new.members[p].team = room.members[p].team
      /\ \A p \in Racers(room) : new.members[p].ranking = room.members[p].ranking
    BY <1>1 DEF LobbyMove, SameRace, Racers, InTeams
\* a slot is opened exactly when it is an opened player's
<1>5. \A s \in DOMAIN room.positions : s \in slots <=> room.positions[s] \in players
    <2> TAKE s \in DOMAIN room.positions
    <2>1. ASSUME s \in slots PROVE room.positions[s] \in players
        <3>1. PICK x \in pairs : s = x[2]
            BY <2>1 DEF slots
        <3> QED BY <1>3, <3>1 DEF players
    <2>2. ASSUME room.positions[s] \in players PROVE s \in slots
        <3>1. PICK x \in pairs : room.positions[s] = x[1]
            BY <2>2 DEF players
        <3>2. s = x[2]
            BY <1>3, <3>1 DEF Seating
        <3> QED BY <3>2 DEF slots
    <2> QED BY <2>1, <2>2
<1>6. players \subseteq DOMAIN room.closed
    BY <1>3 DEF players
<1>7. Occupied(new) = Occupied(room) \ players
    BY <1>1, <1>2, <1>3, <1>4, <1>6 DEF Occupied, Seating
<1>8. Seating(new)
    <2>1. /\ Racers(new) \cap DOMAIN new.ais = {} /\ Racers(new) \cap DOMAIN new.closed = {}
          /\ DOMAIN new.ais \cap DOMAIN new.closed = {}
          /\ \A s, t \in DOMAIN new.positions : new.positions[s] = new.positions[t] => s = t
        BY <1>1, <1>2, <1>3, <1>4 DEF Seating
    <2>2. ASSUME NEW p \in Occupied(new)
          PROVE  \E s \in DOMAIN new.positions : new.positions[s] = p
        <3>1. PICK s \in DOMAIN room.positions : room.positions[s] = p
            BY <1>3, <1>7 DEF Seating
        <3> QED BY <1>2, <1>5, <1>7, <3>1
    <2>3. \A s \in DOMAIN new.positions : new.positions[s] \in Occupied(new)
        BY <1>2, <1>3, <1>5, <1>7 DEF Seating
    <2>4. \A p \in DOMAIN new.closed :
              new.closed[p] \in DOMAIN new.positions /\ new.positions[new.closed[p]] = p
        BY <1>2, <1>3, <1>5 DEF Seating
    <2>5. ASSUME NEW s \in DOMAIN new.positions
          PROVE  /\ new.positions[s] \in Racers(new) =>
                        s \in Half(new.members[new.positions[s]].team)
                 /\ new.positions[s] \in DOMAIN new.ais => s \in Half(new.ais[new.positions[s]])
        <3> DEFINE p == room.positions[s]
        <3>1. new.positions[s] = p /\ s \in DOMAIN room.positions
            BY <1>2
        <3>2. /\ p \in Racers(room) => s \in Half(room.members[p].team)
              /\ p \in DOMAIN room.ais => s \in Half(room.ais[p])
            BY <1>3, <3>1 DEF Seating
        <3> HIDE DEF p
        <3> QED BY <1>1, <1>4, <3>1, <3>2
    <2>6. \A p \in Racers(new) : new.members[p].team = NoTeam <=> ~InTeams(new)
        BY <1>1, <1>3, <1>4 DEF Seating
    <2> QED BY <2>1, <2>2, <2>3, <2>4, <2>5, <2>6 DEF Seating
<1>9. Coherent(new)
    BY <1>1, <1>4, <1>8, LobbyCoheres
<1> QED
    BY <1>9 DEF new

--------------------------------------------------------------------------------
(* Coming, going, racing and settling keep a room coherent.                 *)

LEMMA EmptyCoheres ==
    ASSUME NEW c
    PROVE  Coherent(EmptyRoom(c)) /\ EmptyRoom(c).master = 0
<1> DEFINE room == EmptyRoom(c)
<1>1. /\ DOMAIN << >> = {} /\ room.members = << >> /\ room.ais = << >> /\ room.closed = << >>
      /\ room.positions = << >> /\ room.fence = 0 /\ room.master = 0
    BY NoMap DEF EmptyRoom
<1> HIDE DEF room
<1>2. Racers(room) = {} /\ Occupied(room) = {}
    BY <1>1 DEF Racers, Occupied
<1>3. Seating(room)
    BY <1>1, <1>2 DEF Seating
<1>4. Graded(room)
    <2>1. Cardinality({}) = 0 /\ 0 .. 0 - 1 = {}
        BY FS_EmptySet
    <2> QED BY <1>2, <2>1 DEF Graded
<1>5. Mastered(room) /\ Enrolled(room)
    BY <1>1 DEF Mastered, Enrolled
<1> QED
    BY <1>1, <1>3, <1>4, <1>5 DEF Coherent, room

LEMMA ObserverCoheres ==
    ASSUME NEW room, Sound(room), Coherent(room), NEW u \in Riders, Observes(u),
           CanAdmit(room, u), room.fence = 0, DOMAIN room.members = {} => room.master = 0
    PROVE  Coherent(Admitted(room, u))
<1> DEFINE new == Admitted(room, u)
           player == Min(VacantGalleries(room))
           member == Newcomer(u, NoTeam, 0)
<1>1. /\ Sound(new) /\ SameRace(new, room) /\ player \in Galleries \ DOMAIN room.members
      /\ new.members = Put(room.members, player, member)
      /\ new.ais = room.ais /\ new.closed = room.closed /\ new.positions = room.positions
      /\ new.master = IF u \in Referees THEN player ELSE room.master
    BY ObserverAdmitted
<1> HIDE DEF new, player, member
<1>2. /\ DOMAIN new.members = DOMAIN room.members \cup {player}
      /\ \A p \in DOMAIN room.members : new.members[p] = room.members[p]
    BY <1>1 DEF Put
<1>3. Racers(new) = Racers(room) /\ \A p \in Racers(room) : new.members[p] = room.members[p]
    BY <1>1, <1>2, SeatNumbers DEF Racers
<1>4. Seating(new)
    <2>1. SameSeats(new, room)
        BY <1>1, <1>3 DEF SameSeats, SameRace
    <2> QED BY <2>1, SeatingKept DEF Coherent
<1>5. Graded(new)
    BY <1>3, GradingKept DEF Coherent
<1>6. Mastered(new)
    BY <1>1, <1>2, <1>3 DEF Coherent, Mastered, Racers
<1>7. Enrolled(new)
    BY <1>1 DEF Enrolled, SameRace
<1> QED
    BY <1>4, <1>5, <1>6, <1>7 DEF Coherent, new

LEMMA RacerCoheres ==
    ASSUME NEW room, Sound(room), Coherent(room), NEW u \in Riders, ~Observes(u),
           CanAdmit(room, u), room.fence = 0
    PROVE  Coherent(Admitted(room, u))
<1> DEFINE new == Admitted(room, u)
           player == Min(Vacant(room))
           team == AdmissionTeam(room)
           slot == Min(OpenSlots(room, team))
           n == JoinRanking(room)
           member == Newcomer(u, team, n)
<1>1. /\ Sound(new) /\ SameRace(new, room)
      /\ player \in Vacant(room) /\ OpenSlots(room, team) # {}
      /\ new.members = Put(room.members, player, member)
      /\ new.ais = room.ais /\ new.closed = room.closed
      /\ new.positions = Put(room.positions, slot, player)
      /\ new.master = IF room.master \in DOMAIN room.members THEN room.master ELSE player
    BY RacerAdmitted
<1>2. slot \in Half(team) \ DOMAIN room.positions
    BY <1>1, LeastOpenSlot
<1>3. member.team = team /\ member.ranking = n
    BY DEF Newcomer
<1>4. (team = NoTeam <=> ~InTeams(room)) /\ n = Cardinality(Racers(room))
    BY AdmissionTeamIs DEF JoinRanking
<1> HIDE DEF new, player, member, team, slot, n
<1>5. /\ DOMAIN new.members = DOMAIN room.members \cup {player} /\ player \in Seats
      /\ new.members[player] = member /\ player \notin DOMAIN room.members
      /\ player \notin DOMAIN room.ais /\ player \notin DOMAIN room.closed
      /\ \A p \in DOMAIN room.members : new.members[p] = room.members[p]
    BY <1>1 DEF Put, Vacant
<1>6. /\ Racers(new) = Racers(room) \cup {player} /\ player \notin Occupied(room)
      /\ player \notin Racers(room) /\ Racers(room) \subseteq DOMAIN room.members
    BY <1>5 DEF Racers, Occupied
<1>7. Seating(new)
    <2>1. Occupied(new) = Occupied(room) \cup {player} /\ new.channel = room.channel
        BY <1>1, <1>6 DEF Occupied, SameRace
    <2>2. Racers(new) \cap DOMAIN new.ais = {} /\ DOMAIN new.ais \subseteq DOMAIN room.ais \cup {player}
            /\ player \notin DOMAIN new.ais
        BY <1>1, <1>5, <1>6 DEF Coherent, Seating
    <2>3. (InTeams(new) <=> InTeams(room))
        BY <2>1 DEF InTeams
    <2>4. \A p \in Racers(room) : new.members[p].team = room.members[p].team
        BY <1>5, <1>6
    <2>5. slot \in Half(new.members[player].team)
            /\ (new.members[player].team = NoTeam <=> ~InTeams(new))
        BY <1>2, <1>3, <1>4, <1>5, <2>3
    <2>6. Seating(room) /\ slot \notin DOMAIN room.positions
        BY <1>2 DEF Coherent
    <2> QED BY <1>1, <1>6, <2>1, <2>2, <2>4, <2>5, <2>6, SeatTaken
<1>8. Graded(new)
    <2>1. IsFiniteSet(Racers(room)) /\ n \in Nat
        BY <1>4, RacersFinite
    <2>2. Cardinality(Racers(new)) = n + 1
        BY <1>4, <1>6, <2>1, FS_AddElement
    <2>3. {new.members[p].ranking : p \in Racers(new)}
            = {room.members[p].ranking : p \in Racers(room)} \cup {n}
        BY <1>3, <1>5, <1>6
    <2>4. {room.members[p].ranking : p \in Racers(room)} = 0 .. n - 1
        BY <1>4 DEF Coherent, Graded
    <2>5. (0 .. n - 1) \cup {n} = 0 .. (n + 1) - 1
        BY <2>1
    <2> QED BY <2>2, <2>3, <2>4, <2>5 DEF Graded
<1>9. Mastered(new)
    BY <1>1, <1>5 DEF Mastered
<1>10. Enrolled(new)
    BY <1>1 DEF Enrolled, SameRace
<1> QED
    BY <1>7, <1>8, <1>9, <1>10 DEF Coherent, new

LEMMA AdmissionCoheres ==
    ASSUME NEW room, Sound(room), Coherent(room), NEW u \in Riders, CanAdmit(room, u),
           room.fence = 0, DOMAIN room.members = {} => room.master = 0
    PROVE  Coherent(Admitted(room, u))
BY ObserverCoheres, RacerCoheres

LEMMA ExitCoheres ==
    ASSUME NEW room, Sound(room), Coherent(room), NEW player \in DOMAIN room.members
    PROVE  Coherent(Without(room, player))
<1> DEFINE new == Without(room, player)
           left == DOMAIN room.members \ {player}
<1>0. Vacated(new, room, player)
    BY SeatGivenUp
<1> HIDE DEF new
<1>1. /\ Sound(new) /\ SameRace(new, room) /\ DOMAIN new.members = left
      /\ \A p \in left : /\ new.members[p].user = room.members[p].user
                         /\ new.members[p].team = room.members[p].team
      /\ \A p \in left : new.members[p].ranking =
            IF player \in Seats /\ p \in Seats
            THEN Cardinality(Ahead(room.members, left \cap Seats, p))
            ELSE room.members[p].ranking
      /\ new.ais = room.ais /\ new.closed = room.closed
      /\ new.positions =
            Drop(room.positions, {s \in DOMAIN room.positions : room.positions[s] = player})
      /\ new.master = IF room.master # player THEN room.master
                      ELSE IF left = {} THEN -1 ELSE Min(left)
    BY <1>0 DEF Vacated
<1>2. /\ DOMAIN room.members \subseteq Players /\ RaceSound(room)
      /\ \A p \in DOMAIN room.members : room.members[p] \in Member
      /\ DOMAIN room.closed \subseteq Seats
    <2>1. room.closed \in Maps(Seats, Seats)
        BY DEF Sound, Room
    <2> QED BY <2>1, MapIs, RoomFields
<1>3. /\ Racers(new) = Racers(room) \ {player} /\ Racers(new) = left \cap Seats
      /\ Racers(new) \subseteq left
    BY <1>1 DEF Racers
<1>4. Seating(new)
    <2>1. player \notin DOMAIN room.closed /\ player \notin DOMAIN room.ais
        BY <1>2 DEF Coherent, Seating, RaceSound, Racers
    <2>2. DOMAIN new.ais = DOMAIN room.ais \ {player} /\ new.channel = room.channel
        BY <1>1, <2>1 DEF SameRace
    <2>3. \A p \in Racers(new) : new.members[p].team = room.members[p].team
        BY <1>1, <1>3
    <2>4. Seating(room) /\ \A p \in DOMAIN new.ais : new.ais[p] = room.ais[p]
        BY <1>1 DEF Coherent
    <2> QED BY <1>1, <1>3, <2>1, <2>2, <2>3, <2>4, SeatCleared
<1>5. Graded(new)
    <2>1. CASE player \in Seats
        <3> DEFINE S == Racers(new)
        <3>1. S \in SUBSET Seats /\ \A p \in S : room.members[p].ranking \in Nat
            <4>1. \A p \in S : room.members[p] \in Member
                BY <1>2, <1>3
            <4> QED BY <1>3, <4>1, RoomConstants DEF Member
        <3>2. \A p \in S : new.members[p].ranking = Cardinality(Ahead(room.members, S, p))
            BY <1>1, <1>3, <2>1
        <3> HIDE DEF S
        <3>3. {Cardinality(Ahead(room.members, S, p)) : p \in S} = 0 .. Cardinality(S) - 1
            BY <3>1, LineIsPermutation
        <3>4. {new.members[p].ranking : p \in S} = 0 .. Cardinality(S) - 1
            BY <3>2, <3>3
        <3> QED BY <3>4 DEF S, Graded
    <2>2. CASE player \notin Seats
        <3>1. Racers(new) = Racers(room)
            BY <1>3, <2>2 DEF Racers
        <3>2. \A p \in Racers(room) : new.members[p].ranking = room.members[p].ranking
            BY <1>1, <1>3, <2>2, <3>1
        <3> QED BY <3>1, <3>2, GradingKept DEF Coherent
    <2> QED BY <2>1, <2>2
<1>6. Mastered(new)
    <2>1. CASE left # {} /\ room.master = player
        <3>1. Min(left) \in left
            BY <1>2, <2>1, LeastPlayer
        <3> HIDE DEF left
        <3> QED BY <1>1, <2>1, <3>1 DEF Mastered
    <2>2. CASE room.master # player
        BY <1>1, <1>3, <2>2 DEF Coherent, Mastered
    <2>3. CASE left = {}
        BY <1>1, <2>3 DEF Mastered
    <2> QED BY <2>1, <2>2, <2>3
<1>7. Enrolled(new)
    BY <1>1, <1>3 DEF Coherent, Enrolled, SameRace, Racers
<1> QED
    BY <1>4, <1>5, <1>6, <1>7 DEF Coherent, new

LEMMA SettledCoheres ==
    ASSUME NEW room, Sound(room), Coherent(room), room.fence # 0
    PROVE  Coherent(Settled(room))
<1> DEFINE new == Settled(room)
           stayed == Racers(room) \cap Entrants(room)
<1>1. /\ Sound(new) /\ SameUsers(new, room) /\ new.fence = 0 /\ new.channel = room.channel
      /\ \A p \in DOMAIN room.members :
            /\ new.members[p].team = room.members[p].team
            /\ new.members[p].ranking = IF p \in stayed THEN Cardinality(Better(room, stayed, p))
                                        ELSE room.members[p].ranking
      /\ new.ais = room.ais /\ new.closed = room.closed /\ new.positions = room.positions
      /\ new.master = room.master \/ new.master \in Racers(room)
    BY RaceSettled
<1>2. stayed = Racers(room)
    <2>1. ASSUME NEW p \in Racers(room) PROVE p \in Entrants(room)
        <3> DEFINE u == room.members[p].user
        <3>1. u \in DOMAIN room.frozen /\ room.frozen[u].player = p /\ p \in Seats
            BY DEF Coherent, Enrolled, Racers
        <3>2. u \in FrozenRacers(room)
            BY <3>1 DEF FrozenRacers
        <3> QED BY <3>1, <3>2 DEF Entrants
    <2> QED BY <2>1
<1> HIDE DEF new, stayed
<1>3. Racers(new) = Racers(room) /\ Racers(room) \subseteq DOMAIN room.members
      /\ DOMAIN new.members = DOMAIN room.members
    BY <1>1 DEF SameUsers, Racers
<1>4. Seating(new)
    <2>1. SameSeats(new, room)
        BY <1>1, <1>3 DEF SameSeats
    <2> QED BY <2>1, SeatingKept DEF Coherent
<1>5. Graded(new)
    <2> DEFINE S == Racers(room)
    <2>1. S \in SUBSET Entrants(room)
        BY <1>2 DEF stayed
    <2>2. \A p \in S : new.members[p].ranking = Cardinality(Better(room, S, p))
        BY <1>1, <1>2, <1>3
    <2> HIDE DEF S
    <2>3. {Cardinality(Better(room, S, p)) : p \in S} = 0 .. Cardinality(S) - 1
        BY <2>1, GridIsNew
    <2>4. {new.members[p].ranking : p \in S} = 0 .. Cardinality(S) - 1
        BY <2>2, <2>3
    <2> QED BY <1>3, <2>4 DEF S, Graded
<1>6. Mastered(new) /\ Enrolled(new)
    BY <1>1, <1>3 DEF Coherent, Mastered, Enrolled
<1> QED
    BY <1>4, <1>5, <1>6 DEF Coherent, new

\* Nothing but the race moves.
SameTables(new, old) ==
    /\ new.channel = old.channel /\ new.master = old.master /\ new.ais = old.ais
    /\ new.closed = old.closed /\ new.positions = old.positions
    /\ DOMAIN new.members = DOMAIN old.members
    /\ \A p \in DOMAIN old.members : /\ new.members[p].user = old.members[p].user
                                     /\ new.members[p].team = old.members[p].team
                                     /\ new.members[p].ranking = old.members[p].ranking

LEMMA RaceCoheres ==
    ASSUME NEW old, NEW new, Coherent(old), SameTables(new, old),
           SameRoster(new, old) \/ new.fence = 0
    PROVE  Coherent(new)
<1>1. Racers(new) = Racers(old) /\ Racers(old) \subseteq DOMAIN old.members
    BY DEF SameTables, Racers
<1>2. SamePlaces(new, old) /\ new.master = old.master
    BY <1>1 DEF SamePlaces, SameSeats, SameUsers, SameTables
<1> QED
    BY <1>2, CoherenceKept

LEMMA UnracedTables ==
    ASSUME NEW room, Sound(room)
    PROVE  SameTables(Unraced(room), room) /\ Unraced(room).fence = 0
<1> DEFINE rested == [p \in DOMAIN room.members |-> [room.members[p] EXCEPT !.ready = FALSE]]
           new == Unraced(room)
<1>1. room \in Room /\ \A p \in DOMAIN room.members : room.members[p] \in Member
    BY RoomFields
<1>2. /\ DOMAIN rested = DOMAIN room.members
      /\ \A p \in DOMAIN room.members : /\ rested[p].user = room.members[p].user
                                        /\ rested[p].team = room.members[p].team
                                        /\ rested[p].ranking = room.members[p].ranking
    BY <1>1 DEF Member
<1> HIDE DEF rested
<1>3. /\ new.members = rested /\ new.channel = room.channel /\ new.master = room.master
      /\ new.ais = room.ais /\ new.closed = room.closed /\ new.positions = room.positions
      /\ new.fence = 0
    BY <1>1 DEF Unraced, Room, rested
<1> HIDE DEF new
<1>4. SameTables(new, room)
    BY <1>2, <1>3 DEF SameTables
<1> QED
    BY <1>3, <1>4 DEF new

LEMMA ReconciledCoheres ==
    ASSUME NEW room, Sound(room), Coherent(room), NEW r, NEW who, NEW where
    PROVE  Coherent(Reconciled(r, room, who, where))
<1> DEFINE new == Reconciled(r, room, who, where)
           exact == Exact(r, room, who, where)
<1>1. room \in Room
    BY DEF Sound
<1>2. \/ new = Unraced(room) \/ new = room
      \/ new = [room EXCEPT !.stage = "scheduled", !.expected = {}, !.ready = {}]
      \/ \E expected, ready : new = [room EXCEPT !.expected = expected, !.ready = ready]
      \/ new = [room EXCEPT !.phase = "settling", !.settlement = "awaiting"]
    <2>1. \/ new = Unraced(room) \/ new = HandshakeReconciled(room, exact) \/ new = room
          \/ new = [room EXCEPT !.phase = "settling", !.settlement = "awaiting"]
        <3> HIDE DEF exact
        <3> QED BY DEF Reconciled, exact
    <2>2. \/ HandshakeReconciled(room, exact) = room
          \/ HandshakeReconciled(room, exact)
                = [room EXCEPT !.stage = "scheduled", !.expected = {}, !.ready = {}]
          \/ \E expected, ready : HandshakeReconciled(room, exact)
                = [room EXCEPT !.expected = expected, !.ready = ready]
        <3> HIDE DEF exact
        <3>1. \/ HandshakeReconciled(room, exact) = room
              \/ HandshakeReconciled(room, exact)
                    = [room EXCEPT !.stage = "scheduled", !.expected = {}, !.ready = {}]
              \/ HandshakeReconciled(room, exact)
                    = [room EXCEPT !.expected = room.expected \cap exact,
                                   !.ready = room.ready \cap (room.expected \cap exact)]
            BY DEF HandshakeReconciled
        <3> QED BY <3>1
    <2> HIDE DEF new, exact
    <2> QED BY <2>1, <2>2
<1> HIDE DEF new
<1>3. CASE new = Unraced(room)
    BY <1>3, UnracedTables, RaceCoheres DEF new
<1>4. CASE new # Unraced(room)
    <2>1. /\ new.channel = room.channel /\ new.master = room.master /\ new.ais = room.ais
          /\ new.closed = room.closed /\ new.positions = room.positions
          /\ new.members = room.members /\ new.fence = room.fence /\ new.frozen = room.frozen
          /\ new.frozen_ais = room.frozen_ais
        BY <1>1, <1>2, <1>4 DEF Room
    <2>2. SameTables(new, room) /\ SameRoster(new, room)
        BY <2>1 DEF SameTables, SameRoster
    <2> QED BY <2>2, RaceCoheres DEF new
<1> QED
    BY <1>3, <1>4

LEMMA StartCoheres ==
    ASSUME NEW room, Sound(room), Coherent(room), identity \in IdentityTable,
           AllActive(Occupants(room)), NEW epoch,
           \A p, q \in DOMAIN room.members : room.members[p].user = room.members[q].user => p = q
    PROVE  Coherent(Started(room, epoch))
<1> DEFINE new == Started(room, epoch)
<1>1. room \in Room
    BY DEF Sound
<1>2. /\ new.channel = room.channel /\ new.master = room.master /\ new.ais = room.ais
      /\ new.closed = room.closed /\ new.positions = room.positions
      /\ new.members = room.members /\ new.frozen = Roster(room)
    BY <1>1 DEF Room, Started
<1> HIDE DEF new
<1>3. Racers(new) = Racers(room) /\ SameSeats(new, room)
    BY <1>2 DEF Racers, SameSeats
<1>4. Seating(new) /\ Graded(new) /\ Mastered(new)
    BY <1>2, <1>3, SeatingKept, GradingKept DEF Coherent, Mastered
<1>5. Enrolled(new)
    <2> SUFFICES ASSUME NEW p \in Racers(room)
                 PROVE  /\ room.members[p].user \in DOMAIN Roster(room)
                        /\ Roster(room)[room.members[p].user].player = p
        BY <1>2, <1>3 DEF Enrolled
    <2> DEFINE u == room.members[p].user
    <2>1. p \in DOMAIN room.members /\ u \in Occupants(room)
        BY DEF Racers, Occupants
    <2>2. DOMAIN Roster(room) = Occupants(room) /\ Roster(room)[u].player = PlayerOf(room, u)
        BY <2>1, RosterIs
    <2>3. PlayerOf(room, u) \in DOMAIN room.members
          /\ room.members[PlayerOf(room, u)].user = room.members[p].user
        BY <2>1, SeatOf
    <2> QED BY <2>1, <2>2, <2>3
<1> QED
    BY <1>4, <1>5 DEF Coherent, new

--------------------------------------------------------------------------------
(* Every turn leaves every room coherent.                                   *)

Fit(room) == Sound(room) /\ Coherent(room)
Coherence == \A r \in DOMAIN rooms : Coherent(rooms[r])
CohInv == RoomsInv /\ Coherence

LEMMA AllFit ==
    ASSUME CohInv
    PROVE  \A r \in DOMAIN rooms : Fit(rooms[r])
BY DEF CohInv, RoomsInv, Mid, Coherence, Fit

LEMMA CommitCoheres ==
    ASSUME NEW rs, NEW who, NEW where, NEW lanes, Commit(rs, who, where, lanes),
           \A r \in DOMAIN rs : Fit(rs[r])
    PROVE  Coherence'
<1>1. rooms' = [r \in DOMAIN rs |-> Reconciled(r, rs[r], who, where)]
    BY DEF Commit
<1>2. \A r \in DOMAIN rs : Coherent(Reconciled(r, rs[r], who, where))
    BY ReconciledCoheres DEF Fit
<1> QED
    BY <1>1, <1>2 DEF Coherence

\* One room changes, or is added.
LEMMA PlacedCoheres ==
    ASSUME CohInv, NEW rs, NEW r, NEW new, Placed(rs, rooms, r, new), Fit(new),
           NEW who, NEW where, NEW lanes, Commit(rs, who, where, lanes)
    PROVE  Coherence'
<1>1. \A q \in DOMAIN rs : Fit(rs[q])
    BY AllFit DEF Placed
<1> QED
    BY <1>1, CommitCoheres

LEMMA ReplaceCoheres ==
    ASSUME CohInv, NEW r \in DOMAIN rooms, NEW new, Fit(new), Replace(r, new)
    PROVE  Coherence'
<1> DEFINE rs == [rooms EXCEPT ![r] = new]
<1>1. Placed(rs, rooms, r, new) /\ Commit(rs, identity, room_by_user, reward_lanes)
    BY Placing DEF Replace
<1> HIDE DEF rs
<1> QED
    BY <1>1, PlacedCoheres

\* Rooms go; none changes.
LEMMA FewerCohere ==
    ASSUME CohInv, NEW S, NEW who, NEW where, NEW lanes, Commit(Drop(rooms, S), who, where, lanes)
    PROVE  Coherence'
<1> DEFINE rs == Drop(rooms, S)
<1>1. \A q \in DOMAIN rs : Fit(rs[q])
    BY AllFit DEF Drop
<1> HIDE DEF rs
<1>2. Commit(rs, who, where, lanes)
    BY DEF rs
<1> QED
    BY <1>1, <1>2, CommitCoheres

LEMMA ExitsCohere ==
    ASSUME CohInv, NEW u \in Riders, NEW who, Exit(u, who)
    PROVE  Coherence'
<1> DEFINE r == room_by_user[u]
           room == Without(rooms[r], PlayerOf(rooms[r], u))
           where == [room_by_user EXCEPT ![u] = 0]
<1>1. CASE r = 0
    <2>1. Commit(rooms, who, where, reward_lanes)
        BY <1>1 DEF Exit
    <2> HIDE DEF where
    <2> QED BY <2>1, AllFit, CommitCoheres
<1>2. CASE r # 0 /\ Gone(room)
    <2> DEFINE lanes == Released(reward_lanes, {room.fence} \ {0})
    <2>1. Commit(Drop(rooms, {r}), who, where, lanes)
        BY <1>2 DEF Exit
    <2> HIDE DEF where, lanes, r
    <2> QED BY <2>1, FewerCohere
<1>3. CASE r # 0 /\ ~Gone(room)
    <2> DEFINE rs == [rooms EXCEPT ![r] = room]
    <2>1. Commit(rs, who, where, reward_lanes)
        BY <1>3 DEF Exit
    <2>2. r \in DOMAIN rooms /\ PlayerOf(rooms[r], u) \in DOMAIN rooms[r].members
        BY <1>3, RoomIsThere DEF CohInv, RoomOf
    <2> HIDE DEF r
    <2>3. Fit(rooms[r])
        BY <2>2, AllFit
    <2>4. Fit(room)
        <3>1. Coherent(room)
            BY <2>2, <2>3, ExitCoheres DEF Fit
        <3>2. Sound(room)
            BY <2>3, SeatFreed DEF Fit
        <3> QED BY <3>1, <3>2 DEF Fit
    <2> HIDE DEF room
    <2>5. Placed(rs, rooms, r, room)
        BY <2>2, Placing
    <2> HIDE DEF rs, where
    <2> QED BY <2>1, <2>4, <2>5, PlacedCoheres
<1> QED
    BY <1>1, <1>2, <1>3

LEMMA ArrivalCoheres ==
    ASSUME CohInv, NEW u \in Riders, NEW c \in Channels, Arrive(u, c) \/ Migrate(u, c)
    PROVE  Coherence'
<1>1. ASSUME NEW who, Commit(rooms, who, room_by_user, reward_lanes)
      PROVE  Coherence'
    BY <1>1, AllFit, CommitCoheres
<1>2. CASE Arrive(u, c)
    BY <1>1, <1>2 DEF Arrive
<1>3. CASE Migrate(u, c)
    <2> DEFINE who == [identity EXCEPT ![u] = [generation |-> @.generation + 1, channel |-> c,
                                               status |-> "active"]]
    <2>1. Commit(rooms, who, room_by_user, reward_lanes) \/ Exit(u, who)
        BY <1>3 DEF Migrate
    <2> HIDE DEF who
    <2> QED BY <1>1, <2>1, ExitsCohere
<1> QED
    BY <1>2, <1>3

LEMMA DepartureCoheres ==
    ASSUME CohInv, NEW u \in Riders, Disconnect(u) \/ Release(u) \/ Leave(u)
    PROVE  Coherence'
<1>1. CASE Disconnect(u)
    BY <1>1, AllFit, CommitCoheres DEF Disconnect
<1>2. CASE Release(u)
    <2> DEFINE who == [identity EXCEPT ![u].channel = NoChannel, ![u].status = "out"]
    <2>1. Exit(u, who)
        BY <1>2 DEF Release
    <2> HIDE DEF who
    <2> QED BY <2>1, ExitsCohere
<1>3. CASE Leave(u)
    BY <1>3, ExitsCohere DEF Leave
<1> QED
    BY <1>1, <1>2, <1>3

LEMMA CreateCoheres ==
    ASSUME CohInv, NEW u \in Riders, Create(u)
    PROVE  Coherence'
<1> DEFINE old == EmptyRoom(identity[u].channel)
           new == Admitted(old, u)
           r == NewRoomId
           rs == Put(rooms, r, new)
           where == [room_by_user EXCEPT ![u] = r]
<1>1. MayAct(u) /\ CanAdmit(old, u) /\ Commit(rs, identity, where, reward_lanes)
    BY DEF Create
<1>2. Sound(old) /\ old.fence = 0
    BY <1>1, ActorFacts, EmptyRoomSound DEF CohInv
<1>3. Coherent(old) /\ old.master = 0
    BY EmptyCoheres
<1> HIDE DEF old, r
<1>4. Fit(new)
    BY <1>1, <1>2, <1>3, AdmissionCoheres, SomeoneAdmitted DEF Fit
<1> HIDE DEF new
<1>5. Placed(rs, rooms, r, new)
    BY Placing
<1> HIDE DEF rs, where
<1> QED
    BY <1>1, <1>4, <1>5, PlacedCoheres

LEMMA JoinCoheres ==
    ASSUME CohInv, NEW u \in Riders, NEW r \in RoomIds, Join(u, r)
    PROVE  Coherence'
<1> DEFINE old == rooms[r]
           new == Admitted(old, u)
           rs == [rooms EXCEPT ![r] = new]
           where == [room_by_user EXCEPT ![u] = r]
<1>1. /\ r \in DOMAIN rooms /\ old.phase = "lobby" /\ CanAdmit(old, u)
      /\ Commit(rs, identity, where, reward_lanes)
    BY DEF Join
<1>2. Fit(old)
    BY <1>1, AllFit
<1>3. old.fence = 0 /\ DOMAIN old.members # {}
    BY <1>1, <1>2 DEF Fit, Sound, RaceSound, CohInv, RoomsInv, Mid, Houses
<1> HIDE DEF old
<1>4. Fit(new)
    BY <1>1, <1>2, <1>3, AdmissionCoheres, SomeoneAdmitted DEF Fit
<1> HIDE DEF new
<1>5. Placed(rs, rooms, r, new)
    BY <1>1, Placing
<1> HIDE DEF rs, where
<1> QED
    BY <1>1, <1>4, <1>5, PlacedCoheres

\* A lobby command that leaves the room as it should be.
LEMMA LobbyTurnCoheres ==
    ASSUME CohInv, NEW u \in Riders, InLobby(u), NEW new, LobbyMove(new, RoomOf(u)), Coherent(new),
           LobbyTurn(u, new)
    PROVE  Coherence'
<1>1. room_by_user[u] \in DOMAIN rooms
    BY RoomIsThere DEF InLobby, CohInv
<1>2. Fit(new) /\ Replace(room_by_user[u], new)
    BY DEF Fit, LobbyMove, LobbyTurn
<1> QED
    BY <1>1, <1>2, ReplaceCoheres

LEMMA LobbyIsFit ==
    ASSUME CohInv, NEW u \in Riders, InLobby(u)
    PROVE  /\ Sound(RoomOf(u)) /\ Coherent(RoomOf(u))
           /\ PlayerOf(RoomOf(u), u) \in DOMAIN RoomOf(u).members
BY RoomIsThere DEF InLobby, CohInv, Coherence, RoomOf

LEMMA SlotStateCoheres ==
    ASSUME CohInv, NEW u \in Riders, NEW ready \in BOOLEAN, SetSlotState(u, ready)
    PROVE  Coherence'
<1> DEFINE room == RoomOf(u)
           player == PlayerOf(RoomOf(u), u)
           new == SlotReady(room, player, ready)
<1>1. InLobby(u) /\ Sound(room) /\ Coherent(room) /\ LobbyTurn(u, new)
    BY LobbyIsFit DEF SetSlotState, SlotReady
<1>2. LobbyMove(new, room) /\ Coherent(new)
    <2> HIDE DEF room, player
    <2> QED BY <1>1, ReadyMoves, ReadyCoheres
<1> HIDE DEF new
<1> QED
    BY <1>1, <1>2, LobbyTurnCoheres

LEMMA TeamCommandCoheres ==
    ASSUME CohInv, NEW u \in Riders, NEW team \in {Red, Blue}, ChangeTeam(u, team)
    PROVE  Coherence'
<1> DEFINE room == RoomOf(u)
           player == PlayerOf(RoomOf(u), u)
           new == TeamChanged(room, player, team)
<1>1. /\ InLobby(u) /\ Sound(room) /\ Coherent(room) /\ LobbyTurn(u, new)
      /\ player \in Racers(room) /\ CanChangeTeam(room, player, team) /\ team \in Teams
    BY LobbyIsFit, TeamNumbers DEF ChangeTeam, Racers
<1>2. Coherent(new)
    <2> HIDE DEF room, player
    <2> QED BY <1>1, TeamCoheres
<1>3. LobbyMove(new, room)
    <2>1. CASE room.members[player].team = team
        <3>1. new = room
            BY <2>1 DEF TeamChanged
        <3> HIDE DEF room, new
        <3> QED BY <1>1, <3>1 DEF LobbyMove, SameRace, SameUsers
    <2>2. CASE room.members[player].team # team
        <3>1. OpenSlots(room, team) # {}
            BY <1>1, <2>2 DEF CanChangeTeam
        <3> HIDE DEF room, player
        <3> QED BY <1>1, <2>2, <3>1, TeamMoves
    <2> QED BY <2>1, <2>2
<1> HIDE DEF new
<1> QED
    BY <1>1, <1>2, <1>3, LobbyTurnCoheres

LEMMA MasterCommandCoheres ==
    ASSUME CohInv, NEW u \in Riders, NEW next \in Seats, ChangeMaster(u, next)
    PROVE  Coherence'
<1> DEFINE room == RoomOf(u)
           new == MasterChanged(room, next)
<1>1. /\ InLobby(u) /\ Sound(room) /\ Coherent(room) /\ LobbyTurn(u, new)
      /\ next \in Racers(room)
    BY LobbyIsFit DEF ChangeMaster
<1>2. LobbyMove(new, room) /\ Coherent(new)
    <2> HIDE DEF room
    <2> QED BY <1>1, MasterMoves, MasterCoheres
<1> HIDE DEF new
<1> QED
    BY <1>1, <1>2, LobbyTurnCoheres

LEMMA AiCommandCoheres ==
    ASSUME CohInv, NEW u \in Riders, NEW player \in Seats, ChangeBasicAi(u, player)
    PROVE  Coherence'
<1> DEFINE room == RoomOf(u)
<1>1. InLobby(u) /\ Sound(room) /\ Coherent(room)
    BY LobbyIsFit DEF ChangeBasicAi
<1>2. PICK new \in AiChanges(room, player) : LobbyTurn(u, new)
    BY DEF ChangeBasicAi
<1>3. NoTeam \in Teams /\ Red \in Teams /\ Blue \in Teams
    BY TeamNumbers
<1> HIDE DEF room
<1>4. LobbyMove(new, room) /\ Coherent(new)
    <2>1. CASE player \in DOMAIN room.ais /\ new = WithoutAi(room, player)
        BY <1>1, <2>1, AiLeaves, AiLeavesCoheres
    <2>2. CASE CanAddAi(room, NoTeam) /\ new = WithAi(room, NoTeam)
        BY <1>1, <1>3, <2>2, AiComes, AiComesCoheres
    <2>3. CASE /\ CanAddAi(room, Blue) /\ CanAddAi(WithAi(room, Blue), Red)
               /\ new = WithAi(WithAi(room, Blue), Red)
        <3> DEFINE half == WithAi(room, Blue)
        <3>1. LobbyMove(half, room) /\ Coherent(half)
            BY <1>1, <1>3, <2>3, AiComes, AiComesCoheres
        <3> HIDE DEF half
        <3>2. Sound(half) /\ CanAddAi(half, Red) /\ new = WithAi(half, Red)
            BY <2>3, <3>1 DEF LobbyMove, half
        <3>3. LobbyMove(new, half) /\ Coherent(new)
            BY <1>3, <3>1, <3>2, AiComes, AiComesCoheres
        <3> QED BY <3>1, <3>3 DEF LobbyMove, SameRace, SameUsers
    <2> QED BY <2>1, <2>2, <2>3, AiWays
<1> QED
    BY <1>1, <1>2, <1>4, LobbyTurnCoheres DEF room

LEMMA SlotCommandCoheres ==
    ASSUME CohInv, NEW u \in Riders, ChangeClosedSlots(u)
    PROVE  Coherence'
<1> DEFINE room == RoomOf(u)
<1>1. InLobby(u) /\ Sound(room) /\ Coherent(room)
    BY LobbyIsFit DEF ChangeClosedSlots
<1>2. PICK new \in SlotChanges(room) : LobbyTurn(u, new)
    BY DEF ChangeClosedSlots
<1> HIDE DEF room
<1>3. PICK pairs \in SlotPairs(room) : \/ Closable(room, pairs) /\ new = Closed(room, pairs)
                                       \/ Openable(room, pairs) /\ new = Opened(room, pairs)
    BY DEF SlotChanges
<1>4. LobbyMove(new, room) /\ Coherent(new)
    <2>1. CASE Closable(room, pairs) /\ new = Closed(room, pairs)
        BY <1>1, <2>1, SeatsClose, SeatsCloseCoheres
    <2>2. CASE Openable(room, pairs) /\ new = Opened(room, pairs)
        BY <1>1, <2>2, SeatsOpen, SeatsOpenCoheres
    <2> QED BY <1>3, <2>1, <2>2
<1> QED
    BY <1>1, <1>2, <1>4, LobbyTurnCoheres DEF room

LEMMA KickCoheres ==
    ASSUME CohInv, NEW u \in Riders, NEW player \in Seats, Kick(u, player)
    PROVE  Coherence'
<1> DEFINE kicked == RoomOf(u).members[player].user
<1>1. Exit(kicked, identity) /\ InLobby(u) /\ player \in Racers(RoomOf(u))
    BY DEF Kick
<1>2. kicked \in Riders
    <2>1. RoomOf(u).members[player] \in Member
        BY <1>1, LobbyIsFit, RoomFields DEF Racers
    <2> QED BY <2>1 DEF Member
<1> HIDE DEF kicked
<1> QED
    BY <1>1, <1>2, ExitsCohere

LEMMA StartRoomCoheres ==
    ASSUME CohInv, NEW u \in Riders, StartRoom(u)
    PROVE  Coherence'
<1> DEFINE r == room_by_user[u]
           room == rooms[r]
           new == Started(rooms[r], next_epoch)
           rs == [rooms EXCEPT ![r] = new]
           lanes == Taken(reward_lanes, rooms[r], next_epoch)
<1>1. /\ InLobby(u) /\ Startable(room) /\ AllActive(Occupants(room)) /\ next_epoch <= MaxEpoch
      /\ Commit(rs, identity, room_by_user, lanes)
    BY DEF StartRoom, RoomOf, Started, Taken
<1>2. r \in DOMAIN rooms /\ room.phase = "lobby"
    BY <1>1, RoomIsThere DEF InLobby, RoomOf, CohInv
<1>3. Sound(new)
    <2>1. Mid(rooms, identity, room_by_user, reward_lanes, next_epoch)
        BY DEF CohInv, RoomsInv
    <2>2. \A p \in Racers(room) : reward_lanes[room.members[p].user] = 0
        BY <1>1 DEF Startable
    <2> HIDE DEF r
    <2>3. Mid(rs, identity, room_by_user, lanes, next_epoch + 1)
        BY <1>1, <1>2, <2>1, <2>2, Starting
    <2>4. rs[r] = new /\ r \in DOMAIN rs
        BY <1>2
    <2> HIDE DEF rs, new, lanes
    <2> QED BY <2>3, <2>4 DEF Mid
<1>4. Coherent(new)
    <2>1. Sound(room) /\ Coherent(room)
        BY <1>2, AllFit DEF Fit
    <2>2. identity \in IdentityTable
        BY DEF CohInv, RoomsInv, Mid
    <2>3. \A p, q \in DOMAIN room.members : room.members[p].user = room.members[q].user => p = q
        BY <1>2 DEF CohInv, RoomsInv, Mid, Houses
    <2> HIDE DEF room, r
    <2> QED BY <1>1, <2>1, <2>2, <2>3, StartCoheres DEF room
<1> HIDE DEF new, r
<1>5. Placed(rs, rooms, r, new)
    BY <1>2, Placing
<1> HIDE DEF rs, lanes
<1> QED
    BY <1>1, <1>3, <1>4, <1>5, PlacedCoheres DEF Fit

LEMMA RaceTurnCoheres ==
    ASSUME CohInv, NEW r \in DOMAIN rooms, NEW new, RaceMove(new, rooms[r]), Replace(r, new)
    PROVE  Coherence'
<1>1. SameTables(new, rooms[r]) /\ SameRoster(new, rooms[r]) /\ Sound(new)
    BY DEF RaceMove, SameTables
<1>2. Coherent(rooms[r])
    BY DEF CohInv, Coherence
<1>3. Coherent(new)
    BY <1>1, <1>2, RaceCoheres
<1> QED
    BY <1>1, <1>3, ReplaceCoheres DEF Fit

LEMMA RaceCommandCoheres ==
    ASSUME CohInv, NEW u \in Riders, RaceCommand(u)
    PROVE  Coherence'
<1> DEFINE r == room_by_user[u]
           room == rooms[r]
<1>1. r \in DOMAIN rooms /\ Sound(room) /\ RoomOf(u) = room
    BY RoomIsThere DEF RaceCommand, ArmLoading, MarkReady, HumanFinish, AiFinish, Racing, RoomOf,
                       CohInv
<1>2. CASE ArmLoading(u)
    <2> DEFINE new == [room EXCEPT !.stage = "awaiting", !.expected = DOMAIN room.frozen]
    <2>1. room.phase = "loading" /\ room.stage = "dormant" /\ Replace(r, new)
        BY <1>1, <1>2 DEF ArmLoading
    <2> HIDE DEF r
    <2>2. RaceMove(new, room)
        BY <1>1, <2>1, ArmingMoves
    <2> HIDE DEF new
    <2> QED BY <1>1, <2>1, <2>2, RaceTurnCoheres
<1>3. CASE MarkReady(u)
    <2> DEFINE new == [room EXCEPT !.ready = @ \cup {u}]
    <2>1. room.stage = "awaiting" /\ u \in room.expected /\ Replace(r, new)
        BY <1>1, <1>3 DEF MarkReady
    <2> HIDE DEF r
    <2>2. RaceMove(new, room)
        BY <1>1, <2>1, ReadyMarkMoves
    <2> HIDE DEF new
    <2> QED BY <1>1, <2>1, <2>2, RaceTurnCoheres
<1>4. ASSUME NEW player \in Seats, NEW time \in Times, TakesFinish(room, player),
             Replace(r, FinishRecorded(room, player, time))
      PROVE  Coherence'
    <2> DEFINE new == FinishRecorded(room, player, time)
    <2> HIDE DEF r
    <2>1. RaceMove(new, room) /\ Replace(r, new)
        BY <1>1, <1>4, FinishMoves
    <2> HIDE DEF new
    <2> QED BY <1>1, <2>1, RaceTurnCoheres
<1>5. CASE \E time \in Times : HumanFinish(u, time)
    <2> DEFINE player == RoomOf(u).frozen[u].player
    <2>1. PICK time \in Times : player \in Seats /\ TakesFinish(room, player)
                                  /\ Replace(r, FinishRecorded(room, player, time))
        BY <1>1, <1>5 DEF HumanFinish
    <2> HIDE DEF player, room, r
    <2> QED BY <1>4, <2>1
<1>6. CASE \E time \in Times, player \in Seats : AiFinish(u, player, time)
    <2>1. PICK time \in Times, player \in Seats :
              TakesFinish(room, player) /\ Replace(r, FinishRecorded(room, player, time))
        BY <1>1, <1>6 DEF AiFinish
    <2> HIDE DEF room, r
    <2> QED BY <1>4, <2>1
<1> QED
    BY <1>2, <1>3, <1>5, <1>6 DEF RaceCommand

LEMMA TimerCoheres ==
    ASSUME CohInv, NEW r \in RoomIds, Timer(r) \/ RewardReport(r)
    PROVE  Coherence'
<1> DEFINE room == rooms[r]
<1>1. r \in DOMAIN rooms /\ Sound(room) /\ Coherent(room)
    BY AllFit DEF Timer, RewardReport, LoadingTimesOut, StartRace, BeginPersistence, Finalize,
                  RewardsDurable, RewardsFail, RetryDeadLetter, Settlement, Fit
<1>2. CASE LoadingTimesOut(r)
    <2> DEFINE new == [room EXCEPT !.stage = "scheduled", !.expected = {}, !.ready = {}]
    <2>1. room.stage = "awaiting" /\ Replace(r, new)
        BY <1>2 DEF LoadingTimesOut
    <2>2. RaceMove(new, room)
        BY <1>1, <2>1, TimeoutMoves
    <2> HIDE DEF new
    <2> QED BY <1>1, <2>1, <2>2, RaceTurnCoheres
<1>3. CASE StartRace(r)
    <2> DEFINE new == [room EXCEPT !.phase = "running", !.stage = "dormant"]
    <2>1. room.stage = "scheduled" /\ Replace(r, new)
        BY <1>3 DEF StartRace
    <2>2. RaceMove(new, room)
        BY <1>1, <2>1, StartMoves
    <2> HIDE DEF new
    <2> QED BY <1>1, <2>1, <2>2, RaceTurnCoheres
<1>4. CASE BeginPersistence(r) \/ RewardReport(r)
    <2>1. PICK from \in {"awaiting", "persisting", "failed"}, to \in {"persisting", "ready", "failed"} :
              Settlement(r, from, to)
        BY <1>4 DEF BeginPersistence, RewardReport, RewardsDurable, RewardsFail, RetryDeadLetter
    <2> DEFINE new == [room EXCEPT !.settlement = to]
    <2>2. room.settlement # "none" /\ Replace(r, new)
        BY <2>1 DEF Settlement
    <2>3. RaceMove(new, room)
        BY <1>1, <2>2, SettlementMoves
    <2> HIDE DEF new
    <2> QED BY <1>1, <2>2, <2>3, RaceTurnCoheres
<1>5. CASE Finalize(r)
    <2> DEFINE lanes == Released(reward_lanes, {room.fence})
               new == Settled(room)
               rs == [rooms EXCEPT ![r] = new]
    <2>1. \/ Commit(Drop(rooms, {r}), identity, room_by_user, lanes)
          \/ Commit(rs, identity, room_by_user, lanes)
        BY <1>5 DEF Finalize
    <2>2. room.fence # 0
        BY <1>1, <1>5 DEF Finalize, Sound, RaceSound
    <2>3. Fit(new)
        <3> HIDE DEF room
        <3> QED BY <1>1, <2>2, SettledCoheres, RaceSettled DEF Fit
    <2> HIDE DEF lanes, new
    <2>4. Placed(rs, rooms, r, new)
        BY <1>1, Placing
    <2> HIDE DEF rs
    <2> QED BY <2>1, <2>3, <2>4, FewerCohere, PlacedCoheres
<1> QED
    BY <1>2, <1>3, <1>4, <1>5 DEF Timer

LEMMA CoherenceStep ==
    ASSUME CohInv, [Next]_vars
    PROVE  CohInv'
<1>1. RoomsInv'
    BY RoomsStep DEF CohInv
<1>2. ASSUME UNCHANGED vars PROVE Coherence'
    <2>1. rooms' = rooms
        BY <1>2 DEF vars
    <2> QED BY <2>1 DEF CohInv, Coherence
<1>3. ASSUME NEW u \in Riders, NEW c \in Channels, Arrive(u, c) \/ Migrate(u, c)
      PROVE  Coherence'
    BY <1>3, ArrivalCoheres
<1>4. ASSUME NEW u \in Riders, Disconnect(u) \/ Release(u)
      PROVE  Coherence'
    BY <1>4, DepartureCoheres
<1>5. ASSUME NEW u \in Riders, Create(u) \/ Leave(u) \/ \E r \in RoomIds : Join(u, r)
      PROVE  Coherence'
    BY <1>5, CreateCoheres, DepartureCoheres, JoinCoheres
<1>6. ASSUME NEW u \in Riders, LobbyCommand(u)
      PROVE  Coherence'
    <2>1. CASE \E ready \in BOOLEAN : SetSlotState(u, ready)
        BY <2>1, SlotStateCoheres
    <2>2. CASE \E team \in {Red, Blue} : ChangeTeam(u, team)
        BY <2>2, TeamCommandCoheres
    <2>3. CASE \E player \in Seats : ChangeMaster(u, player)
        BY <2>3, MasterCommandCoheres
    <2>4. CASE \E player \in Seats : ChangeBasicAi(u, player) \/ Kick(u, player)
        BY <2>4, AiCommandCoheres, KickCoheres
    <2>5. CASE ChangeClosedSlots(u) \/ StartRoom(u)
        BY <2>5, SlotCommandCoheres, StartRoomCoheres
    <2> QED BY <1>6, <2>1, <2>2, <2>3, <2>4, <2>5 DEF LobbyCommand
<1>7. ASSUME NEW u \in Riders, RaceCommand(u)
      PROVE  Coherence'
    BY <1>7, RaceCommandCoheres
<1>8. ASSUME NEW r \in RoomIds, Timer(r) \/ RewardReport(r)
      PROVE  Coherence'
    BY <1>8, TimerCoheres
<1>9. Coherence'
    BY <1>2, <1>3, <1>4, <1>5, <1>6, <1>7, <1>8 DEF Next
<1> QED
    BY <1>1, <1>9 DEF CohInv

LEMMA CoherentFollows ==
    ASSUME CohInv
    PROVE  RoomsCoherent
<1>1. ASSUME NEW r \in DOMAIN rooms
      PROVE  LET room == rooms[r] IN
             /\ \A p \in Seats : Cardinality({f \in {"member", "ai", "closed"} :
                     \/ f = "member" /\ p \in Racers(room)
                     \/ f = "ai" /\ p \in DOMAIN room.ais
                     \/ f = "closed" /\ p \in DOMAIN room.closed}) <= 1
             /\ \A p \in Occupied(room) :
                     Cardinality({s \in DOMAIN room.positions : room.positions[s] = p}) = 1
             /\ \A s \in DOMAIN room.positions : room.positions[s] \in Occupied(room)
             /\ \A p \in DOMAIN room.closed : room.positions[room.closed[p]] = p
             /\ \A s \in DOMAIN room.positions : LET p == room.positions[s] IN
                  /\ p \in Racers(room) => s \in Half(room.members[p].team)
                  /\ p \in DOMAIN room.ais => s \in Half(room.ais[p])
             /\ \A p \in Racers(room) : (room.members[p].team = NoTeam) = ~InTeams(room)
    <2> DEFINE room == rooms[r]
    <2>1. Seating(room)
        BY DEF CohInv, Coherence, Coherent
    <2> HIDE DEF room
    <2>2. ASSUME NEW p \in Seats
          PROVE  Cardinality({f \in {"member", "ai", "closed"} :
                     \/ f = "member" /\ p \in Racers(room)
                     \/ f = "ai" /\ p \in DOMAIN room.ais
                     \/ f = "closed" /\ p \in DOMAIN room.closed}) <= 1
        <3> DEFINE uses == {f \in {"member", "ai", "closed"} :
                               \/ f = "member" /\ p \in Racers(room)
                               \/ f = "ai" /\ p \in DOMAIN room.ais
                               \/ f = "closed" /\ p \in DOMAIN room.closed}
        <3>1. uses = {} \/ uses = {"member"} \/ uses = {"ai"} \/ uses = {"closed"}
            BY <2>1 DEF Seating
        <3> HIDE DEF uses
        <3>2. Cardinality(uses) = 0 \/ Cardinality(uses) = 1
            BY <3>1, FS_EmptySet, FS_Singleton
        <3>3. Cardinality(uses) <= 1
            BY <3>2
        <3> QED BY <3>3 DEF uses
    <2>3. ASSUME NEW p \in Occupied(room)
          PROVE  Cardinality({s \in DOMAIN room.positions : room.positions[s] = p}) = 1
        <3> DEFINE slots == {s \in DOMAIN room.positions : room.positions[s] = p}
        <3>1. PICK s \in DOMAIN room.positions : room.positions[s] = p
            BY <2>1 DEF Seating
        <3>2. slots = {s}
            BY <2>1, <3>1 DEF Seating
        <3> HIDE DEF slots
        <3>3. Cardinality(slots) = 1
            BY <3>2, FS_Singleton
        <3> QED BY <3>3 DEF slots
    <2>4. /\ \A s \in DOMAIN room.positions : room.positions[s] \in Occupied(room)
          /\ \A p \in DOMAIN room.closed : room.positions[room.closed[p]] = p
          /\ \A s \in DOMAIN room.positions : LET p == room.positions[s] IN
               /\ p \in Racers(room) => s \in Half(room.members[p].team)
               /\ p \in DOMAIN room.ais => s \in Half(room.ais[p])
        BY <2>1 DEF Seating
    <2>5. \A p \in Racers(room) : (room.members[p].team = NoTeam) = ~InTeams(room)
        BY <2>1 DEF Seating, InTeams
    <2> QED BY <2>2, <2>3, <2>4, <2>5 DEF room
<1>2. SeatsCoherent
    BY <1>1 DEF SeatsCoherent
<1>3. MasterPresent
    BY DEF CohInv, Coherence, Coherent, Mastered, MasterPresent
<1>4. GridIsPermutation
    BY DEF CohInv, Coherence, Coherent, Graded, GridIsPermutation
<1> QED
    BY <1>2, <1>3, <1>4 DEF RoomsCoherent

\* Every table of a room tells the same story, whatever its members, its master
\* and its race do to it: each player id has one use and one slot of the grid,
\* everyone starts from his team's half, someone is master, and the places on
\* the grid are a permutation (add_participant, remove_user, change_team,
\* add_basic_ais, set_close_slots, apply_next_grid_ranking, apply_next_lobby_master).
THEOREM RoomsStayCoherent == Spec => []RoomsCoherent
<1>1. Init => CohInv
    <2>1. Init => DOMAIN rooms = {}
        BY NoMap DEF Init
    <2> QED BY <2>1, RoomsInit DEF CohInv, Coherence
<1>2. CohInv /\ [Next]_vars => CohInv'
    BY CoherenceStep
<1>3. CohInv => RoomsCoherent
    BY CoherentFollows
<1> QED
    BY <1>1, <1>2, <1>3, PTL DEF Spec
================================================================================
