------------------------------ MODULE ProtocolRooms ------------------------------
(***************************************************************************)
(* The protocol rooms of the World actor (p5136-server/src/world.rs): who   *)
(* sits where, who is master, and the race a room runs from its lobby       *)
(* through loading, running and settling back to the lobby.                 *)
(*                                                                         *)
(* Every action is one turn of the actor: a command, a UDP datagram or a    *)
(* timer, followed by the part of advance_loading that needs no time to     *)
(* pass (Commit).  What needs time - the loading deadline, the start delay, *)
(* the settlement deadline - is an action of its own that may come at any   *)
(* moment.  A command that the code refuses, and one whose recipients have  *)
(* no outbound queue slot, changes nothing and is no action.                *)
(*                                                                         *)
(* An identity is known here by its generation, its channel and whether a   *)
(* session owns it; the registry itself is IdentityRegistry.tla.  A rider   *)
(* without a channel can enter no room, so a rider arrives with a channel.  *)
(* Track choice, names, passwords, chat and race items are left out; how a  *)
(* reward becomes durable is RewardSettlement.tla.                          *)
(***************************************************************************)
EXTENDS Integers, FiniteSets, FiniteSetsExt

CONSTANTS
    Riders,         \* UserNo
    Watchers,       \* the riders whose profile says pmap 590: they observe
    Referees,       \* the riders whose profile says pmap 718: observers who rule
    Channels,       \* ChannelBinding
    TeamChannels,   \* channels whose rooms race in teams (game type 3 or 4)
    ScoreChannels,  \* channels whose winning team is the one with most points (3)
    Slots,          \* ROOM_SLOT_COUNT
    ObserverSlots,  \* ROOM_OBSERVER_COUNT
    MaxRoom,        \* the last room id, u16::MAX
    MaxEpoch,       \* GlobalRaceEpoch's last value
    MaxGeneration,  \* IdentityGeneration's last value
    MaxFilled,      \* how many of a room's seats may be closed or hold an AI
    DidNotFinish    \* u32::MAX as a race time

ASSUME RoomConstants ==
    /\ IsFiniteSet(Riders)
    /\ Watchers \subseteq Riders /\ Referees \subseteq Riders
    /\ TeamChannels \subseteq Channels /\ ScoreChannels \subseteq TeamChannels
    /\ Slots \in Nat /\ Slots >= 2 /\ ObserverSlots \in Nat
    /\ MaxRoom \in Nat \ {0} /\ MaxEpoch \in Nat /\ MaxGeneration \in Nat \ {0}
    /\ MaxFilled \in Nat /\ DidNotFinish \in Nat

VARIABLES
    identity,      \* rider -> its current identity
    rooms,         \* protocol_rooms: room id -> room
    room_by_user,  \* protocol_room_by_user; 0 for no room
    free_ids,      \* free_protocol_room_ids
    next_room_id,
    next_epoch,    \* next_race_epoch; MaxEpoch + 1 when exhausted
    reward_lanes   \* rider -> epoch of the race that owns the lane; 0 for none

ids == <<free_ids, next_room_id>>
vars == <<identity, rooms, room_by_user, ids, next_epoch, reward_lanes>>

--------------------------------------------------------------------------------
(* Data.                                                                    *)

Seats == 0 .. Slots - 1                         \* player ids of racers
Galleries == Slots .. Slots + ObserverSlots - 1 \* player ids of observers
Players == Seats \cup Galleries
RoomIds == 1 .. MaxRoom
Epochs == 1 .. MaxEpoch
Times == 0 .. DidNotFinish

Observes(u) == u \in Watchers \cup Referees

NoTeam == 0
Red == 1
Blue == 2
Teams == {NoTeam, Red, Blue}

NoChannel == "none"   \* of a rider who is not here
Identity == [generation : 0 .. MaxGeneration, channel : Channels \cup {NoChannel},
             status : {"out", "active", "ownerless"}]

Member == [user : Riders, ready : BOOLEAN, team : Teams, ranking : 0 .. Slots - 1]
Participant == [player : Players, generation : 1 .. MaxGeneration, team : Teams]

Phases == {"lobby", "loading", "running", "settling"}
Stages == {"dormant", "awaiting", "scheduled"}
Settlements == {"none", "awaiting", "persisting", "ready", "failed"}

\* ProtocolRoomState.  members holds members_by_id and observers, which share
\* the player ids; the handshake's stamps are riders of the frozen roster.
IsRoom(room) ==
    /\ room.channel \in Channels /\ room.phase \in Phases
    /\ room.master \in Players \cup {-1}
    /\ DOMAIN room.members \subseteq Players
    /\ room.members \in [DOMAIN room.members -> Member]
    /\ DOMAIN room.ais \subseteq Seats /\ room.ais \in [DOMAIN room.ais -> Teams]
    /\ DOMAIN room.closed \subseteq Seats /\ room.closed \in [DOMAIN room.closed -> Seats]
    /\ DOMAIN room.positions \subseteq Seats
    /\ room.positions \in [DOMAIN room.positions -> Seats]
    /\ room.fence \in 0 .. MaxEpoch
    /\ DOMAIN room.frozen \subseteq Riders
    /\ room.frozen \in [DOMAIN room.frozen -> Participant]
    /\ DOMAIN room.frozen_ais \subseteq Seats
    /\ room.frozen_ais \in [DOMAIN room.frozen_ais -> Teams]
    /\ room.stage \in Stages
    /\ room.expected \subseteq DOMAIN room.frozen /\ room.ready \subseteq room.expected
    /\ DOMAIN room.finish \subseteq Seats /\ room.finish \in [DOMAIN room.finish -> Times]
    /\ room.settlement \in Settlements

TypeOK ==
    /\ identity \in [Riders -> Identity]
    /\ DOMAIN rooms \subseteq RoomIds /\ \A r \in DOMAIN rooms : IsRoom(rooms[r])
    /\ room_by_user \in [Riders -> 0 .. MaxRoom]
    /\ free_ids \subseteq RoomIds /\ next_room_id \in RoomIds
    /\ next_epoch \in 1 .. MaxEpoch + 1
    /\ reward_lanes \in [Riders -> 0 .. MaxEpoch]

Put(f, x, v) == [y \in DOMAIN f \cup {x} |-> IF y = x THEN v ELSE f[y]]
Drop(f, S) == [y \in DOMAIN f \ S |-> f[y]]

\* ProtocolRoomState::new; 0 is the placeholder of a room without a racer.
EmptyRoom(c) ==
    [channel |-> c, phase |-> "lobby", master |-> 0,
     members |-> << >>, ais |-> << >>, closed |-> << >>, positions |-> << >>,
     fence |-> 0, frozen |-> << >>, frozen_ais |-> << >>,
     stage |-> "dormant", expected |-> {}, ready |-> {},
     finish |-> << >>, settlement |-> "none"]

Init ==
    /\ identity = [u \in Riders |->
                     [generation |-> 0, channel |-> NoChannel, status |-> "out"]]
    /\ rooms = << >>
    /\ room_by_user = [u \in Riders |-> 0]
    /\ free_ids = {} /\ next_room_id = 1 /\ next_epoch = 1
    /\ reward_lanes = [u \in Riders |-> 0]

--------------------------------------------------------------------------------
(* A room's seats.                                                          *)

Racers(room) == DOMAIN room.members \cap Seats
Occupants(room) == {room.members[p].user : p \in DOMAIN room.members}
PlayerOf(room, u) == CHOOSE p \in DOMAIN room.members : room.members[p].user = u
InTeams(room) == room.channel \in TeamChannels

\* vacant_member_id looks in these, lowest first
Vacant(room) == Seats \ (DOMAIN room.members \cup DOMAIN room.ais \cup DOMAIN room.closed)
VacantGalleries(room) == Galleries \ DOMAIN room.members

\* The half of the track's grid a team starts from.
Half(team) == CASE team = Blue -> 0 .. (Slots \div 2) - 1
                [] team = Red  -> Slots \div 2 .. Slots - 1
                [] OTHER       -> Seats
OpenSlots(room, team) == Half(team) \ DOMAIN room.positions

TeamSize(room, team) ==
    Cardinality({p \in Racers(room) : room.members[p].team = team})
  + Cardinality({p \in DOMAIN room.ais : room.ais[p] = team})

Opponent(team) == IF team = Blue THEN Red ELSE Blue

\* admission_slot_and_team: the smaller team, blue on a tie, the other one
\* when its half of the grid is full.
AdmissionTeam(room) ==
    IF ~InTeams(room) THEN NoTeam
    ELSE LET smaller == IF TeamSize(room, Blue) <= TeamSize(room, Red) THEN Blue ELSE Red
         IN IF OpenSlots(room, smaller) # {} THEN smaller ELSE Opponent(smaller)

CanAdmit(room, u) ==
    IF Observes(u) THEN VacantGalleries(room) # {}
    ELSE Vacant(room) # {} /\ OpenSlots(room, AdmissionTeam(room)) # {}

Newcomer(u, team, ranking) ==
    [user |-> u, ready |-> FALSE, team |-> team, ranking |-> ranking]

JoinRanking(room) == Cardinality(Racers(room))

\* add_participant
Admitted(room, u) ==
    IF Observes(u)
    THEN LET player == Min(VacantGalleries(room))
         IN [room EXCEPT !.members = Put(@, player, Newcomer(u, NoTeam, 0)),
                         !.master = IF u \in Referees THEN player ELSE @]
    ELSE LET player == Min(Vacant(room))
             team == AdmissionTeam(room)
         IN [room EXCEPT !.members = Put(@, player, Newcomer(u, team, JoinRanking(room))),
                         !.positions = Put(@, Min(OpenSlots(room, team)), player),
                         !.master = IF @ \in DOMAIN room.members THEN @ ELSE player]

\* remove_user: the seat is free again, the racers close up in the ranking,
\* and if the master left the lowest racer, else the lowest observer, is the
\* next (assign_next_room_master), who has to get ready anew.
Without(room, player) ==
    LET left == Drop(room.members, {player})
        ahead(q) == {o \in DOMAIN left \cap Seats :
                       \/ left[o].ranking < left[q].ranking
                       \/ left[o].ranking = left[q].ranking /\ o < q}
        deposed == room.master = player
        master == IF ~deposed THEN room.master
                  ELSE IF DOMAIN left = {} THEN -1 ELSE Min(DOMAIN left)
    IN [room EXCEPT
          !.members = [q \in DOMAIN left |->
              [left[q] EXCEPT
                 !.ready = @ /\ ~(deposed /\ q = master),
                 !.ranking = IF player \in Seats /\ q \in Seats
                             THEN Cardinality(ahead(q)) ELSE @]],
          !.positions = Drop(@, {s \in DOMAIN @ : @[s] = player}),
          !.master = master]

\* change_team: the first free slot of the other half, and not ready.
CanChangeTeam(room, player, team) ==
    InTeams(room) /\ (room.members[player].team = team \/ OpenSlots(room, team) # {})

\* Mutant: the racer keeps the slot of the team it left.
team_changed_in_place(room, player, team) ==
    [room EXCEPT !.members[player].team = team]

TeamChanged(room, player, team) ==
    IF room.members[player].team = team THEN room
    ELSE [room EXCEPT
            !.members[player].team = team, !.members[player].ready = FALSE,
            !.positions = Put(Drop(@, {s \in DOMAIN @ : @[s] = player}),
                              Min(OpenSlots(room, team)), player)]

MasterChanged(room, next) ==
    [room EXCEPT !.members[room.master].ready = FALSE, !.members[next].ready = FALSE,
                 !.master = next]

\* remove_ai
WithoutAi(room, player) ==
    [room EXCEPT !.ais = Drop(@, {player}),
                 !.positions = Drop(@, {s \in DOMAIN @ : @[s] = player})]

\* add_basic_ais: one AI, or one per team; all of them find a seat or none is added.
CanAddAi(room, team) == Vacant(room) # {} /\ OpenSlots(room, team) # {}
WithAi(room, team) ==
    LET player == Min(Vacant(room))
    IN [room EXCEPT !.ais = Put(@, player, team),
                    !.positions = Put(@, Min(OpenSlots(room, team)), player)]
AisAdded(room) ==
    LET withBlue == WithAi(room, Blue)
        only(fits, added) == IF fits THEN {added} ELSE {}
    IN IF ~InTeams(room) THEN only(CanAddAi(room, NoTeam), WithAi(room, NoTeam))
       ELSE only(CanAddAi(room, Blue) /\ CanAddAi(withBlue, Red), WithAi(withBlue, Red))

\* change_basic_ai: an AI with this id goes, otherwise AIs come if they fit.
AiChanges(room, player) ==
    IF player \in DOMAIN room.ais THEN {WithoutAi(room, player)} ELSE AisAdded(room)

\* set_close_slots: each pair is a member id and the slot it blocks.
Closable(room, pairs) ==
    \A pair \in pairs : pair[1] \in Vacant(room) /\ pair[2] \notin DOMAIN room.positions
Closed(room, pairs) ==
    LET players == {pair[1] : pair \in pairs}
        slotOf(p) == CHOOSE s \in Seats : <<p, s>> \in pairs
    IN [room EXCEPT
          !.closed = [p \in DOMAIN @ \cup players |->
                        IF p \in players THEN slotOf(p) ELSE @[p]],
          !.positions = [s \in DOMAIN @ \cup {pair[2] : pair \in pairs} |->
                           IF s \in DOMAIN @ THEN @[s]
                           ELSE CHOOSE p \in players : <<p, s>> \in pairs]]
Openable(room, pairs) ==
    \A pair \in pairs : /\ pair[1] \in DOMAIN room.closed /\ room.closed[pair[1]] = pair[2]
                        /\ room.positions[pair[2]] = pair[1]
Opened(room, pairs) ==
    [room EXCEPT !.closed = Drop(@, {pair[1] : pair \in pairs}),
                 !.positions = Drop(@, {pair[2] : pair \in pairs})]

\* In team rooms two slots are closed or opened at a time.
SlotPairs(room) ==
    IF InTeams(room)
    THEN {{<<x[1], x[2]>>, <<x[3], x[4]>>} :
            x \in {y \in Seats \X Seats \X Seats \X Seats : y[1] < y[3] /\ y[2] # y[4]}}
    ELSE {{x} : x \in Seats \X Seats}

\* change_closed_slots
SlotChanges(room) ==
    {Closed(room, pairs) : pairs \in {x \in SlotPairs(room) : Closable(room, x)}}
    \cup {Opened(room, pairs) : pairs \in {x \in SlotPairs(room) : Openable(room, x)}}

--------------------------------------------------------------------------------
(* A room's race.                                                           *)

FrozenRacers(room) == {u \in DOMAIN room.frozen : room.frozen[u].player \in Seats}
Entrants(room) ==
    {room.frozen[u].player : u \in FrozenRacers(room)} \cup DOMAIN room.frozen_ais
TeamOf(room, player) ==
    IF player \in DOMAIN room.frozen_ais THEN room.frozen_ais[player]
    ELSE room.frozen[CHOOSE u \in FrozenRacers(room) : room.frozen[u].player = player].team

\* settlement_ranking: by finish time, who did not finish last, ties by player id.
FinishTime(room, player) ==
    IF player \in DOMAIN room.finish THEN room.finish[player] ELSE DidNotFinish
Beats(room, p, q) ==
    \/ FinishTime(room, p) < FinishTime(room, q)
    \/ FinishTime(room, p) = FinishTime(room, q) /\ p < q
Rank(room, player) == Cardinality({q \in Entrants(room) : Beats(room, q, player)})

TeamPointsByRank == <<10, 8, 6, 5, 4, 3, 2, 1>>
TeamScore(room, team) ==
    LET points(p) == TeamPointsByRank[Rank(room, p) + 1]
    IN MapThenSumSet(points, {p \in Entrants(room) : TeamOf(room, p) = team
                                          /\ FinishTime(room, p) # DidNotFinish})
WinningTeam(room) ==
    LET first == TeamOf(room, CHOOSE p \in Entrants(room) : Rank(room, p) = 0)
        lead == TeamScore(room, Red) - TeamScore(room, Blue)
    IN IF room.channel \notin ScoreChannels \/ lead = 0 THEN first
       ELSE IF lead > 0 THEN Red ELSE Blue

\* What abort_loading_room and try_finalize_settlement leave of a race.
Unraced(room) ==
    [room EXCEPT !.phase = "lobby", !.fence = 0, !.frozen = << >>, !.frozen_ais = << >>,
                 !.stage = "dormant", !.expected = {}, !.ready = {},
                 !.finish = << >>, !.settlement = "none",
                 !.members = [p \in DOMAIN @ |-> [@[p] EXCEPT !.ready = FALSE]]]

\* apply_next_grid_ranking: the racers still here start in the order they finished.
NextGrid(room) ==
    LET stayed == Racers(room) \cap Entrants(room)
        ahead(p) == {q \in stayed : Rank(room, q) < Rank(room, p)}
    IN [p \in DOMAIN room.members |->
          IF p \in stayed THEN [room.members[p] EXCEPT !.ranking = Cardinality(ahead(p))]
          ELSE room.members[p]]

\* apply_next_lobby_master: an observer who rules stays; otherwise the best of
\* the winning team's racers still here, if there is one.
NextLobbyMaster(room) ==
    LET heirs == {p \in Racers(room) \cap Entrants(room) :
                    InTeams(room) => TeamOf(room, p) = WinningTeam(room)}
    IN IF \/ room.master >= Slots /\ room.master \in DOMAIN room.members
          \/ heirs = {}
       THEN room.master
       ELSE CHOOSE p \in heirs : \A q \in heirs : Rank(room, p) <= Rank(room, q)

Settled(room) == Unraced([room EXCEPT !.members = NextGrid(room),
                                      !.master = NextLobbyMaster(room)])

--------------------------------------------------------------------------------
(* The end of a turn.                                                       *)

\* exact_identity_in_protocol_room: the frozen participants who are still here
\* under the very identity they were frozen with.
Exact(r, room, who, where) ==
    {u \in DOMAIN room.frozen : /\ where[u] = r /\ who[u].status = "active"
                                /\ who[u].generation = room.frozen[u].generation}

\* release_reward_lanes
Released(lanes, epochs) ==
    [u \in Riders |-> IF lanes[u] \in epochs THEN 0 ELSE lanes[u]]

\* advance_loading_room, as far as it needs no time.
Forsaken(r, room, who, where) ==
    Exact(r, room, who, where) \cap FrozenRacers(room) = {}
Aborts(r, room, who, where) == room.phase = "loading" /\ Forsaken(r, room, who, where)

\* Mutant: those who left are waited for.
never_reconciled(room, exact) == room

\* reconcile_loading_handshake: no one waits for a participant who is gone.
HandshakeReconciled(room, exact) ==
    LET expected == room.expected \cap exact
        ready == room.ready \cap expected
    IN IF room.stage # "awaiting" THEN room
       ELSE IF ready = expected
            THEN [room EXCEPT !.stage = "scheduled", !.expected = {}, !.ready = {}]
            ELSE [room EXCEPT !.expected = expected, !.ready = ready]

\* advance_loading: an abandoned loading room is aborted, one that waits for its
\* riders looks who is left, and an abandoned race begins to settle
\* (reconcile_running_room).
Reconciled(r, room, who, where) ==
    CASE Aborts(r, room, who, where) -> Unraced(room)
      [] room.phase = "loading" /\ ~Forsaken(r, room, who, where) ->
            HandshakeReconciled(room, Exact(r, room, who, where))
      [] room.phase = "running" /\ Forsaken(r, room, who, where) ->
            [room EXCEPT !.phase = "settling", !.settlement = "awaiting"]
      [] OTHER -> room

\* A turn leaves these rooms, identities, memberships and lanes.
Commit(rs, who, where, lanes) ==
    /\ rooms' = [r \in DOMAIN rs |-> Reconciled(r, rs[r], who, where)]
    /\ identity' = who /\ room_by_user' = where
    /\ reward_lanes' = Released(lanes, {rs[r].fence :
                          r \in {q \in DOMAIN rs : Aborts(q, rs[q], who, where)}})

\* A turn that only replaces one room.
Replace(r, room) ==
    /\ Commit([rooms EXCEPT ![r] = room], identity, room_by_user, reward_lanes)
    /\ UNCHANGED <<ids, next_epoch>>

--------------------------------------------------------------------------------
(* Riders come, move and go.                                                *)

\* Mutant: a loading room outlives its last member.
gone_from_lobby(room) == DOMAIN room.members = {} /\ room.phase = "lobby"

Gone(room) == DOMAIN room.members = {} /\ room.phase \in {"lobby", "loading"}

\* remove_protocol_user, plan_protocol_room_exit: the rider is out of its room;
\* a room left empty in its lobby or while loading is gone, one that races stays
\* until its race is settled.
Exit(u, who) ==
    LET r == room_by_user[u]
        room == Without(rooms[r], PlayerOf(rooms[r], u))
        where == [room_by_user EXCEPT ![u] = 0]
    IN IF r = 0 THEN Commit(rooms, who, where, reward_lanes) /\ UNCHANGED ids
       ELSE IF Gone(room)
       THEN /\ Commit(Drop(rooms, {r}), who, where,
                      Released(reward_lanes, {room.fence} \ {0}))
            /\ free_ids' = free_ids \cup {r} /\ UNCHANGED next_room_id
       ELSE Commit([rooms EXCEPT ![r] = room], who, where, reward_lanes) /\ UNCHANGED ids

\* A login followed by its first channel migration.
Arrive(u, c) ==
    /\ identity[u].status = "out" /\ identity[u].generation < MaxGeneration
    /\ Commit(rooms, [identity EXCEPT ![u] =
                [generation |-> identity[u].generation + 1, channel |-> c, status |-> "active"]],
              room_by_user, reward_lanes)
    /\ UNCHANGED <<ids, next_epoch>>

\* complete_preflighted_migration: to the same channel the rider keeps its room,
\* under a new identity; to another one it leaves.
Migrate(u, c) ==
    LET who == [identity EXCEPT ![u] =
                  [generation |-> @.generation + 1, channel |-> c, status |-> "active"]]
    IN /\ identity[u].status # "out" /\ identity[u].generation < MaxGeneration
       /\ IF room_by_user[u] # 0 /\ rooms[room_by_user[u]].channel = c
          THEN Commit(rooms, who, room_by_user, reward_lanes) /\ UNCHANGED ids
          ELSE Exit(u, who)
       /\ UNCHANGED next_epoch

\* close_session_state: an identity with a pending migration or an admitted
\* operation is kept without an owner, any other is released.
Disconnect(u) ==
    /\ identity[u].status = "active"
    /\ Commit(rooms, [identity EXCEPT ![u].status = "ownerless"], room_by_user, reward_lanes)
    /\ UNCHANGED <<ids, next_epoch>>

\* The identity is released: at once, when its permit expires, or when the last
\* admitted operation ends.
Release(u) ==
    /\ identity[u].status # "out"
    /\ Exit(u, [identity EXCEPT ![u].channel = NoChannel, ![u].status = "out"])
    /\ UNCHANGED next_epoch

--------------------------------------------------------------------------------
(* Rooms open, fill and empty.                                              *)

\* authorize_session_operation: an operation admitted before its session closed
\* still runs.
MayAct(u) == identity[u].status # "out"

\* allocate_protocol_room_id: the least free id, else the next one not in use.
UsableIds == free_ids \ DOMAIN rooms
UnusedFrom(first) == {id \in first .. MaxRoom : id \notin DOMAIN rooms}
NewRoomId ==
    IF UsableIds # {} THEN Min(UsableIds)
    ELSE IF UnusedFrom(next_room_id) # {} THEN Min(UnusedFrom(next_room_id))
    ELSE Min(UnusedFrom(1))
Allocated(r) ==
    IF UsableIds # {}
    THEN free_ids' = {id \in free_ids : id > r} /\ UNCHANGED next_room_id
    ELSE free_ids' = {} /\ next_room_id' = IF r = MaxRoom THEN 1 ELSE r + 1

\* protocol_create_room
Create(u) ==
    LET room == EmptyRoom(identity[u].channel)
    IN /\ MayAct(u) /\ room_by_user[u] = 0
       /\ UsableIds # {} \/ UnusedFrom(1) # {}
       /\ CanAdmit(room, u)
       /\ Commit(Put(rooms, NewRoomId, Admitted(room, u)), identity,
                 [room_by_user EXCEPT ![u] = NewRoomId], reward_lanes)
       /\ Allocated(NewRoomId)
       /\ UNCHANGED next_epoch

\* protocol_join_room
Join(u, r) ==
    /\ MayAct(u) /\ room_by_user[u] = 0
    /\ r \in DOMAIN rooms /\ rooms[r].phase = "lobby"
    /\ rooms[r].channel = identity[u].channel
    /\ CanAdmit(rooms[r], u)
    /\ Commit([rooms EXCEPT ![r] = Admitted(@, u)], identity,
              [room_by_user EXCEPT ![u] = r], reward_lanes)
    /\ UNCHANGED <<ids, next_epoch>>

\* protocol_leave_room, enter_client_stage, entering a MyRoom.
Leave(u) ==
    /\ MayAct(u) /\ room_by_user[u] # 0
    /\ Exit(u, identity)
    /\ UNCHANGED next_epoch

--------------------------------------------------------------------------------
(* Lobby commands.  Each sends the new state to everyone in the room, or is *)
(* refused as a whole.                                                      *)

RoomOf(u) == rooms[room_by_user[u]]
InLobby(u) == MayAct(u) /\ room_by_user[u] # 0 /\ RoomOf(u).phase = "lobby"
Rules(u) == RoomOf(u).master = PlayerOf(RoomOf(u), u)

\* active_room_sessions
AllActive(users) == \A u \in users : identity[u].status = "active"

\* MaxFilled is a bound of the model; in the code every seat may be filled.
FewFilled(room) == Cardinality(DOMAIN room.ais \cup DOMAIN room.closed) <= MaxFilled

LobbyTurn(u, room) ==
    /\ AllActive(Occupants(room))
    /\ Replace(room_by_user[u], room)

SetSlotState(u, ready) ==
    LET player == PlayerOf(RoomOf(u), u)
    IN /\ InLobby(u) /\ player \in Seats
       /\ LobbyTurn(u, [RoomOf(u) EXCEPT !.members[player].ready = ready])

ChangeTeam(u, team) ==
    LET player == PlayerOf(RoomOf(u), u)
    IN /\ InLobby(u) /\ player \in Seats
       /\ CanChangeTeam(RoomOf(u), player, team)
       /\ LobbyTurn(u, TeamChanged(RoomOf(u), player, team))

ChangeMaster(u, next) ==
    /\ InLobby(u) /\ PlayerOf(RoomOf(u), u) \in Seats /\ Rules(u)
    /\ next \in Racers(RoomOf(u))
    /\ LobbyTurn(u, MasterChanged(RoomOf(u), next))

ChangeBasicAi(u, player) ==
    /\ InLobby(u) /\ Rules(u)
    /\ \E room \in AiChanges(RoomOf(u), player) : FewFilled(room) /\ LobbyTurn(u, room)

ChangeClosedSlots(u) ==
    /\ InLobby(u) /\ Rules(u)
    /\ \E room \in SlotChanges(RoomOf(u)) : FewFilled(room) /\ LobbyTurn(u, room)

\* kick_player: a racer, also the master itself.
Kick(u, player) ==
    LET kicked == RoomOf(u).members[player].user
    IN /\ InLobby(u) /\ Rules(u) /\ player \in Racers(RoomOf(u))
       /\ AllActive(Occupants(RoomOf(u)))
       /\ Exit(kicked, identity)
       /\ UNCHANGED next_epoch

\* Mutant: a rider whose last race is unsettled may start the next one.
startable_any_lane(room) ==
    /\ Racers(room) # {}
    /\ \A p \in Racers(room) \ {room.master} : room.members[p].ready

\* validate_start_racers
Startable(room) ==
    /\ Racers(room) # {}
    /\ \A p \in Racers(room) \ {room.master} : room.members[p].ready
    /\ \A p \in Racers(room) : reward_lanes[room.members[p].user] = 0

\* freeze_race_roster
Roster(room) ==
    [u \in Occupants(room) |->
       LET player == PlayerOf(room, u)
       IN [player |-> player, generation |-> identity[u].generation,
           team |-> room.members[player].team]]

StartRoom(u) ==
    LET room == RoomOf(u)
        racers == {room.members[p].user : p \in Racers(room)}
    IN /\ InLobby(u) /\ Rules(u)
       /\ Startable(room) /\ AllActive(Occupants(room))
       /\ next_epoch <= MaxEpoch
       /\ Commit([rooms EXCEPT ![room_by_user[u]] =
                    [room EXCEPT !.phase = "loading", !.fence = next_epoch,
                                 !.frozen = Roster(room), !.frozen_ais = room.ais]],
                 identity, room_by_user,
                 [v \in Riders |-> IF v \in racers THEN next_epoch ELSE reward_lanes[v]])
       /\ next_epoch' = next_epoch + 1
       /\ UNCHANGED ids

--------------------------------------------------------------------------------
(* Loading and racing.                                                      *)

\* Mutant: any identity of a frozen rider passes for the frozen one.
frozen_rider(u) == u \in DOMAIN RoomOf(u).frozen

FrozenAs(u) ==
    /\ u \in DOMAIN RoomOf(u).frozen
    /\ RoomOf(u).frozen[u].generation = identity[u].generation

Racing(u) == MayAct(u) /\ room_by_user[u] # 0 /\ FrozenAs(u)

\* arm_loading (GameControl 0)
ArmLoading(u) ==
    /\ Racing(u) /\ RoomOf(u).phase = "loading" /\ RoomOf(u).stage = "dormant"
    /\ Replace(room_by_user[u],
               [RoomOf(u) EXCEPT !.stage = "awaiting", !.expected = DOMAIN RoomOf(u).frozen])

\* mark_loading_ready: the rider's time synchronisation was answered.
MarkReady(u) ==
    /\ Racing(u) /\ identity[u].status = "active"
    /\ RoomOf(u).stage = "awaiting" /\ u \in RoomOf(u).expected \ RoomOf(u).ready
    /\ Replace(room_by_user[u], [RoomOf(u) EXCEPT !.ready = @ \cup {u}])

\* Mutant: the time runs out only for a room where someone is ready.
late_ones_time_out(r) ==
    /\ r \in DOMAIN rooms /\ rooms[r].stage = "awaiting" /\ rooms[r].ready # {}
    /\ Replace(r, [rooms[r] EXCEPT !.stage = "scheduled", !.expected = {}, !.ready = {}])

\* The 30 s are over (reconcile_loading_handshake).
LoadingTimesOut(r) ==
    /\ r \in DOMAIN rooms /\ rooms[r].stage = "awaiting"
    /\ Replace(r, [rooms[r] EXCEPT !.stage = "scheduled", !.expected = {}, !.ready = {}])

\* try_start_scheduled_room, once everyone left has a queue slot.
StartRace(r) ==
    /\ r \in DOMAIN rooms /\ rooms[r].stage = "scheduled"
    /\ Replace(r, [rooms[r] EXCEPT !.phase = "running", !.stage = "dormant"])

\* record_finish: the first one begins the settlement.
FinishRecorded(room, player, time) ==
    [room EXCEPT !.finish = Put(@, player, time),
                 !.phase = "settling", !.settlement = "awaiting"]

TakesFinish(room, player) ==
    /\ room.phase = "running" \/ room.settlement = "awaiting"
    /\ player \notin DOMAIN room.finish

\* record_human_finish (GameControl 2)
HumanFinish(u, time) ==
    LET player == RoomOf(u).frozen[u].player
    IN /\ Racing(u) /\ player \in Seats /\ TakesFinish(RoomOf(u), player)
       /\ Replace(room_by_user[u], FinishRecorded(RoomOf(u), player, time))

\* record_ai_finish: any participant reports for an AI.
AiFinish(u, player, time) ==
    /\ Racing(u) /\ player \in DOMAIN RoomOf(u).frozen_ais
    /\ TakesFinish(RoomOf(u), player)
    /\ Replace(room_by_user[u], FinishRecorded(RoomOf(u), player, time))

Settlement(r, from, to) ==
    /\ r \in DOMAIN rooms /\ rooms[r].settlement = from
    /\ Replace(r, [rooms[r] EXCEPT !.settlement = to])

\* begin_reward_persistence at the deadline; a ranking or a reward refused
\* leaves a dead letter.
BeginPersistence(r) == \E to \in {"persisting", "failed"} : Settlement(r, "awaiting", to)

\* prepare_ready_settlement: the last reward is durable.
RewardsDurable(r) == Settlement(r, "persisting", "ready")
RewardsFail(r) == Settlement(r, "persisting", "failed")
RetryDeadLetter(r) == Settlement(r, "failed", "persisting")

\* try_finalize_settlement, once everyone left has a queue slot.
Finalize(r) ==
    LET room == rooms[r]
        lanes == Released(reward_lanes, {room.fence})
    IN /\ r \in DOMAIN rooms /\ room.settlement = "ready"
       /\ IF DOMAIN room.members = {}
          THEN /\ Commit(Drop(rooms, {r}), identity, room_by_user, lanes)
               /\ free_ids' = free_ids \cup {r} /\ UNCHANGED next_room_id
          ELSE /\ Commit([rooms EXCEPT ![r] = Settled(room)], identity, room_by_user, lanes)
               /\ UNCHANGED ids
       /\ UNCHANGED next_epoch

--------------------------------------------------------------------------------
(* The specification.                                                       *)

LobbyCommand(u) ==
    \/ \E ready \in BOOLEAN : SetSlotState(u, ready)
    \/ \E team \in {Red, Blue} : ChangeTeam(u, team)
    \/ \E player \in Seats : ChangeMaster(u, player) \/ ChangeBasicAi(u, player) \/ Kick(u, player)
    \/ ChangeClosedSlots(u)
    \/ StartRoom(u)

RaceCommand(u) ==
    \/ ArmLoading(u)
    \/ MarkReady(u)
    \/ \E time \in Times : HumanFinish(u, time)
    \/ \E time \in Times, player \in Seats : AiFinish(u, player, time)

Timer(r) ==
    \/ LoadingTimesOut(r)
    \/ StartRace(r)
    \/ BeginPersistence(r)
    \/ Finalize(r)

RewardReport(r) ==
    \/ RewardsDurable(r)
    \/ RewardsFail(r)
    \/ RetryDeadLetter(r)

Next ==
    \/ \E u \in Riders, c \in Channels : Arrive(u, c) \/ Migrate(u, c)
    \/ \E u \in Riders : Disconnect(u) \/ Release(u)
    \/ \E u \in Riders : Create(u) \/ Leave(u) \/ \E r \in RoomIds : Join(u, r)
    \/ \E u \in Riders : LobbyCommand(u) \/ RaceCommand(u)
    \/ \E r \in RoomIds : Timer(r) \/ RewardReport(r)

Spec == Init /\ [][Next]_vars

\* The heartbeat runs every 100 ms, looks at every room, and retries what a full
\* queue held up; every session's writer empties its queue or closes the session.
\* Settlements need no fairness here: RewardSettlement.tla follows them.
Fairness == \A r \in RoomIds : WF_vars(LoadingTimesOut(r) \/ StartRace(r))

FairSpec == Spec /\ Fairness

--------------------------------------------------------------------------------
(* Properties.                                                              *)

Occupied(room) == Racers(room) \cup DOMAIN room.ais \cup DOMAIN room.closed

\* Each player id in use has exactly one use and one slot of the grid, closed
\* ids the slot they block, and in a team room everyone starts from the half of
\* the team he races for: what the slot, team, AI and close commands have to
\* agree about whatever the order they come in.
SeatsCoherent == \A r \in DOMAIN rooms : LET room == rooms[r] IN
    /\ \A p \in Seats : Cardinality({f \in {"member", "ai", "closed"} :
            \/ f = "member" /\ p \in Racers(room)
            \/ f = "ai" /\ p \in DOMAIN room.ais
            \/ f = "closed" /\ p \in DOMAIN room.closed}) <= 1
    /\ \A p \in Occupied(room) :
            Cardinality({s \in DOMAIN room.positions : room.positions[s] = p}) = 1
    /\ \A s \in DOMAIN room.positions : room.positions[s] \in Occupied(room)
    /\ \A p \in DOMAIN room.closed : room.positions[room.closed[p]] = p
    /\ \A s \in DOMAIN room.positions : LET p == room.positions[s] IN
         /\ p \in Racers(room) => s \in Half(room.members[p].team)
         /\ p \in DOMAIN room.ais => s \in Half(room.ais[p])
    /\ \A p \in Racers(room) : (room.members[p].team = NoTeam) = ~InTeams(room)

\* A room with riders has a master among them, save a room of observers whose
\* placeholder awaits the first racer: whoever leaves, is kicked or finishes.
MasterPresent == \A r \in DOMAIN rooms : LET room == rooms[r] IN
    DOMAIN room.members # {} =>
        \/ room.master \in DOMAIN room.members
        \/ Racers(room) = {} /\ room.master = 0

\* The racers' places on the grid are 0, 1, ... without gap or tie: joins,
\* exits during the race and the next grid keep it so.
GridIsPermutation == \A r \in DOMAIN rooms : LET room == rooms[r] IN
    {room.members[p].ranking : p \in Racers(room)} = 0 .. Cardinality(Racers(room)) - 1

\* Every table of a room tells the same story, whatever its members, its master
\* and the race do to it and in whatever order.
RoomsCoherent == SeatsCoherent /\ MasterPresent /\ GridIsPermutation

\* A rider is in the one room the membership map names, and only there; a
\* room no one is in exists only until its race is settled, and no room in use
\* has an id that may be given out again.
MembershipCoherent ==
    /\ \A u \in Riders : \A r \in DOMAIN rooms :
            Cardinality({p \in DOMAIN rooms[r].members : rooms[r].members[p].user = u})
              = IF room_by_user[u] = r THEN 1 ELSE 0
    /\ \A u \in Riders : room_by_user[u] # 0 => room_by_user[u] \in DOMAIN rooms
    /\ \A r \in DOMAIN rooms : DOMAIN rooms[r].members = {} =>
            rooms[r].phase \in {"running", "settling"}
    /\ free_ids \cap DOMAIN rooms = {}

\* A reward lane is owned by the one race whose frozen roster has the rider,
\* and by none when there is no such race: a rider who left his race, or came
\* back under a new identity, cannot be frozen into a second race before his
\* reward is settled, and no lane outlives its race.
LanesMatchRosters ==
    /\ \A r \in DOMAIN rooms : rooms[r].fence # 0 =>
         /\ rooms[r].phase # "lobby"
         /\ \A u \in FrozenRacers(rooms[r]) : reward_lanes[u] = rooms[r].fence
    /\ \A r \in DOMAIN rooms : rooms[r].fence = 0 =>
         rooms[r].phase = "lobby" /\ rooms[r].frozen = << >>
    /\ \A u \in Riders : reward_lanes[u] # 0 =>
         \E r \in DOMAIN rooms :
            rooms[r].fence = reward_lanes[u] /\ u \in FrozenRacers(rooms[r])
    /\ \A r, q \in DOMAIN rooms : rooms[r].fence = rooms[q].fence => r = q \/ rooms[r].fence = 0

\* Between turns a room that loads or races has a racer left who is the very
\* one frozen: others cannot start or hold up the race, and a race no one is
\* left in does not run on.  While it loads it waits only for participants who
\* are still there, and at least one of them has not answered: the race never
\* waits for no one.
RacesAreAttended == \A r \in DOMAIN rooms :
    LET room == rooms[r]
        here == Exact(r, room, identity, room_by_user)
    IN /\ room.phase \in {"loading", "running"} => here \cap FrozenRacers(room) # {}
       /\ room.stage = "awaiting" => room.expected \subseteq here /\ room.ready # room.expected

\* A finish counts for the generation that was frozen: a rider who comes back
\* under a new identity, even into the same room, finishes no race of the old.
FinishesAreExact == [][\A r \in DOMAIN rooms \cap DOMAIN rooms' :
    \A u \in FrozenRacers(rooms[r]) :
        rooms[r].frozen[u].player \in DOMAIN rooms'[r].finish \ DOMAIN rooms[r].finish =>
            identity[u].generation = rooms[r].frozen[u].generation
            /\ room_by_user[u] = r]_vars

Armed(r) == r \in DOMAIN rooms /\ rooms[r].phase = "loading" /\ rooms[r].stage # "dormant"

\* Once a client has said that it loads, the loading ends: with a race, or with
\* everyone gone; no client that stays silent can hold the room in loading.
ArmedLoadingEnds == \A r \in RoomIds : Armed(r) ~> ~Armed(r)
================================================================================
