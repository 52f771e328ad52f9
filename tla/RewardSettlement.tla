---------------------------- MODULE RewardSettlement ----------------------------
(***************************************************************************)
(* How the rewards of a finished race reach the riders' profiles: the      *)
(* World's settlements and reward lanes (p5136-server/src/world.rs), the   *)
(* reward pump and its workers (runtime.rs), the profile lanes             *)
(* (profile_io.rs) and the once-only receipt (p5136-profile progression).  *)
(*                                                                         *)
(* The World plans one reward per racer and hands it out as numbered       *)
(* attempts, each under a lease.  A worker waits for the rider's profile   *)
(* lane, applies the reward to the stored profile unless the profile       *)
(* already holds this very receipt, and reports back.  An attempt can be   *)
(* given up by its lease while its worker still runs, so several attempts  *)
(* of one reward coexist; the server can stop anywhere, and then a new run *)
(* with a higher generation begins on the profiles it left.                *)
(*                                                                         *)
(* A race is named by its epoch: its room has no other race.  Due times    *)
(* and lease deadlines may fall at any time.  A profile is its last        *)
(* receipt and how often each race was credited.  A batch that would run   *)
(* past the last attempt number is not taken: the code ends the pump there *)
(* (RewardSchedulerInvariant), 2^64 attempts away.                         *)
(***************************************************************************)
EXTENDS Integers, FiniteSets

CONSTANTS
    Users,          \* the riders
    NoUser,         \* no rider: a dead letter of the whole race
    MaxGeneration,  \* RaceRunGeneration's last value
    MaxEpoch,       \* GlobalRaceEpoch's last value
    MaxAttempt,     \* RewardAttemptId's last value
    MaxFailures,    \* MAX_REWARD_PERSISTENCE_FAILURES
    MaxWorkers      \* maximum_workers of the pump

ASSUME RewardConstants ==
    /\ IsFiniteSet(Users) /\ NoUser \notin Users
    /\ MaxGeneration \in Nat \ {0} /\ MaxEpoch \in Nat \ {0}
    /\ MaxAttempt \in Nat \ {0} /\ MaxFailures \in Nat \ {0}
    /\ MaxWorkers \in Nat \ {0}

VARIABLES
    generation,    \* the run generation of this server process
    next_epoch,    \* next_race_epoch; MaxEpoch + 1 when exhausted
    races,         \* epoch -> settlement of a race in progress
    reward_lanes,  \* rider -> epoch of the race that owns the lane, 0 for none
    next_attempt,  \* next_reward_attempt_id; MaxAttempt + 1 when exhausted
    workers,       \* the pump's JoinSet
    pump,          \* the pump's loop
    profile,       \* rider -> the profile the directory shows
    stored,        \* rider -> the profile a power loss would leave
    published      \* <<race, rider>> whose result was announced

world == <<next_epoch, races, reward_lanes, next_attempt>>
vars == <<generation, world, workers, pump, profile, stored, published>>

--------------------------------------------------------------------------------
(* Data.                                                                    *)

Epochs == 1 .. MaxEpoch
Attempts == 1 .. MaxAttempt

\* RaceRewardKey, as far as it orders receipts: run generation, then epoch.
Keys == (1 .. MaxGeneration) \X Epochs
NoKey == <<0, 0>>
Key(e) == <<generation, e>>

Statuses == [state : {"queued", "in_flight", "durable"},
             failures : 0 .. MaxFailures, attempt : 0 .. MaxAttempt]

Queued(failures) == [state |-> "queued", failures |-> failures, attempt |-> 0]
InFlight(failures, attempt) ==
    [state |-> "in_flight", failures |-> failures, attempt |-> attempt]
Durable == [state |-> "durable", failures |-> 0, attempt |-> 0]

\* RoomPhase and SettlementFinalization; "racing" ends at the settlement
\* deadline.  A dead letter keeps the rewards and says whose attempt failed.
Phases == {"loading", "racing", "persisting", "ready", "failed"}
Reasons == {"none", "persistence", "terminal"}

IsRace(race) ==
    /\ race.phase \in Phases /\ race.reason \in Reasons
    /\ race.failed \in Users \cup {NoUser}
    /\ DOMAIN race.rewards \subseteq Users
    /\ race.rewards \in [DOMAIN race.rewards -> Statuses]

Racers(race) == DOMAIN race.rewards

\* A worker waits for the profile lane, runs its job, and then holds its
\* result until the pump has reported it.
Results == {"durable", "retryable", "job_fatal", "infrastructure_fatal"}
Worker == [race : Epochs, user : Users, attempt : Attempts,
           stage : {"waiting", "running"} \cup Results]

Profile == [last : Keys \cup {NoKey}, credits : [Keys -> Nat]]

TypeOK ==
    /\ generation \in 1 .. MaxGeneration
    /\ next_epoch \in 1 .. MaxEpoch + 1
    /\ DOMAIN races \subseteq Epochs /\ \A e \in DOMAIN races : IsRace(races[e])
    /\ reward_lanes \in [Users -> 0 .. MaxEpoch]
    /\ next_attempt \in 1 .. MaxAttempt + 1
    /\ workers \subseteq Worker
    /\ pump \in {"running", "failing", "stopped"}
    /\ profile \in [Users -> Profile] /\ stored \in [Users -> Profile]
    /\ published \subseteq Keys \X Users

Blank == [last |-> NoKey, credits |-> [k \in Keys |-> 0]]

Init ==
    /\ generation = 1 /\ next_epoch = 1 /\ next_attempt = 1
    /\ races = << >>
    /\ reward_lanes = [u \in Users |-> 0]
    /\ workers = {} /\ pump = "running"
    /\ profile = [u \in Users |-> Blank] /\ stored = profile
    /\ published = {}

--------------------------------------------------------------------------------
(* Races, as far as they own lanes.                                         *)

\* Mutant: a rider whose last race is unsettled may start the next one.
lanes_free_any(racers) == TRUE

LanesFree(racers) == \A u \in racers : reward_lanes[u] = 0

\* release_reward_lanes: every lane this race owns.
Released(e) == [u \in Users |-> IF reward_lanes[u] = e THEN 0 ELSE reward_lanes[u]]

\* start_room
StartRace(racers) ==
    /\ next_epoch <= MaxEpoch
    /\ LanesFree(racers)
    /\ races' = [e \in DOMAIN races \cup {next_epoch} |->
                   IF e = next_epoch
                   THEN [phase |-> "loading", reason |-> "none", failed |-> NoUser,
                         rewards |-> [u \in racers |-> Queued(0)]]
                   ELSE races[e]]
    /\ reward_lanes' = [u \in Users |-> IF u \in racers THEN next_epoch
                                        ELSE reward_lanes[u]]
    /\ next_epoch' = next_epoch + 1
    /\ UNCHANGED <<generation, next_attempt, workers, pump, profile, stored, published>>

Remaining(e) == [d \in DOMAIN races \ {e} |-> races[d]]

\* abort_loading_room, or the last member of a loading room leaves.
AbortLoading(e) ==
    /\ races[e].phase = "loading"
    /\ races' = Remaining(e)
    /\ reward_lanes' = Released(e)
    /\ UNCHANGED <<generation, next_epoch, next_attempt, workers, pump,
                   profile, stored, published>>

Becomes(e, race) ==
    /\ races' = [races EXCEPT ![e] = race]
    /\ UNCHANGED <<next_epoch, reward_lanes, next_attempt>>

Launch(e) ==
    /\ races[e].phase = "loading"
    /\ Becomes(e, [races[e] EXCEPT !.phase = "racing"])
    /\ UNCHANGED <<generation, workers, pump, profile, stored, published>>

DeadLetter(race, u, reason) ==
    [race EXCEPT !.phase = "failed", !.failed = u, !.reason = reason]

\* begin_reward_persistence at the deadline: every reward is queued, or the
\* ranking or a reward roll is refused and the race is retained as it is.
BeginPersistence(e) ==
    /\ races[e].phase = "racing"
    /\ \/ Becomes(e, [races[e] EXCEPT !.phase = "persisting"])
       \/ \E u \in Racers(races[e]) \cup {NoUser} :
             Becomes(e, DeadLetter(races[e], u, "terminal"))
    /\ UNCHANGED <<generation, workers, pump, profile, stored, published>>

\* try_finalize_settlement, once a queue slot of every recipient is reserved:
\* the result is announced and the room returns to its lobby.
Finalize(e) ==
    /\ races[e].phase = "ready"
    /\ races' = Remaining(e)
    /\ reward_lanes' = Released(e)
    /\ published' = published \cup ({Key(e)} \X Racers(races[e]))
    /\ UNCHANGED <<generation, next_epoch, next_attempt, workers, pump, profile, stored>>

\* The reservation fails for another reason than a full queue.
FinalizeFails(e) ==
    /\ races[e].phase = "ready"
    /\ Becomes(e, DeadLetter(races[e], NoUser, "terminal"))
    /\ UNCHANGED <<generation, workers, pump, profile, stored, published>>

--------------------------------------------------------------------------------
(* The World's side of attempts.                                            *)

Rewards(state) ==
    {r \in Epochs \X Users :
       /\ r[1] \in DOMAIN races /\ races[r[1]].phase = "persisting"
       /\ r[2] \in Racers(races[r[1]]) /\ races[r[1]].rewards[r[2]].state = state}

Failures(r) == races[r[1]].rewards[r[2]].failures

\* One more failure of this reward is the last.
Spent(r) == Failures(r) + 1 >= MaxFailures

\* expire_reward_attempt and a retryable completion: back to the queue, or a
\* dead letter that keeps the failed attempt.
AfterFailure(race, u) ==
    IF race.rewards[u].failures + 1 >= MaxFailures
    THEN DeadLetter(race, u, "persistence")
    ELSE [race EXCEPT !.rewards[u] = Queued(@.failures + 1)]

\* Several leases expire in one turn; the first reward that is spent ends it.
Expired(race, riders) ==
    LET kept == [race EXCEPT !.rewards = [u \in Racers(race) |->
                   IF u \in riders /\ race.rewards[u].failures + 1 < MaxFailures
                   THEN Queued(race.rewards[u].failures + 1) ELSE race.rewards[u]]]
        spent == {u \in riders : race.rewards[u].failures + 1 >= MaxFailures}
    IN  IF spent = {} THEN kept
        ELSE DeadLetter(kept, CHOOSE u \in spent : TRUE, "persistence")

Riders(rewards, e) == {u \in Users : <<e, u>> \in rewards}

\* take_due_reward_tasks, when something has expired but nothing is issued.
PollExpires(expired) ==
    /\ pump = "running"
    /\ Cardinality(workers) < MaxWorkers
    /\ expired # {}
    /\ Cardinality({r \in expired : Spent(r)}) <= 1
    /\ races' = [e \in DOMAIN races |-> Expired(races[e], Riders(expired, e))]
    /\ UNCHANGED <<generation, next_epoch, reward_lanes, next_attempt, workers, pump,
                   profile, stored, published>>

\* take_due_reward_tasks: leases expire, then as many due rewards as the pump
\* has workers for are marked in flight and leave the actor.
PollIssues(expired, due) ==
    /\ pump = "running"
    /\ due # {}
    /\ Cardinality(due) <= MaxWorkers - Cardinality(workers)
    /\ next_attempt + Cardinality(due) <= MaxAttempt + 1
    /\ \A r \in expired : ~Spent(r)
    /\ \E id \in [due -> next_attempt .. next_attempt + Cardinality(due) - 1] :
          /\ \A r, q \in due : r # q => id[r] # id[q]
          /\ races' = [e \in DOMAIN races |->
               LET race == Expired(races[e], Riders(expired, e))
               IN  [race EXCEPT !.rewards = [u \in Racers(race) |->
                      IF <<e, u>> \in due
                      THEN InFlight(race.rewards[u].failures, id[<<e, u>>])
                      ELSE race.rewards[u]]]]
          /\ workers' = workers \cup
               {[race |-> r[1], user |-> r[2], attempt |-> id[r], stage |-> "waiting"] :
                  r \in due}
    /\ next_attempt' = next_attempt + Cardinality(due)
    /\ UNCHANGED <<generation, next_epoch, reward_lanes, pump, profile, stored, published>>

\* limit_candidates_to_attempt_id_capacity: no attempt number is left.
PollExhausted(expired, r) ==
    /\ pump = "running"
    /\ Cardinality(workers) < MaxWorkers
    /\ next_attempt = MaxAttempt + 1
    /\ \A q \in expired : ~Spent(q)
    /\ races' = [e \in DOMAIN races |->
                   LET race == Expired(races[e], Riders(expired, e))
                   IN  IF e = r[1] THEN DeadLetter(race, r[2], "terminal") ELSE race]
    /\ UNCHANGED <<generation, next_epoch, reward_lanes, next_attempt, workers, pump,
                   profile, stored, published>>

\* current_reward_attempt: room, epoch, rider and attempt all still match.
Current(w) ==
    /\ <<w.race, w.user>> \in Rewards("in_flight")
    /\ races[w.race].rewards[w.user].attempt = w.attempt

\* A durable receipt; the last one makes the settlement ready, unless its
\* packets cannot be serialized.
AfterReceipt(race, u) ==
    LET done == [race EXCEPT !.rewards[u] = Durable]
    IN  IF \A v \in Racers(done) : done.rewards[v] = Durable
        THEN {[done EXCEPT !.phase = "ready"], DeadLetter(done, NoUser, "terminal")}
        ELSE {done}

\* What a report does to its race while its attempt is current: the lease may
\* have run out by then, which counts as a failure whatever the result.
Outcomes(w) ==
    {AfterFailure(races[w.race], w.user)} \cup
    CASE w.stage = "durable" -> AfterReceipt(races[w.race], w.user)
      [] w.stage = "retryable" -> {}
      [] OTHER -> {DeadLetter(races[w.race], w.user, "persistence")}

\* publish_reward_completion and complete_reward_task; a broken profile
\* runtime or a panicked worker also ends the pump.
Complete(w) ==
    /\ w.stage \in Results
    /\ workers' = workers \ {w}
    /\ pump' = IF w.stage = "infrastructure_fatal" /\ pump = "running"
               THEN "failing" ELSE pump
    /\ IF Current(w)
       THEN \E race \in Outcomes(w) : races' = [races EXCEPT ![w.race] = race]
       ELSE UNCHANGED races
    /\ UNCHANGED <<generation, next_epoch, reward_lanes, next_attempt,
                   profile, stored, published>>

\* A failing pump reports the workers it still has, then it ends.
PumpEnds ==
    /\ pump = "failing"
    /\ workers = {}
    /\ pump' = "stopped"
    /\ UNCHANGED <<generation, world, workers, profile, stored, published>>

\* retry_reward_dead_letter: everything that is not durable is queued anew.
RetryDeadLetter(e) ==
    /\ races[e].phase = "failed"
    /\ races[e].reason = "persistence"
    /\ Becomes(e, [races[e] EXCEPT
         !.phase = "persisting", !.failed = NoUser, !.reason = "none",
         !.rewards = [u \in Racers(races[e]) |->
            IF races[e].rewards[u] = Durable THEN Durable ELSE Queued(0)]])
    /\ UNCHANGED <<generation, workers, pump, profile, stored, published>>

--------------------------------------------------------------------------------
(* Workers and the stored profile.                                          *)

\* ProfileLaneTable: a durable receipt keeps the lane until it is reported.
LaneHeld(u) == \E w \in workers : w.user = u /\ w.stage \in {"running", "durable"}

Moves(w, stage) == workers' = (workers \ {w}) \cup {[w EXCEPT !.stage = stage]}

AcquireLane(w) ==
    /\ w.stage = "waiting"
    /\ ~LaneHeld(w.user)
    /\ Moves(w, "running")
    /\ UNCHANGED <<generation, world, pump, profile, stored, published>>

\* The lane table or the queue refuses the job, or the job fails before it
\* publishes anything.
JobFails(w) ==
    /\ w.stage \in {"waiting", "running"}
    /\ \E stage \in Results \ {"durable"} : Moves(w, stage)
    /\ UNCHANGED <<generation, world, pump, profile, stored, published>>

Older(a, b) == a[1] < b[1] \/ (a[1] = b[1] /\ a[2] < b[2])

\* The stored receipt is newer: StaleRunGeneration or StaleEpoch.
Rejects(p, k) == Older(k, p.last)

\* Mutant: a retry of the stored receipt credits it again.
credit_always(p, k) == [last |-> k, credits |-> [p.credits EXCEPT ![k] = @ + 1]]

\* The exact stored receipt is returned unchanged; any other is applied.
Credit(p, k) ==
    IF p.last = k THEN p
    ELSE [last |-> k, credits |-> [p.credits EXCEPT ![k] = @ + 1]]

\* Mutant: an uncertain commit is reported as a receipt.
uncertain_is_durable(synced) == "durable"

\* CommittedButDurabilityUncertain is a retryable failure.
Report(synced) == IF synced THEN "durable" ELSE "retryable"

\* apply_race_reward_once under the profile lane, atomic for the store; its
\* directory sync may fail.
ApplyReward(w) ==
    LET k == Key(w.race)
    IN  /\ w.stage = "running"
        /\ ~Rejects(profile[w.user], k)
        /\ profile' = [profile EXCEPT ![w.user] = Credit(@, k)]
        /\ \E synced \in BOOLEAN :
              /\ stored' = IF synced THEN [stored EXCEPT ![w.user] = profile'[w.user]]
                           ELSE stored
              /\ Moves(w, Report(synced))
        /\ UNCHANGED <<generation, world, pump, published>>

RejectReward(w) ==
    /\ w.stage = "running"
    /\ Rejects(profile[w.user], Key(w.race))
    /\ Moves(w, "job_fatal")
    /\ stored' \in {stored, [stored EXCEPT ![w.user] = profile[w.user]]}
    /\ UNCHANGED <<generation, world, pump, profile, published>>

--------------------------------------------------------------------------------
(* Stop and restart.                                                        *)

\* A new process takes the run lease: a new generation, epochs from the start.
NextRun ==
    /\ generation < MaxGeneration
    /\ generation' = generation + 1
    /\ next_epoch' = 1 /\ next_attempt' = 1
    /\ races' = << >>
    /\ reward_lanes' = [u \in Users |-> 0]
    /\ workers' = {} /\ pump' = "running"
    /\ UNCHANGED published

Restart == NextRun /\ UNCHANGED <<profile, stored>>

\* What was not synced may be gone.
PowerLoss ==
    /\ NextRun
    /\ \E lost \in SUBSET Users :
          profile' = [u \in Users |-> IF u \in lost THEN stored[u] ELSE profile[u]]
    /\ stored' = profile'

--------------------------------------------------------------------------------
Poll ==
    \E expired \in SUBSET Rewards("in_flight") :
        \/ PollExpires(expired)
        \/ \E due \in SUBSET Rewards("queued") : PollIssues(expired, due)
        \/ \E r \in Rewards("queued") : PollExhausted(expired, r)

RaceStep(e) ==
    \/ AbortLoading(e) \/ Launch(e) \/ BeginPersistence(e)
    \/ Finalize(e) \/ FinalizeFails(e) \/ RetryDeadLetter(e)

JobStep(w) == AcquireLane(w) \/ JobFails(w) \/ ApplyReward(w) \/ RejectReward(w)

Next ==
    \/ \E racers \in SUBSET Users \ {{}} : StartRace(racers)
    \/ \E e \in DOMAIN races : RaceStep(e)
    \/ Poll
    \/ \E w \in workers : JobStep(w) \/ Complete(w)
    \/ PumpEnds
    \/ Restart \/ PowerLoss

Spec == Init /\ [][Next]_vars

--------------------------------------------------------------------------------
(* Properties.                                                              *)

\* No reward is credited twice, whatever leases, retries, uncertain commits,
\* dead letter recoveries and restarts do (apply_race_reward_once keeps only
\* the last receipt).
CreditedOnce == \A u \in Users : \A k \in Keys : profile[u].credits[k] <= 1

\* The World never runs ahead of the disk: what it holds as durable, and what
\* it has announced, is credited in the profile a power loss would leave.
WorldNeverAhead ==
    /\ \A r \in published : stored[r[2]].credits[r[1]] = 1
    /\ \A e \in DOMAIN races : \A u \in Racers(races[e]) :
          races[e].rewards[u] = Durable => stored[u].credits[Key(e)] = 1

\* A reward the World is still waiting for is never refused as stale: lanes,
\* epochs and run generations keep a rider's receipts in order, which the
\* profile relies on ("the World coordinator must serialize at most one
\* outstanding reward per recipient").
CurrentRewardsAccepted ==
    \A w \in workers : Current(w) /\ w.stage \in {"waiting", "running"} =>
        ~Rejects(profile[w.user], Key(w.race))
================================================================================
