------------------------- MODULE RewardSettlementProofs -------------------------
(***************************************************************************)
(* Proofs about RewardSettlement, for every number of riders, runs,        *)
(* epochs, attempts and workers: no reward is credited twice, the World    *)
(* never runs ahead of the disk, and no reward it waits for is refused as  *)
(* stale; and its types.                                                   *)
(***************************************************************************)
EXTENDS RewardSettlement, FiniteSetTheorems, TLAPS

--------------------------------------------------------------------------------
(* No reward is credited twice.                                            *)
(*                                                                         *)
(* The argument is about the receipts alone: a profile keeps only the last *)
(* one, so it has to be as new as every race the profile was ever credited *)
(* for; then a key that is neither the last receipt nor older than it was  *)
(* never credited.                                                         *)

\* What the profile relies on of a worker: it names a race and a rider.
Job == [race : Epochs, user : Users, attempt : Int,
        stage : {"waiting", "running"} \cup Results]

\* Each race is credited at most once, and no credited race is newer than the
\* last receipt.
InOrder(p) ==
    \A k \in Keys : /\ p.credits[k] <= 1
                    /\ p.credits[k] >= 1 => ~Older(p.last, k)

ReceiptsType ==
    /\ generation \in 1 .. MaxGeneration
    /\ workers \subseteq Job
    /\ profile \in [Users -> Profile]
    /\ stored \in [Users -> Profile]

\* The inductive invariant: the profile shown and the profile a power loss
\* would leave are both in order.
ReceiptsInv ==
    /\ ReceiptsType
    /\ \A u \in Users : InOrder(profile[u]) /\ InOrder(stored[u])

--------------------------------------------------------------------------------
\* Receipts are totally ordered by run generation and epoch (the comparisons
\* of apply_race_reward_once).
LEMMA OlderIsTotal ==
    ASSUME NEW a \in Keys \cup {NoKey}, NEW b \in Keys, a # b, ~Older(b, a)
    PROVE  Older(a, b)
<1> USE RewardConstants
<1>1. PICK b1 \in 1 .. MaxGeneration, b2 \in Epochs : b = <<b1, b2>>
  BY DEF Keys
<1>2. PICK a1 \in Nat, a2 \in Nat : a = <<a1, a2>>
  BY DEF Keys, NoKey, Epochs
<1> QED
  BY <1>1, <1>2 DEF Older, Epochs

LEMMA OlderIsTransitive ==
    ASSUME NEW a \in Keys \cup {NoKey}, NEW b \in Keys, NEW c \in Keys,
           Older(a, b), Older(b, c)
    PROVE  Older(a, c)
<1> USE RewardConstants
<1>1. PICK b1 \in 1 .. MaxGeneration, b2 \in Epochs : b = <<b1, b2>>
  BY DEF Keys
<1>2. PICK c1 \in 1 .. MaxGeneration, c2 \in Epochs : c = <<c1, c2>>
  BY DEF Keys
<1>3. PICK a1 \in Nat, a2 \in Nat : a = <<a1, a2>>
  BY DEF Keys, NoKey, Epochs
<1> QED
  BY <1>1, <1>2, <1>3 DEF Older, Epochs

\* Applying a receipt that is not refused keeps the profile in order: the
\* exact last receipt changes nothing, and a newer one was never credited.
LEMMA CreditKeepsOrder ==
    ASSUME NEW p \in Profile, NEW k \in Keys, InOrder(p), ~Rejects(p, k)
    PROVE  Credit(p, k) \in Profile /\ InOrder(Credit(p, k))
<1>1. CASE p.last = k
  BY <1>1 DEF Credit
<1>2. CASE p.last # k
  <2>1. p.last \in Keys \cup {NoKey} /\ p.credits \in [Keys -> Nat]
    BY DEF Profile
  <2>2. Older(p.last, k)
    BY <1>2, <2>1, OlderIsTotal DEF Rejects
  <2>3. p.credits[k] = 0
    BY <2>1, <2>2 DEF InOrder
  <2> DEFINE c == [p.credits EXCEPT ![k] = @ + 1]
  <2>4. Credit(p, k) = [last |-> k, credits |-> c]
    BY <1>2 DEF Credit
  <2>5. c \in [Keys -> Nat] /\ c[k] = 1 /\ \A j \in Keys \ {k} : c[j] = p.credits[j]
    BY <2>1, <2>3
  <2>6. Credit(p, k) \in Profile
    BY <2>4, <2>5 DEF Profile
  <2>7. ASSUME NEW j \in Keys
        PROVE  c[j] <= 1 /\ (c[j] >= 1 => ~Older(k, j))
    <3>1. CASE j = k
      <4>1. ~Older(k, k)
        BY RewardConstants DEF Older, Keys, Epochs
      <4> QED
        BY <3>1, <4>1, <2>5
    <3>2. CASE j # k
      <4>1. Older(k, j) => Older(p.last, j)
        BY <2>1, <2>2, OlderIsTransitive
      <4> QED
        BY <3>2, <4>1, <2>5 DEF InOrder
    <3> QED
      BY <3>1, <3>2
  <2>8. InOrder(Credit(p, k))
    BY <2>4, <2>7 DEF InOrder
  <2> QED
    BY <2>6, <2>8
<1> QED
  BY <1>1, <1>2

--------------------------------------------------------------------------------
\* At the start no race is credited.
LEMMA InitReceipts == Init => ReceiptsInv
<1> SUFFICES ASSUME Init PROVE ReceiptsInv
  OBVIOUS
<1>1. Blank \in Profile
  BY DEF Blank, Profile
<1>2. InOrder(Blank)
  BY DEF Blank, InOrder
<1>3. generation \in 1 .. MaxGeneration
  BY RewardConstants DEF Init
<1>4. workers \subseteq Job
  BY DEF Init
<1>5. /\ profile \in [Users -> Profile] /\ stored \in [Users -> Profile]
      /\ \A u \in Users : profile[u] = Blank /\ stored[u] = Blank
  BY <1>1 DEF Init
<1> QED
  BY <1>2, <1>3, <1>4, <1>5 DEF ReceiptsInv, ReceiptsType

\* A step that leaves the profiles and the run alone, and adds no worker but
\* those of a batch, keeps the invariant.
LEMMA QuietSteps ==
    ASSUME ReceiptsInv, UNCHANGED <<generation, profile, stored>>, workers' \subseteq Job
    PROVE  ReceiptsInv'
<1>1. ReceiptsType'
  BY DEF ReceiptsInv, ReceiptsType
<1>2. \A u \in Users : InOrder(profile'[u]) /\ InOrder(stored'[u])
  BY DEF ReceiptsInv
<1> QED
  BY <1>1, <1>2 DEF ReceiptsInv, InOrder

\* A worker that moves on stays a worker.
LEMMA MovesKeepsJobs ==
    ASSUME workers \subseteq Job, NEW w \in workers,
           NEW stage \in {"waiting", "running"} \cup Results, Moves(w, stage)
    PROVE  workers' \subseteq Job
<1>1. w \in Job
  OBVIOUS
<1>2. [w EXCEPT !.stage = stage] \in Job
  BY <1>1 DEF Job
<1> QED
  BY <1>2 DEF Moves

--------------------------------------------------------------------------------
\* The actions that neither touch a profile nor start a worker.
LEMMA WorldSteps ==
    ASSUME ReceiptsInv,
           \/ \E racers \in SUBSET Users \ {{}} : StartRace(racers)
           \/ \E e \in DOMAIN races : RaceStep(e)
           \/ \E w \in workers : Complete(w)
           \/ PumpEnds
    PROVE  ReceiptsInv'
<1>1. workers \subseteq Job
  BY DEF ReceiptsInv, ReceiptsType
<1>2. ASSUME UNCHANGED <<generation, workers, profile, stored>>
      PROVE  ReceiptsInv'
  BY <1>1, <1>2, QuietSteps
<1>3. CASE \E racers \in SUBSET Users \ {{}} : StartRace(racers)
  BY <1>2, <1>3 DEF StartRace
<1>4. ASSUME NEW e \in DOMAIN races, RaceStep(e)
      PROVE  UNCHANGED <<generation, workers, profile, stored>>
  BY <1>4 DEF RaceStep, AbortLoading, Launch, BeginPersistence, Finalize,
              FinalizeFails, RetryDeadLetter
<1>5. ASSUME NEW w \in workers, Complete(w)
      PROVE  ReceiptsInv'
  <2>1. workers' \subseteq Job /\ UNCHANGED <<generation, profile, stored>>
    BY <1>1, <1>5 DEF Complete
  <2> QED
    BY <2>1, QuietSteps
<1>6. CASE PumpEnds
  BY <1>2, <1>6 DEF PumpEnds
<1> QED
  BY <1>2, <1>3, <1>4, <1>5, <1>6

\* A poll adds one worker for each reward it takes.
LEMMA PollSteps == ASSUME ReceiptsInv, Poll PROVE ReceiptsInv'
<1>1. workers \subseteq Job
  BY DEF ReceiptsInv, ReceiptsType
<1>2. ASSUME UNCHANGED <<generation, workers, profile, stored>>
      PROVE  ReceiptsInv'
  BY <1>1, <1>2, QuietSteps
<1>3. PICK expired \in SUBSET Rewards("in_flight") :
        \/ PollExpires(expired)
        \/ \E due \in SUBSET Rewards("queued") : PollIssues(expired, due)
        \/ \E r \in Rewards("queued") : PollExhausted(expired, r)
  BY DEF Poll
<1>4. CASE PollExpires(expired)
  BY <1>2, <1>4 DEF PollExpires
<1>5. ASSUME NEW due \in SUBSET Rewards("queued"), PollIssues(expired, due)
      PROVE  ReceiptsInv'
  <2>1. due \subseteq Epochs \X Users
    BY DEF Rewards
  <2>2. PICK id \in [due -> next_attempt .. next_attempt + Cardinality(due) - 1] :
          workers' = workers \cup
            {[race |-> r[1], user |-> r[2], attempt |-> id[r], stage |-> "waiting"] :
               r \in due}
    BY <1>5 DEF PollIssues
  <2>3. ASSUME NEW r \in due
        PROVE  [race |-> r[1], user |-> r[2], attempt |-> id[r],
                stage |-> "waiting"] \in Job
    <3>1. id[r] \in Int
      BY <2>2
    <3>2. r[1] \in Epochs /\ r[2] \in Users
      BY <2>1
    <3> QED
      BY <3>1, <3>2 DEF Job
  <2>4. workers' \subseteq Job
    BY <1>1, <2>2, <2>3
  <2>5. UNCHANGED <<generation, profile, stored>>
    BY <1>5 DEF PollIssues
  <2> QED
    BY <2>4, <2>5, QuietSteps
<1>6. ASSUME NEW r \in Rewards("queued"), PollExhausted(expired, r)
      PROVE  ReceiptsInv'
  BY <1>2, <1>6 DEF PollExhausted
<1> QED
  BY <1>3, <1>4, <1>5, <1>6

\* A job credits its rider at most once, or leaves the profile alone.
LEMMA JobSteps == ASSUME ReceiptsInv, NEW w \in workers, JobStep(w) PROVE ReceiptsInv'
<1>1. workers \subseteq Job /\ w \in Job
  BY DEF ReceiptsInv, ReceiptsType
<1>2. ASSUME NEW stage \in {"waiting", "running"} \cup Results, Moves(w, stage)
      PROVE  workers' \subseteq Job
  BY <1>1, <1>2, MovesKeepsJobs
<1>3. CASE AcquireLane(w)
  <2>1. workers' \subseteq Job
    BY <1>2, <1>3 DEF AcquireLane
  <2> QED
    BY <1>3, <2>1, QuietSteps DEF AcquireLane
<1>4. CASE JobFails(w)
  <2>1. workers' \subseteq Job
    BY <1>2, <1>4 DEF JobFails
  <2> QED
    BY <1>4, <2>1, QuietSteps DEF JobFails
<1>5. CASE ApplyReward(w)
  <2> DEFINE u == w.user
             k == Key(w.race)
  <2>1. u \in Users /\ k \in Keys
    BY <1>1 DEF Job, Key, Keys, ReceiptsInv, ReceiptsType
  <2>2. profile \in [Users -> Profile] /\ stored \in [Users -> Profile]
    BY DEF ReceiptsInv, ReceiptsType
  <2>3. profile[u] \in Profile /\ InOrder(profile[u]) /\ ~Rejects(profile[u], k)
    BY <1>5, <2>1, <2>2 DEF ReceiptsInv, ApplyReward
  <2>4. Credit(profile[u], k) \in Profile /\ InOrder(Credit(profile[u], k))
    BY <2>1, <2>3, CreditKeepsOrder
  <2>5. profile' = [profile EXCEPT ![u] = Credit(profile[u], k)]
    BY <1>5 DEF ApplyReward
  <2>6. PICK synced \in BOOLEAN :
          /\ stored' = IF synced THEN [stored EXCEPT ![u] = profile'[u]] ELSE stored
          /\ Moves(w, Report(synced))
    BY <1>5 DEF ApplyReward
  <2>7. generation' = generation
    BY <1>5 DEF ApplyReward
  <2>8. workers' \subseteq Job
    BY <1>2, <2>6 DEF Report, Results
  <2> HIDE DEF u, k
  <2>9. profile' \in [Users -> Profile] /\ \A v \in Users : InOrder(profile'[v])
    BY <2>1, <2>2, <2>4, <2>5 DEF ReceiptsInv
  <2>10. stored' \in [Users -> Profile] /\ \A v \in Users : InOrder(stored'[v])
    BY <2>1, <2>2, <2>6, <2>9 DEF ReceiptsInv
  <2>11. ReceiptsType'
    BY <2>7, <2>8, <2>9, <2>10 DEF ReceiptsInv, ReceiptsType
  <2> QED
    BY <2>9, <2>10, <2>11 DEF ReceiptsInv, InOrder
<1>6. CASE RejectReward(w)
  <2>1. w.user \in Users
    BY <1>1 DEF Job
  <2>2. profile \in [Users -> Profile] /\ stored \in [Users -> Profile]
    BY DEF ReceiptsInv, ReceiptsType
  <2>3. workers' \subseteq Job
    BY <1>2, <1>6 DEF RejectReward, Results
  <2>4. /\ profile' = profile /\ generation' = generation
        /\ stored' \in {stored, [stored EXCEPT ![w.user] = profile[w.user]]}
    BY <1>6 DEF RejectReward
  <2>5. stored' \in [Users -> Profile] /\ \A v \in Users : InOrder(stored'[v])
    BY <2>1, <2>2, <2>4 DEF ReceiptsInv
  <2>6. ReceiptsType'
    BY <2>3, <2>4, <2>5 DEF ReceiptsInv, ReceiptsType
  <2> QED
    BY <2>4, <2>5, <2>6 DEF ReceiptsInv, InOrder
<1> QED
  BY <1>3, <1>4, <1>5, <1>6 DEF JobStep

\* A new run begins on the profiles it finds, which may be the older ones.
LEMMA RunSteps == ASSUME ReceiptsInv, Restart \/ PowerLoss PROVE ReceiptsInv'
<1>1. profile \in [Users -> Profile] /\ stored \in [Users -> Profile]
  BY DEF ReceiptsInv, ReceiptsType
<1>2. NextRun
  BY DEF Restart, PowerLoss
<1>3. generation' \in 1 .. MaxGeneration /\ workers' \subseteq Job
  BY <1>2, RewardConstants DEF NextRun, ReceiptsInv, ReceiptsType
<1>4. CASE Restart
  BY <1>3, <1>4 DEF Restart, ReceiptsInv, ReceiptsType, InOrder
<1>5. CASE PowerLoss
  <2>1. PICK lost \in SUBSET Users :
          profile' = [u \in Users |-> IF u \in lost THEN stored[u] ELSE profile[u]]
    BY <1>5 DEF PowerLoss
  <2>2. stored' = profile'
    BY <1>5 DEF PowerLoss
  <2>3. profile' \in [Users -> Profile] /\ \A u \in Users : InOrder(profile'[u])
    BY <1>1, <2>1 DEF ReceiptsInv
  <2>4. ReceiptsType'
    BY <1>3, <2>2, <2>3 DEF ReceiptsType
  <2> QED
    BY <2>2, <2>3, <2>4 DEF ReceiptsInv, InOrder
<1> QED
  BY <1>4, <1>5

LEMMA NextReceipts == ReceiptsInv /\ [Next]_vars => ReceiptsInv'
<1> SUFFICES ASSUME ReceiptsInv, [Next]_vars PROVE ReceiptsInv'
  OBVIOUS
<1>1. CASE UNCHANGED vars
  BY <1>1, QuietSteps DEF vars, ReceiptsInv, ReceiptsType
<1>2. CASE \E w \in workers : JobStep(w)
  BY <1>2, JobSteps
<1>3. CASE Poll
  BY <1>3, PollSteps
<1>4. CASE Restart \/ PowerLoss
  BY <1>4, RunSteps
<1>5. CASE \/ \E racers \in SUBSET Users \ {{}} : StartRace(racers)
           \/ \E e \in DOMAIN races : RaceStep(e)
           \/ \E w \in workers : Complete(w)
           \/ PumpEnds
  BY <1>5, WorldSteps
<1> QED
  BY <1>1, <1>2, <1>3, <1>4, <1>5 DEF Next

\* In every run of the system, with any number of riders, attempts, failures
\* and restarts, apply_race_reward_once credits a race to a rider at most once.
THEOREM NoDoubleCredit == Spec => []CreditedOnce
<1>1. ReceiptsInv => CreditedOnce
  BY DEF ReceiptsInv, InOrder, CreditedOnce
<1> QED
  BY InitReceipts, NextReceipts, <1>1, PTL DEF Spec
--------------------------------------------------------------------------------
(* The World never runs ahead of the disk: a reward it holds as durable,   *)
(* and a result it has announced, is credited in the profile a power loss  *)
(* would leave.                                                            *)
(*                                                                         *)
(* The claim travels: the directory sync makes it true of the worker, the  *)
(* report carries it to the settlement, the last report to the whole race, *)
(* and finalization to the riders.  Each of the four places is a conjunct  *)
(* of the inductive invariant.  That synced credits are never taken back   *)
(* needs the disk to be at most behind the directory.                      *)

Status == [state : {"queued", "in_flight", "durable"}, failures : Int, attempt : Int]
Awards == UNION {[D -> Status] : D \in SUBSET Users}
Race == [phase : Phases, reason : Reasons, failed : Users \cup {NoUser}, rewards : Awards]

IsRaces(rs) == DOMAIN rs \subseteq Epochs /\ rs \in [DOMAIN rs -> Race]

\* The profile a power loss would leave has the credit of this race.
Credited(e, u) == stored[u].credits[Key(e)] = 1

\* What a settlement claims is credited; it is ready only with all receipts.
RaceBacked(race, e) ==
    /\ \A u \in Racers(race) : race.rewards[u] = Durable => Credited(e, u)
    /\ race.phase = "ready" => \A u \in Racers(race) : race.rewards[u] = Durable

Sound(race, e) == race \in Race /\ RaceBacked(race, e)

\* A profile's last receipt is one it was credited for.
LastCredited(p) == p.last = NoKey \/ (p.last \in Keys /\ p.credits[p.last] >= 1)

\* The disk has no credit the directory does not show.
DiskInv ==
    \A u \in Users :
        /\ LastCredited(profile[u]) /\ LastCredited(stored[u])
        /\ \A k \in Keys : stored[u].credits[k] <= profile[u].credits[k]

RacesBacked == IsRaces(races) /\ \A e \in DOMAIN races : RaceBacked(races[e], e)
WorkersBacked == \A w \in workers : w.stage = "durable" => Credited(w.race, w.user)
PublishedBacked ==
    \A r \in published : r[1] \in Keys /\ r[2] \in Users /\ stored[r[2]].credits[r[1]] = 1

EpochsLeft == next_epoch \in Nat \ {0}

\* The inductive invariant.
AheadInv ==
    /\ ReceiptsInv /\ DiskInv
    /\ RacesBacked /\ WorkersBacked /\ PublishedBacked
    /\ EpochsLeft

--------------------------------------------------------------------------------
(* Settlements.                                                             *)

LEMMA AwardsType ==
    \A a : a \in Awards <=> DOMAIN a \subseteq Users /\ a \in [DOMAIN a -> Status]
<1>1. ASSUME NEW a, a \in Awards
      PROVE  DOMAIN a \subseteq Users /\ a \in [DOMAIN a -> Status]
  BY <1>1 DEF Awards
<1>2. ASSUME NEW a, DOMAIN a \subseteq Users, a \in [DOMAIN a -> Status]
      PROVE  a \in Awards
  <2>1. DOMAIN a \in SUBSET Users
    BY <1>2
  <2> QED
    BY <1>2, <2>1 DEF Awards
<1> QED
  BY <1>1, <1>2

LEMMA StatusType ==
    /\ Durable \in Status
    /\ \A f \in Int : Queued(f) \in Status /\ Queued(f) # Durable
    /\ \A f, a \in Int : InFlight(f, a) \in Status /\ InFlight(f, a) # Durable
BY DEF Status, Queued, InFlight, Durable

LEMMA RaceType ==
    ASSUME NEW race \in Race
    PROVE  /\ Racers(race) \subseteq Users
           /\ race.rewards \in [Racers(race) -> Status]
           /\ \A u \in Racers(race) : race.rewards[u].failures \in Int
<1>1. race.rewards \in Awards
  BY DEF Race
<1>2. Racers(race) \subseteq Users /\ race.rewards \in [Racers(race) -> Status]
  BY <1>1, AwardsType DEF Racers
<1>3. ASSUME NEW u \in Racers(race) PROVE race.rewards[u].failures \in Int
  BY <1>2 DEF Status
<1> QED
  BY <1>2, <1>3

\* A race whose rewards are replaced by others that claim no more.
LEMMA OtherRewards ==
    ASSUME NEW race \in Race, NEW e, NEW rewards \in [Racers(race) -> Status],
           RaceBacked(race, e),
           \A u \in Racers(race) : rewards[u] = Durable =>
               race.rewards[u] = Durable \/ Credited(e, u),
           race.phase = "ready" => rewards = race.rewards
    PROVE  Sound([race EXCEPT !.rewards = rewards], e)
<1> DEFINE next == [race EXCEPT !.rewards = rewards]
<1>1. rewards \in Awards
  BY RaceType, AwardsType
<1>2. next \in Race /\ next.rewards = rewards /\ next.phase = race.phase
  BY <1>1 DEF Race
<1>3. Racers(next) = Racers(race)
  BY <1>2 DEF Racers
<1> HIDE DEF next
<1>4. RaceBacked(next, e)
  BY <1>2, <1>3 DEF RaceBacked
<1>5. Sound(next, e)
  BY <1>2, <1>4 DEF Sound
<1> QED
  BY <1>5 DEF next

\* A race that enters a phase other than "ready" claims nothing new.
LEMMA OtherPhase ==
    ASSUME NEW race, NEW e, Sound(race, e), NEW next \in Race,
           next.rewards = race.rewards, next.phase # "ready"
    PROVE  Sound(next, e)
BY DEF Sound, RaceBacked, Racers

LEMMA DeadLetterSound ==
    ASSUME NEW race, NEW e, Sound(race, e), NEW u \in Users \cup {NoUser},
           NEW reason \in Reasons
    PROVE  Sound(DeadLetter(race, u, reason), e)
<1>1. race \in Race
  BY DEF Sound
<1>2. /\ DeadLetter(race, u, reason) \in Race
      /\ DeadLetter(race, u, reason).rewards = race.rewards
      /\ DeadLetter(race, u, reason).phase = "failed"
  BY <1>1 DEF DeadLetter, Race, Phases
<1> QED
  BY <1>2, OtherPhase

LEMMA AfterFailureSound ==
    ASSUME NEW race, NEW e, Sound(race, e), NEW u \in Racers(race), race.phase # "ready"
    PROVE  Sound(AfterFailure(race, u), e)
<1>1. race \in Race /\ RaceBacked(race, e) /\ u \in Users
  BY RaceType DEF Sound
<1> DEFINE f == race.rewards[u].failures + 1
           rewards == [race.rewards EXCEPT ![u] = Queued(f)]
<1>2. race.rewards \in [Racers(race) -> Status] /\ f \in Int
  BY <1>1, RaceType
<1>3. Queued(f) \in Status /\ Queued(f) # Durable
  BY <1>2, StatusType
<1>4. /\ rewards \in [Racers(race) -> Status]
      /\ \A v \in Racers(race) : rewards[v] = Durable => race.rewards[v] = Durable
  BY <1>2, <1>3
<1>5. Sound([race EXCEPT !.rewards = rewards], e)
  <2> HIDE DEF rewards
  <2> QED
    BY <1>1, <1>4, OtherRewards
<1>6. [race EXCEPT !.rewards[u] = Queued(@.failures + 1)] = [race EXCEPT !.rewards = rewards]
  BY <1>1 DEF Race
<1>7. Sound(DeadLetter(race, u, "persistence"), e)
  BY <1>1, DeadLetterSound DEF Reasons
<1> QED
  BY <1>5, <1>6, <1>7 DEF AfterFailure

LEMMA ExpiredSound ==
    ASSUME NEW race, NEW e, Sound(race, e), NEW riders \in SUBSET Users,
           riders # {} => race.phase = "persisting"
    PROVE  Sound(Expired(race, riders), e)
<1>1. race \in Race /\ RaceBacked(race, e)
  BY DEF Sound
<1>2. /\ race.rewards \in [Racers(race) -> Status]
      /\ \A u \in Racers(race) : race.rewards[u].failures \in Int
  BY <1>1, RaceType
<1> DEFINE rewards == [u \in Racers(race) |->
                IF u \in riders /\ race.rewards[u].failures + 1 < MaxFailures
                THEN Queued(race.rewards[u].failures + 1) ELSE race.rewards[u]]
           kept == [race EXCEPT !.rewards = rewards]
           spent == {u \in riders : race.rewards[u].failures + 1 >= MaxFailures}
<1>3. ASSUME NEW u \in Racers(race)
      PROVE  rewards[u] \in Status /\ (rewards[u] = Durable => race.rewards[u] = Durable)
  <2>1. race.rewards[u].failures + 1 \in Int
    BY <1>2
  <2>2. /\ Queued(race.rewards[u].failures + 1) \in Status
        /\ Queued(race.rewards[u].failures + 1) # Durable
    BY <2>1, StatusType
  <2> QED
    BY <1>2, <2>2
<1>4. rewards \in [Racers(race) -> Status]
  BY <1>3
<1>5. race.phase = "ready" => rewards = race.rewards
  BY <1>2
<1>6. Sound(kept, e)
  <2> HIDE DEF rewards
  <2> QED
    BY <1>1, <1>3, <1>4, <1>5, OtherRewards
<1>7. ASSUME spent # {}
      PROVE  Sound(DeadLetter(kept, CHOOSE u \in spent : TRUE, "persistence"), e)
  <2>1. (CHOOSE u \in spent : TRUE) \in Users
    BY <1>7
  <2>2. "persistence" \in Reasons
    BY DEF Reasons
  <2> HIDE DEF kept, spent
  <2> QED
    BY <1>6, <2>1, <2>2, DeadLetterSound
<1> QED
  BY <1>6, <1>7 DEF Expired

LEMMA AfterReceiptSound ==
    ASSUME NEW race, NEW e, Sound(race, e), NEW u \in Racers(race), Credited(e, u),
           race.phase # "ready", NEW next \in AfterReceipt(race, u)
    PROVE  Sound(next, e)
<1>1. race \in Race /\ RaceBacked(race, e)
  BY DEF Sound
<1> DEFINE rewards == [race.rewards EXCEPT ![u] = Durable]
           done == [race EXCEPT !.rewards = rewards]
<1>2. race.rewards \in [Racers(race) -> Status]
  BY <1>1, RaceType
<1>3. /\ rewards \in [Racers(race) -> Status]
      /\ \A v \in Racers(race) : rewards[v] = Durable =>
             race.rewards[v] = Durable \/ Credited(e, v)
  BY <1>2, StatusType
<1>4. Sound(done, e)
  <2> HIDE DEF rewards
  <2> QED
    BY <1>1, <1>3, OtherRewards
<1>5. [race EXCEPT !.rewards[u] = Durable] = done
  BY <1>1 DEF Race
<1>6. Sound(DeadLetter(done, NoUser, "terminal"), e)
  <2>1. "terminal" \in Reasons /\ NoUser \in Users \cup {NoUser}
    BY DEF Reasons
  <2> HIDE DEF done
  <2> QED
    BY <1>4, <2>1, DeadLetterSound
<1>7. ASSUME \A v \in Racers(done) : done.rewards[v] = Durable
      PROVE  Sound([done EXCEPT !.phase = "ready"], e)
  <2> HIDE DEF done
  <2> DEFINE last == [done EXCEPT !.phase = "ready"]
  <2>1. last \in Race /\ last.rewards = done.rewards
    BY <1>4 DEF Sound, Race, Phases
  <2>2. RaceBacked(last, e)
    <3> HIDE DEF last
    <3> QED
      BY <1>4, <1>7, <2>1 DEF Sound, RaceBacked, Racers
  <2> QED
    BY <2>1, <2>2 DEF Sound
<1> QED
  BY <1>4, <1>5, <1>6, <1>7 DEF AfterReceipt

LEMMA OutcomesSound ==
    ASSUME RacesBacked, NEW w \in workers, w.stage = "durable" => Credited(w.race, w.user),
           Current(w), NEW next \in Outcomes(w)
    PROVE  Sound(next, w.race)
<1> DEFINE race == races[w.race]
<1>1. w.race \in DOMAIN races /\ w.user \in Racers(race) /\ race.phase = "persisting"
  BY DEF Current, Rewards
<1>2. Sound(race, w.race)
  BY <1>1 DEF RacesBacked, IsRaces, Sound
<1>3. w.user \in Users
  BY <1>1, <1>2, RaceType DEF Sound
<1> HIDE DEF race
<1>4. race.phase # "ready"
  BY <1>1
<1>5. CASE next = AfterFailure(race, w.user)
  BY <1>1, <1>2, <1>4, <1>5, AfterFailureSound
<1>6. CASE w.stage = "durable" /\ next \in AfterReceipt(race, w.user)
  BY <1>1, <1>2, <1>4, <1>6, AfterReceiptSound
<1>7. CASE next = DeadLetter(race, w.user, "persistence")
  BY <1>2, <1>3, <1>7, DeadLetterSound DEF Reasons
<1>8. \/ next = AfterFailure(race, w.user)
      \/ w.stage = "durable" /\ next \in AfterReceipt(race, w.user)
      \/ next = DeadLetter(race, w.user, "persistence")
  BY DEF Outcomes, race
<1> QED
  BY <1>5, <1>6, <1>7, <1>8

--------------------------------------------------------------------------------
(* Steps.                                                                   *)

\* A step within one run that takes no synced credit back: every claim is
\* still good if each new one was good for the disk before the step, or is
\* for the disk after it.
LEMMA ClaimsKept ==
    ASSUME AheadInv, ReceiptsInv', DiskInv', generation' = generation,
           \A u \in Users : \A k \in Keys : stored[u].credits[k] <= stored'[u].credits[k],
           EpochsLeft', IsRaces(races'),
           \A e \in DOMAIN races' : RaceBacked(races'[e], e),
           \A w \in workers' : w.stage = "durable" =>
               w \in workers \/ stored'[w.user].credits[Key(w.race)] = 1,
           \A r \in published' : r[1] \in Keys /\ r[2] \in Users
                                 /\ stored[r[2]].credits[r[1]] = 1
    PROVE  AheadInv'
<1>1. ASSUME NEW u \in Users, NEW k \in Keys, stored[u].credits[k] = 1
      PROVE  stored'[u].credits[k] = 1
  <2>1. stored'[u] \in Profile /\ stored[u] \in Profile
    BY DEF AheadInv, ReceiptsInv, ReceiptsType
  <2>2. stored'[u].credits[k] \in Nat
    BY <2>1 DEF Profile
  <2>3. stored'[u].credits[k] <= 1
    BY DEF ReceiptsInv, InOrder
  <2> QED
    BY <1>1, <2>2, <2>3
<1>2. ASSUME NEW e \in Epochs PROVE Key(e) \in Keys
  BY DEF AheadInv, ReceiptsInv, ReceiptsType, Key, Keys
<1>3. ASSUME NEW e \in Epochs PROVE Key(e)' = Key(e)
  BY DEF Key
<1>4. RacesBacked'
  <2>1. ASSUME NEW e \in DOMAIN races' PROVE RaceBacked(races[e], e)'
    <3>1. e \in Epochs /\ races'[e] \in Race
      BY DEF IsRaces
    <3>2. Racers(races'[e]) \subseteq Users
      BY <3>1, RaceType
    <3>3. RaceBacked(races'[e], e)
      OBVIOUS
    <3>4. ASSUME NEW u \in Racers(races'[e]), races'[e].rewards[u] = Durable
          PROVE  stored'[u].credits[Key(e)'] = 1
      <4>1. stored[u].credits[Key(e)] = 1
        BY <3>3, <3>4 DEF RaceBacked, Credited
      <4> QED
        BY <1>1, <1>2, <1>3, <3>1, <3>2, <4>1
    <3> QED
      BY <3>3, <3>4 DEF RaceBacked, Credited, Racers, Durable
  <2> QED
    BY <2>1 DEF RacesBacked, IsRaces, Race, Awards, Status
<1>5. WorkersBacked'
  <2>1. ASSUME NEW w \in workers', w.stage = "durable"
        PROVE  stored'[w.user].credits[Key(w.race)'] = 1
    <3>1. w \in Job
      BY DEF ReceiptsInv, ReceiptsType, Job, Results, Epochs
    <3>2. w.user \in Users /\ w.race \in Epochs
      BY <3>1 DEF Job
    <3>3. CASE w \in workers
      <4>1. stored[w.user].credits[Key(w.race)] = 1
        BY <2>1, <3>3 DEF AheadInv, WorkersBacked, Credited
      <4> QED
        BY <1>1, <1>2, <1>3, <3>2, <4>1
    <3>4. CASE stored'[w.user].credits[Key(w.race)] = 1
      BY <1>3, <3>2, <3>4
    <3> QED
      BY <2>1, <3>3, <3>4
  <2> QED
    BY <2>1 DEF WorkersBacked, Credited
<1>6. PublishedBacked'
  BY <1>1 DEF PublishedBacked, Keys, Epochs
<1> QED
  BY <1>4, <1>5, <1>6 DEF AheadInv

\* The steps that leave the profiles alone.
LEMMA QuietClaims ==
    ASSUME AheadInv, ReceiptsInv', UNCHANGED <<generation, profile, stored>>,
           EpochsLeft', IsRaces(races'),
           \A e \in DOMAIN races' : RaceBacked(races'[e], e),
           \A w \in workers' : w.stage = "durable" => w \in workers,
           \A r \in published' : r[1] \in Keys /\ r[2] \in Users
                                 /\ stored[r[2]].credits[r[1]] = 1
    PROVE  AheadInv'
<1>1. DiskInv'
  BY DEF AheadInv, DiskInv, LastCredited
<1>2. \A u \in Users : \A k \in Keys : stored[u].credits[k] <= stored'[u].credits[k]
  <2>1. ASSUME NEW u \in Users, NEW k \in Keys PROVE stored[u].credits[k] \in Nat
    BY DEF AheadInv, ReceiptsInv, ReceiptsType, Profile
  <2> QED
    BY <2>1
<1> QED
  BY <1>1, <1>2, ClaimsKept

\* A step of the World that changes one race soundly, or no race.
LEMMA OneRaceClaims ==
    ASSUME AheadInv, ReceiptsInv', NEW e \in DOMAIN races, NEW next, Sound(next, e),
           races' = [races EXCEPT ![e] = next],
           UNCHANGED <<generation, next_epoch, profile, stored, published>>,
           workers' \subseteq workers
    PROVE  AheadInv'
<1>1. IsRaces(races) /\ \A d \in DOMAIN races : RaceBacked(races[d], d)
  BY DEF AheadInv, RacesBacked
<1>2. next \in Race /\ RaceBacked(next, e)
  BY DEF Sound
<1>3. IsRaces(races') /\ DOMAIN races' = DOMAIN races
  BY <1>1, <1>2 DEF IsRaces
<1>4. ASSUME NEW d \in DOMAIN races' PROVE RaceBacked(races'[d], d)
  BY <1>1, <1>2, <1>3
<1>5. \A r \in published' : r[1] \in Keys /\ r[2] \in Users
                            /\ stored[r[2]].credits[r[1]] = 1
  BY DEF AheadInv, PublishedBacked
<1>6. EpochsLeft'
  BY DEF AheadInv, EpochsLeft
<1> QED
  BY <1>3, <1>4, <1>5, <1>6, QuietClaims

\* A race that is over takes its claims with it.
LEMMA EndedRaceClaims ==
    ASSUME AheadInv, ReceiptsInv', NEW e \in DOMAIN races, races' = Remaining(e),
           UNCHANGED <<generation, next_epoch, workers, profile, stored>>,
           \A r \in published' : r[1] \in Keys /\ r[2] \in Users
                                 /\ stored[r[2]].credits[r[1]] = 1
    PROVE  AheadInv'
<1>1. IsRaces(races) /\ \A d \in DOMAIN races : RaceBacked(races[d], d)
  BY DEF AheadInv, RacesBacked
<1>2. races' = [d \in DOMAIN races \ {e} |-> races[d]]
  BY DEF Remaining
<1>3. IsRaces(races') /\ \A d \in DOMAIN races' : RaceBacked(races'[d], d)
  BY <1>1, <1>2 DEF IsRaces
<1>4. EpochsLeft'
  BY DEF AheadInv, EpochsLeft
<1> QED
  BY <1>3, <1>4, QuietClaims

LEMMA StartRaceClaims ==
    ASSUME AheadInv, ReceiptsInv', NEW racers \in SUBSET Users \ {{}}, StartRace(racers)
    PROVE  AheadInv'
<1> DEFINE first == [phase |-> "loading", reason |-> "none", failed |-> NoUser,
                     rewards |-> [u \in racers |-> Queued(0)]]
<1>1. IsRaces(races) /\ \A d \in DOMAIN races : RaceBacked(races[d], d)
  BY DEF AheadInv, RacesBacked
<1>2. first.rewards \in Awards
  BY StatusType, AwardsType
<1>3. first \in Race
  BY <1>2 DEF Race, Phases, Reasons
<1>4. ASSUME NEW e PROVE RaceBacked(first, e)
  BY StatusType DEF RaceBacked, Racers
<1>5. /\ next_epoch <= MaxEpoch
      /\ races' = [e \in DOMAIN races \cup {next_epoch} |->
                     IF e = next_epoch THEN first ELSE races[e]]
      /\ UNCHANGED <<generation, workers, profile, stored, published>>
  BY DEF StartRace
<1> HIDE DEF first
<1>6. next_epoch \in Epochs /\ EpochsLeft'
  BY <1>5, RewardConstants DEF AheadInv, EpochsLeft, Epochs, StartRace
<1>7. IsRaces(races')
  BY <1>1, <1>3, <1>5, <1>6 DEF IsRaces
<1>8. ASSUME NEW e \in DOMAIN races' PROVE RaceBacked(races'[e], e)
  BY <1>1, <1>4, <1>5
<1>9. \A r \in published' : r[1] \in Keys /\ r[2] \in Users
                            /\ stored[r[2]].credits[r[1]] = 1
  BY <1>5 DEF AheadInv, PublishedBacked
<1> QED
  BY <1>5, <1>6, <1>7, <1>8, <1>9, QuietClaims

\* The room's own steps: settlement, dead letters and the announcement.
LEMMA RaceClaims ==
    ASSUME AheadInv, ReceiptsInv', NEW e \in DOMAIN races, RaceStep(e)
    PROVE  AheadInv'
<1> DEFINE race == races[e]
<1>1. Sound(race, e) /\ e \in Epochs
  BY DEF AheadInv, RacesBacked, IsRaces, Sound
<1>2. race \in Race
  BY <1>1 DEF Sound
<1>3. PublishedBacked
  BY DEF AheadInv
<1>4. ASSUME NEW next, Sound(next, e), Becomes(e, next),
             UNCHANGED <<generation, workers, profile, stored, published>>
      PROVE  AheadInv'
  BY <1>4, OneRaceClaims DEF Becomes
<1>5. CASE AbortLoading(e)
  <2>1. /\ races' = Remaining(e)
        /\ UNCHANGED <<generation, next_epoch, workers, profile, stored, published>>
    BY <1>5 DEF AbortLoading
  <2> QED
    BY <1>3, <2>1, EndedRaceClaims DEF PublishedBacked
<1>6. CASE Launch(e)
  <2> DEFINE next == [race EXCEPT !.phase = "racing"]
  <2>1. next \in Race /\ next.rewards = race.rewards /\ next.phase # "ready"
    BY <1>2 DEF Race, Phases
  <2>2. Becomes(e, next) /\ UNCHANGED <<generation, workers, profile, stored, published>>
    BY <1>6 DEF Launch
  <2> HIDE DEF next, race
  <2>3. Sound(next, e)
    BY <1>1, <2>1, OtherPhase
  <2> QED
    BY <1>4, <2>2, <2>3
<1>7. CASE BeginPersistence(e)
  <2> DEFINE next == [race EXCEPT !.phase = "persisting"]
  <2>1. next \in Race /\ next.rewards = race.rewards /\ next.phase # "ready"
    BY <1>2 DEF Race, Phases
  <2>2. UNCHANGED <<generation, workers, profile, stored, published>>
    BY <1>7 DEF BeginPersistence
  <2>3. \/ Becomes(e, next)
        \/ \E u \in Racers(race) \cup {NoUser} : Becomes(e, DeadLetter(race, u, "terminal"))
    BY <1>7 DEF BeginPersistence
  <2> HIDE DEF next, race
  <2>4. Sound(next, e)
    BY <1>1, <2>1, OtherPhase
  <2>5. ASSUME NEW u \in Racers(race) \cup {NoUser}
        PROVE  Sound(DeadLetter(race, u, "terminal"), e)
    <3>1. u \in Users \cup {NoUser}
      BY <1>2, RaceType
    <3> QED
      BY <1>1, <3>1, DeadLetterSound DEF Reasons
  <2> QED
    BY <1>4, <2>2, <2>3, <2>4, <2>5
<1>8. CASE Finalize(e)
  <2>1. /\ race.phase = "ready" /\ races' = Remaining(e)
        /\ published' = published \cup ({Key(e)} \X Racers(race))
        /\ UNCHANGED <<generation, next_epoch, workers, profile, stored>>
    BY <1>8 DEF Finalize
  <2> HIDE DEF race
  <2>2. ASSUME NEW u \in Racers(race)
        PROVE  u \in Users /\ stored[u].credits[Key(e)] = 1
    BY <1>1, <1>2, <2>1, RaceType DEF Sound, RaceBacked, Credited
  <2>3. Key(e) \in Keys
    BY <1>1 DEF AheadInv, ReceiptsInv, ReceiptsType, Key, Keys
  <2>4. ASSUME NEW r \in published'
        PROVE  r[1] \in Keys /\ r[2] \in Users /\ stored[r[2]].credits[r[1]] = 1
    <3>1. CASE r \in published
      BY <1>3, <3>1 DEF PublishedBacked
    <3>2. CASE r \in {Key(e)} \X Racers(race)
      <4>1. r[1] = Key(e) /\ r[2] \in Racers(race)
        BY <3>2
      <4> QED
        BY <4>1, <2>2, <2>3
    <3> QED
      BY <2>1, <3>1, <3>2
  <2> QED
    BY <2>1, <2>4, EndedRaceClaims
<1>9. CASE FinalizeFails(e)
  <2>1. Sound(DeadLetter(race, NoUser, "terminal"), e)
    BY <1>1, DeadLetterSound DEF Reasons
  <2> QED
    BY <1>4, <1>9, <2>1 DEF FinalizeFails
<1>10. CASE RetryDeadLetter(e)
  <2> DEFINE rewards == [u \in Racers(race) |->
                 IF race.rewards[u] = Durable THEN Durable ELSE Queued(0)]
             next == [race EXCEPT !.phase = "persisting", !.failed = NoUser,
                                  !.reason = "none", !.rewards = rewards]
  <2>1. /\ rewards \in [Racers(race) -> Status]
        /\ \A u \in Racers(race) : rewards[u] = Durable => race.rewards[u] = Durable
    BY StatusType
  <2>2. rewards \in Awards
    BY <1>2, <2>1, RaceType, AwardsType
  <2>3. next \in Race /\ next.rewards = rewards /\ next.phase = "persisting"
    BY <1>2, <2>2 DEF Race, Phases, Reasons
  <2>4. Becomes(e, next) /\ UNCHANGED <<generation, workers, profile, stored, published>>
    BY <1>10 DEF RetryDeadLetter
  <2> HIDE DEF rewards, next, race
  <2>5. Sound(next, e)
    BY <1>1, <2>1, <2>3 DEF Sound, RaceBacked, Racers
  <2> QED
    BY <1>4, <2>4, <2>5
<1> QED
  BY <1>5, <1>6, <1>7, <1>8, <1>9, <1>10 DEF RaceStep

\* Expiring leases leaves a sound race, and never makes one ready.
LEMMA ExpiryClaims ==
    ASSUME AheadInv, NEW expired \in SUBSET Rewards("in_flight"), NEW e \in DOMAIN races
    PROVE  /\ Sound(Expired(races[e], Riders(expired, e)), e)
           /\ Expired(races[e], Riders(expired, e)).phase = "ready" =>
                 races[e].phase = "ready"
<1> DEFINE race == races[e]
           riders == Riders(expired, e)
<1>1. Sound(race, e) /\ race \in Race
  BY DEF AheadInv, RacesBacked, IsRaces, Sound
<1>2. riders \in SUBSET Users /\ (riders # {} => race.phase = "persisting")
  BY DEF Riders, Rewards
<1> HIDE DEF race, riders
<1>3. Sound(Expired(race, riders), e)
  BY <1>1, <1>2, ExpiredSound
<1>4. Expired(race, riders).phase \in {race.phase, "failed"}
  BY <1>1 DEF Expired, DeadLetter, Race
<1> QED
  BY <1>3, <1>4 DEF race, riders

LEMMA PollClaims == ASSUME AheadInv, ReceiptsInv', Poll PROVE AheadInv'
<1>1. IsRaces(races) /\ \A d \in DOMAIN races : RaceBacked(races[d], d)
  BY DEF AheadInv, RacesBacked
<1>2. \A r \in published : r[1] \in Keys /\ r[2] \in Users
                           /\ stored[r[2]].credits[r[1]] = 1
  BY DEF AheadInv, PublishedBacked
<1>3. ASSUME DOMAIN races' = DOMAIN races, races' = [e \in DOMAIN races |-> races'[e]],
             \A e \in DOMAIN races : Sound(races'[e], e),
             UNCHANGED <<generation, next_epoch, profile, stored, published>>,
             \A w \in workers' : w.stage = "durable" => w \in workers
      PROVE  AheadInv'
  <2>1. IsRaces(races') /\ \A e \in DOMAIN races' : RaceBacked(races'[e], e)
    BY <1>1, <1>3 DEF IsRaces, Sound
  <2>2. EpochsLeft'
    BY <1>3 DEF AheadInv, EpochsLeft
  <2> QED
    BY <1>2, <1>3, <2>1, <2>2, QuietClaims
<1>4. PICK expired \in SUBSET Rewards("in_flight") :
        \/ PollExpires(expired)
        \/ \E due \in SUBSET Rewards("queued") : PollIssues(expired, due)
        \/ \E r \in Rewards("queued") : PollExhausted(expired, r)
  BY DEF Poll
<1> DEFINE after(e) == Expired(races[e], Riders(expired, e))
<1>5. ASSUME NEW e \in DOMAIN races
      PROVE  Sound(after(e), e) /\ (after(e).phase = "ready" => races[e].phase = "ready")
  BY <1>5, ExpiryClaims
<1>6. CASE PollExpires(expired)
  <2>1. /\ races' = [e \in DOMAIN races |-> after(e)]
        /\ UNCHANGED <<generation, next_epoch, workers, profile, stored, published>>
    BY <1>6 DEF PollExpires
  <2> HIDE DEF after
  <2> QED
    BY <1>3, <1>5, <2>1
<1>7. ASSUME NEW due \in SUBSET Rewards("queued"), PollIssues(expired, due)
      PROVE  AheadInv'
  <2>1. PICK id \in [due -> next_attempt .. next_attempt + Cardinality(due) - 1] :
          /\ races' = [e \in DOMAIN races |->
               LET race == after(e)
               IN  [race EXCEPT !.rewards = [u \in Racers(race) |->
                      IF <<e, u>> \in due
                      THEN InFlight(race.rewards[u].failures, id[<<e, u>>])
                      ELSE race.rewards[u]]]]
          /\ workers' = workers \cup
               {[race |-> r[1], user |-> r[2], attempt |-> id[r], stage |-> "waiting"] :
                  r \in due}
    BY <1>7 DEF PollIssues
  <2>2. UNCHANGED <<generation, next_epoch, profile, stored, published>>
    BY <1>7 DEF PollIssues
  <2>3. \A w \in workers' : w.stage = "durable" => w \in workers
    BY <2>1
  <2>4. ASSUME NEW e \in DOMAIN races PROVE Sound(races'[e], e)
    <3> DEFINE race == after(e)
               rewards == [u \in Racers(race) |->
                             IF <<e, u>> \in due
                             THEN InFlight(race.rewards[u].failures, id[<<e, u>>])
                             ELSE race.rewards[u]]
    <3>1. races'[e] = [race EXCEPT !.rewards = rewards]
      BY <2>1
    <3>2. Sound(race, e) /\ race \in Race /\ RaceBacked(race, e)
      BY <1>5 DEF Sound
    <3>3. race.phase = "ready" => \A u : <<e, u>> \notin due
      BY <1>5 DEF Rewards
    <3> HIDE DEF race, after
    <3>4. race.rewards \in [Racers(race) -> Status]
      BY <3>2, RaceType
    <3>5. ASSUME NEW u \in Racers(race)
          PROVE  rewards[u] \in Status /\ (rewards[u] = Durable => race.rewards[u] = Durable)
      <4>1. CASE <<e, u>> \in due
        <5>1. id[<<e, u>>] \in Int /\ race.rewards[u].failures \in Int
          BY <3>2, <4>1, RaceType
        <5> QED
          BY <4>1, <5>1, StatusType
      <4>2. CASE <<e, u>> \notin due
        BY <3>4, <4>2
      <4> QED
        BY <4>1, <4>2
    <3>6. rewards \in [Racers(race) -> Status]
      BY <3>5
    <3>7. race.phase = "ready" => rewards = race.rewards
      BY <3>3, <3>4
    <3> HIDE DEF rewards
    <3> QED
      BY <3>1, <3>2, <3>5, <3>6, <3>7, OtherRewards
  <2>5. DOMAIN races' = DOMAIN races /\ races' = [e \in DOMAIN races |-> races'[e]]
    BY <2>1
  <2> QED
    BY <1>3, <2>2, <2>3, <2>4, <2>5
<1>8. ASSUME NEW r \in Rewards("queued"), PollExhausted(expired, r)
      PROVE  AheadInv'
  <2>1. /\ races' = [e \in DOMAIN races |->
                       IF e = r[1] THEN DeadLetter(after(e), r[2], "terminal") ELSE after(e)]
        /\ UNCHANGED <<generation, next_epoch, workers, profile, stored, published>>
    BY <1>8 DEF PollExhausted
  <2>2. r[2] \in Users
    BY DEF Rewards
  <2> HIDE DEF after
  <2>3. ASSUME NEW e \in DOMAIN races PROVE Sound(DeadLetter(after(e), r[2], "terminal"), e)
    BY <1>5, <2>2, DeadLetterSound DEF Reasons
  <2>4. ASSUME NEW e \in DOMAIN races PROVE Sound(races'[e], e)
    BY <1>5, <2>1, <2>3
  <2>5. DOMAIN races' = DOMAIN races /\ races' = [e \in DOMAIN races |-> races'[e]]
    BY <2>1
  <2> QED
    BY <1>3, <2>1, <2>4, <2>5
<1> QED
  BY <1>4, <1>6, <1>7, <1>8

\* A report carries its worker's claim to the settlement.
LEMMA CompleteClaims ==
    ASSUME AheadInv, ReceiptsInv', NEW w \in workers, Complete(w)
    PROVE  AheadInv'
<1>1. /\ workers' \subseteq workers
      /\ UNCHANGED <<generation, next_epoch, profile, stored, published>>
  BY DEF Complete
<1>2. CASE Current(w)
  <2>1. PICK next \in Outcomes(w) : races' = [races EXCEPT ![w.race] = next]
    BY <1>2 DEF Complete
  <2>2. w.race \in DOMAIN races
    BY <1>2 DEF Current, Rewards
  <2>3. Sound(next, w.race)
    BY <1>2, OutcomesSound DEF AheadInv, WorkersBacked
  <2> QED
    BY <1>1, <2>1, <2>2, <2>3, OneRaceClaims
<1>3. CASE ~Current(w)
  <2>1. races' = races
    BY <1>3 DEF Complete
  <2> QED
    BY <1>1, <2>1, QuietClaims
       DEF AheadInv, RacesBacked, PublishedBacked, EpochsLeft
<1> QED
  BY <1>2, <1>3

\* Only a worker whose directory sync succeeded claims a receipt.
LEMMA JobClaims ==
    ASSUME AheadInv, ReceiptsInv', NEW w \in workers, JobStep(w)
    PROVE  AheadInv'
<1>1. /\ IsRaces(races) /\ \A d \in DOMAIN races : RaceBacked(races[d], d)
      /\ \A r \in published : r[1] \in Keys /\ r[2] \in Users
                              /\ stored[r[2]].credits[r[1]] = 1
  BY DEF AheadInv, RacesBacked, PublishedBacked
<1>2. UNCHANGED <<generation, races, published>> /\ EpochsLeft'
  BY DEF JobStep, AcquireLane, JobFails, ApplyReward, RejectReward, world,
         AheadInv, EpochsLeft
<1>3. w.race \in Epochs /\ w.user \in Users /\ w \in Job
  BY DEF AheadInv, ReceiptsInv, ReceiptsType, Job
<1>4. /\ profile \in [Users -> Profile] /\ stored \in [Users -> Profile]
      /\ profile' \in [Users -> Profile] /\ stored' \in [Users -> Profile]
  BY DEF AheadInv, ReceiptsInv, ReceiptsType
<1>5. ASSUME NEW stage \in {"waiting", "running"} \cup Results, Moves(w, stage)
      PROVE  \A v \in workers' : v.stage = "durable" =>
                v \in workers \/ (stage = "durable" /\ v.race = w.race /\ v.user = w.user)
  <2>1. [w EXCEPT !.stage = stage].stage = stage
    BY <1>3 DEF Job
  <2>2. [w EXCEPT !.stage = stage].race = w.race /\ [w EXCEPT !.stage = stage].user = w.user
    BY <1>3 DEF Job
  <2> QED
    BY <1>5, <2>1, <2>2 DEF Moves
<1>6. ASSUME UNCHANGED <<profile, stored>>,
             \A v \in workers' : v.stage = "durable" => v \in workers
      PROVE  AheadInv'
  BY <1>1, <1>2, <1>6, QuietClaims
<1>7. CASE AcquireLane(w)
  <2>1. Moves(w, "running") /\ UNCHANGED <<profile, stored>>
    BY <1>7 DEF AcquireLane
  <2> QED
    BY <1>5, <1>6, <2>1
<1>8. CASE JobFails(w)
  <2>1. PICK stage \in Results \ {"durable"} : Moves(w, stage)
    BY <1>8 DEF JobFails
  <2>2. UNCHANGED <<profile, stored>>
    BY <1>8 DEF JobFails
  <2> QED
    BY <1>5, <1>6, <2>1, <2>2
<1> DEFINE u == w.user
           k == Key(w.race)
<1>9. k \in Keys
  BY <1>3 DEF AheadInv, ReceiptsInv, ReceiptsType, Key, Keys
<1>10. ASSUME NEW v \in Users, NEW j \in Keys
       PROVE  /\ profile[v].credits[j] \in Nat /\ stored[v].credits[j] \in Nat
              /\ stored[v].credits[j] <= profile[v].credits[j]
  BY <1>4 DEF AheadInv, DiskInv, Profile
<1>11. CASE ApplyReward(w)
  <2>1. profile' = [profile EXCEPT ![u] = Credit(profile[u], k)]
    BY <1>11 DEF ApplyReward
  <2>2. PICK synced \in BOOLEAN :
          /\ stored' = IF synced THEN [stored EXCEPT ![u] = profile'[u]] ELSE stored
          /\ Moves(w, Report(synced))
    BY <1>11 DEF ApplyReward
  <2>3. profile[u] \in Profile /\ LastCredited(profile[u])
    BY <1>3, <1>4 DEF AheadInv, DiskInv
  <2>4. /\ \A j \in Keys : profile[u].credits[j] <= Credit(profile[u], k).credits[j]
        /\ Credit(profile[u], k).last = k
        /\ Credit(profile[u], k).credits[k] >= 1
    <3>1. CASE profile[u].last = k
      <4>1. Credit(profile[u], k) = profile[u] /\ k # NoKey
        BY <1>9, <3>1 DEF Credit, NoKey, Keys, Epochs
      <4>2. profile[u].credits[k] >= 1
        BY <2>3, <3>1, <4>1 DEF LastCredited
      <4> QED
        BY <1>3, <1>10, <3>1, <4>1, <4>2
    <3>2. CASE profile[u].last # k
      <4> DEFINE c == [profile[u].credits EXCEPT ![k] = @ + 1]
      <4>1. Credit(profile[u], k) = [last |-> k, credits |-> c]
        BY <3>2 DEF Credit
      <4>2. profile[u].credits \in [Keys -> Nat]
        BY <2>3 DEF Profile
      <4>3. c[k] >= 1 /\ \A j \in Keys : profile[u].credits[j] <= c[j]
        BY <1>9, <4>2
      <4> QED
        BY <4>1, <4>3
    <3> QED
      BY <3>1, <3>2
  <2> HIDE DEF u, k
  <2>5. u \in Users
    BY <1>3 DEF u
  <2>6. /\ profile'[u] = Credit(profile[u], k)
        /\ \A v \in Users \ {u} : profile'[v] = profile[v]
    BY <1>4, <2>1, <2>5
  <2>7. \A v \in Users, j \in Keys : profile[v].credits[j] <= profile'[v].credits[j]
    BY <1>10, <2>4, <2>6
  <2>8. \A v \in Users : LastCredited(profile'[v])
    BY <1>9, <2>4, <2>6 DEF AheadInv, DiskInv, LastCredited
  <2>9. \A v \in Users : stored'[v] = stored[v] \/ (synced /\ stored'[v] = profile'[v])
    BY <1>4, <2>2, <2>5
  <2>10. ASSUME NEW v \in Users, NEW j \in Keys
         PROVE  /\ stored[v].credits[j] <= stored'[v].credits[j]
                /\ stored'[v].credits[j] <= profile'[v].credits[j]
    <3>1. profile'[v].credits[j] \in Nat
      BY <1>4 DEF Profile
    <3> QED
      BY <1>10, <2>7, <2>9, <3>1
  <2>11. \A v \in Users : LastCredited(stored'[v])
    BY <2>8, <2>9 DEF AheadInv, DiskInv, LastCredited
  <2>12. DiskInv'
    BY <2>8, <2>10, <2>11 DEF DiskInv, LastCredited
  <2>13. synced => stored'[u].credits[k] = 1
    <3>1. synced => stored'[u] = Credit(profile[u], k)
      BY <1>4, <2>2, <2>5, <2>6
    <3>2. stored'[u].credits[k] \in Nat /\ stored'[u].credits[k] <= 1
      BY <1>4, <1>9, <2>5 DEF Profile, ReceiptsInv, InOrder
    <3> QED
      BY <2>4, <3>1, <3>2
  <2>14. ASSUME NEW v \in workers', v.stage = "durable"
         PROVE  v \in workers \/ stored'[v.user].credits[Key(v.race)] = 1
    <3>1. Report(synced) \in {"waiting", "running"} \cup Results
      BY DEF Report, Results
    <3>2. v \in workers \/ (synced /\ v.race = w.race /\ v.user = w.user)
      BY <1>5, <2>2, <2>14, <3>1 DEF Report
    <3> QED
      BY <2>13, <3>2 DEF u, k
  <2> QED
    BY <1>1, <1>2, <2>10, <2>12, <2>14, ClaimsKept
<1>12. CASE RejectReward(w)
  <2>1. /\ profile' = profile /\ Moves(w, "job_fatal")
        /\ stored' \in {stored, [stored EXCEPT ![u] = profile[u]]}
    BY <1>12 DEF RejectReward
  <2>2. \A v \in workers' : v.stage = "durable" => v \in workers
    BY <1>5, <2>1 DEF Results
  <2> HIDE DEF u, k
  <2>3. \A v \in Users : stored'[v] = stored[v] \/ stored'[v] = profile[v]
    BY <1>4, <2>1
  <2>4. \A v \in Users, j \in Keys : /\ stored[v].credits[j] <= stored'[v].credits[j]
                                     /\ stored'[v].credits[j] <= profile'[v].credits[j]
    BY <1>10, <2>1, <2>3
  <2>5. \A v \in Users : LastCredited(profile'[v]) /\ LastCredited(stored'[v])
    BY <2>1, <2>3 DEF AheadInv, DiskInv, LastCredited
  <2>6. DiskInv'
    BY <2>4, <2>5 DEF DiskInv, LastCredited
  <2> QED
    BY <1>1, <1>2, <2>2, <2>4, <2>6, ClaimsKept
<1> QED
  BY <1>7, <1>8, <1>11, <1>12 DEF JobStep

\* A new run claims nothing but what was announced before.
LEMMA RunClaims ==
    ASSUME AheadInv, ReceiptsInv', Restart \/ PowerLoss
    PROVE  AheadInv'
<1>1. /\ races' = << >> /\ workers' = {} /\ next_epoch' = 1 /\ published' = published
  BY DEF Restart, PowerLoss, NextRun
<1>2. RacesBacked' /\ WorkersBacked' /\ EpochsLeft'
  BY <1>1 DEF RacesBacked, IsRaces, WorkersBacked, EpochsLeft
<1>3. /\ profile \in [Users -> Profile] /\ stored \in [Users -> Profile]
      /\ profile' \in [Users -> Profile] /\ stored' \in [Users -> Profile]
  BY DEF AheadInv, ReceiptsInv, ReceiptsType
<1>4. ASSUME NEW v \in Users
      PROVE  stored'[v] \in {stored[v], profile[v]} /\ profile'[v] \in {stored'[v], profile[v]}
             /\ (profile'[v] = profile[v] \/ profile'[v] = stored'[v])
  BY <1>3 DEF Restart, PowerLoss
<1>5. ASSUME NEW v \in Users, NEW j \in Keys
      PROVE  /\ profile[v].credits[j] \in Nat /\ stored[v].credits[j] \in Nat
             /\ stored[v].credits[j] <= profile[v].credits[j]
  BY <1>3 DEF AheadInv, DiskInv, Profile
<1>6. ASSUME NEW v \in Users, NEW j \in Keys
      PROVE  /\ stored[v].credits[j] <= stored'[v].credits[j]
             /\ stored'[v].credits[j] <= profile'[v].credits[j]
  BY <1>4, <1>5
<1>7. \A v \in Users : LastCredited(profile'[v]) /\ LastCredited(stored'[v])
  BY <1>4 DEF AheadInv, DiskInv, LastCredited
<1>8. DiskInv'
  BY <1>6, <1>7 DEF DiskInv, LastCredited
<1>9. ASSUME NEW r \in published'
      PROVE  r[1] \in Keys /\ r[2] \in Users /\ stored'[r[2]].credits[r[1]] = 1
  <2>1. r[1] \in Keys /\ r[2] \in Users /\ stored[r[2]].credits[r[1]] = 1
    BY <1>1 DEF AheadInv, PublishedBacked
  <2>2. stored'[r[2]].credits[r[1]] \in Nat /\ stored'[r[2]].credits[r[1]] <= 1
    BY <1>3, <2>1 DEF Profile, ReceiptsInv, InOrder
  <2> QED
    BY <1>6, <2>1, <2>2
<1>10. PublishedBacked'
  BY <1>9 DEF PublishedBacked, Keys, Epochs
<1> QED
  BY <1>2, <1>8, <1>10 DEF AheadInv

LEMMA InitClaims == Init => AheadInv
<1> SUFFICES ASSUME Init PROVE AheadInv
  OBVIOUS
<1>1. ReceiptsInv
  BY InitReceipts
<1>2. DiskInv
  <2>1. LastCredited(Blank) /\ \A k \in Keys : Blank.credits[k] = 0
    BY DEF Blank, LastCredited
  <2> QED
    BY <2>1 DEF DiskInv, Init
<1>3. RacesBacked /\ WorkersBacked /\ PublishedBacked /\ EpochsLeft
  BY DEF Init, RacesBacked, IsRaces, WorkersBacked, PublishedBacked, EpochsLeft
<1> QED
  BY <1>1, <1>2, <1>3 DEF AheadInv

LEMMA NextClaims == AheadInv /\ [Next]_vars => AheadInv'
<1> SUFFICES ASSUME AheadInv, [Next]_vars PROVE AheadInv'
  OBVIOUS
<1>1. ReceiptsInv'
  BY NextReceipts DEF AheadInv
<1>2. ASSUME UNCHANGED <<generation, next_epoch, races, workers, profile, stored, published>>
      PROVE  AheadInv'
  BY <1>1, <1>2, QuietClaims DEF AheadInv, RacesBacked, PublishedBacked, EpochsLeft
<1>3. CASE UNCHANGED vars
  BY <1>2, <1>3 DEF vars, world
<1>4. CASE \E racers \in SUBSET Users \ {{}} : StartRace(racers)
  BY <1>1, <1>4, StartRaceClaims
<1>5. CASE \E e \in DOMAIN races : RaceStep(e)
  BY <1>1, <1>5, RaceClaims
<1>6. CASE Poll
  BY <1>1, <1>6, PollClaims
<1>7. CASE \E w \in workers : JobStep(w) \/ Complete(w)
  BY <1>1, <1>7, JobClaims, CompleteClaims
<1>8. CASE PumpEnds
  BY <1>2, <1>8 DEF PumpEnds, world
<1>9. CASE Restart \/ PowerLoss
  BY <1>1, <1>9, RunClaims
<1> QED
  BY <1>3, <1>4, <1>5, <1>6, <1>7, <1>8, <1>9 DEF Next

\* What the World holds as durable and what it has told the riders survives a
\* power loss at any moment: try_finalize_settlement announces only receipts
\* whose directory sync succeeded.
THEOREM NothingAheadOfDisk == Spec => []WorldNeverAhead
<1>1. AheadInv => WorldNeverAhead
  BY DEF AheadInv, RacesBacked, RaceBacked, PublishedBacked, Credited, WorldNeverAhead
<1> QED
  BY InitClaims, NextClaims, <1>1, PTL DEF Spec
--------------------------------------------------------------------------------
(* A reward the World still waits for is never refused as stale.           *)
(*                                                                         *)
(* An attempt that was given up may still run, and could leave a receipt   *)
(* newer than the one the World waits for: only the reward lanes exclude   *)
(* it.  A rider is in one unsettled race at a time and epochs grow, so no  *)
(* worker and no receipt of this run is newer than the race that owns the  *)
(* rider's lane; receipts of earlier runs are older by their generation.   *)

\* Race e does not overtake the race the rider's lane belongs to.
BehindLane(e, u) ==
    e < next_epoch /\ (reward_lanes[u] # 0 => e <= reward_lanes[u])

LanesType == reward_lanes \in [Users -> Nat] /\ \A u \in Users : reward_lanes[u] < next_epoch

RacesOwnLanes ==
    \A e \in DOMAIN races :
        e < next_epoch /\ \A u \in Racers(races[e]) : reward_lanes[u] = e

WorkersBehind == \A w \in workers : BehindLane(w.race, w.user)

ReceiptsBehind ==
    \A u \in Users :
        /\ profile[u].last[1] <= generation /\ stored[u].last[1] <= generation
        /\ profile[u].last[1] = generation => BehindLane(profile[u].last[2], u)

LanesInv == LanesType /\ RacesOwnLanes /\ WorkersBehind /\ ReceiptsBehind

\* The inductive invariant.
AcceptInv == AheadInv /\ LanesInv

--------------------------------------------------------------------------------
\* What happens to a settlement never changes who raced.
LEMMA SameRacers ==
    ASSUME NEW race \in Race
    PROVE  /\ \A u, reason : Racers(DeadLetter(race, u, reason)) = Racers(race)
           /\ \A phase : Racers([race EXCEPT !.phase = phase]) = Racers(race)
           /\ \A rewards : DOMAIN rewards = Racers(race) =>
                 Racers([race EXCEPT !.rewards = rewards]) = Racers(race)
           /\ \A u : Racers(AfterFailure(race, u)) = Racers(race)
           /\ \A riders : Racers(Expired(race, riders)) = Racers(race)
<1>1. ASSUME NEW r, r.rewards = race.rewards PROVE Racers(r) = Racers(race)
  BY <1>1 DEF Racers
<1>2. ASSUME NEW u, NEW reason PROVE Racers(DeadLetter(race, u, reason)) = Racers(race)
  BY DEF DeadLetter, Race, Racers
<1>3. ASSUME NEW phase PROVE Racers([race EXCEPT !.phase = phase]) = Racers(race)
  BY DEF Race, Racers
<1>4. ASSUME NEW rewards, DOMAIN rewards = Racers(race)
      PROVE  Racers([race EXCEPT !.rewards = rewards]) = Racers(race)
  BY <1>4 DEF Race, Racers
<1>5. ASSUME NEW u PROVE Racers(AfterFailure(race, u)) = Racers(race)
  <2>1. race.rewards \in [Racers(race) -> Status]
    BY RaceType
  <2>2. Racers([race EXCEPT !.rewards[u] = Queued(@.failures + 1)]) = Racers(race)
    BY <2>1 DEF Race, Racers
  <2> QED
    BY <1>2, <2>2 DEF AfterFailure
<1>6. ASSUME NEW riders PROVE Racers(Expired(race, riders)) = Racers(race)
  <2> DEFINE rewards == [u \in Racers(race) |->
                  IF u \in riders /\ race.rewards[u].failures + 1 < MaxFailures
                  THEN Queued(race.rewards[u].failures + 1) ELSE race.rewards[u]]
             kept == [race EXCEPT !.rewards = rewards]
  <2>1. DOMAIN rewards = Racers(race)
    OBVIOUS
  <2>2. \A u : Racers(DeadLetter(kept, u, "persistence")) = DOMAIN rewards
    BY DEF DeadLetter, Race, Racers
  <2>3. Racers(kept) = Racers(race)
    BY <1>4, <2>1
  <2> HIDE DEF rewards
  <2> QED
    BY <2>1, <2>2, <2>3 DEF Expired, rewards
<1> QED
  BY <1>2, <1>3, <1>4, <1>5, <1>6

LEMMA OutcomeRacers ==
    ASSUME AheadInv, NEW w \in workers, Current(w), NEW next \in Outcomes(w)
    PROVE  Racers(next) = Racers(races[w.race])
<1> DEFINE race == races[w.race]
<1>1. race \in Race
  BY DEF AheadInv, RacesBacked, IsRaces, Current, Rewards
<1>2. ASSUME next \in AfterReceipt(race, w.user) PROVE Racers(next) = Racers(race)
  <2> DEFINE u == w.user
             rewards == [race.rewards EXCEPT ![u] = Durable]
             done == [race EXCEPT !.rewards = rewards]
  <2>1. [race EXCEPT !.rewards[u] = Durable] = done
    BY <1>1 DEF Race
  <2>2. DOMAIN rewards = Racers(race)
    BY <1>1, RaceType
  <2>3. /\ Racers(done) = Racers(race)
        /\ Racers([done EXCEPT !.phase = "ready"]) = Racers(race)
        /\ Racers(DeadLetter(done, NoUser, "terminal")) = Racers(race)
    <3> HIDE DEF rewards
    <3> QED
      BY <1>1, <2>2 DEF Race, Racers, DeadLetter
  <2>4. next \in {done, [done EXCEPT !.phase = "ready"], DeadLetter(done, NoUser, "terminal")}
    BY <1>2, <2>1 DEF AfterReceipt
  <2> HIDE DEF done, rewards
  <2> QED
    BY <2>3, <2>4
<1>3. \/ next = AfterFailure(race, w.user)
      \/ next \in AfterReceipt(race, w.user)
      \/ next = DeadLetter(race, w.user, "persistence")
  BY DEF Outcomes
<1> QED
  BY <1>1, <1>2, <1>3, SameRacers

--------------------------------------------------------------------------------
(* Steps.                                                                   *)

\* What the invariants say of the types of what the lanes compare.
LEMMA LaneTypes ==
    ASSUME AheadInv
    PROVE  /\ generation \in Nat /\ next_epoch \in Nat \ {0}
           /\ DOMAIN races \subseteq Epochs /\ races \in [DOMAIN races -> Race]
           /\ \A w \in workers : w.race \in Nat /\ w.user \in Users
           /\ \A e \in DOMAIN races : e \in Nat /\ Racers(races[e]) \subseteq Users
           /\ \A u \in Users : /\ profile[u].last[1] \in Nat /\ profile[u].last[2] \in Nat
                               /\ stored[u].last[1] \in Nat /\ stored[u].last[2] \in Nat
<1> USE RewardConstants
<1>1. generation \in Nat /\ workers \subseteq Job
  BY DEF AheadInv, ReceiptsInv, ReceiptsType
<1>2. /\ next_epoch \in Nat \ {0} /\ DOMAIN races \subseteq Epochs
      /\ races \in [DOMAIN races -> Race]
  BY DEF AheadInv, EpochsLeft, RacesBacked, IsRaces
<1>3. \A w \in workers : w.race \in Nat /\ w.user \in Users
  BY <1>1 DEF Job, Epochs
<1>4. \A e \in DOMAIN races : e \in Nat /\ Racers(races[e]) \subseteq Users
  BY <1>2, RaceType DEF Epochs
<1>5. ASSUME NEW p \in Profile PROVE p.last[1] \in Nat /\ p.last[2] \in Nat
  <2>1. p.last \in Keys \cup {NoKey}
    BY DEF Profile
  <2> QED
    BY <2>1 DEF Keys, NoKey, Epochs
<1>6. \A u \in Users : profile[u] \in Profile /\ stored[u] \in Profile
  BY DEF AheadInv, ReceiptsInv, ReceiptsType
<1> QED
  BY <1>1, <1>2, <1>3, <1>4, <1>5, <1>6

\* A step that leaves the lanes alone: each worker continues one that was
\* there or works for a race in progress, and each receipt is a worker's.
LEMMA LanesKept ==
    ASSUME AcceptInv, AheadInv', UNCHANGED <<generation, next_epoch, reward_lanes>>,
           DOMAIN races' = DOMAIN races,
           \A e \in DOMAIN races : Racers(races'[e]) = Racers(races[e]),
           \A w \in workers' :
              \/ \E v \in workers : v.race = w.race /\ v.user = w.user
              \/ w.race \in DOMAIN races /\ w.user \in Racers(races[w.race]),
           \A u \in Users :
              \/ profile'[u].last = profile[u].last
              \/ \E w \in workers : w.user = u /\ profile'[u].last = Key(w.race),
           \A u \in Users : stored'[u].last \in {stored[u].last, profile'[u].last}
    PROVE  LanesInv'
<1>1. LanesType'
  BY DEF AcceptInv, LanesInv, LanesType
<1>2. RacesOwnLanes'
  <2>1. \A e \in DOMAIN races' : Racers(races'[e]) = Racers(races[e])
    OBVIOUS
  <2> QED
    BY <2>1 DEF AcceptInv, LanesInv, RacesOwnLanes, Racers
<1>3. ASSUME NEW e, NEW u, BehindLane(e, u) PROVE BehindLane(e, u)'
  BY <1>3 DEF BehindLane
<1>4. ASSUME NEW w \in workers' PROVE BehindLane(w.race, w.user)
  <2>1. CASE \E v \in workers : v.race = w.race /\ v.user = w.user
    BY <2>1 DEF AcceptInv, LanesInv, WorkersBehind
  <2>2. CASE w.race \in DOMAIN races /\ w.user \in Racers(races[w.race])
    <3>1. w.race < next_epoch /\ reward_lanes[w.user] = w.race /\ w.race \in Nat
      BY <2>2, LaneTypes DEF AcceptInv, LanesInv, RacesOwnLanes
    <3> QED
      BY <3>1 DEF BehindLane
  <2> QED
    BY <2>1, <2>2
<1>5. WorkersBehind'
  BY <1>3, <1>4 DEF WorkersBehind
<1>6. ASSUME NEW u \in Users
      PROVE  /\ profile'[u].last[1] <= generation
             /\ profile'[u].last[1] = generation => BehindLane(profile'[u].last[2], u)
  <2>1. CASE profile'[u].last = profile[u].last
    BY <2>1 DEF AcceptInv, LanesInv, ReceiptsBehind
  <2>2. ASSUME NEW w \in workers, w.user = u, profile'[u].last = Key(w.race)
        PROVE  /\ profile'[u].last[1] <= generation /\ BehindLane(profile'[u].last[2], u)
    <3>1. profile'[u].last[1] = generation /\ profile'[u].last[2] = w.race
      BY <2>2 DEF Key
    <3> QED
      BY <2>2, <3>1, LaneTypes DEF AcceptInv, LanesInv, WorkersBehind
  <2> QED
    BY <2>1, <2>2
<1>7. \A u \in Users : stored'[u].last[1] <= generation
  BY <1>6 DEF AcceptInv, LanesInv, ReceiptsBehind
<1>8. ReceiptsBehind'
  BY <1>3, <1>6, <1>7 DEF ReceiptsBehind
<1> QED
  BY <1>1, <1>2, <1>5, <1>8 DEF LanesInv

\* A race that is over gives its lanes back; no other race owns them.
LEMMA LanesReleased ==
    ASSUME AcceptInv, NEW e \in DOMAIN races, races' = Remaining(e),
           reward_lanes' = Released(e),
           UNCHANGED <<generation, next_epoch, workers, profile, stored>>
    PROVE  LanesInv'
<1> USE DEF AcceptInv, LanesInv
<1>1. /\ reward_lanes \in [Users -> Nat] /\ next_epoch \in Nat \ {0} /\ e \in Nat \ {0}
      /\ \A u \in Users : reward_lanes[u] < next_epoch
  BY LaneTypes DEF LanesType, Epochs
<1>2. /\ reward_lanes' \in [Users -> Nat]
      /\ \A u \in Users : reward_lanes'[u] \in {0, reward_lanes[u]}
      /\ \A u \in Users : reward_lanes[u] # e => reward_lanes'[u] = reward_lanes[u]
  BY <1>1 DEF Released
<1>3. LanesType'
  BY <1>1, <1>2 DEF LanesType
<1>4. ASSUME NEW d \in DOMAIN races'
      PROVE  d < next_epoch /\ \A u \in Racers(races'[d]) : reward_lanes'[u] = d
  <2>1. d \in DOMAIN races /\ d # e /\ races'[d] = races[d]
    BY DEF Remaining
  <2>2. d < next_epoch /\ \A u \in Racers(races[d]) : reward_lanes[u] = d /\ u \in Users
    BY <2>1, LaneTypes DEF RacesOwnLanes
  <2> QED
    BY <1>2, <2>1, <2>2
<1>5. RacesOwnLanes'
  BY <1>4 DEF RacesOwnLanes, Racers
<1>6. ASSUME NEW d, NEW u \in Users, BehindLane(d, u) PROVE BehindLane(d, u)'
  BY <1>2, <1>6 DEF BehindLane
<1>7. WorkersBehind'
  BY <1>6, LaneTypes DEF WorkersBehind
<1>8. ReceiptsBehind'
  BY <1>6 DEF ReceiptsBehind
<1> QED
  BY <1>3, <1>5, <1>7, <1>8

\* A new race is newer than everything this run has seen, and takes free lanes.
LEMMA LanesTaken ==
    ASSUME AcceptInv, NEW racers \in SUBSET Users \ {{}}, StartRace(racers)
    PROVE  LanesInv'
<1> USE DEF AcceptInv, LanesInv
<1>1. /\ reward_lanes \in [Users -> Nat] /\ next_epoch \in Nat \ {0}
      /\ \A u \in Users : reward_lanes[u] < next_epoch
  BY LaneTypes DEF LanesType
<1>2. /\ next_epoch' = next_epoch + 1
      /\ reward_lanes' = [u \in Users |-> IF u \in racers THEN next_epoch
                                          ELSE reward_lanes[u]]
      /\ DOMAIN races' = DOMAIN races \cup {next_epoch}
      /\ \A d \in DOMAIN races' :
            Racers(races'[d]) = IF d = next_epoch THEN racers ELSE Racers(races[d])
      /\ \A u \in racers : reward_lanes[u] = 0
      /\ UNCHANGED <<generation, workers, profile, stored>>
  BY DEF StartRace, LanesFree, Racers
<1>3. /\ reward_lanes' \in [Users -> Nat]
      /\ \A u \in racers : reward_lanes'[u] = next_epoch
      /\ \A u \in Users \ racers : reward_lanes'[u] = reward_lanes[u]
  BY <1>1, <1>2
<1>4. LanesType'
  BY <1>1, <1>2, <1>3 DEF LanesType
<1>5. ASSUME NEW d \in DOMAIN races'
      PROVE  d < next_epoch' /\ \A u \in Racers(races'[d]) : reward_lanes'[u] = d
  <2>1. CASE d = next_epoch
    BY <1>1, <1>2, <1>3, <2>1
  <2>2. CASE d # next_epoch
    <3>1. d \in DOMAIN races /\ Racers(races'[d]) = Racers(races[d])
      BY <1>2, <2>2
    <3>2. d \in Nat \ {0} /\ d < next_epoch
      BY <3>1, LaneTypes DEF RacesOwnLanes, Epochs
    <3>3. \A u \in Racers(races[d]) : reward_lanes[u] = d /\ u \in Users
      BY <3>1, LaneTypes DEF RacesOwnLanes
    <3>4. \A u \in Racers(races[d]) : u \notin racers
      BY <1>2, <3>2, <3>3
    <3> QED
      BY <1>1, <1>2, <1>3, <3>1, <3>2, <3>3, <3>4
  <2> QED
    BY <2>1, <2>2
<1>6. RacesOwnLanes'
  BY <1>5 DEF RacesOwnLanes, Racers
<1>7. ASSUME NEW d \in Nat, NEW u \in Users, BehindLane(d, u) PROVE BehindLane(d, u)'
  BY <1>1, <1>2, <1>3, <1>7 DEF BehindLane
<1>8. WorkersBehind'
  BY <1>2, <1>7, LaneTypes DEF WorkersBehind
<1>9. ReceiptsBehind'
  BY <1>2, <1>7, LaneTypes DEF ReceiptsBehind
<1> QED
  BY <1>4, <1>6, <1>8, <1>9

\* A new run has a generation above every receipt.
LEMMA LanesOfNewRun ==
    ASSUME AcceptInv, Restart \/ PowerLoss
    PROVE  LanesInv'
<1> USE DEF AcceptInv, LanesInv
<1>1. /\ generation' = generation + 1 /\ next_epoch' = 1 /\ races' = << >>
      /\ workers' = {} /\ reward_lanes' = [u \in Users |-> 0]
  BY DEF Restart, PowerLoss, NextRun
<1>2. LanesType' /\ RacesOwnLanes' /\ WorkersBehind'
  BY <1>1 DEF LanesType, RacesOwnLanes, WorkersBehind
<1>3. ASSUME NEW u \in Users
      PROVE  profile'[u] \in {profile[u], stored[u]} /\ stored'[u] \in {profile[u], stored[u]}
  <2>1. profile \in [Users -> Profile] /\ stored \in [Users -> Profile]
    BY DEF AheadInv, ReceiptsInv, ReceiptsType
  <2> QED
    BY <2>1 DEF Restart, PowerLoss
<1>4. ASSUME NEW u \in Users
      PROVE  profile'[u].last[1] < generation' /\ stored'[u].last[1] < generation'
             /\ profile'[u].last[1] \in Nat /\ stored'[u].last[1] \in Nat
             /\ generation' \in Nat
  BY <1>1, <1>3, LaneTypes DEF ReceiptsBehind
<1>5. ReceiptsBehind'
  <2>1. ASSUME NEW u \in Users
        PROVE  /\ profile'[u].last[1] <= generation' /\ stored'[u].last[1] <= generation'
               /\ profile'[u].last[1] # generation'
    BY <1>4
  <2> QED
    BY <2>1 DEF ReceiptsBehind
<1> QED
  BY <1>2, <1>5

LEMMA RaceLanes ==
    ASSUME AcceptInv, AheadInv', NEW e \in DOMAIN races, RaceStep(e)
    PROVE  LanesInv'
<1>1. races[e] \in Race
  BY LaneTypes DEF AcceptInv
<1>2. CASE AbortLoading(e)
  BY <1>2, LanesReleased DEF AbortLoading
<1>3. CASE Finalize(e)
  BY <1>3, LanesReleased DEF Finalize
<1>4. ASSUME NEW next, Racers(next) = Racers(races[e]), Becomes(e, next),
             UNCHANGED <<generation, workers, profile, stored, published>>
      PROVE  LanesInv'
  <2>1. /\ races' = [races EXCEPT ![e] = next]
        /\ UNCHANGED <<next_epoch, reward_lanes>>
    BY <1>4 DEF Becomes
  <2>2. races \in [DOMAIN races -> Race]
    BY LaneTypes DEF AcceptInv
  <2>3. /\ DOMAIN races' = DOMAIN races
        /\ \A d \in DOMAIN races : Racers(races'[d]) = Racers(races[d])
    BY <1>4, <2>1, <2>2
  <2> QED
    BY <1>4, <2>1, <2>3, LanesKept
<1>5. CASE Launch(e)
  BY <1>1, <1>4, <1>5, SameRacers DEF Launch
<1>6. CASE BeginPersistence(e)
  BY <1>1, <1>4, <1>6, SameRacers DEF BeginPersistence
<1>7. CASE FinalizeFails(e)
  BY <1>1, <1>4, <1>7, SameRacers DEF FinalizeFails
<1>8. CASE RetryDeadLetter(e)
  <2> DEFINE rewards == [u \in Racers(races[e]) |->
                 IF races[e].rewards[u] = Durable THEN Durable ELSE Queued(0)]
             next == [races[e] EXCEPT !.phase = "persisting", !.failed = NoUser,
                                      !.reason = "none", !.rewards = rewards]
  <2>1. Racers(next) = Racers(races[e])
    <3>1. DOMAIN rewards = Racers(races[e])
      OBVIOUS
    <3> HIDE DEF rewards
    <3> QED
      BY <1>1, <3>1 DEF Race, Racers
  <2>2. Becomes(e, next) /\ UNCHANGED <<generation, workers, profile, stored, published>>
    BY <1>8 DEF RetryDeadLetter
  <2> HIDE DEF next
  <2> QED
    BY <1>4, <2>1, <2>2
<1> QED
  BY <1>2, <1>3, <1>5, <1>6, <1>7, <1>8 DEF RaceStep

\* A poll starts workers only for the racers of races in progress.
LEMMA PollLanes == ASSUME AcceptInv, AheadInv', Poll PROVE LanesInv'
<1>1. \A e \in DOMAIN races : races[e] \in Race
  BY LaneTypes DEF AcceptInv
<1>2. ASSUME UNCHANGED <<generation, next_epoch, reward_lanes, profile, stored>>,
             DOMAIN races' = DOMAIN races,
             \A e \in DOMAIN races : Racers(races'[e]) = Racers(races[e]),
             \A w \in workers' : w \in workers
                \/ (w.race \in DOMAIN races /\ w.user \in Racers(races[w.race]))
      PROVE  LanesInv'
  BY <1>2, LanesKept
<1>3. PICK expired \in SUBSET Rewards("in_flight") :
        \/ PollExpires(expired)
        \/ \E due \in SUBSET Rewards("queued") : PollIssues(expired, due)
        \/ \E r \in Rewards("queued") : PollExhausted(expired, r)
  BY DEF Poll
<1> DEFINE after(e) == Expired(races[e], Riders(expired, e))
<1>4. ASSUME NEW e \in DOMAIN races
      PROVE  after(e) \in Race /\ Racers(after(e)) = Racers(races[e])
  BY <1>1, ExpiryClaims, SameRacers DEF AcceptInv, Sound
<1>5. CASE PollExpires(expired)
  <2>1. /\ races' = [e \in DOMAIN races |-> after(e)]
        /\ UNCHANGED <<generation, next_epoch, reward_lanes, workers, profile, stored>>
    BY <1>5 DEF PollExpires
  <2> HIDE DEF after
  <2> QED
    BY <1>2, <1>4, <2>1
<1>6. ASSUME NEW due \in SUBSET Rewards("queued"), PollIssues(expired, due)
      PROVE  LanesInv'
  <2>1. PICK id \in [due -> next_attempt .. next_attempt + Cardinality(due) - 1] :
          /\ races' = [e \in DOMAIN races |->
               LET race == after(e)
               IN  [race EXCEPT !.rewards = [u \in Racers(race) |->
                      IF <<e, u>> \in due
                      THEN InFlight(race.rewards[u].failures, id[<<e, u>>])
                      ELSE race.rewards[u]]]]
          /\ workers' = workers \cup
               {[race |-> r[1], user |-> r[2], attempt |-> id[r], stage |-> "waiting"] :
                  r \in due}
    BY <1>6 DEF PollIssues
  <2>2. UNCHANGED <<generation, next_epoch, reward_lanes, profile, stored>>
    BY <1>6 DEF PollIssues
  <2>3. ASSUME NEW w \in workers', w \notin workers
        PROVE  w.race \in DOMAIN races /\ w.user \in Racers(races[w.race])
    <3>1. PICK r \in due : w.race = r[1] /\ w.user = r[2]
      BY <2>1, <2>3
    <3> QED
      BY <3>1 DEF Rewards
  <2>4. ASSUME NEW e \in DOMAIN races PROVE Racers(races'[e]) = Racers(races[e])
    <3> DEFINE race == after(e)
               rewards == [u \in Racers(race) |->
                             IF <<e, u>> \in due
                             THEN InFlight(race.rewards[u].failures, id[<<e, u>>])
                             ELSE race.rewards[u]]
    <3>1. races'[e] = [race EXCEPT !.rewards = rewards]
      BY <2>1
    <3>2. race \in Race /\ Racers(race) = Racers(races[e])
      BY <1>4
    <3>3. DOMAIN rewards = Racers(race)
      OBVIOUS
    <3> HIDE DEF race, rewards, after
    <3> QED
      BY <3>1, <3>2, <3>3, SameRacers
  <2>5. DOMAIN races' = DOMAIN races
    BY <2>1
  <2> QED
    BY <1>2, <2>2, <2>3, <2>4, <2>5
<1>7. ASSUME NEW r \in Rewards("queued"), PollExhausted(expired, r)
      PROVE  LanesInv'
  <2>1. /\ races' = [e \in DOMAIN races |->
                       IF e = r[1] THEN DeadLetter(after(e), r[2], "terminal") ELSE after(e)]
        /\ UNCHANGED <<generation, next_epoch, reward_lanes, workers, profile, stored>>
    BY <1>7 DEF PollExhausted
  <2> HIDE DEF after
  <2>2. ASSUME NEW e \in DOMAIN races PROVE Racers(races'[e]) = Racers(races[e])
    BY <1>4, <2>1, SameRacers
  <2> QED
    BY <1>2, <2>1, <2>2
<1> QED
  BY <1>3, <1>5, <1>6, <1>7

LEMMA CompleteLanes ==
    ASSUME AcceptInv, AheadInv', NEW w \in workers, Complete(w)
    PROVE  LanesInv'
<1>1. /\ workers' \subseteq workers
      /\ UNCHANGED <<generation, next_epoch, reward_lanes, profile, stored>>
  BY DEF Complete
<1>2. CASE Current(w)
  <2>1. PICK next \in Outcomes(w) : races' = [races EXCEPT ![w.race] = next]
    BY <1>2 DEF Complete
  <2>2. Racers(next) = Racers(races[w.race])
    BY <1>2, OutcomeRacers DEF AcceptInv
  <2>3. races \in [DOMAIN races -> Race]
    BY LaneTypes DEF AcceptInv
  <2>4. /\ DOMAIN races' = DOMAIN races
        /\ \A e \in DOMAIN races : Racers(races'[e]) = Racers(races[e])
    BY <2>1, <2>2, <2>3
  <2> QED
    BY <1>1, <2>4, LanesKept
<1>3. CASE ~Current(w)
  <2>1. races' = races
    BY <1>3 DEF Complete
  <2> QED
    BY <1>1, <2>1, LanesKept
<1> QED
  BY <1>2, <1>3

\* Whatever a worker does, it leaves at most the receipt of its own race.
LEMMA JobLanes ==
    ASSUME AcceptInv, AheadInv', NEW w \in workers, JobStep(w)
    PROVE  LanesInv'
<1>1. UNCHANGED <<generation, next_epoch, reward_lanes, races>>
  BY DEF JobStep, AcquireLane, JobFails, ApplyReward, RejectReward, world
<1>2. w \in Job /\ w.user \in Users
  BY DEF AcceptInv, AheadInv, ReceiptsInv, ReceiptsType, Job
<1>3. ASSUME NEW stage, Moves(w, stage), NEW v \in workers'
      PROVE  \E x \in workers : x.race = v.race /\ x.user = v.user
  <2>1. /\ [w EXCEPT !.stage = stage].race = w.race
        /\ [w EXCEPT !.stage = stage].user = w.user
    BY <1>2 DEF Job
  <2> QED
    BY <1>3, <2>1 DEF Moves
<1>4. \E stage : Moves(w, stage)
  BY DEF JobStep, AcquireLane, JobFails, ApplyReward, RejectReward
<1>5. /\ profile \in [Users -> Profile] /\ stored \in [Users -> Profile]
      /\ profile' \in [Users -> Profile]
  BY DEF AcceptInv, AheadInv, ReceiptsInv, ReceiptsType
<1>6. CASE AcquireLane(w) \/ JobFails(w)
  <2>1. UNCHANGED <<profile, stored>>
    BY <1>6 DEF AcquireLane, JobFails
  <2> QED
    BY <1>1, <1>3, <1>4, <2>1, LanesKept
<1>7. CASE ApplyReward(w)
  <2>1. /\ profile' = [profile EXCEPT ![w.user] = Credit(profile[w.user], Key(w.race))]
        /\ stored' \in {stored, [stored EXCEPT ![w.user] = profile'[w.user]]}
    BY <1>7 DEF ApplyReward
  <2>2. Credit(profile[w.user], Key(w.race)).last = Key(w.race)
    BY DEF Credit
  <2>3. ASSUME NEW u \in Users
        PROVE  /\ \/ profile'[u].last = profile[u].last
                  \/ w.user = u /\ profile'[u].last = Key(w.race)
               /\ stored'[u].last \in {stored[u].last, profile'[u].last}
    BY <1>2, <1>5, <2>1, <2>2
  <2> QED
    BY <1>1, <1>3, <1>4, <2>3, LanesKept
<1>8. CASE RejectReward(w)
  <2>1. profile' = profile /\ stored' \in {stored, [stored EXCEPT ![w.user] = profile[w.user]]}
    BY <1>8 DEF RejectReward
  <2>2. \A u \in Users : stored'[u].last \in {stored[u].last, profile'[u].last}
    BY <1>2, <1>5, <2>1
  <2> QED
    BY <1>1, <1>3, <1>4, <2>1, <2>2, LanesKept
<1> QED
  BY <1>6, <1>7, <1>8 DEF JobStep

LEMMA InitAccept == Init => AcceptInv
<1> SUFFICES ASSUME Init PROVE AcceptInv
  OBVIOUS
<1>1. AheadInv
  BY InitClaims
<1>2. LanesType /\ RacesOwnLanes /\ WorkersBehind
  BY DEF Init, LanesType, RacesOwnLanes, WorkersBehind
<1>3. ReceiptsBehind
  BY DEF Init, ReceiptsBehind, Blank, NoKey
<1> QED
  BY <1>1, <1>2, <1>3 DEF AcceptInv, LanesInv

LEMMA NextAccept == AcceptInv /\ [Next]_vars => AcceptInv'
<1> SUFFICES ASSUME AcceptInv, [Next]_vars PROVE AcceptInv'
  OBVIOUS
<1>1. AheadInv'
  BY NextClaims DEF AcceptInv
<1>2. SUFFICES LanesInv'
  BY <1>1 DEF AcceptInv
<1>3. ASSUME UNCHANGED <<generation, next_epoch, reward_lanes, races, workers,
                         profile, stored>>
      PROVE  LanesInv'
  BY <1>1, <1>3, LanesKept
<1>4. CASE UNCHANGED vars
  BY <1>3, <1>4 DEF vars, world
<1>5. CASE \E racers \in SUBSET Users \ {{}} : StartRace(racers)
  BY <1>5, LanesTaken
<1>6. CASE \E e \in DOMAIN races : RaceStep(e)
  BY <1>1, <1>6, RaceLanes
<1>7. CASE Poll
  BY <1>1, <1>7, PollLanes
<1>8. CASE \E w \in workers : JobStep(w) \/ Complete(w)
  BY <1>1, <1>8, JobLanes, CompleteLanes
<1>9. CASE PumpEnds
  BY <1>3, <1>9 DEF PumpEnds, world
<1>10. CASE Restart \/ PowerLoss
  BY <1>10, LanesOfNewRun
<1> QED
  BY <1>4, <1>5, <1>6, <1>7, <1>8, <1>9, <1>10 DEF Next

\* apply_race_reward_once never answers a reward the World still waits for
\* with StaleRunGeneration or StaleEpoch, however many given-up attempts run
\* late and however often the server was restarted.
THEOREM RewardsStayAcceptable == Spec => []CurrentRewardsAccepted
<1>1. ASSUME AcceptInv, NEW w \in workers, Current(w)
      PROVE  ~Rejects(profile[w.user], Key(w.race))
  <2> USE DEF AcceptInv, LanesInv
  <2>1. w.race \in DOMAIN races /\ w.user \in Racers(races[w.race])
    BY <1>1 DEF Current, Rewards
  <2>2. reward_lanes[w.user] = w.race /\ w.race \in Nat \ {0} /\ w.user \in Users
    BY <1>1, <2>1, LaneTypes DEF RacesOwnLanes, Epochs
  <2> DEFINE last == profile[w.user].last
  <2>3. /\ last[1] \in Nat /\ last[2] \in Nat /\ generation \in Nat
        /\ last[1] <= generation
        /\ last[1] = generation => last[2] <= w.race
    BY <1>1, <2>2, LaneTypes DEF ReceiptsBehind, BehindLane
  <2>4. Key(w.race)[1] = generation /\ Key(w.race)[2] = w.race
    BY DEF Key
  <2> HIDE DEF last
  <2>5. ~Older(Key(w.race), last)
    BY <2>2, <2>3, <2>4 DEF Older
  <2> QED
    BY <2>5 DEF Rejects, last
<1>2. AcceptInv => CurrentRewardsAccepted
  BY <1>1 DEF CurrentRewardsAccepted
<1> QED
  BY InitAccept, NextAccept, <1>2, PTL DEF Spec
--------------------------------------------------------------------------------
(* Types: failures and attempt numbers keep their bounds.                   *)

LEMMA StatusBounds ==
    /\ Durable \in Statuses /\ Queued(0) \in Statuses
    /\ \A f \in 0 .. MaxFailures : Queued(f) \in Statuses
    /\ \A f \in 0 .. MaxFailures, a \in Attempts : InFlight(f, a) \in Statuses
BY RewardConstants DEF Statuses, Queued, InFlight, Durable, Attempts

\* A record that is a race, within its bounds.
Bounded(race) == race \in Race /\ IsRace(race)

LEMMA BoundedRewards ==
    ASSUME NEW race, Bounded(race)
    PROVE  /\ race.rewards \in [Racers(race) -> Statuses] /\ Racers(race) \subseteq Users
           /\ \A u \in Racers(race) : race.rewards[u].failures \in 0 .. MaxFailures
<1>1. race.rewards \in [Racers(race) -> Statuses] /\ Racers(race) \subseteq Users
  BY DEF Bounded, IsRace, Racers
<1> QED
  BY <1>1 DEF Statuses

LEMMA OtherRewardsBounded ==
    ASSUME NEW race, Bounded(race), NEW rewards \in [Racers(race) -> Statuses]
    PROVE  Bounded([race EXCEPT !.rewards = rewards])
<1> DEFINE next == [race EXCEPT !.rewards = rewards]
<1>1. Racers(race) \subseteq Users /\ DOMAIN rewards = Racers(race)
  BY BoundedRewards
<1>2. rewards \in [Racers(race) -> Status]
  BY RewardConstants DEF Statuses, Status
<1>3. rewards \in Awards
  BY <1>1, <1>2, AwardsType
<1>4. race \in Race
  BY DEF Bounded
<1>5. /\ next \in Race /\ next.rewards = rewards /\ next.phase = race.phase
      /\ next.reason = race.reason /\ next.failed = race.failed
  BY <1>3, <1>4 DEF Race
<1> HIDE DEF next
<1>6. Bounded(next)
  BY <1>1, <1>5 DEF Bounded, IsRace
<1> QED
  BY <1>6 DEF next

LEMMA PhaseBounded ==
    ASSUME NEW race, Bounded(race), NEW phase \in Phases
    PROVE  Bounded([race EXCEPT !.phase = phase])
BY DEF Bounded, IsRace, Race

LEMMA DeadLetterBounded ==
    ASSUME NEW race, Bounded(race), NEW u \in Users \cup {NoUser}, NEW reason \in Reasons
    PROVE  Bounded(DeadLetter(race, u, reason))
BY DEF Bounded, IsRace, Race, DeadLetter, Phases

LEMMA AfterFailureBounded ==
    ASSUME NEW race, Bounded(race), NEW u \in Racers(race)
    PROVE  Bounded(AfterFailure(race, u))
<1> DEFINE f == race.rewards[u].failures
           rewards == [race.rewards EXCEPT ![u] = Queued(f + 1)]
<1>1. /\ race.rewards \in [Racers(race) -> Statuses] /\ u \in Users
      /\ f \in 0 .. MaxFailures
  BY BoundedRewards
<1>2. ASSUME ~(f + 1 >= MaxFailures) PROVE Bounded([race EXCEPT !.rewards = rewards])
  <2>1. f + 1 \in 0 .. MaxFailures
    BY <1>1, <1>2, RewardConstants
  <2>2. rewards \in [Racers(race) -> Statuses]
    BY <1>1, <2>1, StatusBounds
  <2> HIDE DEF rewards
  <2> QED
    BY <2>2, OtherRewardsBounded
<1>3. [race EXCEPT !.rewards[u] = Queued(@.failures + 1)] = [race EXCEPT !.rewards = rewards]
  BY DEF Bounded, Race
<1>4. Bounded(DeadLetter(race, u, "persistence"))
  BY <1>1, DeadLetterBounded DEF Reasons
<1> QED
  BY <1>2, <1>3, <1>4 DEF AfterFailure

LEMMA ExpiredBounded ==
    ASSUME NEW race, Bounded(race), NEW riders \in SUBSET Users
    PROVE  Bounded(Expired(race, riders))
<1> DEFINE rewards == [u \in Racers(race) |->
                IF u \in riders /\ race.rewards[u].failures + 1 < MaxFailures
                THEN Queued(race.rewards[u].failures + 1) ELSE race.rewards[u]]
           kept == [race EXCEPT !.rewards = rewards]
           spent == {u \in riders : race.rewards[u].failures + 1 >= MaxFailures}
<1>1. ASSUME NEW u \in Racers(race) PROVE rewards[u] \in Statuses
  <2>1. race.rewards[u] \in Statuses /\ race.rewards[u].failures \in 0 .. MaxFailures
    BY BoundedRewards
  <2>2. race.rewards[u].failures + 1 < MaxFailures =>
          race.rewards[u].failures + 1 \in 0 .. MaxFailures
    BY <2>1, RewardConstants
  <2> QED
    BY <2>1, <2>2, StatusBounds
<1>2. rewards \in [Racers(race) -> Statuses]
  BY <1>1
<1>3. Bounded(kept)
  <2> HIDE DEF rewards
  <2> QED
    BY <1>2, OtherRewardsBounded
<1>4. ASSUME spent # {}
      PROVE  Bounded(DeadLetter(kept, CHOOSE u \in spent : TRUE, "persistence"))
  <2>1. (CHOOSE u \in spent : TRUE) \in Users
    BY <1>4
  <2>2. "persistence" \in Reasons
    BY DEF Reasons
  <2> HIDE DEF kept, spent
  <2> QED
    BY <1>3, <2>1, <2>2, DeadLetterBounded
<1> QED
  BY <1>3, <1>4 DEF Expired

LEMMA OutcomesBounded ==
    ASSUME NEW w \in workers, Current(w), Bounded(races[w.race]), NEW next \in Outcomes(w)
    PROVE  Bounded(next)
<1> DEFINE race == races[w.race]
           u == w.user
<1>1. u \in Racers(race) /\ u \in Users
  BY DEF Current, Rewards
<1>2. ASSUME next \in AfterReceipt(race, u) PROVE Bounded(next)
  <2> DEFINE rewards == [race.rewards EXCEPT ![u] = Durable]
             done == [race EXCEPT !.rewards = rewards]
  <2>1. [race EXCEPT !.rewards[u] = Durable] = done
    BY DEF Bounded, Race
  <2>2. rewards \in [Racers(race) -> Statuses]
    BY BoundedRewards, StatusBounds
  <2>3. next \in {done, [done EXCEPT !.phase = "ready"], DeadLetter(done, NoUser, "terminal")}
    BY <1>2, <2>1 DEF AfterReceipt
  <2>4. Bounded(done)
    <3> HIDE DEF rewards, race
    <3> QED
      BY <2>2, OtherRewardsBounded DEF race
  <2>5. "ready" \in Phases /\ "terminal" \in Reasons /\ NoUser \in Users \cup {NoUser}
    BY DEF Phases, Reasons
  <2> HIDE DEF done
  <2>6. Bounded([done EXCEPT !.phase = "ready"])
    BY <2>4, <2>5, PhaseBounded
  <2>7. Bounded(DeadLetter(done, NoUser, "terminal"))
    BY <2>4, <2>5, DeadLetterBounded
  <2> QED
    BY <2>3, <2>4, <2>6, <2>7
<1>3. \/ next = AfterFailure(race, u)
      \/ next \in AfterReceipt(race, u)
      \/ next = DeadLetter(race, u, "persistence")
  BY DEF Outcomes
<1> HIDE DEF race, u
<1>4. Bounded(race) /\ "persistence" \in Reasons
  BY DEF race, Reasons
<1> QED
  BY <1>1, <1>2, <1>3, <1>4, AfterFailureBounded, DeadLetterBounded

--------------------------------------------------------------------------------
\* What TypeOK adds to the types the other invariants need.
RacesBounded == \A e \in DOMAIN races : Bounded(races[e])
CountersBounded == next_epoch <= MaxEpoch + 1 /\ next_attempt \in 1 .. MaxAttempt + 1

BoundsInv ==
    /\ RacesBounded /\ CountersBounded
    /\ workers \subseteq Worker
    /\ pump \in {"running", "failing", "stopped"}
    /\ published \subseteq Keys \X Users

LEMMA RaceBounds ==
    ASSUME AcceptInv, BoundsInv, NEW e \in DOMAIN races, RaceStep(e)
    PROVE  BoundsInv'
<1> DEFINE race == races[e]
<1>1. Bounded(race) /\ e \in Epochs
  BY LaneTypes DEF BoundsInv, RacesBounded, AcceptInv
<1>2. UNCHANGED <<generation, next_epoch, next_attempt, workers, pump>>
  BY DEF RaceStep, AbortLoading, Launch, BeginPersistence, Finalize, FinalizeFails,
         RetryDeadLetter, Becomes
<1>3. published' \subseteq Keys \X Users
  <2>1. Key(e) \in Keys
    BY <1>1 DEF AcceptInv, AheadInv, ReceiptsInv, ReceiptsType, Key, Keys
  <2>2. Racers(race) \subseteq Users
    BY <1>1, BoundedRewards
  <2>3. published' \subseteq published \cup ({Key(e)} \X Racers(race))
    BY DEF RaceStep, AbortLoading, Launch, BeginPersistence, Finalize, FinalizeFails,
           RetryDeadLetter
  <2> QED
    BY <2>1, <2>2, <2>3 DEF BoundsInv
<1>4. ASSUME RacesBounded' PROVE BoundsInv'
  BY <1>2, <1>3, <1>4 DEF BoundsInv, CountersBounded
<1>5. CASE races' = Remaining(e)
  BY <1>4, <1>5 DEF Remaining, BoundsInv, RacesBounded, Bounded, IsRace, Race, Awards,
                    Status, Statuses
<1>6. ASSUME NEW next, Bounded(next), Becomes(e, next) PROVE BoundsInv'
  <2>1. races' = [races EXCEPT ![e] = next] /\ races \in [DOMAIN races -> Race]
    BY <1>6, LaneTypes DEF Becomes, AcceptInv
  <2>2. \A d \in DOMAIN races' : Bounded(races'[d])
    BY <1>6, <2>1 DEF BoundsInv, RacesBounded
  <2>3. RacesBounded'
    BY <2>2 DEF RacesBounded, Bounded, IsRace, Race, Awards, Status, Statuses
  <2> QED
    BY <1>4, <2>3
<1>7. \A phase \in Phases : Bounded([race EXCEPT !.phase = phase])
  <2> HIDE DEF race
  <2> QED
    BY <1>1, PhaseBounded
<1>8. \A u \in Racers(race) \cup {NoUser} : Bounded(DeadLetter(race, u, "terminal"))
  <2>1. Racers(race) \subseteq Users /\ "terminal" \in Reasons
    BY <1>1, BoundedRewards DEF Reasons
  <2> HIDE DEF race
  <2> QED
    BY <1>1, <2>1, DeadLetterBounded
<1>9. CASE AbortLoading(e) \/ Finalize(e)
  BY <1>5, <1>9 DEF AbortLoading, Finalize
<1>10. CASE Launch(e)
  BY <1>6, <1>7, <1>10 DEF Launch, Phases
<1>11. CASE BeginPersistence(e)
  BY <1>6, <1>7, <1>8, <1>11 DEF BeginPersistence, Phases
<1>12. CASE FinalizeFails(e)
  BY <1>6, <1>8, <1>12 DEF FinalizeFails
<1>13. CASE RetryDeadLetter(e)
  <2> DEFINE rewards == [u \in Racers(race) |->
                 IF race.rewards[u] = Durable THEN Durable ELSE Queued(0)]
             again == [race EXCEPT !.phase = "persisting", !.failed = NoUser,
                                   !.reason = "none"]
  <2>1. Becomes(e, [again EXCEPT !.rewards = rewards])
    BY <1>1, <1>13 DEF RetryDeadLetter, Bounded, Race
  <2>2. Bounded(again) /\ Racers(again) = Racers(race)
    BY <1>1 DEF Bounded, IsRace, Race, Phases, Reasons, Racers
  <2>3. rewards \in [Racers(again) -> Statuses]
    BY <2>2, StatusBounds
  <2> HIDE DEF again, rewards
  <2> QED
    BY <1>6, <2>1, <2>2, <2>3, OtherRewardsBounded
<1> QED
  BY <1>9, <1>10, <1>11, <1>12, <1>13 DEF RaceStep

\* A batch takes as many numbers as it has rewards, all of them left.
LEMMA PollBounds == ASSUME AcceptInv, BoundsInv, Poll PROVE BoundsInv'
<1>1. UNCHANGED <<generation, next_epoch, pump, published>>
  BY DEF Poll, PollExpires, PollIssues, PollExhausted
<1>2. ASSUME \A e \in DOMAIN races' : Bounded(races'[e]),
             next_attempt' \in 1 .. MaxAttempt + 1, workers' \subseteq Worker
      PROVE  BoundsInv'
  BY <1>1, <1>2 DEF BoundsInv, CountersBounded, RacesBounded, Bounded, IsRace, Race,
                    Awards, Status, Statuses, Worker, Keys
<1>3. PICK expired \in SUBSET Rewards("in_flight") :
        \/ PollExpires(expired)
        \/ \E due \in SUBSET Rewards("queued") : PollIssues(expired, due)
        \/ \E r \in Rewards("queued") : PollExhausted(expired, r)
  BY DEF Poll
<1> DEFINE after(e) == Expired(races[e], Riders(expired, e))
<1>4. ASSUME NEW e \in DOMAIN races PROVE Bounded(after(e))
  <2>1. Riders(expired, e) \in SUBSET Users
    BY DEF Riders
  <2> QED
    BY <2>1, ExpiredBounded DEF BoundsInv, RacesBounded
<1>5. next_attempt \in 1 .. MaxAttempt + 1 /\ workers \subseteq Worker
  BY DEF BoundsInv, CountersBounded
<1>6. CASE PollExpires(expired)
  <2>1. races' = [e \in DOMAIN races |-> after(e)] /\ UNCHANGED <<next_attempt, workers>>
    BY <1>6 DEF PollExpires
  <2> HIDE DEF after
  <2> QED
    BY <1>2, <1>4, <1>5, <2>1
<1>7. ASSUME NEW due \in SUBSET Rewards("queued"), PollIssues(expired, due)
      PROVE  BoundsInv'
  <2> DEFINE size == Cardinality(due)
  <2>1. PICK id \in [due -> next_attempt .. next_attempt + size - 1] :
          /\ races' = [e \in DOMAIN races |->
               LET race == after(e)
               IN  [race EXCEPT !.rewards = [u \in Racers(race) |->
                      IF <<e, u>> \in due
                      THEN InFlight(race.rewards[u].failures, id[<<e, u>>])
                      ELSE race.rewards[u]]]]
          /\ workers' = workers \cup
               {[race |-> r[1], user |-> r[2], attempt |-> id[r], stage |-> "waiting"] :
                  r \in due}
    BY <1>7 DEF PollIssues
  <2>2. /\ next_attempt + size <= MaxAttempt + 1
        /\ next_attempt' = next_attempt + size
    BY <1>7 DEF PollIssues
  <2>3. size \in Nat
    <3>1. due \subseteq Epochs \X Users
      BY DEF Rewards
    <3>2. IsFiniteSet(Epochs) /\ IsFiniteSet(Users)
      BY RewardConstants, FS_Interval DEF Epochs
    <3>3. IsFiniteSet(Epochs \X Users)
      BY <3>2, FS_Product
    <3> QED
      BY <3>1, <3>3, FS_Subset, FS_CardinalityType
  <2> HIDE DEF size
  <2>4. next_attempt' \in 1 .. MaxAttempt + 1
    BY <1>5, <2>2, <2>3, RewardConstants
  <2>5. \A r \in due : id[r] \in Attempts
    BY <1>5, <2>1, <2>2, <2>3, RewardConstants DEF Attempts
  <2>6. workers' \subseteq Worker
    <3>1. \A r \in due : r[1] \in Epochs /\ r[2] \in Users
      BY DEF Rewards
    <3> QED
      BY <1>5, <2>1, <2>5, <3>1 DEF Worker
  <2>7. ASSUME NEW e \in DOMAIN races PROVE Bounded(races'[e])
    <3> DEFINE race == after(e)
               rewards == [u \in Racers(race) |->
                             IF <<e, u>> \in due
                             THEN InFlight(race.rewards[u].failures, id[<<e, u>>])
                             ELSE race.rewards[u]]
    <3>1. races'[e] = [race EXCEPT !.rewards = rewards]
      BY <2>1
    <3>2. Bounded(race)
      BY <1>4
    <3> HIDE DEF race, after
    <3>3. ASSUME NEW u \in Racers(race) PROVE rewards[u] \in Statuses
      <4>1. race.rewards[u] \in Statuses /\ race.rewards[u].failures \in 0 .. MaxFailures
        BY <3>2, BoundedRewards
      <4> QED
        BY <2>5, <4>1, StatusBounds
    <3>4. rewards \in [Racers(race) -> Statuses]
      BY <3>3
    <3> HIDE DEF rewards
    <3> QED
      BY <3>1, <3>2, <3>4, OtherRewardsBounded
  <2>8. DOMAIN races' = DOMAIN races
    BY <2>1
  <2> QED
    BY <1>2, <2>4, <2>6, <2>7, <2>8
<1>8. ASSUME NEW r \in Rewards("queued"), PollExhausted(expired, r)
      PROVE  BoundsInv'
  <2>1. /\ races' = [e \in DOMAIN races |->
                       IF e = r[1] THEN DeadLetter(after(e), r[2], "terminal") ELSE after(e)]
        /\ UNCHANGED <<next_attempt, workers>>
    BY <1>8 DEF PollExhausted
  <2>2. r[2] \in Users /\ "terminal" \in Reasons
    BY DEF Rewards, Reasons
  <2> HIDE DEF after
  <2>3. \A e \in DOMAIN races : Bounded(DeadLetter(after(e), r[2], "terminal"))
    BY <1>4, <2>2, DeadLetterBounded
  <2> QED
    BY <1>2, <1>4, <1>5, <2>1, <2>3
<1> QED
  BY <1>3, <1>6, <1>7, <1>8

LEMMA WorkerBounds ==
    ASSUME AcceptInv, BoundsInv, NEW w \in workers, JobStep(w) \/ Complete(w)
    PROVE  BoundsInv'
<1>1. UNCHANGED <<next_epoch, next_attempt, published>>
  BY DEF JobStep, AcquireLane, JobFails, ApplyReward, RejectReward, Complete, world
<1>2. w \in Worker /\ workers \subseteq Worker
  BY DEF BoundsInv
<1>3. pump' \in {"running", "failing", "stopped"}
  BY DEF JobStep, AcquireLane, JobFails, ApplyReward, RejectReward, Complete, BoundsInv
<1>4. workers' \subseteq Worker
  <2>1. CASE Complete(w)
    BY <1>2, <2>1 DEF Complete
  <2>2. CASE JobStep(w)
    <3>1. PICK stage \in {"waiting", "running"} \cup Results : Moves(w, stage)
      BY <2>2 DEF JobStep, AcquireLane, JobFails, ApplyReward, RejectReward, Report, Results
    <3>2. [w EXCEPT !.stage = stage] \in Worker
      BY <1>2 DEF Worker
    <3> QED
      BY <1>2, <3>1, <3>2 DEF Moves
  <2> QED
    BY <2>1, <2>2
<1>5. ASSUME \A e \in DOMAIN races' : Bounded(races'[e]) PROVE BoundsInv'
  BY <1>1, <1>3, <1>4, <1>5 DEF BoundsInv, CountersBounded, RacesBounded, Bounded, IsRace,
     Race, Awards, Status, Statuses, Worker, Keys
<1>6. CASE races' = races
  BY <1>5, <1>6 DEF BoundsInv, RacesBounded
<1>7. ASSUME Current(w), NEW next \in Outcomes(w), races' = [races EXCEPT ![w.race] = next]
      PROVE  BoundsInv'
  <2>1. w.race \in DOMAIN races /\ races \in [DOMAIN races -> Race]
    BY <1>7, LaneTypes DEF AcceptInv, Current, Rewards
  <2>2. Bounded(next)
    BY <1>7, <2>1, OutcomesBounded DEF BoundsInv, RacesBounded
  <2>3. \A e \in DOMAIN races' : Bounded(races'[e])
    BY <1>7, <2>1, <2>2 DEF BoundsInv, RacesBounded
  <2> QED
    BY <1>5, <2>3
<1>8. CASE JobStep(w)
  BY <1>6, <1>8 DEF JobStep, AcquireLane, JobFails, ApplyReward, RejectReward, world
<1>9. CASE Complete(w)
  BY <1>6, <1>7, <1>9 DEF Complete
<1> QED
  BY <1>8, <1>9

LEMMA NextBounds == AcceptInv /\ BoundsInv /\ [Next]_vars => BoundsInv'
<1> SUFFICES ASSUME AcceptInv, BoundsInv, [Next]_vars PROVE BoundsInv'
  OBVIOUS
<1>1. ASSUME UNCHANGED <<next_epoch, next_attempt, races, workers, published>>,
             pump' \in {"running", "failing", "stopped"}
      PROVE  BoundsInv'
  BY <1>1 DEF BoundsInv, CountersBounded, RacesBounded
<1>2. CASE UNCHANGED vars
  BY <1>1, <1>2 DEF vars, world, BoundsInv
<1>3. ASSUME NEW racers \in SUBSET Users \ {{}}, StartRace(racers) PROVE BoundsInv'
  <2> DEFINE first == [phase |-> "loading", reason |-> "none", failed |-> NoUser,
                       rewards |-> [u \in racers |-> Queued(0)]]
  <2>1. first \in Race /\ IsRace(first)
    <3>1. first.rewards \in Awards
      BY StatusType, AwardsType
    <3>2. first.rewards \in [racers -> Statuses]
      BY StatusBounds
    <3> QED
      BY <3>1, <3>2 DEF Race, IsRace, Phases, Reasons
  <2>2. /\ next_epoch <= MaxEpoch /\ next_epoch' = next_epoch + 1
        /\ races' = [e \in DOMAIN races \cup {next_epoch} |->
                       IF e = next_epoch THEN first ELSE races[e]]
        /\ UNCHANGED <<next_attempt, workers, pump, published>>
    BY <1>3 DEF StartRace
  <2> HIDE DEF first
  <2>3. \A e \in DOMAIN races' : Bounded(races'[e])
    BY <2>1, <2>2 DEF BoundsInv, RacesBounded, Bounded
  <2>4. RacesBounded'
    BY <2>3 DEF RacesBounded, Bounded, IsRace, Race, Awards, Status, Statuses
  <2>5. CountersBounded'
    BY <2>2, LaneTypes, RewardConstants DEF BoundsInv, CountersBounded, AcceptInv
  <2> QED
    BY <2>2, <2>4, <2>5 DEF BoundsInv
<1>4. CASE \E e \in DOMAIN races : RaceStep(e)
  BY <1>4, RaceBounds
<1>5. CASE Poll
  BY <1>5, PollBounds
<1>6. CASE \E w \in workers : JobStep(w) \/ Complete(w)
  BY <1>6, WorkerBounds
<1>7. CASE PumpEnds
  BY <1>1, <1>7 DEF PumpEnds, world
<1>8. CASE Restart \/ PowerLoss
  <2>1. /\ next_epoch' = 1 /\ next_attempt' = 1 /\ races' = << >> /\ workers' = {}
        /\ pump' = "running" /\ published' = published
    BY <1>8 DEF Restart, PowerLoss, NextRun
  <2> QED
    BY <2>1, RewardConstants DEF BoundsInv, CountersBounded, RacesBounded
<1> QED
  BY <1>2, <1>3, <1>4, <1>5, <1>6, <1>7, <1>8 DEF Next

\* RewardAttemptId, GlobalRaceEpoch and the failure count of a reward never
\* leave the ranges the World checks them against.
THEOREM RewardTyped == Spec => []TypeOK
<1>1. Init => BoundsInv
  BY RewardConstants DEF Init, BoundsInv, RacesBounded, CountersBounded
<1>2. AcceptInv /\ BoundsInv => TypeOK
  <2> SUFFICES ASSUME AcceptInv, BoundsInv PROVE TypeOK
    OBVIOUS
  <2>1. /\ generation \in 1 .. MaxGeneration
        /\ profile \in [Users -> Profile] /\ stored \in [Users -> Profile]
    BY DEF AcceptInv, AheadInv, ReceiptsInv, ReceiptsType
  <2>2. next_epoch \in 1 .. MaxEpoch + 1 /\ DOMAIN races \subseteq Epochs
    BY LaneTypes, RewardConstants DEF AcceptInv, BoundsInv, CountersBounded
  <2>3. \A e \in DOMAIN races : IsRace(races[e])
    BY DEF BoundsInv, RacesBounded, Bounded
  <2>4. reward_lanes \in [Users -> 0 .. MaxEpoch]
    <3>1. reward_lanes \in [Users -> Nat] /\ \A u \in Users : reward_lanes[u] < next_epoch
      BY DEF AcceptInv, LanesInv, LanesType
    <3>2. \A u \in Users : reward_lanes[u] \in 0 .. MaxEpoch
      BY <2>2, <3>1, RewardConstants
    <3> QED
      BY <3>1, <3>2
  <2> QED
    BY <2>1, <2>2, <2>3, <2>4 DEF TypeOK, BoundsInv, CountersBounded
<1> QED
  BY InitAccept, NextAccept, NextBounds, <1>1, <1>2, PTL DEF Spec
================================================================================
