--------------------------- MODULE ProfileStoreProofs ---------------------------
(***************************************************************************)
(* Proofs about ProfileStore: what is promised survives every power loss,  *)
(* a readable profile stays readable, the directory stays within its       *)
(* limit, and the stores implement the register of ProfileRegister.        *)
(***************************************************************************)
EXTENDS ProfileStore, FiniteSetTheorems, TLAPS

\* The newest revision of a directory, and the one a load of it returns.
Top(dir) == Newest(DOMAIN dir)
Live(dir) == Newest(Readable(dir))

\* What a call publishes, and the phases in which it holds a snapshot, in which
\* it means to publish, in which it has found a number to publish under, and in
\* which only its link is missing.
Outcome(c) == c.base \cup ({c.request} \cap Requests)
Reading == {"confirm", "prepare", "reclean", "relist", "compact", "link"}
Updating == Reading \ {"confirm"}
Committing == Updating \ {"prepare"}
Publishing(c) == c.phase \in {"compact", "link"} /\ c.temporary

\* The listing misses no revision that was there or came later below its newest.
ListingComplete(c, dir) ==
    /\ Newest(c.listing) <= Top(dir)
    /\ \A r \in DOMAIN dir : r <= Newest(c.listing) => r \in c.listing

\* The snapshot is what a load returns now, or a newer one has been published
\* above the head it was taken under.
SnapshotFresh(c, dir) ==
    /\ c.source <= c.head /\ c.base \subseteq Shown(dir)
    /\ \/ Live(dir) = c.source /\ c.base = Shown(dir)
       \/ Live(dir) > c.head

\* Compaction takes neither the newest revision nor the snapshot's.
VictimsOld(c, dir) ==
    \A v \in c.victims : v <= c.head /\ v < Top(dir) /\ v # c.source

\* Nobody has published since the head was read; or its successor is there, and
\* the link will fail.  In the first case there is room for one revision more.
LinkFirst(c, dir) == Top(dir) <= c.head \/ c.head + 1 \in DOMAIN dir
RoomLeft(c, dir) ==
    c.head + 1 \notin DOMAIN dir => Cardinality(DOMAIN dir \ c.victims) <= Retention - 1

CallOK(c, dir) ==
    /\ c.head <= Top(dir)
    /\ c.phase = "read" => ListingComplete(c, dir)
    /\ c.phase \in Reading => SnapshotFresh(c, dir)
    /\ c.phase \in Updating => c.request \notin c.base
    /\ c.phase \in Committing => c.head < MaxRevision
    /\ c.phase = "sync" => Outcome(c) \subseteq Shown(dir)
    /\ IF c.phase = "compact" THEN VictimsOld(c, dir) ELSE c.victims = {}
    /\ Publishing(c) => LinkFirst(c, dir) /\ RoomLeft(c, dir)

\* Whoever is about to compact has swept away every temporary for a head below
\* his own, so the number he frees is none a writer still wants to link.
Ordered(c, d) == Publishing(c) /\ d.phase \in {"relist", "compact"} => d.head <= c.head

\* A newer revision keeps all that an older one holds.
Growing(dir) == \A q, r \in Readable(dir) : q <= r => dir[q] \subseteq dir[r]

\* A directory a power loss may leave keeps every promise and is within the
\* limit; it shows nothing that is not visible now.
ImageOK(dir) ==
    /\ promised \subseteq Shown(dir) /\ Shown(dir) \subseteq Shown(visible)
    /\ Growing(dir) /\ Cardinality(DOMAIN dir) <= Retention

StoreInv ==
    /\ TypeOK
    /\ \A s \in Stores : CallOK(tx[s], visible)
    /\ \A s, u \in Stores : Ordered(tx[s], tx[u])
    /\ \A dir \in images : ImageOK(dir)

--------------------------------------------------------------------------------
(* Newest revisions.                                                        *)

LEMMA RevisionSets ==
    ASSUME NEW S \in SUBSET Revisions
    PROVE  IsFiniteSet(S) /\ \A r \in S : r \in Nat /\ r >= 1 /\ r <= MaxRevision
<1>1. MaxRevision \in Nat
    BY StoreConstants
<1>2. IsFiniteSet(Revisions)
    BY <1>1, FS_Interval DEF Revisions
<1>3. IsFiniteSet(S)
    BY <1>2, FS_Subset
<1> QED
    BY <1>1, <1>3 DEF Revisions

\* A non-empty set of revisions has a newest one.
LEMMA MaxExists ==
    ASSUME NEW S \in SUBSET Revisions, S # {}
    PROVE  \E r \in S : \A q \in S : q <= r
<1> DEFINE above(x) == {y \in S : y >= x}
           B == {above(x) : x \in S}
<1>0. IsFiniteSet(S) /\ \A r \in S : r \in Nat
    BY RevisionSets
<1>1. IsWellFoundedOn(StrictSubsetOrdering(S), FiniteSubsetsOf(S))
    BY FS_StrictSubsetOrderingWellFounded
<1>2. B \subseteq FiniteSubsetsOf(S) /\ B # {}
    <2>1. B \subseteq SUBSET S /\ B # {}
        OBVIOUS
    <2> QED BY <2>1, <1>0, FS_FiniteSubsetsOfFinite
<1>3. \E b \in B : \A c \in B : ~ (<<c, b>> \in StrictSubsetOrdering(S))
    <2> HIDE DEF B
    <2> QED BY <1>1, <1>2, WFMin
<1>4. PICK x \in S : \A c \in B : ~ (<<c, above(x)>> \in StrictSubsetOrdering(S))
    BY <1>3
<1>5. ASSUME NEW y \in S PROVE y <= x
    <2>1. SUFFICES ASSUME y > x PROVE FALSE
        BY <1>0, <1>4
    <2>2. ASSUME NEW z \in above(y) PROVE z \in above(x)
        <3>1. z \in Nat /\ y \in Nat /\ x \in Nat /\ z >= y
            BY <1>0, <1>4
        <3>2. z >= x
            BY <2>1, <3>1
        <3> QED BY <3>2
    <2>3. x \in above(x) /\ x \notin above(y)
        BY <1>0, <1>4, <2>1
    <2>4. <<above(y), above(x)>> \in StrictSubsetOrdering(S)
        BY <2>2, <2>3 DEF StrictSubsetOrdering
    <2> QED BY <1>4, <2>4
<1> QED
    BY <1>4, <1>5

LEMMA NewestFacts ==
    ASSUME NEW S \in SUBSET Revisions
    PROVE  /\ Newest(S) \in 0 .. MaxRevision
           /\ S = {} => Newest(S) = 0
           /\ S # {} => Newest(S) \in S
           /\ \A q \in S : q <= Newest(S)
<1>1. CASE S = {}
    BY <1>1, StoreConstants DEF Newest
<1>2. CASE S # {}
    <2>1. Newest(S) \in S /\ \A q \in S : q <= Newest(S)
        BY <1>2, MaxExists DEF Newest
    <2> QED BY <1>2, <2>1, RevisionSets, StoreConstants
<1> QED
    BY <1>1, <1>2

LEMMA NewestIs ==
    ASSUME NEW S \in SUBSET Revisions, NEW r \in S, \A q \in S : q <= r
    PROVE  Newest(S) = r
<1>1. Newest(S) \in S /\ r <= Newest(S) /\ Newest(S) <= r
    BY NewestFacts
<1> QED
    BY <1>1, RevisionSets

\* A set that keeps the newest element of a larger one has the same newest.
LEMMA NewestKept ==
    ASSUME NEW S \in SUBSET Revisions, NEW T \in SUBSET S, S # {} => Newest(S) \in T
    PROVE  Newest(T) = Newest(S)
<1>1. CASE S = {}
    BY <1>1
<1>2. CASE S # {}
    <2>1. \A q \in T : q <= Newest(S)
        BY NewestFacts
    <2> QED BY <1>2, <2>1, NewestIs
<1> QED
    BY <1>1, <1>2
--------------------------------------------------------------------------------
(* Directories.                                                             *)

LEMMA ProfileIsNotCorrupt == Corrupt \notin Profiles
BY StoreConstants DEF Corrupt, Profiles

\* A directory's newest revisions, and what it shows.
LEMMA DirectoryFacts ==
    ASSUME NEW dir, IsDirectory(dir)
    PROVE  /\ DOMAIN dir \in SUBSET Revisions /\ Readable(dir) \in SUBSET Revisions
           /\ Readable(dir) \subseteq DOMAIN dir
           /\ Top(dir) \in 0 .. MaxRevision /\ Live(dir) \in 0 .. MaxRevision
           /\ Live(dir) <= Top(dir) /\ \A r \in DOMAIN dir : r <= Top(dir)
           /\ Readable(dir) # {} => Live(dir) \in Readable(dir) /\ Shown(dir) = dir[Live(dir)]
           /\ Readable(dir) = {} => Live(dir) = 0 /\ Shown(dir) = {}
           /\ Shown(dir) \in Profiles
<1>1. /\ DOMAIN dir \in SUBSET Revisions /\ Readable(dir) \in SUBSET Revisions
      /\ Readable(dir) \subseteq DOMAIN dir
    BY DEF IsDirectory, Readable
<1>2. Top(dir) \in 0 .. MaxRevision /\ \A r \in DOMAIN dir : r <= Top(dir)
    BY <1>1, NewestFacts DEF Top
<1>3. /\ Live(dir) \in 0 .. MaxRevision
      /\ Readable(dir) # {} => Live(dir) \in Readable(dir) /\ Shown(dir) = dir[Live(dir)]
      /\ Readable(dir) = {} => Live(dir) = 0 /\ Shown(dir) = {}
    BY <1>1, NewestFacts DEF Live, Shown
<1>4. Live(dir) <= Top(dir)
    <2>1. CASE Readable(dir) = {}
        BY <2>1, <1>2, <1>3, StoreConstants
    <2>2. CASE Readable(dir) # {}
        BY <2>2, <1>1, <1>2, <1>3
    <2> QED BY <2>1, <2>2
<1>5. Shown(dir) \in Profiles
    <2>1. CASE Readable(dir) = {}
        BY <2>1, <1>3 DEF Profiles
    <2>2. CASE Readable(dir) # {}
        BY <2>2, <1>3 DEF IsDirectory, Readable
    <2> QED BY <2>1, <2>2
<1> QED
    BY <1>1, <1>2, <1>3, <1>4, <1>5

\* A revision is published above all others: it becomes what a load returns.
LEMMA Published ==
    ASSUME NEW dir, IsDirectory(dir), NEW r \in Revisions, Top(dir) < r, NEW p \in Profiles
    PROVE  /\ IsDirectory(With(dir, r, p))
           /\ DOMAIN With(dir, r, p) = DOMAIN dir \cup {r}
           /\ Top(With(dir, r, p)) = r /\ Live(With(dir, r, p)) = r
           /\ Readable(With(dir, r, p)) # {}
           /\ Shown(With(dir, r, p)) = p
<1> DEFINE new == With(dir, r, p)
<1>1. /\ DOMAIN new = DOMAIN dir \cup {r} /\ new[r] = p
      /\ \A q \in DOMAIN new : q # r => q \in DOMAIN dir /\ new[q] = dir[q]
    BY DEF With
<1>2. IsDirectory(new)
    <2>1. new = [q \in DOMAIN new |-> new[q]]
        BY DEF With
    <2>2. \A q \in DOMAIN new : new[q] \in Profiles \cup {Corrupt}
        BY <1>1 DEF IsDirectory
    <2>3. DOMAIN new \subseteq Revisions
        BY <1>1 DEF IsDirectory
    <2> HIDE DEF new
    <2> QED BY <2>1, <2>2, <2>3 DEF IsDirectory
<1>3. \A q \in DOMAIN new : q <= r
    BY <1>1, DirectoryFacts, StoreConstants DEF Revisions
<1>4. r \in Readable(new)
    BY <1>1, ProfileIsNotCorrupt DEF Readable
<1> HIDE DEF new
<1>5. Top(new) = r
    BY <1>1, <1>2, <1>3, NewestIs DEF Top, IsDirectory
<1>6. Live(new) = r
    BY <1>2, <1>3, <1>4, NewestIs DEF Live, IsDirectory, Readable
<1>7. Shown(new) = p
    BY <1>1, <1>2, <1>4, <1>6, DirectoryFacts
<1> QED
    BY <1>1, <1>2, <1>4, <1>5, <1>6, <1>7 DEF new

\* A revision that is neither the newest nor the one a load returns is removed.
LEMMA Removed ==
    ASSUME NEW dir, IsDirectory(dir), NEW v, v # Top(dir), v # Live(dir)
    PROVE  /\ IsDirectory(Without(dir, v))
           /\ DOMAIN Without(dir, v) = DOMAIN dir \ {v}
           /\ Top(Without(dir, v)) = Top(dir) /\ Live(Without(dir, v)) = Live(dir)
           /\ Readable(Without(dir, v)) = Readable(dir) \ {v}
           /\ Shown(Without(dir, v)) = Shown(dir)
<1> DEFINE new == Without(dir, v)
<1>1. DOMAIN new = DOMAIN dir \ {v} /\ \A q \in DOMAIN new : new[q] = dir[q]
    BY DEF Without
<1>2. IsDirectory(new)
    <2>1. new = [q \in DOMAIN new |-> new[q]]
        BY DEF Without
    <2>2. \A q \in DOMAIN new : new[q] \in Profiles \cup {Corrupt}
        BY <1>1 DEF IsDirectory
    <2>3. DOMAIN new \subseteq Revisions
        BY <1>1 DEF IsDirectory
    <2> HIDE DEF new
    <2> QED BY <2>1, <2>2, <2>3 DEF IsDirectory
<1>3. Readable(new) = Readable(dir) \ {v}
    BY <1>1 DEF Readable
<1> HIDE DEF new
<1>4. Top(new) = Top(dir)
    BY <1>1, DirectoryFacts, NewestFacts, NewestKept DEF Top
<1>5. Live(new) = Live(dir)
    BY <1>3, DirectoryFacts, NewestFacts, NewestKept DEF Live
<1>6. Shown(new) = Shown(dir)
    <2>1. CASE Readable(dir) = {}
        BY <2>1, <1>2, <1>3, DirectoryFacts
    <2>2. CASE Readable(dir) # {}
        <3>1. Live(dir) \in Readable(new) /\ Live(dir) \in DOMAIN new
            BY <2>2, <1>1, <1>3, DirectoryFacts
        <3> QED BY <3>1, <2>2, <1>1, <1>2, <1>5, DirectoryFacts
    <2> QED BY <2>1, <2>2
<1> QED
    BY <1>1, <1>2, <1>3, <1>4, <1>5, <1>6 DEF new
--------------------------------------------------------------------------------
(* Compaction.                                                              *)

LEMMA MinExists ==
    ASSUME NEW S \in SUBSET Revisions, S # {}
    PROVE  \E r \in S : \A q \in S : r <= q
<1> DEFINE T == {MaxRevision + 1 - r : r \in S}
<1>1. MaxRevision \in Nat /\ \A r \in S : r \in 1 .. MaxRevision
    BY StoreConstants DEF Revisions
<1>2. T \in SUBSET Revisions /\ T # {}
    <2>1. ASSUME NEW r \in S PROVE MaxRevision + 1 - r \in Revisions
        <3>1. MaxRevision \in Nat /\ r \in Nat /\ 1 <= r /\ r <= MaxRevision
            BY <1>1
        <3> QED BY <3>1 DEF Revisions
    <2> QED BY <2>1
<1>3. PICK t \in T : \A q \in T : q <= t
    BY <1>2, MaxExists
<1>4. PICK r \in S : t = MaxRevision + 1 - r
    BY <1>3
<1>5. ASSUME NEW q \in S PROVE r <= q
    <2>1. MaxRevision + 1 - q <= t
        BY <1>3
    <2> QED BY <2>1, <1>1, <1>4
<1> QED
    BY <1>4, <1>5

LEMMA PositionType ==
    ASSUME NEW S \in SUBSET Revisions, NEW r
    PROVE  Position(r, S) \in Nat
<1>1. IsFiniteSet({q \in S : q > r})
    BY RevisionSets, FS_Subset
<1> QED
    BY <1>1, FS_CardinalityType DEF Position

\* No more than k revisions have fewer than k newer ones.
LEMMA FewAhead ==
    ASSUME NEW S \in SUBSET Revisions, NEW k \in Nat
    PROVE  Cardinality({r \in S : Position(r, S) < k}) <= k
<1> DEFINE T == {r \in S : Position(r, S) < k}
<1>1. T \in SUBSET Revisions /\ IsFiniteSet(T) /\ IsFiniteSet(S)
    BY RevisionSets
<1>2. CASE T = {}
    BY <1>2, FS_EmptySet
<1>3. CASE T # {}
    <2>1. PICK m \in T : \A q \in T : m <= q
        BY <1>1, <1>3, MinExists
    <2> DEFINE newer == {q \in S : q > m}
    <2>2. IsFiniteSet(newer) /\ Cardinality(newer) < k
        BY <1>1, <2>1, FS_Subset DEF Position
    <2>3. T \ {m} \in SUBSET newer
        BY <2>1, <1>1, RevisionSets
    <2> HIDE DEF T, newer
    <2>4. Cardinality(T \ {m}) <= Cardinality(newer)
        BY <2>2, <2>3, FS_Subset
    <2>5. Cardinality(T \ {m}) = Cardinality(T) - 1
        BY <1>1, <2>1, FS_RemoveElement
    <2>6. Cardinality(T) \in Nat /\ Cardinality(newer) \in Nat
        BY <1>1, <2>2, FS_CardinalityType
    <2> QED BY <2>2, <2>4, <2>5, <2>6 DEF T
<1> QED
    BY <1>2, <1>3

\* What compaction removes is older than the newest revision, spares the source,
\* and leaves room for one revision more.
LEMMA VictimsFacts ==
    ASSUME NEW listing \in SUBSET Revisions, NEW source
    PROVE  /\ Victims(listing, source) \subseteq listing
           /\ \A v \in Victims(listing, source) : v < Newest(listing) /\ v # source
           /\ Cardinality(listing \ Victims(listing, source)) <= Retention - 1
<1> DEFINE slots == Retention - 1
           beyond == source \in listing /\ Position(source, listing) >= slots
           newest == IF beyond THEN slots - 1 ELSE slots
           kept == {r \in listing : Position(r, listing) < newest}
           left == listing \ Victims(listing, source)
<1>1. Retention \in Nat /\ Retention >= 3 /\ slots \in Nat /\ newest \in Nat /\ newest >= 1
    BY StoreConstants
<1>2. Victims(listing, source) = {r \in listing : Position(r, listing) >= newest /\ r # source}
    BY DEF Victims
<1>3. ASSUME NEW v \in Victims(listing, source) PROVE v < Newest(listing) /\ v # source
    <2>1. v \in listing /\ v # source /\ Position(v, listing) >= 1
        BY <1>1, <1>2, PositionType
    <2>2. {q \in listing : q > v} # {}
        BY <2>1, FS_EmptySet DEF Position
    <2>3. PICK q \in listing : q > v
        BY <2>2
    <2>4. q <= Newest(listing) /\ Newest(listing) \in Nat /\ q \in Nat /\ v \in Nat
        BY <2>1, NewestFacts, RevisionSets, StoreConstants
    <2> QED BY <2>1, <2>3, <2>4
<1>4. IsFiniteSet(kept) /\ Cardinality(kept) <= newest /\ Cardinality(kept) \in Nat
    <2>1. Cardinality(kept) <= newest
        BY <1>1, FewAhead
    <2>2. kept \in SUBSET Revisions
        OBVIOUS
    <2> HIDE DEF kept
    <2> QED BY <2>1, <2>2, RevisionSets, FS_CardinalityType
<1>5. Cardinality(left) <= slots
    <2>1. \A r \in listing : r \in kept \/ Position(r, listing) >= newest
        BY <1>1, PositionType
    <2>2. CASE beyond
        <3>1. left \in SUBSET (kept \cup {source})
            BY <1>2, <2>1
        <3>2. newest = slots - 1
            BY <2>2
        <3> HIDE DEF kept, left, newest, slots, beyond
        <3>3. IsFiniteSet(kept \cup {source}) /\ Cardinality(kept \cup {source}) <= newest + 1
              /\ Cardinality(kept \cup {source}) \in Nat
            BY <1>1, <1>4, FS_AddElement, FS_CardinalityType
        <3>4. Cardinality(left) <= Cardinality(kept \cup {source})
              /\ IsFiniteSet(left) /\ Cardinality(left) \in Nat
            BY <3>1, <3>3, FS_Subset, FS_CardinalityType
        <3> QED BY <1>1, <3>2, <3>3, <3>4
    <2>3. CASE ~beyond
        <3>1. newest = slots
            BY <2>3
        <3>2. source \in listing => Position(source, listing) < slots
            BY <2>3, <1>1, PositionType
        <3>3. left \in SUBSET kept
            BY <1>2, <2>1, <3>1, <3>2
        <3> HIDE DEF kept, left, newest, slots, beyond
        <3>4. Cardinality(left) <= Cardinality(kept) /\ IsFiniteSet(left) /\ Cardinality(left) \in Nat
            BY <1>4, <3>3, FS_Subset, FS_CardinalityType
        <3> QED BY <1>1, <1>4, <3>1, <3>4
    <2> QED BY <2>2, <2>3
<1> QED
    BY <1>2, <1>3, <1>5
--------------------------------------------------------------------------------
(* One call moves while the directory stays.                                *)

LEMMA InvFacts ==
    ASSUME StoreInv, NEW s \in Stores
    PROVE  /\ tx \in [Stores -> Call] /\ tx[s] \in Call /\ CallOK(tx[s], visible)
           /\ visible \in images /\ IsDirectory(visible) /\ ImageOK(visible)
           /\ promised \in Profiles
BY DEF StoreInv, TypeOK

LEMMA CallStep ==
    ASSUME StoreInv, NEW s \in Stores, NEW c \in Call, tx' = [tx EXCEPT ![s] = c],
           visible' = visible, images' \subseteq images, visible \in images',
           promised' \in Profiles, \A dir \in images' : promised' \subseteq Shown(dir),
           CallOK(c, visible),
           \A u \in Stores : u # s => Ordered(tx[u], c) /\ Ordered(c, tx[u])
    PROVE  StoreInv'
<1>1. tx \in [Stores -> Call] /\ visible \in images /\ \A dir \in images : IsDirectory(dir)
    BY DEF StoreInv, TypeOK
<1>2. tx'[s] = c /\ \A u \in Stores : u # s => tx'[u] = tx[u]
    BY <1>1
<1>3. TypeOK'
    BY <1>1 DEF TypeOK
<1>4. \A u \in Stores : CallOK(tx'[u], visible')
    BY <1>2 DEF StoreInv
<1>5. \A t, u \in Stores : Ordered(tx'[t], tx'[u])
    <2>1. Ordered(c, c)
        <3>1. c.head \in 0 .. MaxRevision
            BY DEF Call
        <3> QED BY <3>1, StoreConstants DEF Ordered
    <2> QED BY <1>2, <2>1 DEF StoreInv
<1>6. \A dir \in images' : ImageOK(dir)'
    BY DEF StoreInv, ImageOK
<1> QED
    BY <1>3, <1>4, <1>5, <1>6 DEF StoreInv

\* A call that is not about to compact or to link concerns no other call.
LEMMA QuietStep ==
    ASSUME StoreInv, NEW s \in Stores, NEW c \in Call, tx' = [tx EXCEPT ![s] = c],
           visible' = visible, images' \subseteq images, visible \in images',
           promised' \in Profiles, \A dir \in images' : promised' \subseteq Shown(dir),
           CallOK(c, visible), c.phase \notin {"relist", "compact", "link"}
    PROVE  StoreInv'
<1>1. \A u \in Stores : Ordered(tx[u], c) /\ Ordered(c, tx[u])
    BY DEF Ordered, Publishing
<1> QED
    BY <1>1, CallStep

\* The same, when nothing is answered and nothing synced.
LEMMA InnerStep ==
    ASSUME StoreInv, NEW s \in Stores, NEW c \in Call, tx' = [tx EXCEPT ![s] = c],
           UNCHANGED <<visible, images, promised>>,
           CallOK(c, visible), c.phase \notin {"relist", "compact", "link"}
    PROVE  StoreInv'
<1>1. images' \subseteq images /\ visible \in images' /\ promised' \in Profiles
    BY DEF StoreInv, TypeOK
<1>2. \A dir \in images' : promised' \subseteq Shown(dir)
    BY DEF StoreInv, ImageOK
<1> QED
    BY <1>1, <1>2, QuietStep

LEMMA NoCallType == NoCall \in Call
BY StoreConstants DEF NoCall, Call, Phases, Profiles

\* A call that has not read anything yet is in order.
LEMMA FreshCall ==
    ASSUME StoreInv, NEW r \in Requests \cup {Load, NoRequest}, NEW phase \in {"idle", "clean"}
    PROVE  /\ [NoCall EXCEPT !.phase = phase, !.request = r] \in Call
           /\ CallOK([NoCall EXCEPT !.phase = phase, !.request = r], visible)
<1> DEFINE c == [NoCall EXCEPT !.phase = phase, !.request = r]
<1>1. NoCall \in Call
    BY NoCallType
<1>2. c \in Call /\ c.phase = phase /\ c.head = 0 /\ c.victims = {} /\ ~c.temporary
    BY <1>1 DEF Call, Phases, NoCall
<1>3. 0 <= Top(visible)
    BY DirectoryFacts, StoreConstants DEF StoreInv, TypeOK
<1> HIDE DEF c
<1>4. CallOK(c, visible)
    BY <1>2, <1>3 DEF CallOK, Reading, Updating, Committing, Publishing
<1> QED
    BY <1>2, <1>4 DEF c

LEMMA IdleCall == ASSUME StoreInv PROVE NoCall \in Call /\ CallOK(NoCall, visible)
<1>1. NoCall.phase = "idle" /\ NoCall.head = 0 /\ NoCall.victims = {} /\ ~NoCall.temporary
    BY DEF NoCall
<1>2. 0 <= Top(visible)
    BY DirectoryFacts, StoreConstants DEF StoreInv, TypeOK
<1> QED
    BY <1>1, <1>2, NoCallType DEF CallOK, Reading, Updating, Committing, Publishing

LEMMA BeginKeeps ==
    ASSUME StoreInv, NEW s \in Stores, NEW r \in Requests \cup {Load}, Begin(s, r)
    PROVE  StoreInv'
<1> DEFINE c == [tx[s] EXCEPT !.phase = "clean", !.request = r]
<1>1. tx[s].phase = "idle" /\ tx' = [tx EXCEPT ![s] = c] /\ UNCHANGED <<visible, images, promised>>
    BY DEF Begin
<1>2. c \in Call
    <2>1. tx[s] \in Call /\ r \in Requests \cup {Load, NoRequest} /\ "clean" \in Phases
        BY InvFacts DEF Phases
    <2> QED BY <2>1 DEF Call
<1>3. CallOK(c, visible)
    <2>1. c.phase = "clean" /\ c.head = tx[s].head /\ c.victims = tx[s].victims
        BY InvFacts DEF Call
    <2> HIDE DEF c
    <2> QED BY <1>1, <2>1, InvFacts DEF CallOK, Reading, Updating, Committing, Publishing
<1>4. c.phase = "clean"
    BY InvFacts DEF Call
<1> HIDE DEF c
<1> QED
    BY <1>1, <1>2, <1>3, <1>4, InnerStep

LEMMA ListKeeps ==
    ASSUME StoreInv, NEW s \in Stores, List(s)
    PROVE  StoreInv'
<1> DEFINE c == [tx[s] EXCEPT !.phase = "read", !.listing = DOMAIN visible]
<1>1. tx[s].phase = "list" /\ tx' = [tx EXCEPT ![s] = c] /\ UNCHANGED <<visible, images, promised>>
    BY DEF List
<1>2. c \in Call
    <2>1. tx[s] \in Call /\ DOMAIN visible \in SUBSET Revisions /\ "read" \in Phases
        BY InvFacts DEF Phases, IsDirectory
    <2> QED BY <2>1 DEF Call
<1>3. c.phase = "read" /\ c.head = tx[s].head /\ c.victims = tx[s].victims
      /\ c.listing = DOMAIN visible
    BY InvFacts DEF Call
<1>4. ListingComplete(c, visible)
    BY <1>3, InvFacts, DirectoryFacts, StoreConstants DEF ListingComplete, Top
<1> HIDE DEF c
<1>5. CallOK(c, visible)
    BY <1>1, <1>3, <1>4, InvFacts DEF CallOK, Reading, Updating, Committing, Publishing
<1> QED
    BY <1>1, <1>2, <1>3, <1>5, InnerStep

\* The read: damaged revisions are passed over, and what it stops at is what a
\* load returns now, unless something was published above the listing since.
LEMMA ReadKeeps ==
    ASSUME StoreInv, NEW s \in Stores, Read(s)
    PROVE  StoreInv'
<1> DEFINE source == Candidate(s)
           base == IF source = 0 THEN {} ELSE visible[source]
           listing == tx[s].listing
           phase == IF Settled(tx[s].request, source, base) THEN "confirm" ELSE "prepare"
           c == [tx[s] EXCEPT !.phase = phase, !.head = Newest(listing),
                              !.source = source, !.base = base, !.listing = {}]
           stops == {r \in listing : r \notin DOMAIN visible \/ visible[r] # Corrupt}
<1>1. /\ tx[s].phase = "read"
      /\ source \in DOMAIN visible \/ listing = {}
      /\ tx' = [tx EXCEPT ![s] = c] /\ UNCHANGED <<visible, images, promised>>
    BY DEF Read
<1>2. /\ tx[s] \in Call /\ CallOK(tx[s], visible) /\ IsDirectory(visible)
      /\ listing \in SUBSET Revisions /\ stops \in SUBSET listing
    BY InvFacts DEF Call
<1>3. source = Newest(stops)
    BY DEF Candidate
<1>4. ListingComplete(tx[s], visible) /\ tx[s].victims = {}
    BY <1>1, <1>2 DEF CallOK
<1>5. Newest(listing) \in 0 .. MaxRevision /\ source \in 0 .. MaxRevision
      /\ source <= Newest(listing) /\ Newest(listing) <= Top(visible)
    <2>1. stops \in SUBSET Revisions
        BY <1>2
    <2>2. source \in 0 .. MaxRevision /\ Newest(listing) \in 0 .. MaxRevision
        BY <1>2, <1>3, <2>1, NewestFacts
    <2>3. CASE stops = {}
        BY <2>1, <2>2, <2>3, <1>3, <1>4, NewestFacts, StoreConstants DEF ListingComplete
    <2>4. CASE stops # {}
        <3>1. source \in listing
            BY <2>1, <2>4, <1>2, <1>3, NewestFacts
        <3> QED BY <3>1, <2>2, <1>2, <1>4, NewestFacts DEF ListingComplete
    <2> QED BY <2>3, <2>4
<1>6. \/ source = 0 /\ listing = {} /\ base = {}
      \/ source # 0 /\ source \in Readable(visible) /\ base = visible[source] /\ base \in Profiles
    <2>1. CASE listing = {}
        <3>1. source = 0
            BY <2>1, <1>2, <1>3, NewestFacts
        <3> QED BY <2>1, <3>1
    <2>2. CASE listing # {}
        <3>1. source \in DOMAIN visible /\ source # 0
            BY <2>2, <1>1, <1>2, RevisionSets DEF IsDirectory
        <3>2. source \in stops
            BY <3>1, <1>2, <1>3, NewestFacts
        <3>3. visible[source] # Corrupt /\ visible[source] \in Profiles \cup {Corrupt}
            BY <3>1, <3>2, <1>2 DEF IsDirectory
        <3> QED BY <3>1, <3>3 DEF Readable
    <2> QED BY <2>1, <2>2
<1>7. \/ Live(visible) = source /\ base = Shown(visible)
      \/ Live(visible) > Newest(listing)
    <2>0. Live(visible) \in 0 .. MaxRevision
        BY <1>2, DirectoryFacts
    <2>1. CASE Readable(visible) = {}
        BY <2>1, <1>2, <1>6, DirectoryFacts
    <2>2. CASE Readable(visible) # {} /\ Live(visible) <= Newest(listing)
        <3>1. Live(visible) \in Readable(visible) /\ Shown(visible) = visible[Live(visible)]
            BY <2>2, <1>2, DirectoryFacts
        <3>2. Live(visible) \in stops
            BY <3>1, <2>2, <1>4 DEF ListingComplete, Readable
        <3>3. Live(visible) <= source /\ source # 0
            <4>1. Live(visible) <= source
                BY <3>2, <1>2, <1>3, NewestFacts
            <4>2. listing # {}
                BY <3>2
            <4> QED BY <4>1, <4>2, <1>6
        <3>4. source <= Live(visible)
            BY <3>3, <1>6, <1>2, NewestFacts DEF Live, Readable, IsDirectory
        <3> QED BY <3>1, <3>3, <3>4, <2>0, <1>5, <1>6
    <2> QED BY <2>0, <2>1, <2>2, <1>5
<1>8. base \in Profiles /\ base \subseteq Shown(visible)
    <2>1. CASE source = 0
        BY <2>1, <1>6 DEF Profiles
    <2>2. CASE source # 0
        <3>1. Live(visible) \in Readable(visible) /\ Shown(visible) = visible[Live(visible)]
            BY <2>2, <1>2, <1>6, DirectoryFacts
        <3>2. source <= Live(visible)
            BY <2>2, <1>2, <1>6, NewestFacts, DirectoryFacts DEF Live
        <3> QED BY <2>2, <3>1, <3>2, <1>6, InvFacts DEF ImageOK, Growing
    <2> QED BY <2>1, <2>2
<1>9. phase = "prepare" => tx[s].request \notin base
    <2>1. tx[s].request = Load => tx[s].request \notin base
        BY <1>8, StoreConstants DEF Profiles
    <2> QED BY <2>1 DEF Settled
<1>10. /\ c \in Call /\ c.phase = phase /\ c.head = Newest(listing) /\ c.source = source
       /\ c.base = base /\ c.victims = {} /\ c.request = tx[s].request
       /\ phase \in {"confirm", "prepare"}
    <2>1. phase \in {"confirm", "prepare"}
        OBVIOUS
    <2> HIDE DEF source, base, phase
    <2> QED BY <1>2, <1>4, <1>5, <1>8, <2>1 DEF Call, Phases
<1> HIDE DEF c, phase, source, base, listing
<1>11. SnapshotFresh(c, visible)
    BY <1>5, <1>7, <1>8, <1>10 DEF SnapshotFresh
<1>12. CallOK(c, visible)
    BY <1>5, <1>9, <1>10, <1>11 DEF CallOK, Publishing, Updating, Reading, Committing
<1> QED
    BY <1>1, <1>10, <1>12, InnerStep

LEMMA PrepareKeeps ==
    ASSUME StoreInv, NEW s \in Stores, Prepare(s)
    PROVE  StoreInv'
<1> DEFINE c == [tx[s] EXCEPT !.phase = "reclean", !.temporary = TRUE]
<1>1. /\ tx[s].phase = "prepare" /\ tx[s].head < MaxRevision
      /\ tx' = [tx EXCEPT ![s] = c] /\ UNCHANGED <<visible, images, promised>>
    BY DEF Prepare
<1>2. /\ c \in Call /\ c.phase = "reclean" /\ c.head = tx[s].head /\ c.source = tx[s].source
      /\ c.base = tx[s].base /\ c.victims = tx[s].victims /\ c.request = tx[s].request
    BY InvFacts DEF Call, Phases
<1> HIDE DEF c
<1>3. CallOK(c, visible)
    BY <1>1, <1>2, InvFacts DEF CallOK, SnapshotFresh, Publishing, Updating, Reading, Committing
<1> QED
    BY <1>1, <1>2, <1>3, InnerStep

LEMMA SourceVanishedKeeps ==
    ASSUME StoreInv, NEW s \in Stores, SourceVanished(s)
    PROVE  StoreInv'
<1> DEFINE c == [tx[s] EXCEPT !.phase = "prepare"]
<1>1. /\ tx[s].phase = "confirm" /\ tx[s].request = Load
      /\ tx' = [tx EXCEPT ![s] = c] /\ UNCHANGED <<visible, images, promised>>
    BY DEF SourceVanished, Enter
<1>2. /\ c \in Call /\ c.phase = "prepare" /\ c.head = tx[s].head /\ c.source = tx[s].source
      /\ c.base = tx[s].base /\ c.victims = tx[s].victims /\ c.request = tx[s].request
      /\ tx[s].base \in Profiles
    BY InvFacts DEF Call, Phases
<1>3. Load \notin tx[s].base
    BY <1>2, StoreConstants DEF Profiles
<1> HIDE DEF c
<1>4. CallOK(c, visible)
    BY <1>1, <1>2, <1>3, InvFacts DEF CallOK, SnapshotFresh, Publishing, Updating, Reading, Committing
<1> QED
    BY <1>1, <1>2, <1>4, InnerStep

LEMMA RetryKeeps ==
    ASSUME StoreInv, NEW s \in Stores, LoseHead(s) \/ LoseLink(s)
    PROVE  StoreInv'
<1> DEFINE c == [NoCall EXCEPT !.phase = "clean", !.request = tx[s].request]
<1>1. tx' = [tx EXCEPT ![s] = c] /\ UNCHANGED <<visible, images, promised>>
    BY DEF LoseHead, LoseLink, Retry
<1>2. tx[s].request \in Requests \cup {Load, NoRequest}
    BY InvFacts DEF Call
<1>3. c \in Call /\ CallOK(c, visible)
    BY <1>2, FreshCall
<1>4. c.phase = "clean"
    BY DEF NoCall
<1> HIDE DEF c
<1> QED
    BY <1>1, <1>3, <1>4, InnerStep

LEMMA AbandonKeeps ==
    ASSUME StoreInv, NEW s \in Stores, Abandon(s)
    PROVE  StoreInv'
<1>1. tx' = [tx EXCEPT ![s] = NoCall] /\ UNCHANGED <<visible, images, promised>>
    BY DEF Abandon
<1>2. NoCall.phase = "idle"
    BY DEF NoCall
<1> QED
    BY <1>1, <1>2, IdleCall, InnerStep

\* The head is still the newest revision: the call may compact and link.
LEMMA KeepHeadKeeps ==
    ASSUME StoreInv, NEW s \in Stores, KeepHead(s)
    PROVE  StoreInv'
<1> DEFINE victims == Victims(DOMAIN visible, tx[s].source)
           phase == IF victims = {} THEN "link" ELSE "compact"
           c == [tx[s] EXCEPT !.phase = phase, !.victims = victims]
<1>1. /\ tx[s].phase = "relist" /\ Top(visible) = tx[s].head
      /\ tx' = [tx EXCEPT ![s] = c] /\ UNCHANGED <<visible, images, promised>>
    BY DEF KeepHead, Top
<1>2. /\ DOMAIN visible \in SUBSET Revisions /\ Top(visible) \in 0 .. MaxRevision
      /\ tx[s] \in Call
    BY InvFacts, DirectoryFacts
<1>3. /\ victims \subseteq DOMAIN visible
      /\ \A v \in victims : v < Top(visible) /\ v # tx[s].source
      /\ Cardinality(DOMAIN visible \ victims) <= Retention - 1
    BY <1>2, VictimsFacts DEF Top
<1>4. phase \in {"link", "compact"}
    OBVIOUS
<1> HIDE DEF victims
<1>5. /\ c \in Call /\ c.phase = phase /\ c.head = tx[s].head /\ c.source = tx[s].source
      /\ c.base = tx[s].base /\ c.victims = victims /\ c.request = tx[s].request
    <2> HIDE DEF phase
    <2> QED BY <1>2, <1>3, <1>4 DEF Call, Phases
<1> HIDE DEF c
<1>6. VictimsOld(c, visible)
    <2>1. \A v \in victims : v \in Nat
        BY <1>2, <1>3, RevisionSets
    <2> QED BY <1>1, <1>2, <1>3, <1>5, <2>1 DEF VictimsOld
<1>7. LinkFirst(c, visible) /\ RoomLeft(c, visible) /\ SnapshotFresh(c, visible)
    <2>1. SnapshotFresh(tx[s], visible)
        BY <1>1, InvFacts DEF CallOK, Reading
    <2> QED BY <1>1, <1>2, <1>3, <1>5, <2>1 DEF LinkFirst, RoomLeft, SnapshotFresh
<1>8. CallOK(c, visible)
    <2>1. c.request \notin c.base
        BY <1>1, <1>5, InvFacts DEF CallOK, Updating, Reading, Committing
    <2>2. IF c.phase = "compact" THEN VictimsOld(c, visible) ELSE c.victims = {}
        BY <1>5, <1>6
    <2>3. c.head <= Top(visible) /\ c.head < MaxRevision
        BY <1>1, <1>2, <1>5, InvFacts DEF CallOK, Updating, Reading, Committing
    <2> QED BY <1>4, <1>5, <1>7, <2>1, <2>2, <2>3 DEF CallOK
<1>9. \A u \in Stores : Ordered(tx[u], c) /\ Ordered(c, tx[u])
    <2>1. ASSUME NEW u \in Stores PROVE Ordered(tx[u], c)
        BY <1>1, <1>5 DEF StoreInv, Ordered
    <2>2. ASSUME NEW u \in Stores PROVE Ordered(c, tx[u])
        BY <1>1, <1>5, InvFacts DEF Ordered, CallOK
    <2> QED BY <2>1, <2>2
<1>10. images' \subseteq images /\ visible \in images' /\ promised' \in Profiles
    BY <1>1, InvFacts
<1>11. \A dir \in images' : promised' \subseteq Shown(dir)
    BY <1>1 DEF StoreInv, ImageOK
<1> QED
    BY <1>1, <1>5, <1>8, <1>9, <1>10, <1>11, CallStep

LEMMA SyncRemovalsKeeps ==
    ASSUME StoreInv, NEW s \in Stores, SyncRemovals(s)
    PROVE  StoreInv'
<1> DEFINE c == [tx[s] EXCEPT !.phase = "link"]
<1>1. /\ tx[s].phase = "compact" /\ tx[s].victims = {}
      /\ tx' = [tx EXCEPT ![s] = c] /\ UNCHANGED <<visible, promised>> /\ images' = {visible}
    BY DEF SyncRemovals, Enter, Synced
<1>2. /\ c \in Call /\ c.phase = "link" /\ c.head = tx[s].head /\ c.source = tx[s].source
      /\ c.base = tx[s].base /\ c.victims = tx[s].victims /\ c.request = tx[s].request
      /\ c.temporary = tx[s].temporary
    BY InvFacts DEF Call, Phases
<1> HIDE DEF c
<1>3. CallOK(c, visible)
    BY <1>1, <1>2, InvFacts
    DEF CallOK, SnapshotFresh, LinkFirst, RoomLeft, Publishing, Updating, Reading, Committing
<1>4. \A u \in Stores : Ordered(tx[u], c) /\ Ordered(c, tx[u])
    BY <1>1, <1>2 DEF StoreInv, Ordered, Publishing
<1>5. \A dir \in images' : promised' \subseteq Shown(dir)
    BY <1>1, InvFacts DEF ImageOK
<1>6. images' \subseteq images /\ visible \in images' /\ promised' \in Profiles
    BY <1>1, InvFacts
<1> QED
    BY <1>1, <1>2, <1>3, <1>4, <1>5, <1>6, CallStep

\* An answer vouches for nothing that the synced directory does not show.
LEMMA AnswerKeeps ==
    ASSUME StoreInv, NEW s \in Stores, Committed(s) \/ Unchanged(s)
    PROVE  StoreInv' /\ \E snapshot \in Profiles :
                            snapshot \subseteq Shown(visible) /\ promised' = promised \cup snapshot
<1>1. tx' = [tx EXCEPT ![s] = NoCall] /\ visible' = visible /\ images' = {visible}
    BY DEF Committed, Unchanged, Answer, Synced
<1>2. PICK snapshot \in Profiles : snapshot \subseteq Shown(visible)
                                   /\ promised' = promised \cup snapshot
    <2>1. tx[s].base \in Profiles /\ Updated(s) \in Profiles
        BY InvFacts DEF Updated, Call, Profiles
    <2>2. CASE Committed(s)
        BY <2>1, <2>2, InvFacts DEF Committed, Answer, CallOK, Updated, Outcome
    <2>3. CASE Unchanged(s)
        BY <2>1, <2>3, InvFacts DEF Unchanged, Answer, CallOK, Reading, SnapshotFresh
    <2> QED BY <2>2, <2>3
<1>3. promised \subseteq Shown(visible) /\ visible \in images /\ promised \in Profiles
    BY InvFacts DEF ImageOK
<1>4. promised' \in Profiles /\ \A dir \in images' : promised' \subseteq Shown(dir)
    BY <1>1, <1>2, <1>3 DEF Profiles
<1>5. NoCall.phase = "idle"
    BY DEF NoCall
<1>6. StoreInv'
    BY <1>1, <1>3, <1>4, <1>5, IdleCall, QuietStep
<1> QED
    BY <1>2, <1>6

\* Losing its temporary does not disturb a call.
LEMMA TemporaryLost ==
    ASSUME NEW dir, NEW c, NEW d, CallOK(c, dir),
           d.phase = c.phase, d.request = c.request, d.listing = c.listing, d.head = c.head,
           d.source = c.source, d.base = c.base, d.victims = c.victims,
           d.temporary => c.temporary
    PROVE  CallOK(d, dir)
<1>1. ListingComplete(c, dir) => ListingComplete(d, dir)
    BY DEF ListingComplete
<1>2. SnapshotFresh(c, dir) => SnapshotFresh(d, dir)
    BY DEF SnapshotFresh
<1>3. VictimsOld(c, dir) => VictimsOld(d, dir)
    BY DEF VictimsOld
<1>4. Publishing(d) => Publishing(c)
    BY DEF Publishing
<1>5. LinkFirst(c, dir) /\ RoomLeft(c, dir) => LinkFirst(d, dir) /\ RoomLeft(d, dir)
    BY DEF LinkFirst, RoomLeft
<1>6. Outcome(d) = Outcome(c)
    BY DEF Outcome
<1> QED
    BY <1>1, <1>2, <1>3, <1>4, <1>5, <1>6 DEF CallOK

\* The sweep takes the temporaries that lost, so that whoever goes on to compact
\* is not below the head of any writer left.
LEMMA SweepKeeps ==
    ASSUME StoreInv, NEW s \in Stores, Clean(s) \/ Reclean(s)
    PROVE  StoreInv' /\ UNCHANGED <<visible, promised>> /\ images' \subseteq images
<1>1. PICK next \in {"list", "relist"} :
        /\ CleanTemporaries(s, next)
        /\ next = "relist" => tx[s].phase = "reclean"
        /\ tx[s].phase \in {"clean", "reclean"}
    BY DEF Clean, Reclean
<1> DEFINE stale == {t \in Stores : Superseded(t)}
           c(t) == [tx[t] EXCEPT !.temporary = @ /\ t \notin stale,
                                 !.phase = IF t = s THEN next ELSE @]
<1>2. /\ tx' = [t \in Stores |-> c(t)] /\ UNCHANGED <<visible, promised>>
      /\ images' = images \/ images' = {visible}
    BY <1>1 DEF CleanTemporaries, Synced
<1>3. ASSUME NEW t \in Stores
      PROVE  /\ tx'[t] \in Call /\ tx'[t].head = tx[t].head /\ tx'[t].source = tx[t].source
             /\ tx'[t].base = tx[t].base /\ tx'[t].victims = tx[t].victims
             /\ tx'[t].request = tx[t].request /\ tx'[t].listing = tx[t].listing
             /\ tx'[t].phase = IF t = s THEN next ELSE tx[t].phase
             /\ tx'[t].temporary => tx[t].temporary /\ t \notin stale
    <2>1. tx'[t] = c(t)
        BY <1>2
    <2>2. tx[t] \in Call
        BY InvFacts
    <2>3. (IF t = s THEN next ELSE tx[t].phase) \in Phases
        BY <2>2 DEF Phases, Call
    <2> HIDE DEF stale
    <2> QED BY <2>1, <2>2, <2>3 DEF Call
<1>4. tx' \in [Stores -> Call]
    <2> HIDE DEF c
    <2>1. DOMAIN tx' = Stores /\ tx' = [t \in Stores |-> tx'[t]]
        BY <1>2
    <2> QED BY <2>1, <1>3
<1>5. visible \in images /\ images' \subseteq images /\ visible \in images'
    BY <1>2, InvFacts
<1>6. TypeOK'
    BY <1>2, <1>4, <1>5 DEF StoreInv, TypeOK
<1> HIDE DEF c, stale
<1>7. ASSUME NEW t \in Stores PROVE CallOK(tx'[t], visible')
    <2>1. CallOK(tx[t], visible) /\ visible' = visible
        BY <1>2, InvFacts
    <2>2. CASE t # s
        <3>1. tx'[t].temporary => tx[t].temporary
            BY <1>3
        <3>2. tx'[t].phase = tx[t].phase
            BY <2>2, <1>3
        <3> QED BY <2>1, <3>1, <3>2, <1>3, TemporaryLost
    <2>3. CASE t = s
        BY <2>1, <2>3, <1>1, <1>3
        DEF CallOK, SnapshotFresh, Publishing, Reading, Updating, Committing
    <2> QED BY <2>2, <2>3
<1>8. ASSUME NEW t \in Stores, NEW u \in Stores PROVE Ordered(tx'[t], tx'[u])
    <2>1. SUFFICES ASSUME Publishing(tx'[t]), tx'[u].phase \in {"relist", "compact"}
                   PROVE  tx[u].head <= tx[t].head
        BY <1>3 DEF Ordered
    <2>2. t # s /\ Publishing(tx[t]) /\ t \notin stale
        BY <2>1, <1>1, <1>3 DEF Publishing
    <2>3. CASE u # s
        BY <2>1, <2>2, <2>3, <1>3 DEF StoreInv, Ordered
    <2>4. CASE u = s
        <3>1. tx[t].head + 1 \notin DOMAIN visible
            BY <2>2 DEF Superseded, Publishing, stale
        <3>2. Top(visible) <= tx[t].head
            BY <3>1, <2>2, InvFacts DEF CallOK, LinkFirst
        <3>3. tx[s].head <= Top(visible)
            BY InvFacts DEF CallOK
        <3>4. tx[s].head \in Nat /\ tx[t].head \in Nat /\ Top(visible) \in Nat
            BY InvFacts, DirectoryFacts, StoreConstants DEF Call
        <3> QED BY <2>4, <3>2, <3>3, <3>4
    <2> QED BY <2>3, <2>4
<1>9. \A dir \in images' : ImageOK(dir)'
    BY <1>2, <1>5 DEF StoreInv, ImageOK
<1> QED
    BY <1>2, <1>5, <1>6, <1>7, <1>8, <1>9 DEF StoreInv

\* The directory loses a revision below its top that no load returns.
LEMMA RemovalKeepsCall ==
    ASSUME NEW dir, IsDirectory(dir), NEW c \in Call, CallOK(c, dir),
           NEW v, v # Top(dir), v # Live(dir),
           Publishing(c) => v # c.head + 1
    PROVE  CallOK(c, Without(dir, v))
<1> DEFINE new == Without(dir, v)
<1>1. /\ IsDirectory(new) /\ DOMAIN new = DOMAIN dir \ {v}
      /\ Top(new) = Top(dir) /\ Live(new) = Live(dir) /\ Shown(new) = Shown(dir)
    BY Removed
<1> HIDE DEF new
<1>2. c.phase = "read" => ListingComplete(c, new)
    BY <1>1 DEF CallOK, ListingComplete
<1>3. c.phase \in Reading => SnapshotFresh(c, new)
    BY <1>1 DEF CallOK, SnapshotFresh
<1>4. c.phase = "compact" => VictimsOld(c, new)
    BY <1>1 DEF CallOK, VictimsOld
<1>5. Publishing(c) => LinkFirst(c, new) /\ RoomLeft(c, new)
    <2>1. SUFFICES ASSUME Publishing(c) PROVE LinkFirst(c, new) /\ RoomLeft(c, new)
        OBVIOUS
    <2>2. LinkFirst(c, new)
        BY <2>1, <1>1 DEF CallOK, LinkFirst
    <2>3. RoomLeft(c, new)
        <3>1. SUFFICES ASSUME c.head + 1 \notin DOMAIN new
                       PROVE  Cardinality(DOMAIN new \ c.victims) <= Retention - 1
            BY DEF RoomLeft
        <3>2. c.head + 1 \notin DOMAIN dir
            BY <3>1, <2>1, <1>1
        <3>3. Cardinality(DOMAIN dir \ c.victims) <= Retention - 1
            BY <3>2, <2>1 DEF CallOK, RoomLeft
        <3>4. DOMAIN dir \ c.victims \in SUBSET Revisions
            BY DirectoryFacts
        <3>5. IsFiniteSet(DOMAIN dir \ c.victims)
            BY <3>4, RevisionSets
        <3>6. DOMAIN new \ c.victims \in SUBSET (DOMAIN dir \ c.victims)
            BY <1>1
        <3>7. /\ Cardinality(DOMAIN new \ c.victims) <= Cardinality(DOMAIN dir \ c.victims)
              /\ Cardinality(DOMAIN new \ c.victims) \in Nat
              /\ Cardinality(DOMAIN dir \ c.victims) \in Nat
            BY <3>5, <3>6, FS_Subset, FS_CardinalityType
        <3> QED BY <3>3, <3>7, StoreConstants
    <2> QED BY <2>2, <2>3
<1>6. c.phase = "sync" => Outcome(c) \subseteq Shown(new)
    BY <1>1 DEF CallOK
<1>7. c.head <= Top(new)
    BY <1>1 DEF CallOK
<1> QED
    BY <1>2, <1>3, <1>4, <1>5, <1>6, <1>7 DEF CallOK, new

LEMMA RemovalKeepsImage ==
    ASSUME NEW dir, IsDirectory(dir), Growing(dir), Cardinality(DOMAIN dir) <= Retention,
           NEW v, v # Top(dir), v # Live(dir)
    PROVE  Growing(Without(dir, v)) /\ Cardinality(DOMAIN Without(dir, v)) <= Retention
<1> DEFINE new == Without(dir, v)
<1>1. /\ DOMAIN new = DOMAIN dir \ {v} /\ Readable(new) = Readable(dir) \ {v}
      /\ \A q \in DOMAIN new : new[q] = dir[q]
    BY Removed DEF Without
<1> HIDE DEF new
<1>2. Growing(new)
    BY <1>1, DirectoryFacts DEF Growing
<1>3. IsFiniteSet(DOMAIN dir) /\ DOMAIN new \in SUBSET DOMAIN dir
    BY <1>1, DirectoryFacts, RevisionSets
<1>4. /\ Cardinality(DOMAIN new) <= Cardinality(DOMAIN dir)
      /\ Cardinality(DOMAIN new) \in Nat /\ Cardinality(DOMAIN dir) \in Nat
    BY <1>3, FS_Subset, FS_CardinalityType
<1> QED
    BY <1>2, <1>4, StoreConstants DEF new

LEMMA RemoveVictimKeeps ==
    ASSUME StoreInv, NEW s \in Stores, RemoveVictim(s)
    PROVE  /\ StoreInv' /\ Shown(visible') = Shown(visible) /\ promised' = promised
           /\ images' = images \cup {visible'}
           /\ Readable(visible) # {} => Readable(visible') # {}
<1> DEFINE v == Newest(tx[s].victims)
           c == [tx[s] EXCEPT !.victims = @ \ {v}]
<1>1. /\ tx[s].phase = "compact" /\ tx[s].victims # {}
      /\ visible' = Without(visible, v) /\ images' = images \cup {visible'}
      /\ tx' = [tx EXCEPT ![s] = c] /\ promised' = promised
    BY DEF RemoveVictim, Changes
<1>2. /\ tx[s] \in Call /\ CallOK(tx[s], visible) /\ IsDirectory(visible) /\ ImageOK(visible)
      /\ tx[s].victims \in SUBSET Revisions
    BY InvFacts DEF Call
<1>3. v \in tx[s].victims /\ v \in Nat
    BY <1>1, <1>2, NewestFacts, RevisionSets
<1>4. /\ v <= tx[s].head /\ v < Top(visible) /\ v # tx[s].source
      /\ SnapshotFresh(tx[s], visible)
    BY <1>1, <1>2, <1>3 DEF CallOK, VictimsOld, Reading
<1>5. Top(visible) \in Nat /\ Live(visible) \in Nat /\ tx[s].head \in Nat
    BY <1>2, DirectoryFacts, StoreConstants DEF Call
<1>6. v # Top(visible) /\ v # Live(visible)
    BY <1>3, <1>4, <1>5 DEF SnapshotFresh
<1>7. /\ c \in Call /\ c.phase = "compact" /\ c.head = tx[s].head /\ c.source = tx[s].source
      /\ c.base = tx[s].base /\ c.victims = tx[s].victims \ {v} /\ c.request = tx[s].request
      /\ c.temporary = tx[s].temporary
    <2> HIDE DEF v
    <2> QED BY <1>1, <1>2 DEF Call
<1> HIDE DEF c
<1>8. /\ IsDirectory(visible') /\ DOMAIN visible' = DOMAIN visible \ {v}
      /\ Top(visible') = Top(visible) /\ Live(visible') = Live(visible)
      /\ Shown(visible') = Shown(visible) /\ Readable(visible') = Readable(visible) \ {v}
    BY <1>1, <1>2, <1>6, Removed
<1> HIDE DEF v
<1>9. ASSUME NEW t \in Stores PROVE CallOK(tx[t], visible')
    <2>1. tx[t] \in Call /\ CallOK(tx[t], visible)
        BY InvFacts
    <2>2. Publishing(tx[t]) => v # tx[t].head + 1
        <3>1. SUFFICES ASSUME Publishing(tx[t]) PROVE v # tx[t].head + 1
            OBVIOUS
        <3>2. tx[s].head <= tx[t].head
            BY <3>1, <1>1 DEF StoreInv, Ordered
        <3>3. tx[t].head \in Nat
            BY <2>1, StoreConstants DEF Call
        <3> QED BY <3>2, <3>3, <1>3, <1>4, <1>5
    <2> QED BY <2>1, <2>2, <1>1, <1>2, <1>6, RemovalKeepsCall
<1>10. CallOK(c, visible')
    <2>1. CallOK(tx[s], visible')
        BY <1>9
    <2>2. SnapshotFresh(c, visible') /\ VictimsOld(c, visible')
        BY <2>1, <1>1, <1>7 DEF CallOK, SnapshotFresh, VictimsOld, Reading
    <2>3. Publishing(c) => LinkFirst(c, visible') /\ RoomLeft(c, visible')
        <3>1. DOMAIN visible' \ c.victims = DOMAIN visible' \ tx[s].victims
            BY <1>7, <1>8
        <3> QED BY <3>1, <2>1, <1>1, <1>7 DEF CallOK, Publishing, LinkFirst, RoomLeft
    <2> QED BY <2>1, <2>2, <2>3, <1>1, <1>7 DEF CallOK, Updating, Reading, Committing
<1>11. tx \in [Stores -> Call] /\ tx'[s] = c /\ \A t \in Stores : t # s => tx'[t] = tx[t]
    BY <1>1, InvFacts
<1>12. \A t \in Stores : CallOK(tx'[t], visible')
    BY <1>9, <1>10, <1>11
<1>13. \A t, u \in Stores : Ordered(tx'[t], tx'[u])
    <2>1. ASSUME NEW t \in Stores
          PROVE  /\ tx'[t].phase = tx[t].phase /\ tx'[t].head = tx[t].head
                 /\ tx'[t].temporary = tx[t].temporary
        BY <1>1, <1>7, <1>11
    <2> QED BY <2>1 DEF StoreInv, Ordered, Publishing
<1>14. TypeOK'
    <2>1. tx' \in [Stores -> Call]
        BY <1>1, <1>7, <1>11
    <2> QED BY <2>1, <1>1, <1>8 DEF StoreInv, TypeOK
<1>15. ASSUME NEW dir \in images' PROVE ImageOK(dir)'
    <2>1. CASE dir \in images
        BY <2>1, <1>1, <1>8 DEF StoreInv, ImageOK
    <2>2. CASE dir = visible'
        BY <2>2, <1>1, <1>2, <1>6, <1>8, RemovalKeepsImage DEF ImageOK
    <2> QED BY <1>1, <2>1, <2>2
<1>16. Readable(visible) # {} => Readable(visible') # {}
    BY <1>2, <1>6, <1>8, DirectoryFacts
<1> QED
    BY <1>1, <1>8, <1>12, <1>13, <1>14, <1>15, <1>16 DEF StoreInv

\* The directory gains the next revision: whoever has read before is now stale
\* and will find it in his way.
LEMMA GrowthKeepsCall ==
    ASSUME NEW dir, IsDirectory(dir), NEW c \in Call, CallOK(c, dir),
           Top(dir) + 1 \in Revisions, NEW p \in Profiles, Shown(dir) \subseteq p
    PROVE  CallOK(c, With(dir, Top(dir) + 1, p))
<1> DEFINE r == Top(dir) + 1
           new == With(dir, r, p)
<1>1. Top(dir) \in Nat /\ Top(dir) < r /\ c.head \in Nat /\ Newest(c.listing) \in Nat
    BY DirectoryFacts, NewestFacts, StoreConstants DEF Call
<1>2. /\ DOMAIN new = DOMAIN dir \cup {r} /\ Top(new) = r /\ Live(new) = r /\ Shown(new) = p
    <2>1. Top(dir) < r /\ r \in Revisions
        BY <1>1
    <2> HIDE DEF r
    <2> QED BY <2>1, Published
<1> HIDE DEF new
<1>3. c.head <= Top(dir)
    BY DEF CallOK
<1>4. c.phase = "read" => ListingComplete(c, new)
    BY <1>1, <1>2 DEF CallOK, ListingComplete
<1>5. c.phase \in Reading => SnapshotFresh(c, new)
    BY <1>1, <1>2, <1>3 DEF CallOK, SnapshotFresh
<1>6. c.phase = "compact" => VictimsOld(c, new)
    <2>1. \A v \in c.victims : v \in Nat
        BY RevisionSets DEF Call
    <2> QED BY <1>1, <1>2, <2>1 DEF CallOK, VictimsOld
<1>7. Publishing(c) => LinkFirst(c, new) /\ RoomLeft(c, new)
    BY <1>1, <1>2, <1>3 DEF CallOK, LinkFirst, RoomLeft
<1>8. c.phase = "sync" => Outcome(c) \subseteq Shown(new)
    BY <1>2 DEF CallOK
<1>9. c.head <= Top(new)
    BY <1>1, <1>2, <1>3
<1> QED
    BY <1>4, <1>5, <1>6, <1>7, <1>8, <1>9 DEF CallOK, new, r

LEMMA GrowthKeepsImage ==
    ASSUME NEW dir, IsDirectory(dir), Growing(dir), Cardinality(DOMAIN dir) <= Retention - 1,
           NEW r \in Revisions, Top(dir) < r, NEW p \in Profiles, Shown(dir) \subseteq p
    PROVE  Growing(With(dir, r, p)) /\ Cardinality(DOMAIN With(dir, r, p)) <= Retention
<1> DEFINE new == With(dir, r, p)
<1>1. DOMAIN new = DOMAIN dir \cup {r} /\ new[r] = p
      /\ \A q \in DOMAIN new : q # r => new[q] = dir[q]
    BY DEF With
<1>2. DOMAIN dir \in SUBSET Revisions /\ Top(dir) \in Nat /\ \A q \in DOMAIN dir : q <= Top(dir)
    BY DirectoryFacts, StoreConstants
<1>3. r \in Nat /\ \A q \in DOMAIN dir : q \in Nat /\ q < r
    BY <1>2, RevisionSets, StoreConstants DEF Revisions
<1> HIDE DEF new
<1>4. ASSUME NEW q \in Readable(dir) PROVE dir[q] \subseteq p
    <2>1. Live(dir) \in Readable(dir) /\ Shown(dir) = dir[Live(dir)]
        BY DirectoryFacts
    <2>2. q <= Live(dir)
        BY DirectoryFacts, NewestFacts DEF Live
    <2> QED BY <2>1, <2>2 DEF Growing
<1>5. ASSUME NEW q \in Readable(new), NEW t \in Readable(new), q <= t
      PROVE  new[q] \subseteq new[t]
    <2>1. ASSUME NEW x \in Readable(new), x # r
          PROVE  x \in Readable(dir) /\ new[x] = dir[x] /\ x < r
        <3>1. x \in DOMAIN new /\ new[x] # Corrupt
            BY DEF Readable
        <3>2. x \in DOMAIN dir /\ new[x] = dir[x]
            BY <3>1, <2>1, <1>1
        <3> QED BY <3>1, <3>2, <1>3 DEF Readable
    <2>2. CASE t = r
        BY <2>1, <2>2, <1>1, <1>4
    <2>3. CASE t # r
        <3>1. t \in Readable(dir) /\ new[t] = dir[t] /\ t < r /\ t \in Nat
            BY <2>1, <2>3, <1>3 DEF Readable
        <3>2. q # r
            BY <3>1, <1>3, <1>5
        <3>3. q \in Readable(dir) /\ new[q] = dir[q]
            BY <2>1, <3>2
        <3> QED BY <3>1, <3>3, <1>5 DEF Growing
    <2> QED BY <2>2, <2>3
<1>6. Cardinality(DOMAIN new) <= Retention
    <2>1. IsFiniteSet(DOMAIN dir) /\ r \notin DOMAIN dir
        BY <1>2, <1>3, RevisionSets
    <2>2. Cardinality(DOMAIN dir) \in Nat /\ Cardinality(DOMAIN new) = Cardinality(DOMAIN dir) + 1
        BY <2>1, <1>1, FS_AddElement, FS_CardinalityType
    <2> QED BY <2>2, StoreConstants
<1> QED
    BY <1>5, <1>6 DEF Growing, new

\* The link takes effect: it adds the call's request, if that is an update, to
\* what the directory showed.
LEMMA LinkKeeps ==
    ASSUME StoreInv, NEW s \in Stores, Link(s)
    PROVE  /\ StoreInv' /\ promised' = promised /\ images' = images \cup {visible'}
           /\ Shown(visible') = Shown(visible) \cup ({tx[s].request} \cap Requests)
           /\ tx[s].request \notin Shown(visible) /\ Readable(visible') # {}
<1> DEFINE r == tx[s].head + 1
           p == Updated(s)
           c == [tx[s] EXCEPT !.phase = "sync", !.temporary = FALSE]
<1>1. /\ tx[s].phase = "link" /\ tx[s].temporary /\ r \notin DOMAIN visible
      /\ visible' = With(visible, r, p) /\ images' = images \cup {visible'}
      /\ tx' = [tx EXCEPT ![s] = c] /\ promised' = promised
    BY DEF Link, Changes
<1>2. /\ tx[s] \in Call /\ CallOK(tx[s], visible) /\ IsDirectory(visible) /\ ImageOK(visible)
      /\ Top(visible) \in Nat /\ Live(visible) \in Nat /\ tx[s].head \in Nat
      /\ Live(visible) <= Top(visible)
    BY InvFacts, DirectoryFacts, StoreConstants DEF Call
<1>3. /\ SnapshotFresh(tx[s], visible) /\ LinkFirst(tx[s], visible) /\ RoomLeft(tx[s], visible)
      /\ tx[s].victims = {} /\ tx[s].head <= Top(visible) /\ tx[s].head < MaxRevision
      /\ tx[s].request \notin tx[s].base
    BY <1>1, <1>2 DEF CallOK, Publishing, Reading, Updating, Committing
<1>4. Top(visible) = tx[s].head
    BY <1>1, <1>2, <1>3 DEF LinkFirst
<1>5. tx[s].base = Shown(visible)
    BY <1>2, <1>3, <1>4 DEF SnapshotFresh
<1>6. r \in Revisions
    BY <1>2, <1>3, StoreConstants DEF Revisions
<1>7. p = Shown(visible) \cup ({tx[s].request} \cap Requests) /\ p \in Profiles
    BY <1>2, <1>5 DEF Updated, Call, Profiles
<1>8. /\ c \in Call /\ c.phase = "sync" /\ c.head = tx[s].head /\ c.base = tx[s].base
      /\ c.victims = tx[s].victims /\ c.request = tx[s].request /\ ~c.temporary
    BY <1>2 DEF Call, Phases
<1> HIDE DEF c, p
<1>9. /\ IsDirectory(visible') /\ DOMAIN visible' = DOMAIN visible \cup {r}
      /\ Top(visible') = r /\ Shown(visible') = p /\ Readable(visible') # {}
    <2>1. Top(visible) < r
        BY <1>2, <1>4
    <2> HIDE DEF r
    <2> DEFINE new == With(visible, r, p)
    <2>2. /\ IsDirectory(new) /\ DOMAIN new = DOMAIN visible \cup {r}
          /\ Top(new) = r /\ Shown(new) = p /\ Readable(new) # {}
        <3>1. IsDirectory(visible)
            BY <1>2
        <3>2. p \in Profiles
            BY <1>7
        <3> QED BY <2>1, <3>1, <3>2, <1>6, Published
    <2>3. visible' = new
        BY <1>1
    <2> HIDE DEF new
    <2> QED BY <2>2, <2>3
<1>10. ASSUME NEW t \in Stores PROVE CallOK(tx[t], visible')
    <2>1. tx[t] \in Call /\ CallOK(tx[t], visible)
        BY InvFacts
    <2> QED BY <2>1, <1>1, <1>2, <1>4, <1>6, <1>7, GrowthKeepsCall
<1>11. CallOK(c, visible')
    <2>1. Outcome(c) = p
        BY <1>8 DEF Outcome, Updated, p
    <2>2. c.head <= Top(visible')
        BY <1>2, <1>8, <1>9
    <2> QED BY <2>1, <2>2, <1>3, <1>8, <1>9 DEF CallOK, Reading, Updating, Committing, Publishing
<1>12. tx \in [Stores -> Call] /\ tx'[s] = c /\ \A t \in Stores : t # s => tx'[t] = tx[t]
    BY <1>1, InvFacts
<1>13. \A t \in Stores : CallOK(tx'[t], visible')
    BY <1>10, <1>11, <1>12
<1>14. \A t, u \in Stores : Ordered(tx'[t], tx'[u])
    BY <1>8, <1>12 DEF StoreInv, Ordered, Publishing
<1>15. TypeOK'
    <2>1. tx' \in [Stores -> Call]
        BY <1>1, <1>8, <1>12
    <2> QED BY <2>1, <1>1, <1>9 DEF StoreInv, TypeOK
<1>16. Cardinality(DOMAIN visible) <= Retention - 1
    BY <1>1, <1>3 DEF RoomLeft
<1>17. ASSUME NEW dir \in images' PROVE ImageOK(dir)'
    <2>1. CASE dir \in images
        BY <2>1, <1>1, <1>7, <1>9 DEF StoreInv, ImageOK
    <2>2. CASE dir = visible'
        <3>1. Growing(visible') /\ Cardinality(DOMAIN visible') <= Retention
            BY <1>1, <1>2, <1>4, <1>6, <1>7, <1>16, GrowthKeepsImage DEF ImageOK
        <3>2. promised' \subseteq Shown(visible')
            BY <1>1, <1>2, <1>7, <1>9 DEF ImageOK
        <3> QED BY <2>2, <3>1, <3>2 DEF ImageOK
    <2> QED BY <1>1, <2>1, <2>2
<1> QED
    BY <1>1, <1>3, <1>5, <1>7, <1>9, <1>13, <1>14, <1>15, <1>17 DEF StoreInv

\* After a power loss no call is left, and the directory is one of the images.
LEMMA PowerLossKeeps ==
    ASSUME StoreInv, PowerLoss
    PROVE  StoreInv'
<1>1. /\ visible' \in images /\ images' = {visible'} /\ promised' = promised
      /\ tx' = [s \in Stores |-> NoCall]
    BY DEF PowerLoss
<1>2. IsDirectory(visible') /\ ImageOK(visible')
    <2>1. \A dir \in images : IsDirectory(dir) /\ ImageOK(dir)
        BY DEF StoreInv, TypeOK
    <2> QED BY <1>1, <2>1
<1>3. TypeOK'
    BY <1>1, <1>2, NoCallType DEF StoreInv, TypeOK
<1>4. NoCall.phase = "idle" /\ NoCall.head = 0 /\ NoCall.victims = {} /\ ~NoCall.temporary
    BY DEF NoCall
<1>5. CallOK(NoCall, visible')
    <2>1. 0 <= Top(visible')
        BY <1>2, DirectoryFacts, StoreConstants
    <2> QED BY <1>4, <2>1 DEF CallOK, Reading, Updating, Committing, Publishing
<1>6. \A dir \in images' : ImageOK(dir)'
    BY <1>1, <1>2 DEF ImageOK
<1>7. \A s, u \in Stores : Ordered(tx'[s], tx'[u])
    BY <1>1, <1>4 DEF Ordered, Publishing
<1> QED
    BY <1>1, <1>3, <1>5, <1>6, <1>7 DEF StoreInv

LEMMA StartsInOrder ==
    ASSUME Init
    PROVE  StoreInv
<1>1. PICK count \in {n \in 0 .. Retention : n <= MaxRevision} :
           visible \in [1 .. count -> {{}, Corrupt}]
    BY DEF Init
<1>2. /\ images = {visible} /\ promised = {} /\ tx = [s \in Stores |-> NoCall]
      /\ DOMAIN visible = 1 .. count
      /\ count \in Nat /\ count <= Retention /\ count <= MaxRevision
    BY <1>1, StoreConstants DEF Init
<1>3. IsDirectory(visible)
    <2>1. DOMAIN visible \subseteq Revisions
        BY <1>2, StoreConstants DEF Revisions
    <2>2. \A r \in DOMAIN visible : visible[r] \in Profiles \cup {Corrupt}
        BY <1>1 DEF Profiles
    <2>3. visible = [r \in DOMAIN visible |-> visible[r]]
        BY <1>1
    <2> QED BY <2>1, <2>2, <2>3 DEF IsDirectory
<1>4. TypeOK
    BY <1>2, <1>3, NoCallType DEF TypeOK, Profiles
<1>5. ImageOK(visible)
    <2>1. Growing(visible)
        <3>1. \A r \in Readable(visible) : visible[r] = {}
            BY <1>1 DEF Readable
        <3> QED BY <3>1 DEF Growing
    <2>2. Cardinality(DOMAIN visible) <= Retention
        <3>1. Cardinality(1 .. count) = IF 1 > count THEN 0 ELSE count - 1 + 1
            BY <1>2, FS_Interval
        <3> QED BY <3>1, <1>2, StoreConstants
    <2> QED BY <2>1, <2>2, <1>2 DEF ImageOK
<1>6. NoCall.phase = "idle" /\ NoCall.head = 0 /\ NoCall.victims = {} /\ ~NoCall.temporary
    BY DEF NoCall
<1>7. CallOK(NoCall, visible)
    <2>1. 0 <= Top(visible)
        BY <1>3, DirectoryFacts, StoreConstants
    <2> QED BY <1>6, <2>1 DEF CallOK, Reading, Updating, Committing, Publishing
<1> QED
    BY <1>2, <1>4, <1>5, <1>6, <1>7 DEF StoreInv, Ordered, Publishing
--------------------------------------------------------------------------------
(* Theorems.                                                                *)

\* What a step does to the register: a link commits one update, an answer
\* promises what is shown, a power loss falls back to a state that keeps the
\* promises, and nothing else shows.
LEMMA StoreStepKeeps ==
    ASSUME StoreInv, NEW s \in Stores, StoreStep(s)
    PROVE  /\ StoreInv'
           /\ \/ /\ Shown(visible') = Shown(visible)
                 /\ \E snapshot \in Profiles :
                       snapshot \subseteq Shown(visible) /\ promised' = promised \cup snapshot
              \/ /\ promised' = promised
                 /\ \E r \in Requests :
                       r \notin Shown(visible) /\ Shown(visible') = Shown(visible) \cup {r}
           /\ (\A dir \in images : Readable(dir) # {}) => (\A dir \in images' : Readable(dir) # {})
<1> DEFINE Same == visible' = visible /\ promised' = promised
<1>1. visible \in images
    BY InvFacts
<1>2. ASSUME Same, images' \subseteq images, StoreInv'
      PROVE  /\ Shown(visible') = Shown(visible)
             /\ \E snapshot \in Profiles :
                   snapshot \subseteq Shown(visible) /\ promised' = promised \cup snapshot
             /\ (\A dir \in images : Readable(dir) # {}) => (\A dir \in images' : Readable(dir) # {})
    <2>1. {} \in Profiles /\ {} \subseteq Shown(visible) /\ promised' = promised \cup {}
        BY <1>2 DEF Profiles
    <2>2. Shown(visible') = Shown(visible)
        BY <1>2
    <2> QED BY <1>2, <2>1, <2>2
<1>3. CASE \E r \in Requests \cup {Load} : Begin(s, r)
    BY <1>2, <1>3, BeginKeeps DEF Begin
<1>4. CASE List(s)
    BY <1>2, <1>4, ListKeeps DEF List
<1>5. CASE Read(s)
    BY <1>2, <1>5, ReadKeeps DEF Read
<1>6. CASE Prepare(s)
    BY <1>2, <1>6, PrepareKeeps DEF Prepare
<1>7. CASE LoseHead(s) \/ LoseLink(s)
    BY <1>2, <1>7, RetryKeeps DEF LoseHead, LoseLink
<1>8. CASE KeepHead(s)
    BY <1>2, <1>8, KeepHeadKeeps DEF KeepHead
<1>9. CASE SourceVanished(s)
    BY <1>2, <1>9, SourceVanishedKeeps DEF SourceVanished
<1>10. CASE Abandon(s)
    BY <1>2, <1>10, AbandonKeeps DEF Abandon
<1>11. CASE Clean(s) \/ Reclean(s)
    BY <1>2, <1>11, SweepKeeps
<1>12. CASE SyncRemovals(s)
    BY <1>1, <1>2, <1>12, SyncRemovalsKeeps DEF SyncRemovals, Synced
<1>13. CASE Committed(s) \/ Unchanged(s)
    <2>1. visible' = visible /\ images' \subseteq images
        BY <1>1, <1>13 DEF Committed, Unchanged, Synced
    <2> QED BY <2>1, <1>13, AnswerKeeps
<1>14. CASE RemoveVictim(s)
    <2>1. promised' = promised \cup {} /\ {} \in Profiles
        BY <1>14, RemoveVictimKeeps DEF Profiles
    <2>2. (\A dir \in images : Readable(dir) # {}) => (\A dir \in images' : Readable(dir) # {})
        BY <1>1, <1>14, RemoveVictimKeeps
    <2> QED BY <2>1, <2>2, <1>14, RemoveVictimKeeps
<1>15. CASE Link(s)
    <2>1. CASE tx[s].request \in Requests
        BY <2>1, <1>15, LinkKeeps
    <2>2. CASE tx[s].request \notin Requests
        <3>1. Shown(visible') = Shown(visible) /\ promised' = promised \cup {} /\ {} \in Profiles
            BY <2>2, <1>15, LinkKeeps DEF Profiles
        <3> QED BY <3>1, <1>15, LinkKeeps
    <2> QED BY <2>1, <2>2
<1> QED
    BY <1>3, <1>4, <1>5, <1>6, <1>7, <1>8, <1>9, <1>10, <1>11, <1>12, <1>13, <1>14, <1>15
    DEF StoreStep

LEMMA StoreInvHolds == Spec => []StoreInv
<1>1. Init => StoreInv
    BY StartsInOrder
<1>2. StoreInv /\ [Next]_vars => StoreInv'
    <2> SUFFICES ASSUME StoreInv, [Next]_vars PROVE StoreInv'
        OBVIOUS
    <2>1. CASE \E s \in Stores : StoreStep(s)
        BY <2>1, StoreStepKeeps
    <2>2. CASE PowerLoss
        BY <2>2, PowerLossKeeps
    <2>3. CASE UNCHANGED vars
        BY <2>3
        DEF vars, StoreInv, TypeOK, CallOK, Ordered, ImageOK
    <2> QED BY <2>1, <2>2, <2>3 DEF Next
<1> QED
    BY <1>1, <1>2, PTL DEF Spec

\* The directory, its images and every call keep their types
\* (ProfileTransaction and the files of store.rs).
THEOREM TypeCorrect == Spec => []TypeOK
<1>1. StoreInv => TypeOK
    BY DEF StoreInv
<1> QED
    BY <1>1, StoreInvHolds, PTL

\* No acknowledged update is ever lost, for any number of processes and wherever
\* the power fails (transaction, publish_new_file, sync_directory).
THEOREM NoPromiseIsBroken == Spec => []PromisesSurvive
<1>1. StoreInv => PromisesSurvive
    BY DEF StoreInv, ImageOK, PromisesSurvive
<1> QED
    BY <1>1, StoreInvHolds, PTL

\* A directory never holds more than the retention, whatever a power loss brings
\* back and however many stores compact at once (precompact_profile_revisions).
THEOREM DirectoriesStayBounded == Spec => []RetentionHolds
<1>1. StoreInv => RetentionHolds
    BY DEF StoreInv, ImageOK, RetentionHolds
<1> QED
    BY <1>1, StoreInvHolds, PTL

\* Once a readable profile survives every power loss, one always will
\* (protected_source_revision).
THEOREM AReadableProfileRemains == Spec => ReadableStaysReadable
<1>1. ASSUME StoreInv, [Next]_vars
      PROVE  [(\A dir \in images : Readable(dir) # {})
                => (\A dir \in images' : Readable(dir) # {})]_vars
    <2>1. CASE \E s \in Stores : StoreStep(s)
        BY <2>1, <1>1, StoreStepKeeps
    <2>2. CASE PowerLoss
        BY <2>2 DEF PowerLoss
    <2>3. CASE UNCHANGED vars
        BY <2>3
    <2> QED BY <1>1, <2>1, <2>2, <2>3 DEF Next
<1> QED
    BY <1>1, StoreInvHolds, PTL DEF Spec, ReadableStaysReadable

\* The stores together are one register: every step is a commit, an answer, the
\* loss of updates nobody was promised, or a stutter of ProfileRegister.
THEOREM StoresImplementRegister == Spec => ImplementsRegister
<1>1. Init => Register!Init
    <2> SUFFICES ASSUME Init PROVE Register!Init
        OBVIOUS
    <2>1. promised = {} /\ visible \in images /\ IsDirectory(visible)
        BY StartsInOrder DEF Init, StoreInv, TypeOK
    <2>2. \A r \in Readable(visible) : visible[r] = {}
        BY DEF Init, Readable
    <2>3. Shown(visible) = {}
        BY <2>1, <2>2, DirectoryFacts
    <2> QED BY <2>1, <2>3 DEF Register!Init
<1>2. ASSUME StoreInv, [Next]_vars PROVE [Register!Next]_(Register!vars)
    <2>1. CASE \E s \in Stores : StoreStep(s)
        <3>1. PICK s \in Stores : StoreStep(s)
            BY <2>1
        <3>2. CASE /\ Shown(visible') = Shown(visible)
                   /\ \E snapshot \in Profiles :
                         snapshot \subseteq Shown(visible) /\ promised' = promised \cup snapshot
            <4>1. PICK snapshot \in Profiles :
                      snapshot \subseteq Shown(visible) /\ promised' = promised \cup snapshot
                BY <3>2
            <4>2. Register!Answer(snapshot)
                BY <3>2, <4>1 DEF Register!Answer
            <4> QED BY <4>1, <4>2 DEF Register!Next, Profiles
        <3>3. CASE /\ promised' = promised
                   /\ \E r \in Requests :
                         r \notin Shown(visible) /\ Shown(visible') = Shown(visible) \cup {r}
            <4>1. PICK r \in Requests : Register!Commit(r)
                BY <3>3 DEF Register!Commit
            <4> QED BY <4>1 DEF Register!Next
        <3> QED BY <1>2, <3>1, <3>2, <3>3, StoreStepKeeps
    <2>2. CASE PowerLoss
        <3>1. visible' \in images /\ promised' = promised
            BY <2>2 DEF PowerLoss
        <3>2. promised \subseteq Shown(visible') /\ Shown(visible') \subseteq Shown(visible)
              /\ IsDirectory(visible')
            <4>1. \A dir \in images : IsDirectory(dir) /\ ImageOK(dir)
                BY <1>2 DEF StoreInv, TypeOK
            <4> QED BY <3>1, <4>1 DEF ImageOK
        <3>3. Shown(visible') \in Profiles
            BY <3>2, DirectoryFacts
        <3>4. Register!Lose(Shown(visible'))
            BY <3>1, <3>2 DEF Register!Lose
        <3> QED BY <3>3, <3>4 DEF Register!Next, Profiles
    <2>3. CASE UNCHANGED vars
        BY <2>3 DEF vars, Register!vars, Shown, Readable
    <2> QED BY <1>2, <2>1, <2>2, <2>3 DEF Next
<1> QED
    BY <1>1, <1>2, StoreInvHolds, PTL DEF Spec, ImplementsRegister, Register!Spec
================================================================================
