------------------------------ MODULE ProfileStore ------------------------------
(***************************************************************************)
(* crates/p5136-profile/src/store.rs: one rider's directory of immutable   *)
(* profile revisions, written by several stores at once.                   *)
(*                                                                         *)
(* A store is one process (the server, the GUI, a maintenance command): in *)
(* it the per-nickname mutex lets one call run at a time, so a store's     *)
(* state is that of its one call.  Stores share only the directory.  A     *)
(* call lists the directory, reads the newest readable revision, runs its  *)
(* closure, writes a synced temporary, lists again, compacts, publishes by *)
(* hard link and syncs the directory; the steps of two stores interleave   *)
(* at each of those system calls.                                          *)
(*                                                                         *)
(* A profile is the set of requests applied to it.  The closure is the     *)
(* once-only one of progression.rs: it changes nothing if its request is   *)
(* already there.  An unreadable revision is Corrupt.                      *)
(***************************************************************************)
EXTENDS Integers, FiniteSets

CONSTANTS
    Stores,        \* the processes that write this rider's directory
    Requests,      \* the updates asked for, each to be applied once
    Damaged,       \* marks a revision file that cannot be parsed
    NoRequest,     \* an idle store's request
    Load,          \* load_or_create: read, and create if there is nothing
    Retention,     \* PROFILE_REVISION_RETENTION
    MaxRevision    \* the largest revision number (u64::MAX in the code)

\* The retention is 64.  With two, a readable revision under a damaged one would
\* take the only slot for old revisions: the newest would go, and its number
\* would be used again.
ASSUME StoreConstants ==
    /\ Retention \in Nat /\ Retention >= 3
    /\ MaxRevision \in Nat /\ MaxRevision >= 1
    /\ IsFiniteSet(Stores) /\ IsFiniteSet(Requests)
    /\ Load \notin Requests /\ NoRequest \notin Requests /\ Load # NoRequest
    /\ Damaged \notin Requests

VARIABLES
    visible,    \* the directory every process sees: revision -> contents
    images,     \* the directories a power loss may leave, visible included
    tx,         \* per store, the call it is running
    promised    \* the updates some answered call vouched for

vars == <<visible, images, tx, promised>>

--------------------------------------------------------------------------------
(* Directories.                                                             *)

Revisions == 1 .. MaxRevision
Profiles == SUBSET Requests
Corrupt == {Damaged}
IsDirectory(dir) ==
    DOMAIN dir \subseteq Revisions /\ dir \in [DOMAIN dir -> Profiles \cup {Corrupt}]

\* The newest of a set of revisions, 0 when there is none.
Newest(revs) ==
    IF revs = {} THEN 0 ELSE CHOOSE r \in revs : \A q \in revs : q <= r

Readable(dir) == {r \in DOMAIN dir : dir[r] # Corrupt}

\* What a load of the directory returns, newest readable revision first.
Shown(dir) ==
    IF Readable(dir) = {} THEN {} ELSE dir[Newest(Readable(dir))]

With(dir, r, profile) ==
    [q \in DOMAIN dir \cup {r} |-> IF q = r THEN profile ELSE dir[q]]

Without(dir, r) == [q \in DOMAIN dir \ {r} |-> dir[q]]

\* A directory operation reaches the disk some time after it is seen; what
\* survives a power loss is a state the directory passed through.
Changes(dir) == visible' = dir /\ images' = images \cup {dir}

\* sync_directory returned success.
Synced == images' = {visible'}

--------------------------------------------------------------------------------
(* Calls.                                                                   *)

Phases == {"idle", "clean", "list", "read", "prepare", "reclean", "relist",
           "compact", "link", "sync", "confirm"}

NoCall == [phase |-> "idle", request |-> NoRequest, listing |-> {}, head |-> 0,
           source |-> 0, base |-> {}, temporary |-> FALSE, victims |-> {}]

Call == [phase : Phases, request : Requests \cup {Load, NoRequest},
         listing : SUBSET Revisions, head : 0 .. MaxRevision,
         source : 0 .. MaxRevision, base : Profiles,
         temporary : BOOLEAN, victims : SUBSET Revisions]

TypeOK ==
    /\ \A dir \in images : IsDirectory(dir)
    /\ visible \in images
    /\ tx \in [Stores -> Call]
    /\ promised \in Profiles

\* The directory as it is found: up to Retention files, any of them damaged,
\* none of the requests applied yet.  Numbering starts at 1: only the distance
\* to MaxRevision matters.
Init ==
    /\ \E count \in {n \in 0 .. Retention : n <= MaxRevision} :
          visible \in [1 .. count -> {{}, Corrupt}]
    /\ images = {visible}
    /\ tx = [s \in Stores |-> NoCall]
    /\ promised = {}

Enter(s, phase) == tx' = [tx EXCEPT ![s].phase = phase]

\* The caller holds the nickname's mutex and starts its call.
Begin(s, r) ==
    /\ tx[s].phase = "idle"
    /\ tx' = [tx EXCEPT ![s].phase = "clean", ![s].request = r]
    /\ UNCHANGED <<visible, images, promised>>

--------------------------------------------------------------------------------
(* Listing: cleanup_published_temporary_files, then the directory read.     *)

\* Mutant: the clean-up leaves every temporary alone.
superseded_never(s) == FALSE

\* A temporary whose revision has been published: the link it waits for can
\* no longer be the first.
Superseded(s) == tx[s].temporary /\ tx[s].head + 1 \in DOMAIN visible

\* Removes them, and syncs the directory if it removed any.
CleanTemporaries(s, next) ==
    LET stale == {t \in Stores : Superseded(t)}
    IN  /\ tx' = [t \in Stores |->
                    [tx[t] EXCEPT !.temporary = @ /\ t \notin stale,
                                  !.phase = IF t = s THEN next ELSE @]]
        /\ UNCHANGED <<visible, promised>>
        /\ IF stale = {} THEN UNCHANGED images ELSE Synced

Clean(s) == tx[s].phase = "clean" /\ CleanTemporaries(s, "list")

List(s) ==
    /\ tx[s].phase = "list"
    /\ tx' = [tx EXCEPT ![s].phase = "read", ![s].listing = DOMAIN visible]
    /\ UNCHANGED <<visible, images, promised>>

--------------------------------------------------------------------------------
(* Reading and the closure.                                                 *)

\* The revision the read stops at: damaged ones are skipped, one that has
\* disappeared since the listing is an error.
Candidate(s) ==
    Newest({r \in tx[s].listing : r \notin DOMAIN visible \/ visible[r] # Corrupt})

\* The closure asks for no change, or the profile to load exists.
Settled(r, source, base) == IF r = Load THEN source # 0 ELSE r \in base

Read(s) ==
    LET c == Candidate(s)
        base == IF c = 0 THEN {} ELSE visible[c]
    IN  /\ tx[s].phase = "read"
        /\ c \in DOMAIN visible \/ tx[s].listing = {}
        /\ tx' = [tx EXCEPT
                    ![s].phase = IF Settled(tx[s].request, c, base)
                                 THEN "confirm" ELSE "prepare",
                    ![s].head = Newest(tx[s].listing),
                    ![s].source = c, ![s].base = base, ![s].listing = {}]
        /\ UNCHANGED <<visible, images, promised>>

\* The profile the call wants to publish.
Updated(s) == tx[s].base \cup ({tx[s].request} \cap Requests)

--------------------------------------------------------------------------------
(* The compare-and-swap: save_compare_and_swap_locked.                      *)

Prepare(s) ==
    /\ tx[s].phase = "prepare"
    /\ tx[s].head < MaxRevision
    /\ tx' = [tx EXCEPT ![s].phase = "reclean", ![s].temporary = TRUE]
    /\ UNCHANGED <<visible, images, promised>>

Reclean(s) == tx[s].phase = "reclean" /\ CleanTemporaries(s, "relist")

\* How many revisions of the listing are newer.
Position(r, listing) == Cardinality({q \in listing : q > r})

\* Mutant: one slot too many is kept for old revisions.
victims_keep_one_more(listing, source) ==
    {r \in listing : Position(r, listing) >= Retention /\ r # source}

\* Mutant: the revision the closure was computed from is not protected.
victims_unprotected(listing, source) ==
    {r \in listing : Position(r, listing) >= Retention - 1}

\* What compaction removes: all but the newest, one slot left for the new
\* revision and one for the source when it lies beyond them.
Victims(listing, source) ==
    LET slots  == Retention - 1
        newest == IF source \in listing /\ Position(source, listing) >= slots
                  THEN slots - 1 ELSE slots
    IN  {r \in listing : Position(r, listing) >= newest /\ r # source}

\* The call starts over from a fresh listing, without its temporary.
Retry(s) == tx' = [tx EXCEPT ![s] = [NoCall EXCEPT !.phase = "clean",
                                                   !.request = tx[s].request]]

\* The head moved since the snapshot: the expected value lost.
LoseHead(s) ==
    /\ tx[s].phase = "relist"
    /\ Newest(DOMAIN visible) # tx[s].head
    /\ Retry(s)
    /\ UNCHANGED <<visible, images, promised>>

KeepHead(s) ==
    LET listing == DOMAIN visible
        victims == Victims(listing, tx[s].source)
    IN  /\ tx[s].phase = "relist"
        /\ Newest(listing) = tx[s].head
        /\ tx' = [tx EXCEPT ![s].phase = IF victims = {} THEN "link" ELSE "compact",
                            ![s].victims = victims]
        /\ UNCHANGED <<visible, images, promised>>

\* One unlink; a victim another process removed first is no error.
RemoveVictim(s) ==
    LET v == Newest(tx[s].victims)
    IN  /\ tx[s].phase = "compact"
        /\ tx[s].victims # {}
        /\ Changes(Without(visible, v))
        /\ tx' = [tx EXCEPT ![s].victims = @ \ {v}]
        /\ UNCHANGED promised

\* The removals are durable before anything is published.
SyncRemovals(s) ==
    /\ tx[s].phase = "compact"
    /\ tx[s].victims = {}
    /\ Enter(s, "link")
    /\ UNCHANGED <<visible, promised>>
    /\ Synced

\* publish_new_file: the hard link is atomic and never replaces a file.
Link(s) ==
    LET r == tx[s].head + 1
    IN  /\ tx[s].phase = "link"
        /\ tx[s].temporary
        /\ r \notin DOMAIN visible
        /\ Changes(With(visible, r, Updated(s)))
        /\ tx' = [tx EXCEPT ![s].phase = "sync", ![s].temporary = FALSE]
        /\ UNCHANGED promised

\* The destination exists, whether or not the temporary still does.
LoseLink(s) ==
    /\ tx[s].phase = "link"
    /\ tx[s].head + 1 \in DOMAIN visible
    /\ Retry(s)
    /\ UNCHANGED <<visible, images, promised>>

--------------------------------------------------------------------------------
(* Answers.                                                                 *)

\* Answers the caller; only what a successful sync covered is promised.
Answer(s, snapshot) ==
    /\ promised' = promised \cup snapshot
    /\ tx' = [tx EXCEPT ![s] = NoCall]

\* Committed: the publication's directory sync succeeded.
Committed(s) ==
    /\ tx[s].phase = "sync"
    /\ Answer(s, Updated(s))
    /\ UNCHANGED visible
    /\ Synced

\* Mutant: the answer does not wait for the directory sync.
unconfirmed(s) ==
    /\ tx[s].phase = "confirm"
    /\ Answer(s, tx[s].base)
    /\ UNCHANGED <<visible, images>>

\* Unchanged, or loaded: the directory is synced first, because the revision
\* read may be another process's publication that is not durable yet.
Unchanged(s) ==
    /\ tx[s].phase = "confirm"
    /\ Answer(s, tx[s].base)
    /\ UNCHANGED visible
    /\ Synced

\* load_or_create finds that the revision it read has been compacted away
\* since, and tries to publish it anew; the compare-and-swap will lose.
SourceVanished(s) ==
    /\ tx[s].phase = "confirm"
    /\ tx[s].request = Load
    /\ tx[s].source \notin DOMAIN visible
    /\ Enter(s, "prepare")
    /\ UNCHANGED <<visible, images, promised>>

\* An I/O error, contention or a killed process ends the call; after the link
\* it is CommittedButDurabilityUncertain.  Nothing is promised.
Abandon(s) ==
    /\ tx[s].phase # "idle"
    /\ tx' = [tx EXCEPT ![s] = NoCall]
    /\ UNCHANGED <<visible, images, promised>>

\* Every process stops and the directory is what the disk kept.
PowerLoss ==
    /\ visible' \in images
    /\ images' = {visible'}
    /\ tx' = [s \in Stores |-> NoCall]
    /\ UNCHANGED promised

--------------------------------------------------------------------------------
StoreStep(s) ==
    \/ \E r \in Requests \cup {Load} : Begin(s, r)
    \/ Clean(s) \/ List(s) \/ Read(s)
    \/ Prepare(s) \/ Reclean(s) \/ LoseHead(s) \/ KeepHead(s)
    \/ RemoveVictim(s) \/ SyncRemovals(s)
    \/ Link(s) \/ LoseLink(s) \/ SourceVanished(s)
    \/ Committed(s) \/ Unchanged(s) \/ Abandon(s)

Next == (\E s \in Stores : StoreStep(s)) \/ PowerLoss

Spec == Init /\ [][Next]_vars

--------------------------------------------------------------------------------
(* Properties.                                                              *)

\* No acknowledged update is ever lost: whatever the other stores do and
\* wherever the power fails, the next load shows every update an answered
\* call (Committed, Unchanged or a load) has reported.  transaction() claims
\* it for one compare-and-swap; it needs the temporary clean-up as well, which
\* keeps a stale writer from linking a revision number compaction has freed.
PromisesSurvive == \A dir \in images : promised \subseteq Shown(dir)

\* Compaction never leaves a rider without a readable profile: once a
\* readable revision survives every power loss, one always will, through
\* damaged tails and removals that stop half way
\* (precompact_profile_revisions' protected source).
ReadableStaysReadable ==
    [][(\A dir \in images : Readable(dir) # {})
         => (\A dir \in images' : Readable(dir) # {})]_vars

\* The directory never holds more than Retention revisions, not even the one
\* a power loss restores: removals are durable before the new link.
RetentionHolds == \A dir \in images : Cardinality(DOMAIN dir) <= Retention

\* The stores together implement one register that loses only what was never
\* promised.
Register == INSTANCE ProfileRegister WITH current <- Shown(visible)
ImplementsRegister == Register!Spec
================================================================================
