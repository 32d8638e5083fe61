---------------------------- MODULE VideoDetail ----------------------------
(***************************************************************************)
(* The three-level cache of one video's row: local caches of the API       *)
(* process, video:detail in Redis, MySQL.  Readers are VideoService.       *)
(* GetDetail, which refills under a Redis lock, and FeedService.           *)
(* GetVideoByIDs, which refills without one.  Likes and comments change    *)
(* the row; the popularity event of the same request removes the cached    *)
(* copy, but travels through a queue of its own.                           *)
(*                                                                         *)
(* A row is the number of its version.  Keys may expire at any time.       *)
(***************************************************************************)
EXTENDS Integers, FiniteSets

CONSTANTS
    Readers,     \* API goroutines
    Updates,     \* likes and comments that will change the row
    MaxTries,    \* rounds a reader waits for the holder of the lock (5)
    RedisFails,  \* a Redis access may fail
    NoReader     \* the owner of a free lock

ASSUME UpdatesFinite == IsFiniteSet(Updates)
ASSUME TriesTyped == MaxTries \in Nat \ {0} /\ RedisFails \in BOOLEAN
ASSUME NoReaderDistinct == NoReader \notin Readers

Miss == -1  \* nothing is cached
Gone == -2  \* the row was deleted

Caches == {"video", "feed"}  \* the local caches of VideoService and FeedService

VARIABLES
    row,           \* version of the row, or Gone
    cache,         \* value of video:detail, or Miss
    local,         \* local[c]: copy in local cache c, or Miss
    lock,          \* owner of lock:video:detail
    reader,        \* reader[r]: next step, tries, and the copy it has read
    overdue,       \* history: readers whose lock expired while they held it
    toCommit,      \* updates whose transaction is still to come
    toInvalidate,  \* updates whose removal of the cached copy is still to come
    invalidateLast,\* updates that remove the copy after their own commit
    begun,         \* updates requested so far
    deleter        \* next step of VideoService.Delete

updateVars == <<toCommit, toInvalidate, invalidateLast, begun>>
cacheVars == <<cache, local, lock, overdue>>
vars == <<row, cacheVars, reader, updateVars, deleter>>

Versions == Nat
Copies == Versions \cup {Miss}
DetailSteps == {"Local", "Get", "Lock", "GetAgain", "QueryLocked", "SetLocked",
                "UnLock", "Wait", "Query", "Set"}
FeedSteps == {"FeedLocal", "MGet", "FeedQuery", "FeedSet", "FeedSetLast", "Refill"}
Idle == [at |-> "idle", tries |-> 0, copy |-> Miss]

TypeOK ==
    /\ row \in Versions \cup {Gone}
    /\ cache \in Copies
    /\ local \in [Caches -> Copies]
    /\ lock \in Readers \cup {NoReader}
    /\ reader \in [Readers -> [at : {"idle"} \cup DetailSteps \cup FeedSteps,
                               tries : 0..(MaxTries - 1), copy : Copies]]
    /\ overdue \in SUBSET Readers
    /\ toCommit \in SUBSET Updates
    /\ toInvalidate \in SUBSET Updates
    /\ invalidateLast \in SUBSET Updates
    /\ begun \in SUBSET Updates
    /\ deleter \in {"idle", "Del", "LocalDelete"}

Init ==
    /\ row = 0
    /\ cache = Miss
    /\ local = [c \in Caches |-> Miss]
    /\ lock = NoReader
    /\ reader = [r \in Readers |-> Idle]
    /\ overdue = {}
    /\ toCommit = {} /\ toInvalidate = {} /\ invalidateLast = {} /\ begun = {}
    /\ deleter = "idle"

-----------------------------------------------------------------------------
At(r, step) == reader[r].at = step
Goto(r, step) == reader' = [reader EXCEPT ![r].at = step]
GotoWith(r, step, v) == reader' = [reader EXCEPT ![r].at = step, ![r].copy = v]
Respond(r) == reader' = [reader EXCEPT ![r] = Idle]
SetLocal(c, v) == local' = [local EXCEPT ![c] = v]

-----------------------------------------------------------------------------
(* VideoService.GetDetail.                                                 *)

StartDetail(r) ==
    /\ At(r, "idle")
    /\ Goto(r, "Local")
    /\ UNCHANGED <<row, cacheVars, updateVars, deleter>>

DetailLocal(r) ==
    /\ At(r, "Local")
    /\ IF local["video"] # Miss THEN Respond(r) ELSE Goto(r, "Get")
    /\ UNCHANGED <<row, cacheVars, updateVars, deleter>>

\* A hit is answered, a miss leads to the lock, an error straight to MySQL.
DetailGet(r) ==
    /\ At(r, "Get")
    /\ \/ cache # Miss /\ SetLocal("video", cache) /\ Respond(r)
       \/ cache = Miss /\ Goto(r, "Lock") /\ UNCHANGED local
       \/ RedisFails /\ Goto(r, "Query") /\ UNCHANGED local
    /\ UNCHANGED <<row, cache, lock, overdue, updateVars, deleter>>

\* SETNX.  An error counts as a lock that is taken, even if the lock was set.
DetailLock(r) ==
    /\ At(r, "Lock")
    /\ \/ lock = NoReader /\ lock' = r /\ Goto(r, "GetAgain")
       \/ (lock # NoReader \/ RedisFails) /\ UNCHANGED lock /\ Goto(r, "Wait")
       \/ lock = NoReader /\ RedisFails /\ lock' = r /\ Goto(r, "Wait")
    /\ UNCHANGED <<row, cache, local, overdue, updateVars, deleter>>

\* The copy may have come while the lock was being taken.
DetailGetAgain(r) ==
    /\ At(r, "GetAgain")
    /\ \/ cache # Miss /\ GotoWith(r, "UnLock", cache)
       \/ (cache = Miss \/ RedisFails) /\ Goto(r, "QueryLocked")
    /\ UNCHANGED <<row, cacheVars, updateVars, deleter>>

\* repo.GetDetail under the lock; the video may be gone, or MySQL fail.
DetailQueryLocked(r) ==
    /\ At(r, "QueryLocked")
    /\ \/ row # Gone /\ GotoWith(r, "SetLocked", row)
       \/ Goto(r, "UnLock")
    /\ UNCHANGED <<row, cacheVars, updateVars, deleter>>

DetailSetLocked(r) ==
    /\ At(r, "SetLocked")
    /\ cache' = reader[r].copy \/ (RedisFails /\ UNCHANGED cache)
    /\ Goto(r, "UnLock")
    /\ UNCHANGED <<row, local, lock, overdue, updateVars, deleter>>

\* As a bug: DEL without comparing the token.
DetailUnLockAny(r) ==
    /\ At(r, "UnLock")
    /\ IF reader[r].copy # Miss THEN SetLocal("video", reader[r].copy) ELSE UNCHANGED local
    /\ lock' = NoReader
    /\ overdue' = overdue \ {r}
    /\ Respond(r)
    /\ UNCHANGED <<row, cache, updateVars, deleter>>

\* The local copy, and the deferred UnLock: only one's own lock is deleted.
DetailUnLock(r) ==
    /\ At(r, "UnLock")
    /\ IF reader[r].copy # Miss THEN SetLocal("video", reader[r].copy) ELSE UNCHANGED local
    /\ \/ lock' = IF lock = r THEN NoReader ELSE lock
       \/ RedisFails /\ UNCHANGED lock
    /\ overdue' = overdue \ {r}
    /\ Respond(r)
    /\ UNCHANGED <<row, cache, updateVars, deleter>>

\* As a bug: waiting as long as somebody has the lock.
DetailWaitWhileLocked(r) ==
    /\ At(r, "Wait")
    /\ \/ cache # Miss /\ SetLocal("video", cache) /\ Respond(r)
       \/ /\ cache = Miss \/ RedisFails
          /\ IF lock = NoReader THEN Goto(r, "Query") ELSE UNCHANGED reader
          /\ UNCHANGED local
    /\ UNCHANGED <<row, cache, lock, overdue, updateVars, deleter>>

\* As a bug: one round too many.
DetailWaitOnceMore(r) ==
    /\ At(r, "Wait")
    /\ \/ cache # Miss /\ SetLocal("video", cache) /\ Respond(r)
       \/ /\ cache = Miss \/ RedisFails
          /\ IF reader[r].tries < MaxTries
             THEN reader' = [reader EXCEPT ![r].tries = @ + 1]
             ELSE Goto(r, "Query")
          /\ UNCHANGED local
    /\ UNCHANGED <<row, cache, lock, overdue, updateVars, deleter>>

\* One round of 20 ms; after MaxTries of them MySQL is asked without the lock.
\* The client may go away meanwhile.
DetailWait(r) ==
    /\ At(r, "Wait")
    /\ \/ cache # Miss /\ SetLocal("video", cache) /\ Respond(r)
       \/ /\ cache = Miss \/ RedisFails
          /\ IF reader[r].tries + 1 < MaxTries
             THEN reader' = [reader EXCEPT ![r].tries = @ + 1]
             ELSE Goto(r, "Query")
          /\ UNCHANGED local
       \/ Respond(r) /\ UNCHANGED local
    /\ UNCHANGED <<row, cache, lock, overdue, updateVars, deleter>>

DetailQuery(r) ==
    /\ At(r, "Query")
    /\ \/ row # Gone /\ GotoWith(r, "Set", row)
       \/ Respond(r)
    /\ UNCHANGED <<row, cacheVars, updateVars, deleter>>

DetailSet(r) ==
    /\ At(r, "Set")
    /\ cache' = reader[r].copy \/ (RedisFails /\ UNCHANGED cache)
    /\ SetLocal("video", reader[r].copy)
    /\ Respond(r)
    /\ UNCHANGED <<row, lock, overdue, updateVars, deleter>>

-----------------------------------------------------------------------------
(* FeedService.GetVideoByIDs, for this video.                              *)

StartFeed(r) ==
    /\ At(r, "idle")
    /\ Goto(r, "FeedLocal")
    /\ UNCHANGED <<row, cacheVars, updateVars, deleter>>

FeedLocal(r) ==
    /\ At(r, "FeedLocal")
    /\ IF local["feed"] # Miss THEN Respond(r) ELSE Goto(r, "MGet")
    /\ UNCHANGED <<row, cacheVars, updateVars, deleter>>

FeedMGet(r) ==
    /\ At(r, "MGet")
    /\ \/ cache # Miss /\ SetLocal("feed", cache) /\ Respond(r)
       \/ (cache = Miss \/ RedisFails) /\ Goto(r, "FeedQuery") /\ UNCHANGED local
    /\ UNCHANGED <<row, cache, lock, overdue, updateVars, deleter>>

\* The query under singleflight.  A request that joins a query under way is one
\* that read the row when that query did.
FeedQuery(r) ==
    /\ At(r, "FeedQuery")
    /\ \/ row # Gone /\ GotoWith(r, "FeedSet", row)
       \/ Respond(r)
    /\ UNCHANGED <<row, cacheVars, updateVars, deleter>>

\* The request keeps a local copy and is answered, while a goroutine of its own
\* writes to Redis: before or after the answer.
FeedSet(r) ==
    /\ \/ At(r, "FeedSet") /\ Goto(r, "Refill")
       \/ At(r, "FeedSetLast") /\ Respond(r)
    /\ SetLocal("feed", reader[r].copy)
    /\ UNCHANGED <<row, cache, lock, overdue, updateVars, deleter>>

FeedRefill(r) ==
    /\ \/ At(r, "FeedSet") /\ Goto(r, "FeedSetLast")
       \/ At(r, "Refill") /\ Respond(r)
    /\ cache' = reader[r].copy \/ (RedisFails /\ UNCHANGED cache)
    /\ UNCHANGED <<row, local, lock, overdue, updateVars, deleter>>

-----------------------------------------------------------------------------
(* Likes (module Likes has the details) and comments, and PopularityWorker. *)

\* The handler has published both events, or runs the fallback of the one it
\* could not publish.  Only if neither was published does the removal of the
\* cached copy wait for the commit.
Begin(u) ==
    /\ u \notin begun
    /\ begun' = begun \cup {u}
    /\ toCommit' = toCommit \cup {u}
    /\ \/ toInvalidate' = toInvalidate \cup {u} /\ UNCHANGED invalidateLast
       \/ invalidateLast' = invalidateLast \cup {u} /\ UNCHANGED toInvalidate
    /\ UNCHANGED <<row, cacheVars, reader, deleter>>

\* The transaction of LikeWorker, CommentWorker or the handler.
Commit(u) ==
    /\ u \in toCommit
    /\ row' = IF row = Gone THEN Gone ELSE row + 1
    /\ toCommit' = toCommit \ {u}
    /\ toInvalidate' = toInvalidate \cup ({u} \cap invalidateLast)
    /\ invalidateLast' = invalidateLast \ {u}
    /\ UNCHANGED <<begun, cacheVars, reader, deleter>>

\* UpdatePopularityCache; its error is dropped.  After a crash of the worker the
\* event is delivered again.
Invalidate(u) ==
    /\ u \in toInvalidate
    /\ cache' = Miss \/ (RedisFails /\ UNCHANGED cache)
    /\ toInvalidate' = toInvalidate \ {u} \/ UNCHANGED toInvalidate
    /\ UNCHANGED <<row, local, lock, overdue, reader, toCommit, invalidateLast, begun, deleter>>

-----------------------------------------------------------------------------
(* VideoService.Delete.                                                    *)

DeleteRow ==
    /\ row # Gone
    /\ row' = Gone
    /\ deleter' = "Del"
    /\ UNCHANGED <<cacheVars, reader, updateVars>>

DeleteCached ==
    /\ deleter = "Del"
    /\ cache' = Miss \/ (RedisFails /\ UNCHANGED cache)
    /\ deleter' = "LocalDelete"
    /\ UNCHANGED <<row, local, lock, overdue, reader, updateVars>>

DeleteLocal ==
    /\ deleter = "LocalDelete"
    /\ SetLocal("video", Miss)
    /\ deleter' = "idle"
    /\ UNCHANGED <<row, cache, lock, overdue, reader, updateVars>>

-----------------------------------------------------------------------------
\* As a bug: SET without a TTL.
NeverExpires ==
    /\ FALSE
    /\ cache' = Miss
    /\ UNCHANGED <<row, local, lock, overdue, reader, updateVars, deleter>>

\* Every value is stored with a TTL: 5 minutes by GetDetail, 1 hour by the feed.
ExpireCache ==
    /\ cache # Miss
    /\ cache' = Miss
    /\ UNCHANGED <<row, local, lock, overdue, reader, updateVars, deleter>>

\* 5 seconds.
ExpireLocal(c) ==
    /\ local[c] # Miss
    /\ SetLocal(c, Miss)
    /\ UNCHANGED <<row, cache, lock, overdue, reader, updateVars, deleter>>

Holding(r) == reader[r].at \in {"GetAgain", "QueryLocked", "SetLocked", "UnLock"}

\* 2 seconds, while the owner may still be waiting for MySQL.
ExpireLock ==
    /\ lock # NoReader
    /\ lock' = NoReader
    /\ overdue' = overdue \cup {r \in {lock} : Holding(r)}
    /\ UNCHANGED <<row, cache, local, reader, updateVars, deleter>>

\* The API process dies; what it keeps in memory is lost, a lock stays behind.
\* An update its handler was to run may never happen, as is true of any update.
ApiCrash ==
    /\ reader' = [r \in Readers |-> Idle]
    /\ local' = [c \in Caches |-> Miss]
    /\ deleter' = "idle"
    /\ overdue' = {}
    /\ UNCHANGED <<row, cache, lock, updateVars>>

-----------------------------------------------------------------------------
\* A request under way goes on.
ReaderStep(r) ==
    \/ DetailLocal(r)
    \/ DetailGet(r)
    \/ DetailLock(r)
    \/ DetailGetAgain(r)
    \/ DetailQueryLocked(r)
    \/ DetailSetLocked(r)
    \/ DetailUnLock(r)
    \/ DetailWait(r)
    \/ DetailQuery(r)
    \/ DetailSet(r)
    \/ FeedLocal(r)
    \/ FeedMGet(r)
    \/ FeedQuery(r)
    \/ FeedSet(r)
    \/ FeedRefill(r)

Next ==
    \/ \E r \in Readers : StartDetail(r) \/ StartFeed(r) \/ ReaderStep(r)
    \/ \E u \in Updates : Begin(u) \/ Commit(u) \/ Invalidate(u)
    \/ DeleteRow \/ DeleteCached \/ DeleteLocal
    \/ ExpireCache \/ ExpireLock \/ (\E c \in Caches : ExpireLocal(c))
    \/ ApiCrash

Spec == Init /\ [][Next]_vars

\* Goroutines go on, and TTLs run out; ExpireLock is left out because no property
\* may depend on it.  Nothing is assumed of updates, nor of Redis.
Fairness ==
    /\ \A r \in Readers : WF_vars(ReaderStep(r))
    /\ WF_vars(ExpireCache)
    /\ \A c \in Caches : WF_vars(ExpireLocal(c))

FairSpec == Spec /\ Fairness

-----------------------------------------------------------------------------
(* Properties.                                                             *)

\* A reader in the locked section owns the lock unless it has expired, so
\* nobody's lock is released by somebody else and only a slow MySQL can put two
\* readers there.
LockOwned == \A r \in Readers : Holding(r) => lock = r \/ r \in overdue

\* Every request is answered, even if the reader that holds the lock dies and the
\* lock never expires.
EveryReadAnswered ==
    \A r \in Readers : reader[r].at # "idle" ~> reader[r].at = "idle"

\* c holds nothing older than the row.
Fresh(c) == c \in {Miss, row}

\* Once the updates have stopped all caches come to agree with the row for good,
\* whatever readers, failures and crashes did before, and although the removal of
\* a cached copy may come too early or be lost: stale copies never feed each
\* other.
EventuallyFresh == <>[](Fresh(cache) /\ \A c \in Caches : Fresh(local[c]))
=============================================================================
