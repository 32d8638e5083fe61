------------------------- MODULE VideoDetailProofs -------------------------
(* Theorems about VideoDetail, for any number of readers and updates.      *)
EXTENDS VideoDetail, TLAPS

Records == [at : {"idle"} \cup DetailSteps \cup FeedSteps,
            tries : 0..(MaxTries - 1), copy : Copies]

\* What a request may do to the record of its reader keeps it typed.
LEMMA ReaderTyped ==
    ASSUME TypeOK, NEW r \in Readers
    PROVE  /\ \A step \in {"idle"} \cup DetailSteps \cup FeedSteps :
                 Goto(r, step) => reader' \in [Readers -> Records]
           /\ \A step \in {"idle"} \cup DetailSteps \cup FeedSteps : \A v \in Copies :
                 GotoWith(r, step, v) => reader' \in [Readers -> Records]
           /\ Respond(r) => reader' \in [Readers -> Records]
           /\ reader[r].copy \in Copies
           /\ reader[r].tries \in 0..(MaxTries - 1)
<1>1. reader \in [Readers -> Records]  BY DEF TypeOK, Records
<1>2. Idle \in Records
  BY TriesTyped DEF Idle, Records, Copies
<1>3. ASSUME NEW step \in {"idle"} \cup DetailSteps \cup FeedSteps, Goto(r, step)
      PROVE  reader' \in [Readers -> Records]
  <2>1. [reader[r] EXCEPT !.at = step] \in Records  BY <1>1 DEF Records
  <2> QED  BY <1>1, <1>3, <2>1 DEF Goto
<1>4. ASSUME NEW step \in {"idle"} \cup DetailSteps \cup FeedSteps, NEW v \in Copies,
             GotoWith(r, step, v)
      PROVE  reader' \in [Readers -> Records]
  <2>1. [reader[r] EXCEPT !.at = step, !.copy = v] \in Records  BY <1>1 DEF Records
  <2> QED  BY <1>1, <1>4, <2>1 DEF GotoWith
<1>5. Respond(r) => reader' \in [Readers -> Records]  BY <1>1, <1>2 DEF Respond
<1>6. reader[r] \in Records  BY <1>1
<1> QED  BY <1>3, <1>4, <1>5, <1>6 DEF Records

\* A step of a request preserves the type invariant.
LEMMA ReaderStepTyped ==
    ASSUME TypeOK, NEW r \in Readers, ReaderStep(r) \/ StartDetail(r) \/ StartFeed(r)
    PROVE  TypeOK'
<1> DEFINE Records0 == [Readers -> Records]
<1>1. cache \in Copies /\ local \in [Caches -> Copies] /\ Miss \in Copies
  BY DEF TypeOK, Copies
<1>2. \A c \in Caches, v \in Copies : SetLocal(c, v) => local' \in [Caches -> Copies]
  BY <1>1 DEF SetLocal
<1>3. "video" \in Caches /\ "feed" \in Caches  BY DEF Caches
<1>4. row # Gone => row \in Copies  BY DEF TypeOK, Copies
<1>5. /\ row' = row /\ updateVars' = updateVars /\ deleter' = deleter
      /\ cache' \in Copies
      /\ local' \in [Caches -> Copies]
      /\ lock' \in Readers \cup {NoReader}
      /\ overdue' \in SUBSET Readers
  <2>1. reader[r].copy \in Copies /\ lock \in Readers \cup {NoReader}
        /\ overdue \in SUBSET Readers
    BY ReaderTyped DEF TypeOK
  <2>2. CASE StartDetail(r) \/ StartFeed(r) \/ DetailLocal(r) \/ DetailGet(r)
             \/ DetailLock(r) \/ DetailGetAgain(r) \/ DetailQueryLocked(r)
    BY <1>1, <1>2, <1>3, <2>1, <2>2
       DEF StartDetail, StartFeed, DetailLocal, DetailGet, DetailLock, DetailGetAgain,
           DetailQueryLocked, cacheVars
  <2>3. CASE DetailSetLocked(r) \/ DetailUnLock(r) \/ DetailWait(r)
             \/ DetailQuery(r) \/ DetailSet(r)
    BY <1>1, <1>2, <1>3, <2>1, <2>3
       DEF DetailSetLocked, DetailUnLock, DetailWait, DetailQuery, DetailSet, cacheVars
  <2>4. CASE FeedLocal(r) \/ FeedMGet(r) \/ FeedQuery(r) \/ FeedSet(r) \/ FeedRefill(r)
    BY <1>1, <1>2, <1>3, <2>1, <2>4
       DEF FeedLocal, FeedMGet, FeedQuery, FeedSet, FeedRefill, cacheVars
  <2> QED  BY <2>2, <2>3, <2>4 DEF ReaderStep
<1>6. reader' \in Records0
  <2>1. CASE DetailWait(r)
    <3>1. reader \in Records0  BY DEF TypeOK, Records
    <3>2. ASSUME reader[r].tries + 1 < MaxTries
          PROVE  [reader[r] EXCEPT !.tries = @ + 1] \in Records
      <4>1. reader[r].tries + 1 \in 0..(MaxTries - 1)
        BY <3>2, TriesTyped, ReaderTyped
      <4> QED  BY <3>1, <4>1 DEF Records
    <3>3. "Query" \in DetailSteps  BY DEF DetailSteps
    <3> QED  BY <2>1, <3>1, <3>2, <3>3, ReaderTyped DEF DetailWait
  <2>2. CASE StartDetail(r) \/ StartFeed(r) \/ DetailLocal(r) \/ DetailGet(r) \/ DetailLock(r)
    BY <2>2, ReaderTyped DEF StartDetail, StartFeed, DetailLocal, DetailGet, DetailLock,
       DetailSteps, FeedSteps
  <2>3. CASE DetailGetAgain(r) \/ DetailQueryLocked(r) \/ DetailSetLocked(r) \/ DetailUnLock(r)
    BY <1>1, <1>4, <2>3, ReaderTyped DEF DetailGetAgain, DetailQueryLocked, DetailSetLocked,
       DetailUnLock, DetailSteps
  <2>4. CASE DetailQuery(r) \/ DetailSet(r)
    BY <1>4, <2>4, ReaderTyped DEF DetailQuery, DetailSet, DetailSteps
  <2>5. CASE FeedLocal(r) \/ FeedMGet(r) \/ FeedQuery(r) \/ FeedSet(r) \/ FeedRefill(r)
    BY <1>4, <2>5, ReaderTyped DEF FeedLocal, FeedMGet, FeedQuery, FeedSet, FeedRefill, FeedSteps
  <2> QED  BY <2>1, <2>2, <2>3, <2>4, <2>5 DEF ReaderStep
<1> QED  BY <1>5, <1>6 DEF TypeOK, updateVars, Records

\* Every reachable state is typed; in particular a reader never waits for the
\* holder of the lock longer than MaxTries rounds.
THEOREM TypeCorrect == Spec => []TypeOK
<1>1. Init => TypeOK
  BY TriesTyped DEF Init, TypeOK, Idle, Copies, Versions
<1>2. TypeOK /\ [Next]_vars => TypeOK'
  <2> SUFFICES ASSUME TypeOK, [Next]_vars PROVE TypeOK'
    OBVIOUS
  <2>1. ASSUME NEW r \in Readers, StartDetail(r) \/ StartFeed(r) \/ ReaderStep(r)
        PROVE  TypeOK'
    BY <2>1, ReaderStepTyped
  <2>2. ASSUME NEW u \in Updates, Begin(u) \/ Commit(u) \/ Invalidate(u)
        PROVE  TypeOK'
    BY <2>2 DEF TypeOK, Begin, Commit, Invalidate, cacheVars, Copies, Versions
  <2>3. CASE DeleteRow \/ DeleteCached \/ DeleteLocal
    BY <2>3 DEF TypeOK, DeleteRow, DeleteCached, DeleteLocal, SetLocal, cacheVars,
       updateVars, Copies
  <2>4. CASE ExpireCache \/ ExpireLock \/ \E c \in Caches : ExpireLocal(c)
    BY <2>4 DEF TypeOK, ExpireCache, ExpireLock, ExpireLocal, SetLocal, updateVars, Copies
  <2>5. CASE ApiCrash
    <3>1. Idle \in Records  BY TriesTyped DEF Idle, Records, Copies
    <3> QED  BY <2>5, <3>1 DEF TypeOK, Records, ApiCrash, updateVars, Copies
  <2>6. CASE UNCHANGED vars
    BY <2>6 DEF TypeOK, vars, cacheVars, updateVars
  <2> QED  BY <2>1, <2>2, <2>3, <2>4, <2>5, <2>6 DEF Next
<1> QED  BY <1>1, <1>2, PTL DEF Spec

-----------------------------------------------------------------------------
HoldingSteps == {"GetAgain", "QueryLocked", "SetLocked", "UnLock"}

\* A step that leaves lock and history alone and takes nobody into the locked
\* section preserves LockOwned.
LEMMA LockFrame ==
    ASSUME LockOwned, lock' = lock, overdue' = overdue,
           \A q \in Readers : reader'[q].at \in HoldingSteps => reader[q].at \in HoldingSteps
    PROVE  LockOwned'
BY DEF LockOwned, Holding, HoldingSteps

\* The step of a reader moves no other reader.
LEMMA OthersStay ==
    ASSUME TypeOK, NEW r \in Readers, NEW q \in Readers, q # r,
           ReaderStep(r) \/ StartDetail(r) \/ StartFeed(r)
    PROVE  reader'[q] = reader[q]
BY DEF TypeOK, ReaderStep, StartDetail, StartFeed, DetailLocal, DetailGet, DetailLock,
   DetailGetAgain, DetailQueryLocked, DetailSetLocked, DetailUnLock, DetailWait,
   DetailQuery, DetailSet, FeedLocal, FeedMGet, FeedQuery, FeedSet, FeedRefill,
   Goto, GotoWith, Respond

\* A reader in the locked section owns the lock, or its lock has expired: for any
\* number of readers, whatever Redis and MySQL do, across crashes that leave locks
\* behind.
THEOREM LockOwnedCorrect == Spec => []LockOwned
<1>1. Init => LockOwned
  BY DEF Init, LockOwned, Holding, Idle
<1>2. TypeOK /\ LockOwned /\ [Next]_vars => LockOwned'
  <2> SUFFICES ASSUME TypeOK, LockOwned, [Next]_vars PROVE LockOwned'
    OBVIOUS
  <2>1. ASSUME NEW r \in Readers, StartDetail(r) \/ StartFeed(r) \/ ReaderStep(r)
        PROVE  LockOwned'
    <3>0. \A q \in Readers \ {r} : reader'[q] = reader[q]  BY <2>1, OthersStay
    <3>1. CASE DetailLock(r)
      \* The lock was free, so everybody else in the section is overdue.
      BY <3>0, <3>1, NoReaderDistinct
         DEF DetailLock, LockOwned, Holding, At, Goto, TypeOK
    <3>2. CASE DetailUnLock(r)
      \* Whoever else is in the section does not own the lock of r.
      BY <3>0, <3>2 DEF DetailUnLock, LockOwned, Holding, At, Respond, Idle, TypeOK
    <3>3. CASE DetailGetAgain(r) \/ DetailQueryLocked(r) \/ DetailSetLocked(r)
      BY <3>0, <3>3 DEF DetailGetAgain, DetailQueryLocked, DetailSetLocked, LockOwned,
         Holding, At, cacheVars
    <3>4. CASE StartDetail(r) \/ StartFeed(r) \/ DetailLocal(r) \/ DetailGet(r)
               \/ DetailWait(r) \/ DetailQuery(r) \/ DetailSet(r)
      <4>1. lock' = lock /\ overdue' = overdue /\ reader'[r].at \notin HoldingSteps
        BY <3>4 DEF StartDetail, StartFeed, DetailLocal, DetailGet, DetailWait, DetailQuery,
           DetailSet, At, Goto, GotoWith, Respond, Idle, TypeOK, cacheVars, HoldingSteps
      <4> QED  BY <3>0, <4>1, LockFrame
    <3>5. CASE FeedLocal(r) \/ FeedMGet(r) \/ FeedQuery(r) \/ FeedSet(r) \/ FeedRefill(r)
      <4>1. lock' = lock /\ overdue' = overdue /\ reader'[r].at \notin HoldingSteps
        BY <3>5 DEF FeedLocal, FeedMGet, FeedQuery, FeedSet, FeedRefill, At, Goto, GotoWith,
           Respond, Idle, TypeOK, cacheVars, HoldingSteps
      <4> QED  BY <3>0, <4>1, LockFrame
    <3> QED  BY <2>1, <3>1, <3>2, <3>3, <3>4, <3>5 DEF ReaderStep
  <2>2. CASE ExpireLock
    BY <2>2 DEF ExpireLock, LockOwned, Holding
  <2>3. CASE ApiCrash
    BY <2>3 DEF ApiCrash, LockOwned, Holding, Idle
  <2>4. ASSUME lock' = lock, overdue' = overdue, reader' = reader PROVE LockOwned'
    BY <2>4, LockFrame
  <2>5. CASE \E u \in Updates : Begin(u) \/ Commit(u) \/ Invalidate(u)
    BY <2>4, <2>5 DEF Begin, Commit, Invalidate, cacheVars
  <2>6. CASE \/ DeleteRow \/ DeleteCached \/ DeleteLocal
             \/ ExpireCache \/ (\E c \in Caches : ExpireLocal(c)) \/ UNCHANGED vars
    BY <2>4, <2>6 DEF DeleteRow, DeleteCached, DeleteLocal, ExpireCache, ExpireLocal,
       cacheVars, vars
  <2> QED  BY <2>1, <2>2, <2>3, <2>5, <2>6 DEF Next
<1> QED  BY <1>1, <1>2, TypeCorrect, PTL DEF Spec
=============================================================================
