--------------------------- MODULE CommentsProofs ---------------------------
(* Theorems about Comments, for any number of comments, pages, requests to *)
(* delete and faults.                                                      *)
EXTENDS Comments, FiniteSetTheorems, TLAPS

\* Ids are given in ascending order, so that the next one is new.
IdsAscend ==
    /\ IsFiniteSet(stored)
    /\ \A r \in stored : r[2] <= Cardinality(stored)

\* The worker has an unacknowledged event, and does what its action asks for.
WorkerFits ==
    worker # Idle =>
       /\ worker.event \in queue
       /\ worker.at \in {"IsExist", "Create", "ChangePopularity"} =>
             \E c \in Comments : worker.event = PublishEvent(c)
       /\ worker.at \in {"GetByID", "Delete"} => worker.event.action = "delete"

\* Either the event was sent or the request writes the row itself.
OnePath ==
    \A c \in Comments :
       /\ PublishEvent(c) \in queue => publish[c].sent
       /\ publish[c].at \in {"new", "mq", "tx"} => ~publish[c].sent
       /\ publish[c].at \in {"new", "mq", "popularity", "tx"} /\ ~publish[c].sent => Copies(c) = {}

\* The worker has the event of c behind the INSERT.
Written(c) == worker.at \in {"ChangePopularity", "Ack"} /\ worker.event = PublishEvent(c)

\* An event that is still to be applied has a delivery to spare.
DeliveriesToSpare ==
    \A c \in Comments :
       PublishEvent(c) \in queue /\ ~Written(c) => Cardinality(Copies(c)) <= again[c]

IInv ==
    /\ TypeOK
    /\ IdsAscend
    /\ WorkerFits
    /\ OnePath
    /\ DeliveriesToSpare
    /\ DuplicatesNeedRedelivery
    /\ PopularityCountsRows

-----------------------------------------------------------------------------
(* Rows and events.                                                        *)

LEMMA CopiesFinite ==
    ASSUME IdsAscend, NEW c \in Comments
    PROVE  IsFiniteSet(Copies(c)) /\ Cardinality(Copies(c)) \in Nat
BY FS_Subset, FS_CardinalityType DEF IdsAscend, Copies

LEMMA CopiesStay ==
    ASSUME stored' = stored
    PROVE  \A c \in Comments : Copies(c)' = Copies(c)
BY DEF Copies

LEMMA EventsDiffer ==
    /\ \A c, d \in Comments : PublishEvent(c) = PublishEvent(d) => c = d
    /\ \A c \in Comments : PublishEvent(c) \in Events /\ PublishEvent(c).action = "publish"
    /\ \A c \in Comments : PublishEvent(c).comment = c
    /\ \A r \in RowIds : DeleteEvent(r) \in Events /\ DeleteEvent(r).action = "delete"
<1>1. \A c \in Comments : PublishEvent(c).comment = c /\ PublishEvent(c).action = "publish"
  BY DEF PublishEvent
<1>2. \A c, d \in Comments : PublishEvent(c) = PublishEvent(d) => c = d
  BY <1>1
<1>3. \A c \in Comments : PublishEvent(c) \in Events
  BY DEF Events
<1>4. \A r \in RowIds : DeleteEvent(r) \in Events /\ DeleteEvent(r).action = "delete"
  BY DEF Events, DeleteEvent
<1> QED
  BY <1>1, <1>2, <1>3, <1>4

\* INSERT adds one row, to the comment it is of.
LEMMA CreateAdds ==
    ASSUME TypeOK, IdsAscend, NEW c \in Comments, Create(c)
    PROVE  /\ rows' \in SUBSET stored'
           /\ stored' \in SUBSET RowIds
           /\ IdsAscend'
           /\ Cardinality(stored') = Cardinality(stored) + 1
           /\ Cardinality(Copies(c)') = Cardinality(Copies(c)) + 1
           /\ \A d \in Comments \ {c} : Copies(d)' = Copies(d)
<1> DEFINE n == Cardinality(stored)
           r == <<c, n + 1>>
<1>1. n \in Nat /\ IsFiniteSet(stored)
  BY FS_CardinalityType DEF IdsAscend
<1>2. rows' = rows \cup {r} /\ stored' = stored \cup {r}
  BY DEF Create
<1>3. r[1] = c /\ r[2] = n + 1 /\ r \in RowIds
  BY <1>1 DEF RowIds
<1>4. r \notin stored
  BY <1>1, <1>3 DEF IdsAscend
<1>5. IsFiniteSet(stored') /\ Cardinality(stored') = n + 1
  BY <1>1, <1>2, <1>4, FS_AddElement
<1>6. IdsAscend'
  <2>1. \A q \in stored : q[2] \in Nat /\ q[2] <= n
    BY DEF IdsAscend, TypeOK, RowIds
  <2>2. \A q \in stored' : q[2] <= n + 1
    BY <1>1, <1>2, <1>3, <2>1
  <2> QED
    BY <1>5, <2>2 DEF IdsAscend
<1>7. Copies(c)' = Copies(c) \cup {r} /\ r \notin Copies(c)
  BY <1>2, <1>3, <1>4 DEF Copies
<1>8. Cardinality(Copies(c)') = Cardinality(Copies(c)) + 1
  BY <1>7, CopiesFinite, FS_AddElement
<1>9. \A d \in Comments \ {c} : Copies(d)' = Copies(d)
  BY <1>2, <1>3 DEF Copies
<1> QED
  BY <1>2, <1>3, <1>5, <1>6, <1>8, <1>9 DEF TypeOK

-----------------------------------------------------------------------------
LEMMA InitIInv == Init => IInv
<1> SUFFICES ASSUME Init PROVE IInv
  OBVIOUS
<1>1. stored = {} /\ IsFiniteSet(stored) /\ Cardinality(stored) = 0
  BY FS_EmptySet DEF Init
<1>2. \A c \in Comments : Copies(c) = {} /\ Cardinality(Copies(c)) = 0
  BY <1>1, FS_EmptySet DEF Copies
<1>3. TypeOK
  BY DEF Init, TypeOK, PublishSteps
<1>4. IdsAscend
  BY <1>1 DEF IdsAscend
<1>5. WorkerFits
  BY DEF WorkerFits, Init
<1>6. OnePath
  BY <1>2 DEF OnePath, Init
<1>7. DeliveriesToSpare /\ DuplicatesNeedRedelivery
  BY <1>2 DEF DeliveriesToSpare, DuplicatesNeedRedelivery, Init
<1>8. PopularityCountsRows
  BY <1>1 DEF PopularityCountsRows, Init, Idle
<1> QED
  BY <1>3, <1>4, <1>5, <1>6, <1>7, <1>8 DEF IInv

-----------------------------------------------------------------------------
(* Types.                                                                  *)

LEMMA PublishTypes ==
    ASSUME TypeOK, IdsAscend, NEW c \in Comments, PublishNext(c)
    PROVE  TypeOK'
<1>1. CASE PublishIsExist(c)
  BY <1>1 DEF PublishIsExist, PublishGoto, Fault, TypeOK, PublishSteps, tables, history
<1>2. CASE PublishToMQ(c)
  <2>1. queue' \in SUBSET Events
    BY <1>2, EventsDiffer DEF PublishToMQ, TypeOK
  <2>2. lost' \in SUBSET Comments /\ faults' \in Nat
    BY <1>2 DEF PublishToMQ, Fault, TypeOK
  <2>3. publish' \in [Comments -> [at : PublishSteps, sent : BOOLEAN]]
    <3>1. [at |-> "popularity", sent |-> TRUE] \in [at : PublishSteps, sent : BOOLEAN]
      BY DEF PublishSteps
    <3>2. CASE publish' = [publish EXCEPT ![c] = [at |-> "popularity", sent |-> TRUE]]
      BY <3>1, <3>2 DEF TypeOK
    <3>3. CASE PublishGoto(c, "popularity")
      BY <3>3 DEF PublishGoto, TypeOK, PublishSteps
    <3> QED
      BY <1>2, <3>2, <3>3 DEF PublishToMQ
  <2> QED
    BY <1>2, <2>1, <2>2, <2>3 DEF PublishToMQ, TypeOK, tables
<1>3. CASE PublishPopularity(c)
  BY <1>3 DEF PublishPopularity, AfterMQ, PublishGoto, Fault, TypeOK, PublishSteps, tables, history
<1>4. CASE PublishTx(c)
  <2>1. CASE Create(c)
    BY <1>4, <2>1, CreateAdds
       DEF PublishTx, ChangePopularity, Change, PublishGoto, Fault, TypeOK, PublishSteps, tables, history
  <2>2. CASE ~Create(c)
    BY <1>4, <2>2 DEF PublishTx, PublishGoto, Fault, TypeOK, PublishSteps, tables, history
  <2> QED
    BY <2>1, <2>2
<1>5. CASE PublishInvalidate(c)
  BY <1>5, PagesTyped
     DEF PublishInvalidate, InvalidateCommentCache, PublishGoto, Fault, TypeOK, PublishSteps, tables, history
<1> QED
  BY <1>1, <1>2, <1>3, <1>4, <1>5 DEF PublishNext

LEMMA DeleteTypes ==
    ASSUME TypeOK, (\E r \in rows : DeleteGetByID(r)) \/ DeleteNext \/ DeleteVideo
    PROVE  TypeOK'
<1>1. ASSUME NEW r \in rows, DeleteGetByID(r) PROVE TypeOK'
  BY <1>1 DEF DeleteGetByID, TypeOK, tables, history
<1>2. CASE DeleteToMQ
  <2>1. delete \in [at : {"mq", "db", "invalidate"}, row : RowIds]
    BY <1>2 DEF DeleteToMQ, TypeOK, Idle
  <2> QED
    BY <1>2, <2>1, EventsDiffer DEF DeleteToMQ, Fault, TypeOK, tables, history
<1>3. CASE DeleteFromDB
  BY <1>3 DEF DeleteFromDB, Fault, TypeOK, tables, history, Idle
<1>4. CASE DeleteInvalidate
  BY <1>4, PagesTyped DEF DeleteInvalidate, InvalidateCommentCache, Fault, TypeOK, tables, history
<1>5. CASE DeleteVideo
  BY <1>5 DEF DeleteVideo, TypeOK, tables, history
<1> QED
  BY <1>1, <1>2, <1>3, <1>4, <1>5 DEF DeleteNext

LEMMA PageTypes ==
    ASSUME TypeOK, NEW p \in Pages, GetCommentsByPage(p) \/ FillPage(p) \/ ExpirePage(p)
    PROVE  TypeOK'
<1>1. CASE GetCommentsByPage(p)
  BY <1>1 DEF GetCommentsByPage, TypeOK, tables, history
<1>2. CASE FillPage(p)
  BY <1>2 DEF FillPage, Fault, TypeOK, tables, history
<1>3. CASE ExpirePage(p)
  BY <1>3 DEF ExpirePage, TypeOK, tables, history
<1> QED
  BY <1>1, <1>2, <1>3

LEMMA GivesUpTypes ==
    ASSUME TypeOK, WorkerFits, worker # Idle, WorkerGivesUp
    PROVE  /\ faults' \in Nat
           /\ worker' = Idle
           /\ again' \in [Comments -> Nat]
<1>1. worker \in [at : WorkerSteps, event : Events]
  BY DEF TypeOK
<1>2. worker.event.action = "publish" => worker.event.comment \in Comments
  BY <1>1 DEF Events, PublishEvent
<1> QED
  BY <1>1, <1>2 DEF WorkerGivesUp, Fault, TypeOK

LEMMA WorkerTypes ==
    ASSUME TypeOK, IdsAscend, WorkerFits, WorkerNext
    PROVE  TypeOK'
<1>1. ASSUME NEW e \in queue, WorkerReceive(e) PROVE TypeOK'
  BY <1>1 DEF WorkerReceive, TypeOK, WorkerSteps, tables, history
<1>2. CASE WorkerIsExist
  BY <1>2, GivesUpTypes DEF WorkerIsExist, WorkerGoto, TypeOK, WorkerSteps, tables, history, Idle
<1>3. CASE WorkerCreate
  <2>1. worker # Idle
    BY <1>3 DEF WorkerCreate, Idle
  <2>2. PICK c \in Comments : worker.event = PublishEvent(c)
    BY <1>3, <2>1 DEF WorkerCreate, WorkerFits
  <2>3. worker.event.comment = c
    BY <2>2, EventsDiffer
  <2>4. CASE Create(c)
    BY <1>3, <2>1, <2>3, <2>4, CreateAdds, GivesUpTypes
       DEF WorkerCreate, WorkerGoto, TypeOK, WorkerSteps, tables, history
  <2>5. CASE ~Create(c)
    BY <1>3, <2>1, <2>3, <2>5, GivesUpTypes
       DEF WorkerCreate, WorkerGoto, TypeOK, WorkerSteps, tables, history
  <2> QED
    BY <2>4, <2>5
<1>4. CASE WorkerChangePopularity
  BY <1>4, GivesUpTypes
     DEF WorkerChangePopularity, ChangePopularity, Change, WorkerGoto, TypeOK, WorkerSteps, tables, history, Idle
<1>5. CASE WorkerGetByID
  BY <1>5, GivesUpTypes DEF WorkerGetByID, WorkerGoto, TypeOK, WorkerSteps, tables, history, Idle
<1>6. CASE WorkerDelete
  BY <1>6, GivesUpTypes DEF WorkerDelete, WorkerGoto, TypeOK, WorkerSteps, tables, history, Idle
<1>7. CASE WorkerAck
  BY <1>7, GivesUpTypes DEF WorkerAck, TypeOK, WorkerSteps, tables, history, Idle
<1> QED
  BY <1>1, <1>2, <1>3, <1>4, <1>5, <1>6, <1>7 DEF WorkerNext

-----------------------------------------------------------------------------
(* What no request and no worker of the other paths touches.               *)

\* A step that writes no comment, sends or acknowledges nothing and is not the
\* worker's leaves all of it as it is.
LEMMA OthersKeep ==
    ASSUME IInv, UNCHANGED <<stored, queue, publish, worker, again, popularity, uncounted>>,
           video' => video
    PROVE  /\ IdsAscend' /\ WorkerFits' /\ OnePath' /\ DeliveriesToSpare'
           /\ DuplicatesNeedRedelivery' /\ PopularityCountsRows'
<1>1. \A c \in Comments : Copies(c)' = Copies(c)
  BY CopiesStay
<1>2. IdsAscend'
  BY DEF IInv, IdsAscend
<1>3. WorkerFits'
  BY DEF IInv, WorkerFits
<1>4. OnePath'
  BY <1>1 DEF IInv, OnePath
<1>5. DeliveriesToSpare'
  BY <1>1 DEF IInv, DeliveriesToSpare, Written
<1>6. DuplicatesNeedRedelivery'
  BY <1>1 DEF IInv, DuplicatesNeedRedelivery
<1>7. PopularityCountsRows'
  BY DEF IInv, PopularityCountsRows
<1> QED
  BY <1>2, <1>3, <1>4, <1>5, <1>6, <1>7

LEMMA RequestsKeep ==
    ASSUME IInv,
           \/ \E r \in rows : DeleteGetByID(r)
           \/ DeleteFromDB \/ DeleteInvalidate \/ DeleteVideo
           \/ \E p \in Pages : GetCommentsByPage(p) \/ FillPage(p) \/ ExpirePage(p)
    PROVE  IInv'
<1>1. TypeOK'
  BY DeleteTypes, PageTypes DEF IInv, DeleteNext
<1>2. UNCHANGED <<stored, queue, publish, worker, again, popularity, uncounted>> /\ (video' => video)
  BY DEF DeleteGetByID, DeleteFromDB, DeleteInvalidate, DeleteVideo, GetCommentsByPage, FillPage,
         ExpirePage, tables, history
<1> QED
  BY <1>1, <1>2, OthersKeep DEF IInv

LEMMA DeleteToMQKeeps ==
    ASSUME IInv, DeleteToMQ
    PROVE  IInv'
<1>1. TypeOK'
  BY DeleteTypes DEF IInv, DeleteNext
<1>2. UNCHANGED <<tables, publish, worker, again, uncounted>>
  BY DEF DeleteToMQ
<1>3. \A c \in Comments : Copies(c)' = Copies(c)
  BY <1>2, CopiesStay DEF tables
<1>4. delete.row \in RowIds
  BY DEF IInv, TypeOK, DeleteToMQ, Idle
<1>5. /\ queue \subseteq queue'
      /\ \A c \in Comments : PublishEvent(c) \in queue' => PublishEvent(c) \in queue
  BY <1>4, EventsDiffer DEF DeleteToMQ
<1>6. IdsAscend'
  BY <1>2 DEF IInv, IdsAscend, tables
<1>7. WorkerFits'
  BY <1>2, <1>5 DEF IInv, WorkerFits
<1>8. OnePath'
  BY <1>2, <1>3, <1>5 DEF IInv, OnePath
<1>9. DeliveriesToSpare' /\ DuplicatesNeedRedelivery'
  BY <1>2, <1>3, <1>5 DEF IInv, DeliveriesToSpare, DuplicatesNeedRedelivery, Written
<1>10. PopularityCountsRows'
  BY <1>2 DEF IInv, PopularityCountsRows, tables
<1> QED
  BY <1>1, <1>6, <1>7, <1>8, <1>9, <1>10 DEF IInv

-----------------------------------------------------------------------------
(* CommentService.Publish.                                                 *)

LEMMA PublishKeeps ==
    ASSUME IInv, NEW c \in Comments, PublishNext(c)
    PROVE  IInv'
<1>1. TypeOK'
  BY PublishTypes DEF IInv
<1>2. \A d \in Comments \ {c} : publish'[d] = publish[d]
  BY DEF IInv, TypeOK, PublishNext, PublishIsExist, PublishToMQ, PublishPopularity, PublishTx,
         PublishInvalidate, PublishGoto
<1>3. UNCHANGED <<worker, again, uncounted, video>>
  BY DEF PublishNext, PublishIsExist, PublishToMQ, PublishPopularity, PublishTx,
         PublishInvalidate, tables
<1>4. \A d \in Comments : Written(d)' = Written(d)
  BY <1>3 DEF Written
<1>5. publish[c] \in [at : PublishSteps, sent : BOOLEAN] /\ publish'[c] \in [at : PublishSteps, sent : BOOLEAN]
  BY <1>1 DEF IInv, TypeOK
<1>6. CASE /\ PublishIsExist(c) \/ PublishPopularity(c) \/ PublishInvalidate(c)
  <2>1. UNCHANGED <<tables, queue>>
    BY <1>6 DEF PublishIsExist, PublishPopularity, PublishInvalidate
  <2>2. \A d \in Comments : Copies(d)' = Copies(d)
    BY <2>1, CopiesStay DEF tables
  <2>0. publish \in [Comments -> [at : PublishSteps, sent : BOOLEAN]]
    BY DEF IInv, TypeOK
  <2>3. publish'[c].sent = publish[c].sent
    <3>1. \E step : PublishGoto(c, step)
      BY <1>6 DEF PublishIsExist, PublishPopularity, PublishInvalidate
    <3> QED
      BY <2>0, <3>1 DEF PublishGoto
  <2>4. /\ publish'[c].at \in {"mq", "tx"} => ~publish[c].sent
        /\ publish'[c].at # "new"
        /\ publish'[c].at \in {"mq", "tx"} => publish[c].at \in {"new", "popularity"}
        /\ publish'[c].at # "popularity"
    BY <1>6 DEF IInv, TypeOK, OnePath, PublishIsExist, PublishPopularity, PublishInvalidate,
                PublishGoto, AfterMQ
  <2>5. OnePath'
    BY <1>2, <2>1, <2>2, <2>3, <2>4 DEF IInv, OnePath
  <2>6. IdsAscend' /\ PopularityCountsRows'
    BY <1>3, <2>1 DEF IInv, IdsAscend, PopularityCountsRows, tables
  <2>7. WorkerFits'
    BY <1>3, <2>1 DEF IInv, WorkerFits
  <2>8. DeliveriesToSpare' /\ DuplicatesNeedRedelivery'
    BY <1>3, <1>4, <2>1, <2>2 DEF IInv, DeliveriesToSpare, DuplicatesNeedRedelivery
  <2> QED
    BY <1>1, <2>5, <2>6, <2>7, <2>8 DEF IInv
<1>7. CASE PublishToMQ(c)
  <2>0. publish \in [Comments -> [at : PublishSteps, sent : BOOLEAN]]
    BY DEF IInv, TypeOK
  <2>1. UNCHANGED tables /\ publish[c].at = "mq" /\ publish'[c].at = "popularity"
    BY <1>7, <2>0 DEF PublishToMQ, PublishGoto
  <2>2. \A d \in Comments : Copies(d)' = Copies(d)
    BY <2>1, CopiesStay DEF tables
  <2>3. ~publish[c].sent /\ Copies(c) = {} /\ Cardinality(Copies(c)) = 0
    BY <2>1, FS_EmptySet DEF IInv, OnePath
  <2>4. /\ queue' \in {queue, queue \cup {PublishEvent(c)}}
        /\ queue' # queue => publish'[c].sent
    BY <1>7, <2>0 DEF PublishToMQ
  <2>5. \A d \in Comments \ {c} : PublishEvent(d) \in queue' <=> PublishEvent(d) \in queue
    BY <2>4, EventsDiffer
  <2>6. PublishEvent(c) \notin queue
    BY <2>3 DEF IInv, OnePath
  <2>7. PublishEvent(c) \in queue' => publish'[c].sent
    BY <2>4, <2>6
  <2>8. OnePath'
    BY <1>2, <2>1, <2>2, <2>3, <2>5, <2>7 DEF IInv, OnePath
  <2>9. IdsAscend' /\ PopularityCountsRows'
    BY <1>3, <2>1 DEF IInv, IdsAscend, PopularityCountsRows, tables
  <2>10. WorkerFits'
    BY <1>3, <2>4 DEF IInv, WorkerFits
  <2>11. again'[c] \in Nat
    BY <1>3 DEF IInv, TypeOK
  <2>12. DeliveriesToSpare' /\ DuplicatesNeedRedelivery'
    BY <1>3, <1>4, <2>2, <2>3, <2>5, <2>11 DEF IInv, DeliveriesToSpare, DuplicatesNeedRedelivery
  <2> QED
    BY <1>1, <2>8, <2>9, <2>10, <2>12 DEF IInv
<1>8. CASE PublishTx(c)
  <2>1. UNCHANGED queue /\ publish[c].at = "tx"
    BY <1>8 DEF PublishTx
  <2>2. ~publish[c].sent /\ Copies(c) = {} /\ Cardinality(Copies(c)) = 0 /\ PublishEvent(c) \notin queue
    BY <2>1, FS_EmptySet DEF IInv, OnePath
  <2>3. publish'[c].at \in {"invalidate", "refused"}
    BY <1>8 DEF PublishTx, PublishGoto, IInv, TypeOK
  <2>4. WorkerFits'
    BY <1>3, <2>1 DEF IInv, WorkerFits
  <2>5. CASE Create(c) /\ ChangePopularity /\ video
    <3>1. /\ IdsAscend'
          /\ Cardinality(stored') = Cardinality(stored) + 1
          /\ Cardinality(Copies(c)') = 1
          /\ \A d \in Comments \ {c} : Copies(d)' = Copies(d)
      BY <2>2, <2>5, CreateAdds DEF IInv
    <3>2. OnePath'
      BY <1>2, <2>1, <2>2, <2>3, <3>1 DEF IInv, OnePath
    <3>3. DeliveriesToSpare'
      BY <1>3, <1>4, <2>1, <2>2, <3>1 DEF IInv, DeliveriesToSpare
    <3>4. again'[c] \in Nat
      BY <1>3 DEF IInv, TypeOK
    <3>5. DuplicatesNeedRedelivery'
      BY <1>3, <3>1, <3>4 DEF IInv, DuplicatesNeedRedelivery
    <3>6. Cardinality(stored) \in Nat /\ popularity \in Nat /\ uncounted \in Nat
      BY FS_CardinalityType DEF IInv, TypeOK, IdsAscend
    <3>7. PopularityCountsRows'
      BY <1>3, <2>5, <3>1, <3>6 DEF IInv, PopularityCountsRows, ChangePopularity, Change
    <3> QED
      BY <1>1, <2>4, <3>1, <3>2, <3>3, <3>5, <3>7 DEF IInv
  <2>6. CASE UNCHANGED <<rows, stored, popularity>>
    <3>1. \A d \in Comments : Copies(d)' = Copies(d)
      BY <2>6, CopiesStay
    <3>2. OnePath'
      BY <1>2, <2>1, <2>2, <2>3, <3>1 DEF IInv, OnePath
    <3>3. IdsAscend' /\ PopularityCountsRows'
      BY <1>3, <2>6 DEF IInv, IdsAscend, PopularityCountsRows
    <3>4. DeliveriesToSpare' /\ DuplicatesNeedRedelivery'
      BY <1>3, <1>4, <2>1, <3>1 DEF IInv, DeliveriesToSpare, DuplicatesNeedRedelivery
    <3> QED
      BY <1>1, <2>4, <3>2, <3>3, <3>4 DEF IInv
  <2> QED
    BY <1>8, <2>5, <2>6 DEF PublishTx
<1> QED
  BY <1>6, <1>7, <1>8 DEF PublishNext

-----------------------------------------------------------------------------
(* CommentWorker.                                                          *)

\* Giving up pays for the next delivery of the event.
LEMMA GivesUpKeeps ==
    ASSUME IInv, TypeOK', worker # Idle, WorkerGivesUp,
           UNCHANGED <<stored, queue, publish, video, popularity>>,
           uncounted' = uncounted + (IF worker.at = "ChangePopularity" THEN 1 ELSE 0)
    PROVE  IInv'
<1>1. worker' = Idle
  BY DEF WorkerGivesUp
<1>2. \A c \in Comments : Copies(c)' = Copies(c)
  BY CopiesStay
<1>3. \A c \in Comments : again'[c] \in Nat /\ again[c] \in Nat /\ again'[c] >= again[c]
  BY DEF IInv, TypeOK, WorkerGivesUp
<1>4. \A c \in Comments : worker.event = PublishEvent(c) => again'[c] = again[c] + 1
  BY EventsDiffer DEF IInv, TypeOK, WorkerGivesUp
<1>5. \A c \in Comments : Cardinality(Copies(c)) \in Nat
  BY CopiesFinite DEF IInv
<1>6. IdsAscend' /\ WorkerFits' /\ OnePath'
  BY <1>1, <1>2 DEF IInv, IdsAscend, WorkerFits, OnePath
<1>7. DuplicatesNeedRedelivery'
  BY <1>2, <1>3, <1>5 DEF IInv, DuplicatesNeedRedelivery
<1>8. DeliveriesToSpare'
  <2> SUFFICES ASSUME NEW c \in Comments, PublishEvent(c) \in queue
               PROVE  Cardinality(Copies(c)) <= again'[c]
    BY <1>2 DEF DeliveriesToSpare
  <2>1. CASE Written(c)
    BY <2>1, <1>3, <1>4, <1>5 DEF IInv, DuplicatesNeedRedelivery, Written
  <2>2. CASE ~Written(c)
    BY <2>2, <1>3, <1>5 DEF IInv, DeliveriesToSpare
  <2> QED
    BY <2>1, <2>2
<1>9. PopularityCountsRows'
  <2>1. Cardinality(stored) \in Nat /\ popularity \in Nat /\ uncounted \in Nat
    BY FS_CardinalityType DEF IInv, TypeOK, IdsAscend
  <2>2. worker'.at # "ChangePopularity"
    BY <1>1 DEF Idle
  <2> QED
    BY <2>1, <2>2 DEF IInv, PopularityCountsRows
<1> QED
  BY <1>6, <1>7, <1>8, <1>9 DEF IInv

\* A step of the worker that goes on without touching row, queue or column.
LEMMA GoesOnKeeps ==
    ASSUME IInv, TypeOK', UNCHANGED <<stored, queue, publish, video, popularity, again, uncounted>>,
           WorkerFits',
           worker.at # "ChangePopularity", worker'.at # "ChangePopularity",
           \A c \in Comments : PublishEvent(c) \in queue /\ Written(c) => Written(c)'
    PROVE  IInv'
<1>1. \A c \in Comments : Copies(c)' = Copies(c)
  BY CopiesStay
<1>2. IdsAscend' /\ OnePath' /\ DuplicatesNeedRedelivery' /\ PopularityCountsRows'
  BY <1>1 DEF IInv, IdsAscend, OnePath, DuplicatesNeedRedelivery, PopularityCountsRows
<1>3. DeliveriesToSpare'
  BY <1>1 DEF IInv, DeliveriesToSpare
<1> QED
  BY <1>2, <1>3 DEF IInv

LEMMA WorkerKeeps ==
    ASSUME IInv, WorkerNext
    PROVE  IInv'
<1>1. TypeOK'
  BY WorkerTypes DEF IInv
<1>2. worker \in {Idle} \cup [at : WorkerSteps, event : Events] /\ Idle.at = "idle"
  BY DEF IInv, TypeOK, Idle
<1>3. ASSUME NEW e \in queue, WorkerReceive(e) PROVE IInv'
  <2>1. /\ UNCHANGED <<stored, queue, publish, video, popularity, again, uncounted>>
        /\ worker.at = "idle"
        /\ worker' = [at |-> IF e.action = "publish" THEN "IsExist" ELSE "GetByID", event |-> e]
    BY <1>2, <1>3 DEF WorkerReceive, tables, history
  <2>2. e.action = "publish" => \E c \in Comments : e = PublishEvent(c)
    BY DEF IInv, TypeOK, Events
  <2>3. e.action # "publish" => e.action = "delete"
    BY EventsDiffer DEF IInv, TypeOK, Events
  <2>4. WorkerFits'
    BY <2>1, <2>2, <2>3 DEF WorkerFits
  <2>5. \A c \in Comments : ~Written(c)
    BY <2>1 DEF Written
  <2> QED
    BY <1>1, <2>1, <2>4, <2>5, GoesOnKeeps
<1>4. CASE WorkerIsExist \/ WorkerGetByID \/ WorkerDelete
  <2>1. /\ UNCHANGED <<stored, queue, publish, video, popularity, uncounted>>
        /\ worker.at \in {"IsExist", "GetByID", "Delete"}
    BY <1>4 DEF WorkerIsExist, WorkerGetByID, WorkerDelete, tables
  <2>2. CASE WorkerGivesUp
    BY <1>1, <1>2, <2>1, <2>2, GivesUpKeeps DEF IInv, TypeOK
  <2>3. CASE ~WorkerGivesUp
    <3>1. /\ UNCHANGED again
          /\ \/ worker.at = "IsExist" /\ worker'.at \in {"Create", "Ack"}
             \/ worker.at = "GetByID" /\ worker'.at \in {"Delete", "Ack"}
             \/ worker.at = "Delete" /\ worker'.at = "Ack"
          /\ worker' = [worker EXCEPT !.at = worker'.at]
      BY <1>2, <1>4, <2>1, <2>3 DEF WorkerIsExist, WorkerGetByID, WorkerDelete, WorkerGoto
    <3>2. worker # Idle /\ worker'.event = worker.event
      BY <1>2, <2>1, <3>1
    <3>3. WorkerFits'
      BY <2>1, <3>1, <3>2 DEF IInv, WorkerFits
    <3>4. \A c \in Comments : ~Written(c)
      BY <2>1 DEF Written
    <3> QED
      BY <1>1, <2>1, <3>1, <3>3, <3>4, GoesOnKeeps
  <2> QED
    BY <2>2, <2>3
<1>5. CASE WorkerCreate
  <2>1. /\ UNCHANGED <<queue, publish, video, popularity, uncounted>>
        /\ worker.at = "Create" /\ worker # Idle
    BY <1>2, <1>5 DEF WorkerCreate
  <2>2. PICK c \in Comments : worker.event = PublishEvent(c)
    BY <2>1 DEF IInv, WorkerFits
  <2>3. worker.event.comment = c /\ PublishEvent(c) \in queue
    BY <2>1, <2>2, EventsDiffer DEF IInv, WorkerFits
  <2>4. CASE WorkerGivesUp /\ UNCHANGED stored
    BY <1>1, <2>1, <2>4, GivesUpKeeps DEF IInv, TypeOK
  <2>5. CASE Create(c) /\ WorkerGoto("ChangePopularity") /\ UNCHANGED again
    <3>1. /\ IdsAscend'
          /\ Cardinality(stored') = Cardinality(stored) + 1
          /\ Cardinality(Copies(c)') = Cardinality(Copies(c)) + 1
          /\ \A d \in Comments \ {c} : Copies(d)' = Copies(d)
      BY <2>5, CreateAdds DEF IInv
    <3>2. worker'.at = "ChangePopularity" /\ worker'.event = worker.event
      BY <1>2, <2>1, <2>5 DEF WorkerGoto
    <3>3. Written(c)' /\ \A d \in Comments \ {c} : ~Written(d) /\ ~Written(d)'
      BY <2>1, <2>2, <3>2, EventsDiffer DEF Written
    <3>4. WorkerFits'
      BY <2>1, <2>2, <2>3, <3>2 DEF WorkerFits
    <3>5. publish[c].sent
      BY <2>3 DEF IInv, OnePath
    <3>6. OnePath'
      BY <2>1, <3>1, <3>5 DEF IInv, OnePath
    <3>7. DeliveriesToSpare'
      BY <2>1, <2>5, <3>1, <3>3 DEF IInv, DeliveriesToSpare
    <3>8. Cardinality(Copies(c)) <= again[c] /\ again[c] \in Nat /\ Cardinality(Copies(c)) \in Nat
      BY <2>1, <2>3, CopiesFinite DEF IInv, DeliveriesToSpare, TypeOK, Written
    <3>9. DuplicatesNeedRedelivery'
      BY <2>5, <3>1, <3>8 DEF IInv, DuplicatesNeedRedelivery
    <3>10. Cardinality(stored) \in Nat /\ popularity \in Nat /\ uncounted \in Nat
      BY FS_CardinalityType DEF IInv, TypeOK, IdsAscend
    <3>11. PopularityCountsRows'
      BY <2>1, <3>1, <3>2, <3>10 DEF IInv, PopularityCountsRows
    <3> QED
      BY <1>1, <3>1, <3>4, <3>6, <3>7, <3>9, <3>11 DEF IInv
  <2> QED
    BY <1>5, <2>3, <2>4, <2>5 DEF WorkerCreate
<1>6. CASE WorkerChangePopularity
  <2>1. /\ UNCHANGED <<stored, queue, publish, video>>
        /\ worker.at = "ChangePopularity" /\ worker # Idle
    BY <1>2, <1>6 DEF WorkerChangePopularity
  <2>2. CASE WorkerGivesUp /\ uncounted' = uncounted + 1 /\ UNCHANGED popularity
    BY <1>1, <2>1, <2>2, GivesUpKeeps
  <2>3. CASE ChangePopularity /\ WorkerGoto("Ack") /\ UNCHANGED <<again, uncounted>>
    <3>1. \A c \in Comments : Copies(c)' = Copies(c)
      BY <2>1, CopiesStay
    <3>2. worker'.at = "Ack" /\ worker'.event = worker.event
      BY <1>2, <2>1, <2>3 DEF WorkerGoto
    <3>3. \A c \in Comments : Written(c)' = Written(c)
      BY <2>1, <3>2 DEF Written
    <3>4. WorkerFits' /\ IdsAscend'
      BY <2>1, <3>2 DEF IInv, WorkerFits, IdsAscend
    <3>5. OnePath' /\ DeliveriesToSpare' /\ DuplicatesNeedRedelivery'
      BY <2>1, <2>3, <3>1, <3>3 DEF IInv, OnePath, DeliveriesToSpare, DuplicatesNeedRedelivery
    <3>6. Cardinality(stored) \in Nat /\ popularity \in Nat /\ uncounted \in Nat
      BY FS_CardinalityType DEF IInv, TypeOK, IdsAscend
    <3>7. PopularityCountsRows'
      BY <2>1, <2>3, <3>2, <3>6 DEF IInv, PopularityCountsRows, ChangePopularity, Change
    <3> QED
      BY <1>1, <3>4, <3>5, <3>7 DEF IInv
  <2> QED
    BY <1>6, <2>2, <2>3 DEF WorkerChangePopularity
<1>7. CASE WorkerAck
  <2>1. /\ UNCHANGED <<stored, publish, video, popularity, uncounted>>
        /\ worker.at = "Ack" /\ worker # Idle
    BY <1>2, <1>7 DEF WorkerAck, tables
  <2>2. CASE WorkerGivesUp /\ UNCHANGED queue
    BY <1>1, <2>1, <2>2, GivesUpKeeps DEF IInv, TypeOK
  <2>3. CASE queue' = queue \ {worker.event} /\ worker' = Idle /\ UNCHANGED again
    <3>1. \A c \in Comments : Copies(c)' = Copies(c)
      BY <2>1, CopiesStay
    <3>2. \A c \in Comments : PublishEvent(c) \in queue' => PublishEvent(c) \in queue /\ ~Written(c)
      BY <2>3 DEF Written
    <3>3. WorkerFits' /\ IdsAscend'
      BY <2>1, <2>3 DEF IInv, WorkerFits, IdsAscend
    <3>4. OnePath' /\ DeliveriesToSpare' /\ DuplicatesNeedRedelivery'
      BY <2>1, <2>3, <3>1, <3>2 DEF IInv, OnePath, DeliveriesToSpare, DuplicatesNeedRedelivery
    <3>5. PopularityCountsRows'
      BY <1>2, <2>1, <2>3 DEF IInv, PopularityCountsRows
    <3> QED
      BY <1>1, <3>3, <3>4, <3>5 DEF IInv
  <2> QED
    BY <1>7, <2>2, <2>3 DEF WorkerAck
<1> QED
  BY <1>3, <1>4, <1>5, <1>6, <1>7 DEF WorkerNext

-----------------------------------------------------------------------------
LEMMA NextIInv == IInv /\ [Next]_vars => IInv'
<1> SUFFICES ASSUME IInv, [Next]_vars PROVE IInv'
  OBVIOUS
<1>1. CASE UNCHANGED vars
  <2>1. TypeOK'
    BY <1>1 DEF IInv, TypeOK, vars, tables, history
  <2>2. UNCHANGED <<stored, queue, publish, worker, again, popularity, uncounted>> /\ (video' => video)
    BY <1>1 DEF vars, tables, history
  <2> QED
    BY <2>1, <2>2, OthersKeep DEF IInv
<1>2. CASE Next
  BY <1>2, PublishKeeps, RequestsKeep, DeleteToMQKeeps, WorkerKeeps DEF Next, DeleteNext
<1> QED
  BY <1>1, <1>2

LEMMA Inductive == Spec => []IInv
BY InitIInv, NextIInv, PTL DEF Spec

\* Every variable of the comments keeps its type.
THEOREM TypeCorrect == Spec => []TypeOK
<1>1. IInv => TypeOK
  BY DEF IInv
<1> QED
  BY <1>1, Inductive, PTL

\* A comment has more than one row only after its event was delivered anew.
THEOREM DuplicatesCorrect == Spec => []DuplicatesNeedRedelivery
<1>1. IInv => DuplicatesNeedRedelivery
  BY DEF IInv
<1> QED
  BY <1>1, Inductive, PTL

\* The popularity that comments give a video is the number of rows they ever had, but
\* for those a fault of the worker left uncounted.
THEOREM PopularityCorrect == Spec => []PopularityCountsRows
<1>1. IInv => PopularityCountsRows
  BY DEF IInv
<1> QED
  BY <1>1, Inductive, PTL
=============================================================================
