------------------------------ MODULE Comments ------------------------------
(***************************************************************************)
(* The comments of one video: CommentService (publish, delete, list with   *)
(* its page cache), the queue of the comment events and CommentWorker.     *)
(*                                                                         *)
(* A comment is written by the worker, in two statements, or in one        *)
(* transaction by the request itself if the event could not be published;  *)
(* the cached pages are invalidated by the request, before or after that.  *)
(***************************************************************************)
EXTENDS Integers, FiniteSets

CONSTANTS
    Comments,    \* what is published, each once
    Pages,       \* cached pages: every page and page size is a key of its own
    FirstPage,   \* page 1 of size 20
    NoPage,      \* a key without a value
    MaxDeletes,  \* bound on the requests to delete
    MaxFaults    \* bound on the crashes of the worker and the failing accesses

ASSUME CommentsFinite == IsFiniteSet(Comments)
ASSUME PagesTyped == FirstPage \in Pages
ASSUME CommentBounds == MaxDeletes \in Nat /\ MaxFaults \in Nat

VARIABLES
    video,       \* the video exists
    rows,        \* table comments; <<c, n>> is the row of c with the id n
    popularity,  \* column popularity, as far as it comes from comments
    page,        \* the cached pages
    queue,       \* events that are not acknowledged
    publish,     \* step of the request that publishes c
    delete,      \* the request that deletes
    reader,      \* the request that lists, by page
    worker,      \* CommentWorker
    deletes,     \* how many requests to delete there were
    faults,      \* how many faults
    stored,      \* history: every row there ever was
    again,       \* history: how often the event of c was delivered anew
    uncounted,   \* history: rows whose popularity was not counted
    lost         \* history: events the broker has lost

tables == <<video, rows, popularity, stored>>
history == <<deletes, faults, again, uncounted, lost>>
vars == <<tables, page, queue, publish, delete, reader, worker, history>>

\* The rows that c ever had.
Copies(c) == {r \in stored : r[1] = c}

RowIds == Comments \X Nat
PublishEvent(c) == [action |-> "publish", comment |-> c]
DeleteEvent(r) == [action |-> "delete", row |-> r]
Events == {PublishEvent(c) : c \in Comments} \cup [action : {"delete"}, row : RowIds]

PublishSteps == {"new", "mq", "popularity", "tx", "invalidate", "done", "refused"}
WorkerSteps == {"IsExist", "Create", "ChangePopularity", "GetByID", "Delete", "Ack"}
Idle == [at |-> "idle"]

TypeOK ==
    /\ video \in BOOLEAN
    /\ rows \in SUBSET stored
    /\ stored \in SUBSET RowIds
    /\ popularity \in Nat
    /\ page \in [Pages -> {NoPage} \cup SUBSET RowIds]
    /\ queue \in SUBSET Events
    /\ publish \in [Comments -> [at : PublishSteps, sent : BOOLEAN]]
    /\ delete \in {Idle} \cup [at : {"mq", "db", "invalidate"}, row : RowIds]
    /\ reader \in [Pages -> {Idle} \cup [at : {"fill"}, rows : SUBSET RowIds]]
    /\ worker \in {Idle} \cup [at : WorkerSteps, event : Events]
    /\ deletes \in Nat
    /\ faults \in Nat
    /\ again \in [Comments -> Nat]
    /\ uncounted \in Nat
    /\ lost \in SUBSET Comments

Init ==
    /\ video = TRUE
    /\ rows = {}
    /\ popularity = 0
    /\ page = [p \in Pages |-> NoPage]
    /\ queue = {}
    /\ publish = [c \in Comments |-> [at |-> "new", sent |-> FALSE]]
    /\ delete = Idle
    /\ reader = [p \in Pages |-> Idle]
    /\ worker = Idle
    /\ deletes = 0
    /\ faults = 0
    /\ stored = {}
    /\ again = [c \in Comments |-> 0]
    /\ uncounted = 0
    /\ lost = {}

\* Something fails, or crashes.
Fault == faults < MaxFaults /\ faults' = faults + 1

\* INSERT, with the next id.
Create(c) ==
    LET r == <<c, Cardinality(stored) + 1>>
    IN rows' = rows \cup {r} /\ stored' = stored \cup {r}

\* As a bug: the popularity of a comment is taken away.
ChangeDown == -1
Change == 1

\* UPDATE ... popularity + 1; nothing is updated if the video is gone.
ChangePopularity == popularity' = IF video THEN popularity + Change ELSE popularity

\* DEL of page 1, whose error is ignored.
InvalidateCommentCache ==
    \/ page' = [page EXCEPT ![FirstPage] = NoPage] /\ UNCHANGED faults
    \/ Fault /\ UNCHANGED page

-----------------------------------------------------------------------------
(* CommentService.Publish.                                                 *)

PublishGoto(c, step) == publish' = [publish EXCEPT ![c].at = step]

PublishIsExist(c) ==
    /\ publish[c].at = "new"
    /\ \/ video /\ PublishGoto(c, "mq") /\ UNCHANGED faults
       \/ ~video /\ PublishGoto(c, "refused") /\ UNCHANGED faults
       \/ Fault /\ PublishGoto(c, "refused")
    /\ UNCHANGED <<tables, page, queue, delete, reader, worker, deletes, again, uncounted, lost>>

\* commentMQ.Publish: sent, sent and lost by the broker, or not sent.
PublishToMQ(c) ==
    /\ publish[c].at = "mq"
    /\ \/ /\ queue' = queue \cup {PublishEvent(c)}
          /\ publish' = [publish EXCEPT ![c] = [at |-> "popularity", sent |-> TRUE]]
          /\ UNCHANGED <<faults, lost>>
       \/ /\ Fault
          /\ publish' = [publish EXCEPT ![c] = [at |-> "popularity", sent |-> TRUE]]
          /\ lost' = lost \cup {c}
          /\ UNCHANGED queue
       \/ Fault /\ PublishGoto(c, "popularity") /\ UNCHANGED <<queue, lost>>
    /\ UNCHANGED <<tables, page, delete, reader, worker, deletes, again, uncounted>>

\* As a bug: the row is also written when only the popularity event failed.
AfterMQUnlessBoth(sent, popularitySent) == IF sent /\ popularitySent THEN "invalidate" ELSE "tx"
AfterMQ(sent, popularitySent) == IF sent THEN "invalidate" ELSE "tx"

\* popularityMQ.Update; if it fails the hot window is updated at once (module HotRank).
PublishPopularity(c) ==
    /\ publish[c].at = "popularity"
    /\ \/ PublishGoto(c, AfterMQ(publish[c].sent, TRUE)) /\ UNCHANGED faults
       \/ Fault /\ PublishGoto(c, AfterMQ(publish[c].sent, FALSE))
    /\ UNCHANGED <<tables, page, queue, delete, reader, worker, deletes, again, uncounted, lost>>

\* As a bug: the transaction does not touch the popularity.
PublishTxUncounted(c) ==
    /\ publish[c].at = "tx"
    /\ \/ /\ video
          /\ Create(c)
          /\ PublishGoto(c, "invalidate")
          /\ UNCHANGED <<faults, popularity>>
       \/ ~video /\ PublishGoto(c, "refused") /\ UNCHANGED <<rows, stored, popularity, faults>>
       \/ Fault /\ PublishGoto(c, "refused") /\ UNCHANGED <<rows, stored, popularity>>
    /\ UNCHANGED <<video, page, queue, delete, reader, worker, deletes, again, uncounted, lost>>

\* One transaction: the video exists, the comment, the popularity.
PublishTx(c) ==
    /\ publish[c].at = "tx"
    /\ \/ /\ video
          /\ Create(c)
          /\ ChangePopularity
          /\ PublishGoto(c, "invalidate")
          /\ UNCHANGED faults
       \/ ~video /\ PublishGoto(c, "refused") /\ UNCHANGED <<rows, stored, popularity, faults>>
       \/ Fault /\ PublishGoto(c, "refused") /\ UNCHANGED <<rows, stored, popularity>>
    /\ UNCHANGED <<video, page, queue, delete, reader, worker, deletes, again, uncounted, lost>>

PublishInvalidate(c) ==
    /\ publish[c].at = "invalidate"
    /\ InvalidateCommentCache
    /\ PublishGoto(c, "done")
    /\ UNCHANGED <<tables, queue, delete, reader, worker, deletes, again, uncounted, lost>>

-----------------------------------------------------------------------------
(* CommentService.Delete, VideoService.Delete.                             *)

\* GetByID finds the comment, and it is the author who asks; else nothing happens.
DeleteGetByID(r) ==
    /\ delete = Idle
    /\ deletes < MaxDeletes
    /\ r \in rows
    /\ deletes' = deletes + 1
    /\ delete' = [at |-> "mq", row |-> r]
    /\ UNCHANGED <<tables, page, queue, publish, reader, worker, faults, again, uncounted, lost>>

\* commentMQ.Delete: sent, sent and lost, or not sent.
DeleteToMQ ==
    /\ delete.at = "mq"
    /\ \/ /\ queue' = queue \cup {DeleteEvent(delete.row)}
          /\ delete' = [delete EXCEPT !.at = "invalidate"]
          /\ UNCHANGED faults
       \/ Fault /\ delete' = [delete EXCEPT !.at = "invalidate"] /\ UNCHANGED queue
       \/ Fault /\ delete' = [delete EXCEPT !.at = "db"] /\ UNCHANGED queue
    /\ UNCHANGED <<tables, page, publish, reader, worker, deletes, again, uncounted, lost>>

DeleteFromDB ==
    /\ delete.at = "db"
    /\ \/ /\ rows' = rows \ {delete.row}
          /\ delete' = [delete EXCEPT !.at = "invalidate"]
          /\ UNCHANGED faults
       \/ Fault /\ delete' = Idle /\ UNCHANGED rows
    /\ UNCHANGED <<video, popularity, stored, page, queue, publish, reader, worker,
                   deletes, again, uncounted, lost>>

DeleteInvalidate ==
    /\ delete.at = "invalidate"
    /\ InvalidateCommentCache
    /\ delete' = Idle
    /\ UNCHANGED <<tables, queue, publish, reader, worker, deletes, again, uncounted, lost>>

\* The comments of a deleted video stay in the table.
DeleteVideo ==
    /\ video
    /\ video' = FALSE
    /\ UNCHANGED <<rows, popularity, stored, page, queue, publish, delete, reader, worker, history>>

-----------------------------------------------------------------------------
(* CommentService.GetAll; a page found in the cache changes nothing.       *)

GetCommentsByPage(p) ==
    /\ reader[p] = Idle
    /\ page[p] = NoPage
    /\ reader' = [reader EXCEPT ![p] = [at |-> "fill", rows |-> rows]]
    /\ UNCHANGED <<tables, page, queue, publish, delete, worker, history>>

\* SetBytes with a TTL of 30 s, whose error is ignored.
FillPage(p) ==
    /\ reader[p] # Idle
    /\ \/ page' = [page EXCEPT ![p] = reader[p].rows] /\ UNCHANGED faults
       \/ Fault /\ UNCHANGED page
    /\ reader' = [reader EXCEPT ![p] = Idle]
    /\ UNCHANGED <<tables, queue, publish, delete, worker, deletes, again, uncounted, lost>>

\* As a bug: pages are stored without a TTL.
NeverExpire(p) == FALSE /\ UNCHANGED vars

ExpirePage(p) ==
    /\ page[p] # NoPage
    /\ page' = [page EXCEPT ![p] = NoPage]
    /\ UNCHANGED <<tables, queue, publish, delete, reader, worker, history>>

-----------------------------------------------------------------------------
(* CommentWorker.                                                          *)

WorkerGoto(step) == worker' = [worker EXCEPT !.at = step]

WorkerReceive(e) ==
    /\ worker = Idle
    /\ e \in queue
    /\ worker' = [at |-> IF e.action = "publish" THEN "IsExist" ELSE "GetByID", event |-> e]
    /\ UNCHANGED <<tables, page, queue, publish, delete, reader, history>>

\* An error: Nack with requeue.  Or a crash.  The event is delivered anew.
WorkerGivesUp ==
    /\ Fault
    /\ worker' = Idle
    /\ again' = IF worker.event.action = "publish"
                THEN [again EXCEPT ![worker.event.comment] = @ + 1] ELSE again

\* As a bug: an error is taken for a video that is gone.
WorkerIsExistOrAck ==
    /\ worker.at = "IsExist"
    /\ \/ WorkerGoto(IF video THEN "Create" ELSE "Ack") /\ UNCHANGED <<faults, again>>
       \/ Fault /\ WorkerGoto("Ack") /\ UNCHANGED again
    /\ UNCHANGED <<tables, page, queue, publish, delete, reader, deletes, uncounted, lost>>

WorkerIsExist ==
    /\ worker.at = "IsExist"
    /\ \/ WorkerGoto(IF video THEN "Create" ELSE "Ack") /\ UNCHANGED <<faults, again>>
       \/ WorkerGivesUp
    /\ UNCHANGED <<tables, page, queue, publish, delete, reader, deletes, uncounted, lost>>

\* CreateComment, outside a transaction.
WorkerCreate ==
    /\ worker.at = "Create"
    /\ \/ Create(worker.event.comment) /\ WorkerGoto("ChangePopularity") /\ UNCHANGED <<faults, again>>
       \/ WorkerGivesUp /\ UNCHANGED <<rows, stored>>
    /\ UNCHANGED <<video, popularity, page, queue, publish, delete, reader, deletes, uncounted, lost>>

\* A failure, or a crash, leaves the comment without its popularity.
WorkerChangePopularity ==
    /\ worker.at = "ChangePopularity"
    /\ \/ ChangePopularity /\ WorkerGoto("Ack") /\ UNCHANGED <<faults, again, uncounted>>
       \/ WorkerGivesUp /\ uncounted' = uncounted + 1 /\ UNCHANGED popularity
    /\ UNCHANGED <<video, rows, stored, page, queue, publish, delete, reader, deletes, lost>>

\* applyDelete: GetByID and, if there is a row, DeleteComment.
WorkerGetByID ==
    /\ worker.at = "GetByID"
    /\ \/ WorkerGoto(IF worker.event.row \in rows THEN "Delete" ELSE "Ack") /\ UNCHANGED <<faults, again>>
       \/ WorkerGivesUp
    /\ UNCHANGED <<tables, page, queue, publish, delete, reader, deletes, uncounted, lost>>

WorkerDelete ==
    /\ worker.at = "Delete"
    /\ \/ rows' = rows \ {worker.event.row} /\ WorkerGoto("Ack") /\ UNCHANGED <<faults, again>>
       \/ WorkerGivesUp /\ UNCHANGED rows
    /\ UNCHANGED <<video, popularity, stored, page, queue, publish, delete, reader,
                   deletes, uncounted, lost>>

\* Ack, or a crash just before it.
WorkerAck ==
    /\ worker.at = "Ack"
    /\ \/ queue' = queue \ {worker.event} /\ worker' = Idle /\ UNCHANGED <<faults, again>>
       \/ WorkerGivesUp /\ UNCHANGED queue
    /\ UNCHANGED <<tables, page, publish, delete, reader, deletes, uncounted, lost>>

-----------------------------------------------------------------------------
PublishNext(c) ==
    \/ PublishIsExist(c)
    \/ PublishToMQ(c)
    \/ PublishPopularity(c)
    \/ PublishTx(c)
    \/ PublishInvalidate(c)

DeleteNext == DeleteToMQ \/ DeleteFromDB \/ DeleteInvalidate

WorkerNext ==
    \/ \E e \in queue : WorkerReceive(e)
    \/ WorkerIsExist
    \/ WorkerCreate
    \/ WorkerChangePopularity
    \/ WorkerGetByID
    \/ WorkerDelete
    \/ WorkerAck

Next ==
    \/ \E c \in Comments : PublishNext(c)
    \/ \E r \in rows : DeleteGetByID(r)
    \/ DeleteNext
    \/ DeleteVideo
    \/ \E p \in Pages : GetCommentsByPage(p) \/ FillPage(p) \/ ExpirePage(p)
    \/ WorkerNext

Spec == Init /\ [][Next]_vars

\* Requests and the worker go on, a TTL runs out.  The worker is restarted, and the
\* accesses fail only MaxFaults times.
FairSpec ==
    /\ Spec
    /\ \A c \in Comments : WF_vars(PublishNext(c))
    /\ WF_vars(DeleteNext)
    /\ WF_vars(WorkerNext)
    /\ \A p \in Pages : WF_vars(FillPage(p)) /\ WF_vars(ExpirePage(p))

-----------------------------------------------------------------------------
(* Properties.                                                             *)

\* A comment gets a second row only when its event is delivered anew (applyPublish
\* knows no event id): the path through the queue and the transaction of the fallback
\* exclude each other.
DuplicatesNeedRedelivery ==
    \A c \in Comments : Cardinality(Copies(c)) <= 1 + again[c]

\* Every row that was ever written is counted in the popularity of the video exactly
\* once, whichever path wrote it; only a fault between the two statements of
\* applyPublish leaves one uncounted.
PopularityCountsRows ==
    video => Cardinality(stored)
             = popularity + uncounted + (IF worker.at = "ChangePopularity" THEN 1 ELSE 0)

\* A comment that was accepted is written in the end, unless the broker has lost its
\* event or the video was deleted first.
AcceptedStored ==
    \A c \in Comments :
       publish[c].at = "done" ~> Copies(c) # {} \/ ~video \/ c \in lost

\* In the end every cached page shows the table, although the request has invalidated
\* page 1 before the worker writes, other pages are never invalidated, and a slow
\* reader stores what it has read before.
PagesEventuallyFresh ==
    <>[](\A p \in Pages : page[p] \in {NoPage, rows})
=============================================================================
