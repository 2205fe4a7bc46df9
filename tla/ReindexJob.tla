----------------------------- MODULE ReindexJob -----------------------------
(***************************************************************************)
(* The bulk reindex: admin requests (start, cancel, force cancel), the job *)
(* state they share with the worker through Redis, the arq queue, and the  *)
(* worker's run of reindex_task.                                           *)
(*                                                                         *)
(* Every Redis command is a step of its own: each method of                *)
(* ReindexStateService GETs the state, edits its copy and SETEXes it back, *)
(* so any other actor can step in between.  Each database statement that   *)
(* other transactions can see is a step too.                               *)
(***************************************************************************)
EXTENDS Integers, FiniteSets

CONSTANTS Jobs,        \* the uuids start_reindex can draw
          Entities,    \* enabled entities, the candidates for a row
          Admins,      \* API requests that can be in flight together
          NTypes,      \* number of entity types, visited in order 1 .. NTypes
          TypeOf,      \* TypeOf[e]: the type of e
          MaxTries,    \* WorkerSettings.max_tries
          Asks,        \* the forms of cancellation in use, see CancelReadState
          Trouble,     \* the kinds of trouble an instance has, see Troubles
          NoJob,       \* no job id / no current-job pointer
          NoEntity

Troubles == {"request",   \* a request or its background task fails or dies
             "embedding", \* the embedding call raises
             "raise",     \* Redis or the database raises in the task
             "publish",   \* Redis fails while an event is published
             "timeout",   \* the attempt exceeds the job timeout
             "crash",     \* the worker dies and arq delivers the job again
             "expire",    \* a Redis key reaches its TTL
             "outside"}   \* other tasks commit or remove rows meanwhile

ASSUME ConstAssumption ==
  /\ NoJob \notin Jobs
  /\ NoEntity \notin Entities
  /\ IsFiniteSet(Entities)
  /\ NTypes \in Nat \ {0}
  /\ TypeOf \in [Entities -> 1 .. NTypes]
  /\ MaxTries \in Nat \ {0}
  /\ Asks \subseteq {"askRead", "forceRead"}
  /\ Trouble \subseteq Troubles

VARIABLES
  \* --- Redis ---
  state,     \* state[j]: the value of reindex:state:{j}, or NoState
  current,   \* the value of reindex:current_job, or NoJob
  cancel,    \* jobs whose reindex:cancel:{j} flag exists
  \* --- arq ---
  arq,       \* arq[j]: where the job is in the queue
  tries,     \* tries[j]: attempts started
  \* --- worker ---
  run,       \* run[j]: the locals of the worker's attempt at j
  \* --- database ---
  indexed,   \* entities with a committed row in embedding_index
  \* --- API ---
  req,       \* req[a]: the locals of the admin request a
  \* --- history ---
  told,      \* told[j]: terminal events of j, published or lost, see Tell
  saved,     \* jobs whose transaction has committed at least once
  late       \* late[j]: entities begun since the cancel flag was set

redis   == <<state, current, cancel>>
queue   == <<arq, tries>>
history == <<told, saved, late>>
vars    == <<redis, queue, run, indexed, req, history>>

-----------------------------------------------------------------------------
InProgress == {"running", "cancelling"}
Endings    == {"completed", "failed", "cancelled"}

\* ReindexProgress, without the fields no property looks at.
NoState  == [status |-> "none", processed |-> 0, errors |-> 0]
Progress == [status : InProgress \cup Endings, processed : Nat, errors : Nat]

\* The locals of reindex_task and of its database session.
IdleRun == [pc |-> "idle", type |-> 1, todo |-> {}, entity |-> NoEntity,
            processed |-> 0, errors |-> 0, copy |-> NoState,
            inserted |-> {}, poisoned |-> FALSE, ending |-> "none"]

IdleReq == [pc |-> "idle", job |-> NoJob, copy |-> NoState]

Live(j) == run[j].pc # "idle"

\* Rows written by transactions that have not committed.
HeldByOthers(j) == UNION {run[k].inserted : k \in Jobs \ {j}}
Held == UNION {run[k].inserted : k \in Jobs}

\* The rows a query of j's session sees: committed ones and its own.
Visible(j) == indexed \cup run[j].inserted

Init == /\ state = [j \in Jobs |-> NoState]
        /\ current = NoJob
        /\ cancel = {}
        /\ arq = [j \in Jobs |-> "new"]
        /\ tries = [j \in Jobs |-> 0]
        /\ run = [j \in Jobs |-> IdleRun]
        /\ indexed \in SUBSET Entities
        /\ req = [a \in Admins |-> IdleReq]
        /\ told = [j \in Jobs |-> {}]
        /\ saved = {}
        /\ late = [j \in Jobs |-> 0]

-----------------------------------------------------------------------------
(* Admin requests.  SendTo moves request a on; Reply ends it.               *)

SendTo(a, pc) == req' = [req EXCEPT ![a].pc = pc]
Reply(a)      == req' = [req EXCEPT ![a] = IdleReq]

\* A terminal event is published on reindex:{j}.  When Redis fails, the
\* exception is logged and swallowed: nobody is told, and the caller goes on.
Lost == "lost"

Tell(j, ending) ==
  \E event \in {ending} \cup (IF "publish" \in Trouble THEN {Lost} ELSE {}) :
    told' = [told EXCEPT ![j] = @ \cup {event}]

\* is_job_running, first GET: the current-job pointer.
StartReadCurrent(a) ==
  /\ req[a].pc = "idle"
  /\ req' = [req EXCEPT ![a] = [@ EXCEPT
               !.pc = IF current = NoJob THEN "startPut" ELSE "startReadState",
               !.job = current]]
  /\ UNCHANGED <<redis, queue, run, indexed, history>>

\* is_job_running, second GET: 409 when that job is still in progress.
StartReadState(a) ==
  /\ req[a].pc = "startReadState"
  /\ IF state[req[a].job].status \in InProgress
     THEN Reply(a)
     ELSE SendTo(a, "startPut")
  /\ UNCHANGED <<redis, queue, run, indexed, history>>

\* A fresh uuid, and start_job's SETEX of its state.
StartPut(a) ==
  /\ req[a].pc = "startPut"
  /\ \E j \in Jobs :
       /\ arq[j] = "new"
       /\ arq' = [arq EXCEPT ![j] = "drawn"]
       /\ state' = [state EXCEPT ![j] = [NoState EXCEPT !.status = "running"]]
       /\ req' = [req EXCEPT ![a] = [@ EXCEPT !.pc = "startPoint", !.job = j]]
  /\ UNCHANGED <<current, cancel, tries, run, indexed, history>>

\* The instance has no uuid left: a bound of the model, the request is over.
StartBound(a) ==
  /\ req[a].pc = "startPut"
  /\ \A j \in Jobs : arq[j] # "new"
  /\ Reply(a)
  /\ UNCHANGED <<redis, queue, run, indexed, history>>

\* start_job's SET of the current-job pointer.
StartPoint(a) ==
  /\ req[a].pc = "startPoint"
  /\ current' = req[a].job
  /\ SendTo(a, "enqueue")
  /\ UNCHANGED <<state, cancel, queue, run, indexed, history>>

\* _enqueue_reindex, a background task that runs after the response.
Enqueue(a) ==
  /\ req[a].pc = "enqueue"
  /\ arq' = [arq EXCEPT ![req[a].job] = "queued"]
  /\ Reply(a)
  /\ UNCHANGED <<redis, tries, run, indexed, history>>

\* enqueue_job or the close after it raises, with or without effect on arq.
EnqueueFails(a) ==
  /\ "request" \in Trouble
  /\ req[a].pc = "enqueue"
  /\ \E place \in {"drawn", "queued"} : arq' = [arq EXCEPT ![req[a].job] = place]
  /\ SendTo(a, "failRead")
  /\ UNCHANGED <<redis, tries, run, indexed, history>>

\* fail_job, called by _enqueue_reindex.
EnqueueFailRead(a) ==
  /\ req[a].pc = "failRead"
  /\ LET now == state[req[a].job] IN
     req' = [req EXCEPT ![a] = [@ EXCEPT
               !.pc = IF now = NoState THEN "failTell" ELSE "failPut",
               !.copy = now]]
  /\ UNCHANGED <<redis, queue, run, indexed, history>>

EnqueueFailPut(a) ==
  /\ req[a].pc = "failPut"
  /\ state' = [state EXCEPT ![req[a].job] = [req[a].copy EXCEPT !.status = "failed"]]
  /\ SendTo(a, "failTell")
  /\ UNCHANGED <<current, cancel, queue, run, indexed, history>>

EnqueueFailTell(a) ==
  /\ req[a].pc = "failTell"
  /\ Tell(req[a].job, "failed")
  /\ Reply(a)
  /\ UNCHANGED <<redis, queue, run, indexed, saved, late>>

\* cancel_reindex, get_current_job: 404 when there is no pointer.
CancelReadCurrent(a) ==
  /\ req[a].pc = "idle"
  /\ current # NoJob
  /\ req' = [req EXCEPT ![a] = [@ EXCEPT !.pc = "cancelReadState", !.job = current]]
  /\ UNCHANGED <<redis, queue, run, indexed, history>>

\* 404 or 400 when the job is gone or over; otherwise force is the caller's choice.
CancelReadState(a) ==
  /\ req[a].pc = "cancelReadState"
  /\ IF state[req[a].job].status \in InProgress
     THEN \E pc \in Asks : SendTo(a, pc)
     ELSE Reply(a)
  /\ UNCHANGED <<redis, queue, run, indexed, history>>

\* request_cancel: GET, then the flag, then the status from the copy read.
AskRead(a) ==
  /\ req[a].pc = "askRead"
  /\ LET now == state[req[a].job] IN
     IF now.status \in InProgress
     THEN req' = [req EXCEPT ![a] = [@ EXCEPT !.pc = "askFlag", !.copy = now]]
     ELSE Reply(a)
  /\ UNCHANGED <<redis, queue, run, indexed, history>>

AskFlag(a) ==
  /\ req[a].pc = "askFlag"
  /\ cancel' = cancel \cup {req[a].job}
  /\ SendTo(a, "askPut")
  /\ UNCHANGED <<state, current, queue, run, indexed, history>>

AskPut(a) ==
  /\ req[a].pc = "askPut"
  /\ state' = [state EXCEPT ![req[a].job] = [req[a].copy EXCEPT !.status = "cancelling"]]
  /\ Reply(a)
  /\ UNCHANGED <<current, cancel, queue, run, indexed, history>>

\* force_cancel: the state, then the pointer, then the flag; then the event.
ForceRead(a) ==
  /\ req[a].pc = "forceRead"
  /\ LET now == state[req[a].job] IN
     IF now = NoState
     THEN Reply(a)
     ELSE req' = [req EXCEPT ![a] = [@ EXCEPT !.pc = "forcePut", !.copy = now]]
  /\ UNCHANGED <<redis, queue, run, indexed, history>>

ForcePut(a) ==
  /\ req[a].pc = "forcePut"
  /\ state' = [state EXCEPT ![req[a].job] = [req[a].copy EXCEPT !.status = "cancelled"]]
  /\ SendTo(a, "forceReadCurrent")
  /\ UNCHANGED <<current, cancel, queue, run, indexed, history>>

ForceReadCurrent(a) ==
  /\ req[a].pc = "forceReadCurrent"
  /\ SendTo(a, IF current = req[a].job THEN "forceDelCurrent" ELSE "forceUnflag")
  /\ UNCHANGED <<redis, queue, run, indexed, history>>

ForceDelCurrent(a) ==
  /\ req[a].pc = "forceDelCurrent"
  /\ current' = NoJob
  /\ SendTo(a, "forceUnflag")
  /\ UNCHANGED <<state, cancel, queue, run, indexed, history>>

\* The flag of job j is deleted: whatever counted from it starts over.
Unflag(j) == /\ cancel' = cancel \ {j}
             /\ late' = [late EXCEPT ![j] = 0]

ForceUnflag(a) ==
  /\ req[a].pc = "forceUnflag"
  /\ Unflag(req[a].job)
  /\ SendTo(a, "forceTell")
  /\ UNCHANGED <<state, current, queue, run, indexed, told, saved>>

ForceTell(a) ==
  /\ req[a].pc = "forceTell"
  /\ Tell(req[a].job, "cancelled")
  /\ Reply(a)
  /\ UNCHANGED <<redis, queue, run, indexed, saved, late>>

\* A Redis error ends the request with a 500; an API crash ends it too, and
\* drops the background task that had not enqueued the job yet.
RequestLost(a) ==
  /\ "request" \in Trouble
  /\ req[a].pc # "idle"
  /\ Reply(a)
  /\ UNCHANGED <<redis, queue, run, indexed, history>>

-----------------------------------------------------------------------------
(* The worker's run of reindex_task.                                        *)

Becomes(j, r) == run' = [run EXCEPT ![j] = r]

Go(j, pc) == Becomes(j, [run[j] EXCEPT !.pc = pc])

\* The attempt is over; result is what arq records for the job.
Finish(j, result) == /\ Becomes(j, IdleRun)
                     /\ arq' = [arq EXCEPT ![j] = result]

\* The session is closed; the job's ending has still to be recorded.
Ending(ending) == [IdleRun EXCEPT !.pc = "endRead", !.ending = ending]

\* An exception caught by reindex_task: the session rolled back, fail_job next.
Fail(j) == Becomes(j, Ending("failed"))

\* Slip: max_tries is not looked at.
RunStartUnbounded(j) ==
  /\ arq[j] = "queued"
  /\ arq' = [arq EXCEPT ![j] = "running"]
  /\ tries' = [tries EXCEPT ![j] = @ + 1]
  /\ Becomes(j, [IdleRun EXCEPT !.pc = "configure"])
  /\ UNCHANGED <<redis, indexed, req, history>>

\* arq starts an attempt: fresh locals, a new session.
RunStart(j) ==
  /\ arq[j] = "queued"
  /\ tries[j] < MaxTries
  /\ arq' = [arq EXCEPT ![j] = "running"]
  /\ tries' = [tries EXCEPT ![j] = @ + 1]
  /\ Becomes(j, [IdleRun EXCEPT !.pc = "configure"])
  /\ UNCHANGED <<redis, indexed, req, history>>

\* arq gives up a job that has used its attempts, without running it.
RunExhausted(j) ==
  /\ arq[j] = "queued"
  /\ tries[j] >= MaxTries
  /\ arq' = [arq EXCEPT ![j] = "dead"]
  /\ UNCHANGED <<redis, tries, run, indexed, req, history>>

\* Indexing disabled, or no OpenAI key: fail_job and return; otherwise go on.
RunConfigure(j) ==
  /\ run[j].pc = "configure"
  /\ Fail(j) \/ Go(j, "list")
  /\ UNCHANGED <<redis, queue, indexed, req, history>>

\* The query of one type: its entities that have no row.  A session in error
\* raises here, outside the per-entity handler.
RunList(j) ==
  /\ run[j].pc = "list"
  /\ IF run[j].poisoned
     THEN Fail(j)
     ELSE Becomes(j, [run[j] EXCEPT
            !.pc = "next",
            !.todo = {e \in Entities : TypeOf[e] = run[j].type /\ e \notin Visible(j)}])
  /\ UNCHANGED <<redis, queue, indexed, req, history>>

\* Slip: the loop does not move on to the next type.
RunSameType(j) ==
  /\ run[j].pc = "next"
  /\ run[j].todo = {}
  /\ Go(j, "list")
  /\ UNCHANGED <<redis, queue, indexed, req, history>>

\* The list of this type is exhausted: the next type, or the final commit.
RunNextType(j) ==
  /\ run[j].pc = "next"
  /\ run[j].todo = {}
  /\ IF run[j].type < NTypes
     THEN Becomes(j, [run[j] EXCEPT !.pc = "list", !.type = run[j].type + 1])
     ELSE Go(j, "commit")
  /\ UNCHANGED <<redis, queue, indexed, req, history>>

\* Slip: the flag is not looked at inside the loop.
RunNeverCheck(j) ==
  /\ run[j].pc = "next"
  /\ \E e \in run[j].todo :
       Becomes(j, [run[j] EXCEPT !.pc = "index", !.entity = e,
                                  !.todo = run[j].todo \ {e}])
  /\ UNCHANGED <<redis, queue, indexed, req, history>>

\* is_cancelled, before each entity.
RunCheckCancel(j) ==
  /\ run[j].pc = "next"
  /\ run[j].todo # {}
  /\ IF j \in cancel
     THEN Becomes(j, [run[j] EXCEPT !.pc = "endRead", !.ending = "cancelled"])
     ELSE \E e \in run[j].todo :
            Becomes(j, [run[j] EXCEPT !.pc = "index", !.entity = e,
                                       !.todo = run[j].todo \ {e}])
  /\ UNCHANGED <<redis, queue, indexed, req, history>>

\* The entity is done with, or counted among the errors.
Counted(j) == [run[j] EXCEPT !.pc = "progressRead", !.processed = run[j].processed + 1]
Miscounted(j) == [run[j] EXCEPT !.pc = "progressRead", !.errors = run[j].errors + 1]

\* index_entity, up to the embedding: skip an entity that has a row by now, or
\* that has been deleted since it was listed.
RunIndex(j) ==
  /\ run[j].pc = "index"
  /\ late' = [late EXCEPT ![j] = IF j \in cancel THEN @ + 1 ELSE @]
  /\ IF run[j].poisoned
     THEN Becomes(j, Miscounted(j))
     ELSE \/ /\ run[j].entity \in Visible(j) \/ "outside" \in Trouble
             /\ Becomes(j, Counted(j))
          \/ run[j].entity \notin Visible(j) /\ Go(j, "flush")
  /\ UNCHANGED <<redis, queue, indexed, req, told, saved>>

\* The embedding call raises: an error is counted, the session is intact.
RunEmbeddingFails(j) ==
  /\ "embedding" \in Trouble
  /\ run[j].pc = "flush"
  /\ Becomes(j, Miscounted(j))
  /\ UNCHANGED <<redis, queue, indexed, req, history>>

\* Slip: embedding_index lacks its unique constraint.
RunInsertDuplicate(j) ==
  /\ run[j].pc = "flush"
  /\ Becomes(j, [Counted(j) EXCEPT !.inserted = run[j].inserted \cup {run[j].entity}])
  /\ UNCHANGED <<redis, queue, indexed, req, history>>

\* The flush inserts the row.  It waits while another transaction holds a row
\* of the same entity (unique constraint on entity_type, entity_id).
RunInsert(j) ==
  /\ run[j].pc = "flush"
  /\ run[j].entity \notin indexed \cup HeldByOthers(j)
  /\ Becomes(j, [Counted(j) EXCEPT !.inserted = run[j].inserted \cup {run[j].entity}])
  /\ UNCHANGED <<redis, queue, indexed, req, history>>

\* j waits for a row that k has inserted.
WaitsFor(j, k) == /\ run[j].pc = "flush"
                  /\ run[j].entity \in run[k].inserted

\* j and some other runs wait for each other in a circle.
Deadlocked(j) == \E C \in SUBSET Jobs :
                   /\ j \in C
                   /\ \A c \in C : \E d \in C \ {c} : WaitsFor(c, d)
                   /\ \A c \in C : \E d \in C \ {c} : WaitsFor(d, c)

\* The flush fails: somebody committed the row since RunIndex looked, or the
\* database breaks a deadlock.  SQLAlchemy rolls the transaction back and
\* refuses every later use of the session.
RunFlushFails(j) ==
  /\ run[j].pc = "flush"
  /\ run[j].entity \in indexed \/ Deadlocked(j)
  /\ Becomes(j, [Miscounted(j) EXCEPT !.inserted = {}, !.poisoned = TRUE])
  /\ UNCHANGED <<redis, queue, indexed, req, history>>

\* update_progress: nothing when the state is gone.
RunProgressRead(j) ==
  /\ run[j].pc = "progressRead"
  /\ Becomes(j, [run[j] EXCEPT
               !.pc = IF state[j] = NoState THEN "next" ELSE "progressPut",
               !.entity = NoEntity, !.copy = state[j]])
  /\ UNCHANGED <<redis, queue, indexed, req, history>>

RunProgressPut(j) ==
  /\ run[j].pc = "progressPut"
  /\ state' = [state EXCEPT ![j] = [run[j].copy EXCEPT
                 !.processed = run[j].processed, !.errors = run[j].errors]]
  /\ Becomes(j, [run[j] EXCEPT !.pc = "next", !.copy = NoState])
  /\ UNCHANGED <<current, cancel, queue, indexed, req, history>>

\* The transaction of j becomes visible.
Commit(j) == /\ indexed' = indexed \cup run[j].inserted
             /\ saved' = saved \cup {j}

\* Slip: complete_job is called with the transaction still open.
RunCommitLater(j) ==
  /\ run[j].pc = "commit"
  /\ Becomes(j, [run[j] EXCEPT !.pc = "endRead", !.ending = "completed"])
  /\ UNCHANGED <<redis, queue, indexed, req, history>>

\* db.commit after the last type; a session in error raises instead.
RunCommit(j) ==
  /\ run[j].pc = "commit"
  /\ IF run[j].poisoned
     THEN Fail(j) /\ UNCHANGED <<indexed, saved>>
     ELSE /\ Commit(j)
          /\ Becomes(j, Ending("completed"))
  /\ UNCHANGED <<redis, queue, req, told, late>>

\* complete_job, fail_job and mark_cancelled: GET, edit the copy, SETEX.
\* mark_cancelled then deletes the flag; the terminal event comes last.
AfterPut(j) == IF run[j].ending = "cancelled" THEN "cancelUnflag" ELSE "endTell"

RunEndRead(j) ==
  /\ run[j].pc = "endRead"
  /\ Becomes(j, [run[j] EXCEPT
               !.pc = IF state[j] = NoState THEN AfterPut(j) ELSE "endPut",
               !.copy = state[j]])
  /\ UNCHANGED <<redis, queue, indexed, req, history>>

\* Slip: the ending is not written into the copy.
RunEndPutCopy(j) ==
  /\ run[j].pc = "endPut"
  /\ state' = [state EXCEPT ![j] = run[j].copy]
  /\ Becomes(j, [run[j] EXCEPT !.pc = AfterPut(j), !.copy = NoState])
  /\ UNCHANGED <<current, cancel, queue, indexed, req, history>>

RunEndPut(j) ==
  /\ run[j].pc = "endPut"
  /\ state' = [state EXCEPT ![j] = [run[j].copy EXCEPT !.status = run[j].ending]]
  /\ Becomes(j, [run[j] EXCEPT !.pc = AfterPut(j), !.copy = NoState])
  /\ UNCHANGED <<current, cancel, queue, indexed, req, history>>

RunCancelUnflag(j) ==
  /\ run[j].pc = "cancelUnflag"
  /\ Unflag(j)
  /\ Go(j, "endTell")
  /\ UNCHANGED <<state, current, queue, indexed, req, told, saved>>

\* Slip: a cancelled job publishes no event.
RunTellOthers(j) ==
  /\ run[j].pc = "endTell"
  /\ IF run[j].ending = "cancelled"
     THEN Go(j, "cancelExit") /\ UNCHANGED told
     ELSE Go(j, "return") /\ Tell(j, run[j].ending)
  /\ UNCHANGED <<redis, queue, indexed, req, saved, late>>

\* publish_reindex_completed, _failed or _cancelled; then the task returns.
RunTell(j) ==
  /\ run[j].pc = "endTell"
  /\ Tell(j, run[j].ending)
  /\ Go(j, IF run[j].ending = "cancelled" THEN "cancelExit" ELSE "return")
  /\ UNCHANGED <<redis, queue, indexed, req, saved, late>>

\* Leaving get_db_context after a cancellation commits what was indexed.  On a
\* session in error, or when the answer to the commit is lost, it raises, and
\* the job fails after all.
RunCancelExit(j) ==
  /\ run[j].pc = "cancelExit"
  /\ IF run[j].poisoned
     THEN Fail(j) /\ UNCHANGED <<indexed, saved>>
     ELSE /\ Commit(j)
          /\ \/ Becomes(j, [IdleRun EXCEPT !.pc = "return"])
             \/ "raise" \in Trouble /\ Fail(j)
  /\ UNCHANGED <<redis, queue, req, told, late>>

\* arq records the result.
RunReturn(j) ==
  /\ run[j].pc = "return"
  /\ Finish(j, "done")
  /\ UNCHANGED <<redis, tries, indexed, req, history>>

\* A Redis or database call raises outside the per-entity handler, before it
\* takes effect or (at the step that follows it) after.
MayRaise == {"configure", "list", "next", "progressRead", "progressPut", "commit",
             "endRead", "endPut", "cancelUnflag", "endTell", "cancelExit"}

RunRaises(j) ==
  /\ "raise" \in Trouble
  /\ run[j].pc \in MayRaise
  /\ run[j].ending # "failed"
  /\ Fail(j)
  /\ UNCHANGED <<redis, queue, indexed, req, history>>

\* It raises in fail_job: the exception leaves the task, arq does not retry.
RunEscapes(j) ==
  /\ "raise" \in Trouble
  /\ run[j].pc \in {"endRead", "endPut", "endTell"}
  /\ run[j].ending = "failed"
  /\ Finish(j, "dead")
  /\ UNCHANGED <<redis, tries, indexed, req, history>>

\* The job timeout cancels the attempt; nothing catches CancelledError.
RunTimesOut(j) ==
  /\ "timeout" \in Trouble
  /\ Live(j)
  /\ Finish(j, "dead")
  /\ UNCHANGED <<redis, tries, indexed, req, history>>

\* The worker dies or shuts down; arq delivers the job again.
RunCrashes(j) ==
  /\ "crash" \in Trouble
  /\ Live(j)
  /\ Finish(j, "queued")
  /\ UNCHANGED <<redis, tries, indexed, req, history>>

-----------------------------------------------------------------------------
(* What goes on around the reindex.                                         *)

\* index_entity_task commits a row of its own (waiting for one in flight).
IndexOne(e) ==
  /\ "outside" \in Trouble
  /\ e \notin Held
  /\ indexed' = indexed \cup {e}
  /\ UNCHANGED <<redis, queue, run, req, history>>

\* remove_entity_task: the entity is disabled or deleted, its row goes.
RemoveOne(e) ==
  /\ "outside" \in Trouble
  /\ e \in indexed
  /\ indexed' = indexed \ {e}
  /\ UNCHANGED <<redis, queue, run, req, history>>

\* Nobody has the keys of j in hand: an attempt lasts 6 hours at most and a
\* request seconds, so no key written by them outlives its 24 hours before.
Untouched(j) == /\ ~ Live(j)
                /\ \A a \in Admins : req[a].pc # "idle" => req[a].job # j

\* Slip: only a finished job's state is written with a TTL.
ExpireFinished(j) ==
  /\ "expire" \in Trouble
  /\ Untouched(j)
  /\ state[j].status \in Endings
  /\ state' = [state EXCEPT ![j] = NoState]
  /\ UNCHANGED <<current, cancel, queue, run, indexed, req, history>>

ExpireState(j) ==
  /\ "expire" \in Trouble
  /\ Untouched(j)
  /\ state[j] # NoState
  /\ state' = [state EXCEPT ![j] = NoState]
  /\ UNCHANGED <<current, cancel, queue, run, indexed, req, history>>

ExpireFlag(j) ==
  /\ "expire" \in Trouble
  /\ Untouched(j)
  /\ j \in cancel
  /\ Unflag(j)
  /\ UNCHANGED <<state, current, queue, run, indexed, req, told, saved>>

\* The arq job key has expired when a worker at last takes the job.
ExpireQueued(j) ==
  /\ "expire" \in Trouble
  /\ arq[j] = "queued"
  /\ arq' = [arq EXCEPT ![j] = "dead"]
  /\ UNCHANGED <<redis, tries, run, indexed, req, history>>

-----------------------------------------------------------------------------
\* A request that has begun goes on.
RequestStep(a) ==
  \/ StartReadState(a) \/ StartPut(a) \/ StartBound(a) \/ StartPoint(a)
  \/ Enqueue(a) \/ EnqueueFailRead(a) \/ EnqueueFailPut(a) \/ EnqueueFailTell(a)
  \/ CancelReadState(a)
  \/ AskRead(a) \/ AskFlag(a) \/ AskPut(a)
  \/ ForceRead(a) \/ ForcePut(a) \/ ForceReadCurrent(a) \/ ForceDelCurrent(a)
  \/ ForceUnflag(a) \/ ForceTell(a)

\* The worker goes on with j; nothing goes wrong outside it.
RunStep(j) ==
  \/ RunStart(j) \/ RunExhausted(j)
  \/ RunConfigure(j) \/ RunList(j) \/ RunNextType(j) \/ RunCheckCancel(j)
  \/ RunIndex(j) \/ RunInsert(j) \/ RunFlushFails(j)
  \/ RunProgressRead(j) \/ RunProgressPut(j) \/ RunCommit(j)
  \/ RunEndRead(j) \/ RunEndPut(j) \/ RunCancelUnflag(j) \/ RunTell(j)
  \/ RunCancelExit(j) \/ RunReturn(j)

RunFault(j) == \/ RunEmbeddingFails(j) \/ RunRaises(j) \/ RunEscapes(j)
               \/ RunTimesOut(j) \/ RunCrashes(j)

Arrive(a) == StartReadCurrent(a) \/ CancelReadCurrent(a)

RequestFault(a) == EnqueueFails(a) \/ RequestLost(a)

Expire(j) == ExpireState(j) \/ ExpireFlag(j)

Next == \/ \E a \in Admins : Arrive(a) \/ RequestStep(a) \/ RequestFault(a)
        \/ \E j \in Jobs : RunStep(j) \/ RunFault(j) \/ Expire(j) \/ ExpireQueued(j)
        \/ \E e \in Entities : IndexOne(e) \/ RemoveOne(e)

Spec == Init /\ [][Next]_vars

\* A worker keeps polling and its calls return; Redis expires keys nobody
\* renews.  Nobody has to send a request, and no fault has to happen.
Fairness == /\ \A a \in Admins : WF_vars(RequestStep(a))
            /\ \A j \in Jobs : WF_vars(RunStep(j)) /\ WF_vars(Expire(j))

FairSpec == Spec /\ Fairness

-----------------------------------------------------------------------------
(* Properties.                                                              *)

RunPc == {"idle", "configure", "list", "next", "index", "flush", "progressRead",
          "progressPut", "commit", "endRead", "endPut", "cancelUnflag", "endTell",
          "cancelExit", "return"}

ReqPc == {"idle", "startReadState", "startPut", "startPoint", "enqueue",
          "failRead", "failPut", "failTell", "cancelReadState", "askRead",
          "askFlag", "askPut", "forceRead", "forcePut", "forceReadCurrent",
          "forceDelCurrent", "forceUnflag", "forceTell"}

MaybeProgress == Progress \cup {NoState}

Run == [pc : RunPc, type : 1 .. NTypes, todo : SUBSET Entities,
        entity : Entities \cup {NoEntity}, processed : Nat, errors : Nat,
        copy : MaybeProgress, inserted : SUBSET Entities, poisoned : BOOLEAN,
        ending : Endings \cup {"none"}]

Req == [pc : ReqPc, job : Jobs \cup {NoJob}, copy : MaybeProgress]

\* The values the Redis keys, the queue, the worker's locals and the requests
\* can have.
TypeOK == /\ state \in [Jobs -> MaybeProgress]
          /\ current \in Jobs \cup {NoJob}
          /\ cancel \in SUBSET Jobs
          /\ arq \in [Jobs -> {"new", "drawn", "queued", "running", "done", "dead"}]
          /\ tries \in [Jobs -> 0 .. MaxTries]
          /\ run \in [Jobs -> Run]
          /\ indexed \in SUBSET Entities
          /\ req \in [Admins -> Req]
          /\ told \in [Jobs -> SUBSET (Endings \cup {Lost})]
          /\ saved \in SUBSET Jobs
          /\ late \in [Jobs -> Nat]

\* "completed" is honest: the status and the event appear only after the
\* transaction that holds the job's rows has committed, whatever failed,
\* was retried or was cancelled before (worker.reindex_task).
CompletedIsDurable ==
  \A j \in Jobs :
    "completed" \in told[j] \/ state[j].status = "completed" => j \in saved

\* Graceful cancellation stops at the next entity boundary
\* (ReindexStateService.request_cancel): once the flag is set the worker
\* begins at most the one entity it had already checked for.
CancelBoundary == \A j \in Jobs : late[j] <= 1

\* A job that arq records as finished has told its subscribers how it ended,
\* unless Redis lost one of its terminal events: whatever failed, was cancelled
\* or was attempted again, no path through reindex_task ends without publishing.
NoSilentEnd ==
  \A j \in Jobs : arq[j] = "done" => told[j] \cap Endings # {} \/ Lost \in told[j]

\* The status of a job that has finished is never "running" again: no stale
\* copy of an administrator's request brings it back.
FinishedNotRunning ==
  \A j \in Jobs : arq[j] = "done" => state[j].status # "running"

\* The progress bar of GET /reindex/status never exceeds the total: an attempt
\* counts each entity once, done or in error (no entity is created meanwhile).
ProgressWithinTotal ==
  \A j \in Jobs : state[j].processed + state[j].errors <= Cardinality(Entities)

\* One transaction per job, one row per entity, and no "completed" before
\* the commit: the run implements the contract of ReindexContract.
Contract == INSTANCE ReindexContract
              WITH batch <- [j \in Jobs |-> run[j].inserted]
ContractSpec == Contract!Spec

\* Every job handed to arq comes to an end, though runs of two jobs can wait
\* for each other's rows and attempts can be lost and repeated.
EveryJobEnds == \A j \in Jobs : arq[j] = "queued" ~> arq[j] \in {"done", "dead"}

\* What the worker has indexed is kept: a row it wrote stays with its run or
\* is committed, so that re-running picks up where the job left off.
PartialWorkSurvives ==
  [][\A j \in Jobs : run[j].inserted \subseteq run'[j].inserted \cup indexed']_vars

\* A job abandoned by a crash, a timeout or a lost request does not block
\* POST /reindex forever: when requests cease, its state expires at the latest.
BlockedOnlyForATime ==
  <>[](\A a \in Admins : req[a].pc = "idle")
    => <>[](\A j \in Jobs : state[j].status \notin InProgress)
=============================================================================
