----------------------------- MODULE SearchIndex ----------------------------
(***************************************************************************)
(* The search index of single entities: the API requests that create,      *)
(* change and delete an entity, the arq jobs they enqueue, and the rows of *)
(* embedding_index the jobs write.                                         *)
(*                                                                         *)
(* The database runs at READ COMMITTED.  A request's row lock lasts until  *)
(* get_db commits, after the handler: the job is in the queue before the   *)
(* change it is about is visible.  Every statement and every commit is a   *)
(* step.  Text stands for what extract_searchable_text returns and also    *)
(* for its hash; an index row remembers the attempt that inserted it, its  *)
(* primary key.                                                            *)
(***************************************************************************)
EXTENDS Integers, FiniteSets

CONSTANTS Entities,    \* entity uuids
          Texts,       \* searchable texts
          Requests,    \* API requests that can be in flight together
          Jobs,        \* arq job ids; a request that finds none left waits
          MaxTries,    \* WorkerSettings.max_tries
          Trouble,     \* the kinds of trouble an instance has
          NoRow,       \* no row in the entity's table, or in the index
          NoEntity

Troubles == {"request",      \* a request fails or dies, an enqueue raises
             "raise",        \* an attempt raises or exceeds the job timeout
             "crash",        \* the worker dies and arq delivers the job again
             "unconfigured", \* no embeddings API key
             "switch"}       \* an administrator turns indexing off and on

Rows      == [enabled : BOOLEAN, text : Texts]
Key       == (Jobs \X (1 .. MaxTries)) \cup {<<>>}
IndexRows == [key : Key, text : Texts]

ASSUME ConstAssumption ==
  /\ NoRow \notin Rows \cup IndexRows \cup Texts
  /\ NoEntity \notin Entities
  /\ MaxTries \in Nat \ {0}
  /\ Trouble \subseteq Troubles

VARIABLES
  row,       \* row[e]: the committed row of e in its table
  index,     \* index[e]: its committed row in embedding_index
  indexing,  \* the committed system_config llm/indexing_config
  req,       \* req[r]: the locals of request r
  job,       \* job[j]: where job j is, and its locals
  \* --- history ---
  ever,      \* ever[e]: the texts e has had in committed rows
  settled    \* entities whose last disturbance was followed by a lone job

api    == <<row, indexing, req, ever>>
vars   == <<api, index, job, settled>>

-----------------------------------------------------------------------------
IdleReq == [pc |-> "idle", kind |-> "none", e |-> NoEntity, seen |-> NoRow,
            want |-> NoRow, todo |-> {}]
NewJob  == [pc |-> "new", kind |-> "none", e |-> NoEntity, tries |-> 0,
            text |-> NoRow, had |-> NoRow, write |-> "none", alone |-> FALSE]

\* An attempt at j has begun and its task has not returned.
Live(j) == job[j].pc \notin {"new", "queued", "ack", "done"}

\* The index is right about e: the text of an enabled entity, and no other row.
Right(e) == IF row[e] # NoRow /\ row[e].enabled
            THEN index[e] # NoRow /\ index[e].text = row[e].text
            ELSE index[e] = NoRow

Init == /\ row \in [Entities -> Rows \cup {NoRow}]
        /\ ever = [e \in Entities |-> IF row[e] = NoRow THEN {} ELSE {row[e].text}]
        /\ index \in [Entities -> {i \in IndexRows : i.key = <<>>} \cup {NoRow}]
        /\ \A e \in Entities : index[e] # NoRow => Right(e)
        /\ indexing \in BOOLEAN
        /\ req = [r \in Requests |-> IdleReq]
        /\ job = [j \in Jobs |-> NewJob]
        /\ settled = {}

-----------------------------------------------------------------------------
(* Requests.                                                               *)

SendTo(r, pc) == req' = [req EXCEPT ![r].pc = pc]
Reply(r)      == req' = [req EXCEPT ![r] = IdleReq]

\* The row lock of e: an UPDATE or DELETE that has not been committed.
RowLocked(e) == \E r \in Requests : req[r].e = e /\ req[r].pc \in {"enqueue", "commit"}

\* An entity nobody has heard of: its uuid has not been drawn yet.
Fresh(e) == /\ ever[e] = {}
            /\ \A r \in Requests : req[r].e # e /\ e \notin req[r].todo
            /\ \A j \in Jobs : job[j].e # e

\* create_password and its siblings: the INSERT is flushed, nobody sees it yet.
Create(r) ==
  /\ req[r].pc = "idle"
  /\ \E e \in Entities, want \in Rows :
       /\ Fresh(e)
       /\ req' = [req EXCEPT ![r] = [IdleReq EXCEPT
                    !.pc = "enqueue", !.kind = "create", !.e = e, !.want = want]]
  /\ UNCHANGED <<row, indexing, ever, index, job, settled>>

\* update_* reads the row, 404 when there is none; `silent' is a writer that
\* enqueues nothing: apply_mutation and the documents' batch path update.
Read(r) ==
  /\ req[r].pc = "idle"
  /\ \E e \in Entities, kind \in {"update", "silent", "delete"}, want \in Rows :
       /\ row[e] # NoRow
       /\ kind = "delete" => want = row[e]
       /\ kind = "silent" => want.enabled = row[e].enabled
       /\ req' = [req EXCEPT ![r] = [IdleReq EXCEPT
                    !.pc = "flush", !.kind = kind, !.e = e,
                    !.seen = row[e], !.want = want]]
  /\ UNCHANGED <<row, indexing, ever, index, job, settled>>

\* The UPDATE or DELETE, once the row lock is free.  An UPDATE that matches no
\* row is a StaleDataError, a DELETE that matches none only a warning.
Flush(r) ==
  /\ req[r].pc = "flush"
  /\ ~RowLocked(req[r].e)
  /\ IF row[req[r].e] = NoRow /\ req[r].kind # "delete"
     THEN Reply(r)
     ELSE SendTo(r, IF req[r].kind = "silent" THEN "commit" ELSE "enqueue")
  /\ UNCHANGED <<row, indexing, ever, index, job, settled>>

\* enqueue_job of a fresh job id; kind names the task.
Put(kind, e) ==
  \E j \in Jobs :
    /\ job[j].pc = "new"
    /\ job' = [job EXCEPT ![j] = [NewJob EXCEPT !.pc = "queued", !.kind = kind, !.e = e]]

\* index_entity_for_search: nothing when indexing is off; an error is swallowed.
EnqueueIndex(e) ==
  \/ indexing /\ Put("index", e)
  \/ ~indexing /\ job' = job
  \/ "request" \in Trouble /\ job' = job

\* remove_entity_from_search does not look at the switch.
EnqueueRemove(e) ==
  \/ Put("remove", e)
  \/ "request" \in Trouble /\ job' = job

\* The last await of the handler; the transaction is still open.
Enqueue(r) ==
  /\ req[r].pc = "enqueue"
  /\ IF req[r].kind = "delete" THEN EnqueueRemove(req[r].e) ELSE EnqueueIndex(req[r].e)
  /\ SendTo(r, "commit")
  /\ UNCHANGED <<row, indexing, ever, index, settled>>

\* What the transaction of r makes of e's row: the ORM writes the columns it changed.
Written(r) ==
  LET now == row[req[r].e]  seen == req[r].seen  want == req[r].want IN
  CASE req[r].kind = "create" -> want
    [] req[r].kind = "delete" -> NoRow
    [] OTHER -> [enabled |-> IF want.enabled = seen.enabled THEN now.enabled ELSE want.enabled,
                 text    |-> IF want.text = seen.text THEN now.text ELSE want.text]

\* A committed change of the entities in es: jobs at work on them are disturbed.
Disturb(es) ==
  /\ settled' = settled \ es
  /\ job' = [j \in Jobs |-> IF job[j].e \in es THEN [job[j] EXCEPT !.alone = FALSE] ELSE job[j]]

\* get_db commits after the handler has returned.
Commit(r) ==
  /\ req[r].pc = "commit"
  /\ LET e == req[r].e IN
       /\ row' = [row EXCEPT ![e] = Written(r)]
       /\ ever' = [ever EXCEPT ![e] = IF Written(r) = NoRow THEN @ ELSE @ \cup {Written(r).text}]
       /\ Disturb({e})
  /\ Reply(r)
  /\ UNCHANGED <<indexing, index>>

\* batch_toggle_*: one UPDATE of the listed rows that exist and its commit, at
\* once, since no statement separates them.
Batch(r) ==
  /\ req[r].pc = "idle"
  /\ \E es \in SUBSET Entities, enabled \in BOOLEAN :
       /\ es # {}
       /\ \A e \in es : ~RowLocked(e) /\ ~Fresh(e)
       /\ row' = [e \in Entities |-> IF e \in es /\ row[e] # NoRow
                                     THEN [row[e] EXCEPT !.enabled = enabled] ELSE row[e]]
       /\ req' = [req EXCEPT ![r] = [IdleReq EXCEPT !.pc = "batch", !.todo = es]]
       /\ Disturb(es)
  /\ UNCHANGED <<indexing, ever, index>>

\* ... and then a job for each of them, in the order of the list.
BatchEnqueue(r) ==
  /\ req[r].pc = "batch"
  /\ \E e \in req[r].todo :
       /\ EnqueueIndex(e)
       /\ IF req[r].todo = {e} THEN Reply(r)
          ELSE req' = [req EXCEPT ![r].todo = @ \ {e}]
  /\ UNCHANGED <<row, indexing, ever, index, settled>>

\* Anything raises, or the API process dies: the transaction is rolled back.
RequestFails(r) ==
  /\ "request" \in Trouble
  /\ req[r].pc # "idle"
  /\ Reply(r)
  /\ UNCHANGED <<row, indexing, ever, index, job, settled>>

\* update_indexing_config.
Switch ==
  /\ "switch" \in Trouble
  /\ indexing' = ~indexing
  /\ UNCHANGED <<row, req, ever, index, job, settled>>

-----------------------------------------------------------------------------
(* Jobs.  At(j, pc) guards a step of job j; the others end it.  Leave drops   *)
(* the locals of the attempt: the task has returned or raised.             *)

At(j, pc)    == job[j].pc = pc
GoTo(j, pc)  == job' = [job EXCEPT ![j].pc = pc]
Leave(j, pc) == job' = [job EXCEPT ![j] = [NewJob EXCEPT
                  !.pc = pc, !.kind = job[j].kind, !.e = job[j].e, !.tries = job[j].tries]]
Return(j)    == Leave(j, "ack")
Finish(j)    == job' = [job EXCEPT ![j] = [NewJob EXCEPT !.pc = "done", !.e = job[j].e]]

\* A worker takes the job and the task asks is_indexing_enabled; it does not for
\* a removal.  From here on j and the other jobs on e disturb each other.
JobBegin(j) ==
  /\ At(j, "queued")
  /\ LET e == job[j].e
         others == {k \in Jobs \ {j} : job[k].e = e /\ Live(k)}
         pc == CASE job[j].kind = "remove" -> "delete"
                 [] job[j].kind = "index" /\ indexing -> "check"
                 [] OTHER -> "ack"
     IN job' = [k \in Jobs |->
          IF k = j THEN [job[j] EXCEPT !.pc = pc, !.tries = job[j].tries + 1,
                                       !.alone = (others = {} /\ pc # "ack")]
          ELSE IF k \in others THEN [job[k] EXCEPT !.alone = FALSE]
          ELSE job[k]]
  /\ UNCHANGED <<api, index, settled>>

\* Slip: a disabled entity is indexed like any other.
JobCheckMissing(j) ==
  /\ At(j, "check")
  /\ IF row[job[j].e] = NoRow
     THEN GoTo(j, "delete")
     ELSE \/ GoTo(j, "read")
          \/ "unconfigured" \in Trouble /\ Return(j)
  /\ UNCHANGED <<api, index, settled>>

\* index_entity_task: SELECT is_enabled; a disabled or missing entity leaves the
\* index.  Without an embeddings key an enabled one is left as it is.
JobCheck(j) ==
  /\ At(j, "check")
  /\ LET now == row[job[j].e] IN
     IF now = NoRow \/ ~now.enabled
     THEN GoTo(j, "delete")
     ELSE \/ GoTo(j, "read")
          \/ "unconfigured" \in Trouble /\ Return(j)
  /\ UNCHANGED <<api, index, settled>>

\* Slip: the text is taken in the session of the request that flushed it.
JobReadDirty(j) ==
  /\ At(j, "read")
  /\ \E now \in {row[job[j].e]} \cup {req[r].want : r \in {q \in Requests :
                    req[q].e = job[j].e /\ req[q].pc = "commit"}} :
       IF now = NoRow
       THEN Return(j)
       ELSE job' = [job EXCEPT ![j] = [@ EXCEPT !.pc = "existing", !.text = now.text]]
  /\ UNCHANGED <<api, index, settled>>

\* index_entity: the entity's text; is_enabled is not looked at again.
JobRead(j) ==
  /\ At(j, "read")
  /\ LET now == row[job[j].e] IN
     IF now = NoRow
     THEN Return(j)
     ELSE job' = [job EXCEPT ![j] = [@ EXCEPT !.pc = "existing", !.text = now.text]]
  /\ UNCHANGED <<api, index, settled>>

\* The index row there is; done when its hash is the text's.
JobExisting(j) ==
  /\ At(j, "existing")
  /\ LET now == index[job[j].e] IN
     IF now # NoRow /\ now.text = job[j].text
     THEN GoTo(j, "commit")
     ELSE job' = [job EXCEPT ![j] = [@ EXCEPT !.pc = "embed", !.had = now]]
  /\ UNCHANGED <<api, index, settled>>

\* generate_embedding answers: seconds during which anything may happen.
JobEmbed(j) ==
  /\ At(j, "embed")
  /\ GoTo(j, "flush")
  /\ UNCHANGED <<api, index, settled>>

\* Other jobs' uncommitted writes of these kinds to e's index row.
Pending(j, writes) ==
  \E k \in Jobs \ {j} : /\ job[k].e = job[j].e
                        /\ At(k, "commit")
                        /\ job[k].write \in writes

\* An UPDATE of the row read before, by its key, or an INSERT; either waits for
\* other transactions on the row or on its unique (entity_type, entity_id).
JobFlush(j) ==
  /\ At(j, "flush")
  /\ ~Pending(j, {"insert", "update", "delete"})
  /\ LET now == index[job[j].e]  had == job[j].had
         write == CASE had # NoRow /\ now # NoRow /\ now.key = had.key -> "update"
                    [] had = NoRow /\ now = NoRow -> "insert"
                    [] OTHER -> "none" \* StaleDataError, IntegrityError
     IN IF write = "none"
        THEN Finish(j)
        ELSE job' = [job EXCEPT ![j] = [@ EXCEPT !.pc = "commit", !.write = write, !.had = NoRow]]
  /\ UNCHANGED <<api, index, settled>>

\* delete_index: it sees, and waits for, committed rows only.
JobDelete(j) ==
  /\ At(j, "delete")
  /\ ~Pending(j, {"update", "delete"})
  /\ job' = [job EXCEPT ![j] = [@ EXCEPT
               !.pc = "commit",
               !.write = IF index[job[j].e] = NoRow THEN "none" ELSE "delete"]]
  /\ UNCHANGED <<api, index, settled>>

\* What the transaction of j makes of e's index row.
Indexed(j) ==
  LET now == index[job[j].e] IN
  CASE job[j].write = "none"   -> now
    [] job[j].write = "delete" -> NoRow
    [] job[j].write = "update" -> [now EXCEPT !.text = job[j].text]
    [] job[j].write = "insert" -> [key |-> <<j, job[j].tries>>, text |-> job[j].text]

\* get_db_context commits; e is settled when j had it for itself, and j was not
\* the removal of an entity that is there after all.
JobCommit(j) ==
  /\ At(j, "commit")
  /\ LET e == job[j].e IN
       /\ index' = [index EXCEPT ![e] = Indexed(j)]
       /\ settled' = IF job[j].alone /\ (job[j].kind = "index" \/ row[e] = NoRow)
                     THEN settled \cup {e} ELSE settled \ {e}
  /\ Return(j)
  /\ UNCHANGED api

\* arq records the result.
JobAck(j) ==
  /\ At(j, "ack")
  /\ Finish(j)
  /\ UNCHANGED <<api, index, settled>>

\* An exception or the job timeout: rolled back, and arq does not try again.
JobFails(j) ==
  /\ "raise" \in Trouble
  /\ Live(j)
  /\ Finish(j)
  /\ UNCHANGED <<api, index, settled>>

\* Slip: the attempt that crashed does not count.
JobCrashesAgain(j) ==
  /\ "crash" \in Trouble
  /\ Live(j) \/ At(j, "ack")
  /\ IF job[j].tries <= MaxTries THEN Leave(j, "queued") ELSE Finish(j)
  /\ UNCHANGED <<api, index, settled>>

\* The worker dies: rolled back, and delivered again while tries are left.
JobCrashes(j) ==
  /\ "crash" \in Trouble
  /\ Live(j) \/ At(j, "ack")
  /\ IF job[j].tries < MaxTries THEN Leave(j, "queued") ELSE Finish(j)
  /\ UNCHANGED <<api, index, settled>>

-----------------------------------------------------------------------------
RequestStep(r) == \/ Create(r) \/ Read(r) \/ Flush(r) \/ Enqueue(r) \/ Commit(r)
                  \/ Batch(r) \/ BatchEnqueue(r) \/ RequestFails(r)

JobStep(j) == \/ JobBegin(j) \/ JobCheck(j) \/ JobRead(j) \/ JobExisting(j)
              \/ JobEmbed(j) \/ JobFlush(j) \/ JobDelete(j) \/ JobCommit(j)
              \/ JobAck(j) \/ JobFails(j) \/ JobCrashes(j)

Next == \/ \E r \in Requests : RequestStep(r)
        \/ \E j \in Jobs : JobStep(j)
        \/ Switch

Spec == Init /\ [][Next]_vars

-----------------------------------------------------------------------------
(* Properties.                                                             *)

Req == [pc : {"idle", "flush", "enqueue", "commit", "batch"},
        kind : {"none", "create", "update", "silent", "delete"},
        e : Entities \cup {NoEntity}, seen : Rows \cup {NoRow},
        want : Rows \cup {NoRow}, todo : SUBSET Entities]

Job == [pc : {"new", "queued", "check", "read", "existing", "embed", "flush",
              "delete", "commit", "ack", "done"},
        kind : {"none", "index", "remove"},
        e : Entities \cup {NoEntity}, tries : 0 .. MaxTries,
        text : Texts \cup {NoRow}, had : IndexRows \cup {NoRow},
        write : {"none", "insert", "update", "delete"}, alone : BOOLEAN]

\* The values of the variables; an attempt is one of at most MaxTries.
TypeOK ==
  /\ row \in [Entities -> Rows \cup {NoRow}]
  /\ index \in [Entities -> IndexRows \cup {NoRow}]
  /\ indexing \in BOOLEAN
  /\ req \in [Requests -> Req]
  /\ job \in [Jobs -> Job]
  /\ ever \in [Entities -> SUBSET Texts]
  /\ settled \in SUBSET Entities

\* Search never shows text an entity did not have: a job takes its text from a
\* committed row, so nothing of a request that was rolled back, or of another
\* entity, is ever in the index (index_entity, get_db).
CommittedTextOnly == \A e \in Entities : index[e] # NoRow => index[e].text \in ever[e]

\* Whatever earlier races, failures and crashes have left behind, one job that
\* had the entity for itself puts its index row right, and it stays right until
\* the entity changes or jobs on it overlap (index_entity_task, index_entity).
LoneJobRepairs == \A e \in settled : Right(e)

\* The search method's promise: with indexing on, and no request and no job
\* under way, every entity with an index row is enabled (embeddings.py, search).
Quiet == /\ \A r \in Requests : req[r].pc = "idle"
         /\ \A j \in Jobs : job[j].pc \in {"new", "done"}
         /\ indexing
QuietOnlyEnabled ==
  Quiet => \A e \in Entities : index[e] # NoRow => row[e] # NoRow /\ row[e].enabled
=============================================================================
