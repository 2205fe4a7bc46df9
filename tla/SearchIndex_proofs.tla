------------------------- MODULE SearchIndex_proofs -------------------------
(***************************************************************************)
(* Proofs about SearchIndex, for every number of entities, requests, jobs  *)
(* and attempts.  Locks come first: they are what makes an UPDATE find its *)
(* row.  CommittedTextOnly follows the text from the entity's row through  *)
(* the job to the index; LoneJobRepairs says at each step of a lone job    *)
(* what it has established.                                                *)
(***************************************************************************)
EXTENDS SearchIndex, TLAPS

-----------------------------------------------------------------------------
(* The invariants.                                                         *)

Locking(r) == req[r].pc \in {"enqueue", "commit"}

\* A request under way knows its entity; an update has something to write.
RequestsFormed ==
  \A r \in Requests :
    /\ req[r].pc \in {"flush", "enqueue", "commit"} =>
         req[r].e \in Entities /\ req[r].kind # "none"
    /\ req[r].kind = "create" => req[r].want \in Rows
    /\ req[r].kind \in {"update", "silent"} => req[r].want \in Rows /\ req[r].seen \in Rows

\* One transaction at a time has the row lock, and an update's row stays there.
RowLocks ==
  /\ \A r \in Requests : Locking(r) /\ req[r].kind \in {"update", "silent"} =>
                           row[req[r].e] # NoRow
  /\ \A r, s \in Requests : r # s /\ Locking(r) /\ Locking(s) => req[r].e # req[s].e

\* A job under way knows its entity and its task, and has the text it writes.
JobsFormed ==
  \A j \in Jobs :
    /\ IF job[j].pc = "new" THEN job[j].text = NoRow ELSE job[j].e \in Entities
    /\ Live(j) => job[j].tries > 0
    /\ job[j].pc = "queued" => job[j].tries < MaxTries
    /\ job[j].pc \in {"existing", "embed", "flush"} => job[j].text \in Texts
    /\ job[j].write \in {"insert", "update"} => job[j].text \in Texts
    /\ job[j].write # "none" => job[j].pc = "commit"

\* One transaction at a time writes an index row, and finds what it flushed on.
IndexLocks ==
  /\ \A j \in Jobs :
       /\ job[j].write \in {"update", "delete"} => index[job[j].e] # NoRow
       /\ job[j].write = "insert" => index[job[j].e] = NoRow
  /\ \A j, k \in Jobs : j # k /\ job[j].e = job[k].e /\ job[j].write # "none" =>
                          job[k].write = "none"

RequestInv == /\ row \in [Entities -> Rows \cup {NoRow}]
              /\ indexing \in BOOLEAN
              /\ req \in [Requests -> Req]
              /\ ever \in [Entities -> SUBSET Texts]
              /\ RequestsFormed
              /\ RowLocks

JobInv == /\ index \in [Entities -> IndexRows \cup {NoRow}]
          /\ job \in [Jobs -> Job]
          /\ settled \in SUBSET Entities
          /\ JobsFormed
          /\ IndexLocks

\* Every text at hand is one the entity has had in a committed row.
Texting ==
  /\ \A e \in Entities : row[e] # NoRow => row[e].text \in ever[e]
  /\ \A j \in Jobs : job[j].text # NoRow => job[j].text \in ever[job[j].e]

Enabled(e) == row[e] # NoRow /\ row[e].enabled

\* What a job that has its entity for itself has established at each step.
Lone(j) ==
  LET e == job[j].e IN
  /\ Live(j)
  /\ \A k \in Jobs \ {j} : job[k].e = e => ~Live(k)
  /\ job[j].pc \in {"read", "existing", "embed", "flush"} => Enabled(e)
  /\ job[j].pc \in {"existing", "embed", "flush"} => job[j].text = row[e].text
  /\ job[j].kind = "index" /\ job[j].pc = "delete" => ~Enabled(e)
  /\ job[j].pc \in {"delete", "commit"} \/ job[j].kind = "index"
  /\ job[j].pc = "commit" =>
       CASE job[j].write = "none"   -> IF job[j].kind = "index" THEN Right(e) ELSE index[e] = NoRow
         [] job[j].write = "delete" -> job[j].kind = "index" => ~Enabled(e)
         [] OTHER -> job[j].kind = "index" /\ Enabled(e) /\ job[j].text = row[e].text

LoneJobs == \A j \in Jobs : job[j].alone => Lone(j)

USE DEF vars, api

-----------------------------------------------------------------------------
(* Types and locks.                                                        *)

LEMMA IdleTyped == IdleReq \in Req /\ NewJob \in Job
BY ConstAssumption DEF IdleReq, NewJob, Req, Job

\* The records the steps make of a job's locals.
LEMMA Quieted ==
  ASSUME NEW l \in Job, NEW b \in BOOLEAN
  PROVE  [l EXCEPT !.alone = b] \in Job
BY Zenon DEF Job

LEMMA Begun ==
  ASSUME NEW l \in Job, NEW b \in BOOLEAN, NEW n \in 1 .. MaxTries,
         NEW pc \in {"delete", "check", "ack"}
  PROVE  [l EXCEPT !.pc = pc, !.tries = n, !.alone = b] \in Job
<1>1. n \in 0 .. MaxTries
  BY ConstAssumption
<1>2. [l EXCEPT !.pc = pc, !.tries = n] \in Job
  BY <1>1 DEF Job
<1>3. [l EXCEPT !.pc = pc, !.tries = n, !.alone = b] =
        [[l EXCEPT !.pc = pc, !.tries = n] EXCEPT !.alone = b]
  OBVIOUS
<1> QED BY <1>2, <1>3, Quieted

LEMMA Left ==
  ASSUME NEW l \in Job, NEW pc \in {"queued", "ack"}
  PROVE  /\ [NewJob EXCEPT !.pc = pc, !.kind = l.kind, !.e = l.e, !.tries = l.tries] \in Job
         /\ [NewJob EXCEPT !.pc = "done", !.e = l.e] \in Job
<1>1. [NewJob EXCEPT !.pc = pc, !.kind = l.kind, !.e = l.e, !.tries = l.tries] \in Job
  BY IdleTyped DEF Job
<1>2. [NewJob EXCEPT !.pc = "done", !.e = l.e] \in Job
  BY IdleTyped DEF Job
<1> QED BY <1>1, <1>2

LEMMA Queued ==
  ASSUME NEW kind \in {"index", "remove"}, NEW e \in Entities
  PROVE  [NewJob EXCEPT !.pc = "queued", !.kind = kind, !.e = e] \in Job
BY IdleTyped DEF Job

LEMMA InitInv == Init => RequestInv /\ JobInv
<1> SUFFICES ASSUME Init PROVE RequestInv /\ JobInv
  OBVIOUS
<1>1. RequestInv
  <2>1. ever \in [Entities -> SUBSET Texts]
    BY DEF Init, Rows
  <2> QED BY <2>1, IdleTyped DEF Init, RequestInv, RequestsFormed, RowLocks, Locking, IdleReq
<1>2. JobInv
  BY IdleTyped DEF Init, JobInv, JobsFormed, IndexLocks, NewJob, Live
<1> QED BY <1>1, <1>2

\* A request's own steps keep its locals and the row locks in order.
LEMMA RequestKeepsRequests ==
  ASSUME RequestInv, NEW r \in Requests, RequestStep(r)
  PROVE  RequestInv'
<1> USE ConstAssumption, IdleTyped DEF RequestInv
<1>1. CASE Create(r)
  <2>1. PICK e \in Entities, want \in Rows :
          /\ Fresh(e)
          /\ req' = [req EXCEPT ![r] = [IdleReq EXCEPT
               !.pc = "enqueue", !.kind = "create", !.e = e, !.want = want]]
    BY <1>1 DEF Create
  <2>2. UNCHANGED <<row, indexing, ever>>
    BY <1>1 DEF Create
  <2>3. req' \in [Requests -> Req]
    BY <2>1 DEF Req, IdleReq
  <2>4. RequestsFormed'
    BY <2>1 DEF RequestsFormed, IdleReq
  <2>5. RowLocks'
    BY <2>1, <2>2 DEF RowLocks, Locking, Fresh, IdleReq
  <2> QED BY <2>2, <2>3, <2>4, <2>5
<1>2. CASE Read(r)
  <2>1. PICK e \in Entities, kind \in {"update", "silent", "delete"}, want \in Rows :
          /\ row[e] # NoRow
          /\ req' = [req EXCEPT ![r] = [IdleReq EXCEPT
               !.pc = "flush", !.kind = kind, !.e = e, !.seen = row[e], !.want = want]]
    BY <1>2 DEF Read
  <2>2. UNCHANGED <<row, indexing, ever>>
    BY <1>2 DEF Read
  <2>3. row[e] \in Rows
    BY <2>1
  <2>4. req' \in [Requests -> Req]
    BY <2>1, <2>3 DEF Req, IdleReq
  <2>5. RequestsFormed'
    BY <2>1, <2>3 DEF RequestsFormed, IdleReq
  <2>6. RowLocks'
    BY <2>1, <2>2 DEF RowLocks, Locking, IdleReq
  <2> QED BY <2>2, <2>4, <2>5, <2>6
<1>3. CASE Reply(r) /\ UNCHANGED <<row, indexing, ever>>
  <2>1. req' \in [Requests -> Req] /\ RequestsFormed'
    BY <1>3 DEF Reply, RequestsFormed, IdleReq
  <2>2. RowLocks'
    BY <1>3 DEF Reply, RowLocks, Locking, IdleReq
  <2> QED BY <1>3, <2>1, <2>2
<1>4. CASE Flush(r)
  <2>1. CASE Reply(r)
    BY <1>4, <2>1, <1>3 DEF Flush
  <2>2. CASE \E pc \in {"enqueue", "commit"} :
              SendTo(r, pc) /\ (row[req[r].e] # NoRow \/ req[r].kind = "delete")
    <3>1. PICK pc \in {"enqueue", "commit"} : SendTo(r, pc)
      BY <2>2
    <3>2. UNCHANGED <<row, indexing, ever>> /\ ~RowLocked(req[r].e) /\ req[r].pc = "flush"
      BY <1>4 DEF Flush
    <3>3. req' \in [Requests -> Req]
      BY <3>1 DEF SendTo, Req
    <3>4. RequestsFormed'
      BY <3>1, <3>2 DEF SendTo, RequestsFormed, Req
    <3>5. RowLocks'
      BY <2>2, <3>1, <3>2 DEF SendTo, RowLocks, RowLocked, Locking, Req
    <3> QED BY <3>2, <3>3, <3>4, <3>5
  <2> QED BY <1>4, <2>1, <2>2 DEF Flush
<1>5. CASE Enqueue(r)
  <2>1. req[r].pc = "enqueue" /\ SendTo(r, "commit") /\ UNCHANGED <<row, indexing, ever>>
    BY <1>5 DEF Enqueue
  <2>2. req' \in [Requests -> Req] /\ RequestsFormed'
    BY <2>1 DEF SendTo, Req, RequestsFormed
  <2>3. RowLocks'
    BY <2>1 DEF SendTo, RowLocks, Locking, Req
  <2> QED BY <2>1, <2>2, <2>3
<1>6. CASE Commit(r)
  <2> DEFINE e == req[r].e
  <2>1. /\ req[r].pc = "commit"
        /\ row' = [row EXCEPT ![e] = Written(r)]
        /\ ever' = [ever EXCEPT ![e] = IF Written(r) = NoRow THEN @ ELSE @ \cup {Written(r).text}]
        /\ req' = [req EXCEPT ![r] = IdleReq]
        /\ indexing' = indexing
    BY <1>6 DEF Commit, Reply
  <2>2. e \in Entities /\ req[r].kind # "none"
    BY <2>1 DEF RequestsFormed
  <2>3. Written(r) \in Rows \cup {NoRow}
    <3>1. CASE req[r].kind \in {"update", "silent"}
      <4>1. row[e] \in Rows /\ req[r].want \in Rows
        BY <2>1, <2>2, <3>1 DEF RowLocks, Locking, RequestsFormed
      <4> QED BY <3>1, <4>1 DEF Written, Rows
    <3>2. CASE req[r].kind = "create"
      BY <3>2 DEF Written, RequestsFormed
    <3>3. CASE req[r].kind = "delete"
      BY <3>3 DEF Written
    <3> QED BY <2>2, <3>1, <3>2, <3>3 DEF Req
  <2>4. row' \in [Entities -> Rows \cup {NoRow}]
    BY <2>1, <2>3
  <2>5. ever' \in [Entities -> SUBSET Texts]
    <3>1. Written(r) # NoRow => Written(r).text \in Texts
      BY <2>3 DEF Rows
    <3> HIDE DEF e
    <3> QED BY <2>1, <2>2, <3>1
  <2>6. req' \in [Requests -> Req] /\ RequestsFormed'
    BY <2>1 DEF RequestsFormed, IdleReq
  <2>7. RowLocks'
    <3>1. ASSUME NEW s \in Requests, s # r, Locking(s)
          PROVE  req'[s] = req[s] /\ row'[req[s].e] = row[req[s].e]
      BY <2>1, <3>1 DEF RowLocks, Locking
    <3>2. req'[r].pc = "idle"
      BY <2>1 DEF IdleReq
    <3>3. \A s \in Requests : s # r => req'[s] = req[s]
      BY <2>1
    <3> QED BY <3>1, <3>2, <3>3 DEF RowLocks, Locking
  <2> QED BY <2>1, <2>4, <2>5, <2>6, <2>7
<1>7. CASE Batch(r)
  <2>1. PICK es \in SUBSET Entities, enabled \in BOOLEAN :
          /\ row' = [e \in Entities |-> IF e \in es /\ row[e] # NoRow
                                        THEN [row[e] EXCEPT !.enabled = enabled] ELSE row[e]]
          /\ req' = [req EXCEPT ![r] = [IdleReq EXCEPT !.pc = "batch", !.todo = es]]
    BY <1>7 DEF Batch
  <2>2. UNCHANGED <<indexing, ever>>
    BY <1>7 DEF Batch
  <2>3. \A e \in Entities : row[e] # NoRow => [row[e] EXCEPT !.enabled = enabled] \in Rows
    BY DEF Rows
  <2>4. /\ row' \in [Entities -> Rows \cup {NoRow}]
        /\ \A e \in Entities : row[e] # NoRow => row'[e] # NoRow
    BY <2>1, <2>3
  <2>5. req' \in [Requests -> Req]
    BY <2>1 DEF Req, IdleReq
  <2>6. RequestsFormed'
    BY <2>1 DEF RequestsFormed, IdleReq
  <2>7. RowLocks'
    BY <2>1, <2>4 DEF RowLocks, Locking, IdleReq, RequestsFormed
  <2> QED BY <2>2, <2>4, <2>5, <2>6, <2>7
<1>8. CASE BatchEnqueue(r)
  <2>1. CASE Reply(r)
    BY <1>8, <2>1, <1>3 DEF BatchEnqueue
  <2>2. CASE \E e \in req[r].todo : req' = [req EXCEPT ![r].todo = @ \ {e}]
    <3>1. UNCHANGED <<row, indexing, ever>>
      BY <1>8 DEF BatchEnqueue
    <3>2. req' \in [Requests -> Req]
      BY <2>2 DEF Req
    <3>3. RequestsFormed' /\ RowLocks'
      BY <2>2, <3>1 DEF RequestsFormed, RowLocks, Locking, Req
    <3> QED BY <3>1, <3>2, <3>3
  <2> QED BY <1>8, <2>1, <2>2 DEF BatchEnqueue
<1>9. CASE RequestFails(r)
  BY <1>9, <1>3 DEF RequestFails
<1> QED BY <1>1, <1>2, <1>4, <1>5, <1>6, <1>7, <1>8, <1>9 DEF RequestStep

\* What a step of a request does to the jobs: nothing, one more in the queue, or
\* the note that they are disturbed.
LEMMA RequestTouchesJobs ==
  ASSUME RequestInv, NEW r \in Requests, RequestStep(r)
  PROVE  /\ index' = index
         /\ \/ UNCHANGED <<row, ever, settled>>
               /\ (job' = job \/ \E kind \in {"index", "remove"}, e \in Entities : Put(kind, e))
            \/ \E es \in SUBSET Entities :
                 Disturb(es) /\ \A e \in Entities \ es : row'[e] = row[e]
<1>1. CASE Create(r) \/ Read(r) \/ Flush(r) \/ RequestFails(r)
  BY <1>1 DEF Create, Read, Flush, RequestFails
<1>2. CASE Enqueue(r)
  BY <1>2 DEF Enqueue, EnqueueIndex, EnqueueRemove, RequestInv, RequestsFormed
<1>3. CASE BatchEnqueue(r)
  <2>1. req[r].todo \subseteq Entities
    BY DEF RequestInv, Req
  <2> QED BY <1>3, <2>1 DEF BatchEnqueue, EnqueueIndex
<1>4. CASE Commit(r)
  <2>1. req[r].e \in Entities
    BY <1>4 DEF Commit, RequestInv, RequestsFormed
  <2>2. Disturb({req[r].e}) /\ row' = [row EXCEPT ![req[r].e] = Written(r)] /\ index' = index
    BY <1>4 DEF Commit
  <2>3. \A e \in Entities \ {req[r].e} : row'[e] = row[e]
    BY <2>2 DEF RequestInv
  <2> QED BY <2>1, <2>2, <2>3
<1>5. CASE Batch(r)
  <2>1. PICK es \in SUBSET Entities, enabled \in BOOLEAN :
          /\ row' = [e \in Entities |-> IF e \in es /\ row[e] # NoRow
                                        THEN [row[e] EXCEPT !.enabled = enabled] ELSE row[e]]
          /\ Disturb(es)
    BY <1>5 DEF Batch
  <2> QED BY <1>5, <2>1 DEF Batch
<1> QED BY <1>1, <1>2, <1>3, <1>4, <1>5 DEF RequestStep

LEMMA DisturbKeepsJobs ==
  ASSUME JobInv, NEW es \in SUBSET Entities, Disturb(es), index' = index
  PROVE  JobInv'
<1>1. \A j \in Jobs : job'[j] \in {job[j], [job[j] EXCEPT !.alone = FALSE]}
  BY DEF Disturb
<1>2. job' \in [Jobs -> Job]
  <2>1. \A j \in Jobs : job'[j] \in Job
    BY <1>1, Quieted DEF JobInv
  <2> QED BY <2>1 DEF Disturb
<1>3. \A j \in Jobs : /\ job'[j].pc = job[j].pc /\ job'[j].e = job[j].e
                     /\ job'[j].tries = job[j].tries /\ job'[j].text = job[j].text
                     /\ job'[j].write = job[j].write
  BY <1>1 DEF JobInv, Job
<1> QED BY <1>2, <1>3 DEF JobInv, JobsFormed, IndexLocks, Live, Disturb

LEMMA PutKeepsJobs ==
  ASSUME JobInv, NEW kind \in {"index", "remove"}, NEW e \in Entities, Put(kind, e),
         UNCHANGED <<index, settled>>
  PROVE  JobInv'
<1>1. PICK j \in Jobs :
        /\ job[j].pc = "new"
        /\ job' = [job EXCEPT ![j] = [NewJob EXCEPT !.pc = "queued", !.kind = kind, !.e = e]]
  BY DEF Put
<1>2. job' \in [Jobs -> Job]
  BY <1>1, Queued DEF JobInv
<1>3. JobsFormed'
  BY <1>1, ConstAssumption DEF JobInv, JobsFormed, NewJob, Live
<1>4. IndexLocks'
  BY <1>1 DEF JobInv, IndexLocks, NewJob
<1> QED BY <1>2, <1>3, <1>4 DEF JobInv

\* A job that leaves gives up what it had not committed.
LEMMA LeavingKeepsJobs ==
  ASSUME JobInv, NEW j \in Jobs, job[j].pc # "new", UNCHANGED <<index, settled>>,
         NEW left \in Job,
         left.pc \in {"queued", "ack", "done"}, left.pc = "queued" => left.tries < MaxTries,
         left.e = job[j].e, left.write = "none", left.text = NoRow,
         job' = [job EXCEPT ![j] = left]
  PROVE  JobInv'
<1>1. job' \in [Jobs -> Job]
  BY DEF JobInv
<1>2. JobsFormed'
  BY DEF JobInv, JobsFormed, Live
<1>3. IndexLocks'
  BY DEF JobInv, IndexLocks
<1> QED BY <1>1, <1>2, <1>3 DEF JobInv

LEMMA LeaveKeepsJobs ==
  ASSUME JobInv, NEW j \in Jobs, job[j].pc # "new", UNCHANGED <<index, settled>>,
         Return(j) \/ Finish(j) \/ (Leave(j, "queued") /\ job[j].tries < MaxTries)
  PROVE  JobInv'
<1> DEFINE left(pc) == [NewJob EXCEPT !.pc = pc, !.kind = job[j].kind,
                                      !.e = job[j].e, !.tries = job[j].tries]
           over == [NewJob EXCEPT !.pc = "done", !.e = job[j].e]
<1>1. /\ \A pc \in {"queued", "ack"} : left(pc) \in Job
      /\ over \in Job
  BY Left DEF JobInv
<1>5. /\ \A pc \in {"queued", "ack"} :
           /\ left(pc).pc = pc /\ left(pc).e = job[j].e /\ left(pc).tries = job[j].tries
           /\ left(pc).write = "none" /\ left(pc).text = NoRow
      /\ over.pc = "done" /\ over.e = job[j].e /\ over.write = "none" /\ over.text = NoRow
  BY DEF NewJob
<1>2. CASE Return(j)
  <2>1. job' = [job EXCEPT ![j] = left("ack")]
    BY <1>2 DEF Return, Leave
  <2> HIDE DEF left
  <2> QED BY <1>1, <1>5, <2>1, LeavingKeepsJobs
<1>3. CASE Finish(j)
  <2>1. job' = [job EXCEPT ![j] = over]
    BY <1>3 DEF Finish
  <2> HIDE DEF over
  <2> QED BY <1>1, <1>5, <2>1, LeavingKeepsJobs
<1>4. CASE Leave(j, "queued") /\ job[j].tries < MaxTries
  <2>1. job' = [job EXCEPT ![j] = left("queued")]
    BY <1>4 DEF Leave
  <2> HIDE DEF left
  <2> QED BY <1>1, <1>4, <1>5, <2>1, LeavingKeepsJobs
<1> QED BY <1>2, <1>3, <1>4

\* Steps that only move the program counter, before anything is written.
LEMMA MovingKeepsJobs ==
  ASSUME JobInv, NEW j \in Jobs, Live(j), UNCHANGED <<index, settled>>,
         job[j].write = "none",
         NEW pc \in {"read", "delete", "flush", "commit"}, GoTo(j, pc),
         pc = "flush" => job[j].text \in Texts
  PROVE  JobInv'
<1>1. job' \in [Jobs -> Job]
  BY DEF JobInv, GoTo, Job
<1>2. JobsFormed'
  BY DEF JobInv, JobsFormed, GoTo, Live, Job
<1>3. IndexLocks'
  BY DEF JobInv, IndexLocks, GoTo, Job
<1> QED BY <1>1, <1>2, <1>3 DEF JobInv

LEMMA JobKeepsJobs ==
  ASSUME RequestInv, JobInv, NEW j \in Jobs, JobStep(j)
  PROVE  JobInv'
<1> USE ConstAssumption
<1> DEFINE e == job[j].e
<1>0. job[j] \in Job
  BY DEF JobInv
<1>1. CASE JobBegin(j)
  <2> DEFINE others == {k \in Jobs \ {j} : job[k].e = e /\ Live(k)}
  <2>1. PICK pc \in {"delete", "check", "ack"} :
          job' = [k \in Jobs |->
            IF k = j THEN [job[j] EXCEPT !.pc = pc, !.tries = job[j].tries + 1,
                                         !.alone = (others = {} /\ pc # "ack")]
            ELSE IF k \in others THEN [job[k] EXCEPT !.alone = FALSE]
            ELSE job[k]]
    BY <1>1 DEF JobBegin
  <2>2. job[j].pc = "queued" /\ UNCHANGED <<index, settled>>
    BY <1>1 DEF JobBegin, At
  <2>3. job[j].tries + 1 \in 1 .. MaxTries
    BY <1>0, <2>2 DEF JobInv, JobsFormed, Job
  <2>4. /\ job'[j] = [job[j] EXCEPT !.pc = pc, !.tries = job[j].tries + 1,
                                    !.alone = (others = {} /\ pc # "ack")]
        /\ \A k \in Jobs \ {j} : job'[k] \in {job[k], [job[k] EXCEPT !.alone = FALSE]}
    BY <2>1
  <2>5. \A k \in Jobs : job'[k] \in Job
    <3>1. job'[j] \in Job
      <4> DEFINE b == others = {} /\ pc # "ack"
      <4>1. b \in BOOLEAN
        OBVIOUS
      <4>2. job'[j] = [job[j] EXCEPT !.pc = pc, !.tries = job[j].tries + 1, !.alone = b]
        BY <2>4
      <4> HIDE DEF b
      <4>3. [job[j] EXCEPT !.pc = pc, !.tries = job[j].tries + 1, !.alone = b] \in Job
        BY <1>0, <2>3, <4>1, Begun
      <4> QED BY <4>2, <4>3
    <3>2. ASSUME NEW k \in Jobs \ {j}
          PROVE  job'[k] \in Job
      <4>1. job[k] \in Job /\ [job[k] EXCEPT !.alone = FALSE] \in Job
        BY Quieted DEF JobInv
      <4> QED BY <2>4, <4>1
    <3> QED BY <3>1, <3>2
  <2>6. job' \in [Jobs -> Job]
    BY <2>1, <2>5
  <2>7. /\ job'[j].pc = pc /\ job'[j].tries = job[j].tries + 1 /\ job'[j].e = e
        /\ job'[j].text = job[j].text /\ job'[j].write = job[j].write
    BY <1>0, <2>4 DEF Job
  <2>8. \A k \in Jobs \ {j} :
          /\ job'[k].pc = job[k].pc /\ job'[k].tries = job[k].tries /\ job'[k].e = job[k].e
          /\ job'[k].text = job[k].text /\ job'[k].write = job[k].write
    BY <2>4 DEF JobInv, Job
  <2>9. job[j].write = "none"
    BY <2>2 DEF JobInv, JobsFormed
  <2> HIDE DEF others
  <2>10. JobsFormed'
    BY <2>2, <2>3, <2>7, <2>8, <2>9 DEF JobInv, JobsFormed, Live
  <2>11. IndexLocks'
    BY <2>2, <2>7, <2>8, <2>9 DEF JobInv, IndexLocks
  <2> QED BY <2>2, <2>6, <2>10, <2>11 DEF JobInv
<1>2. CASE JobCheck(j)
  <2>1. Live(j) /\ job[j].write = "none" /\ UNCHANGED <<index, settled>>
    BY <1>2 DEF JobCheck, At, Live, JobInv, JobsFormed
  <2>2. Return(j) \/ GoTo(j, "delete") \/ GoTo(j, "read")
    BY <1>2 DEF JobCheck
  <2> QED BY <2>1, <2>2, MovingKeepsJobs, LeaveKeepsJobs DEF Live
<1>3. CASE JobRead(j)
  <2>1. Live(j) /\ job[j].pc = "read" /\ job[j].write = "none" /\ UNCHANGED <<index, settled>>
    BY <1>3 DEF JobRead, At, Live, JobInv, JobsFormed
  <2>2. CASE Return(j)
    BY <2>1, <2>2, LeaveKeepsJobs
  <2>3. CASE /\ row[e] # NoRow
             /\ job' = [job EXCEPT ![j] = [@ EXCEPT !.pc = "existing", !.text = row[e].text]]
    <3>1. row[e].text \in Texts
      BY <2>1, <2>3 DEF JobInv, JobsFormed, RequestInv, Rows
    <3>2. job' \in [Jobs -> Job]
      BY <1>0, <2>3, <3>1 DEF JobInv, Job
    <3>3. JobsFormed'
      BY <1>0, <2>1, <2>3, <3>1 DEF JobInv, JobsFormed, Live, Job
    <3>4. IndexLocks'
      BY <1>0, <2>1, <2>3 DEF JobInv, IndexLocks, Job
    <3> QED BY <2>1, <3>2, <3>3, <3>4 DEF JobInv
  <2> QED BY <1>3, <2>2, <2>3 DEF JobRead
<1>4. CASE JobExisting(j)
  <2>1. /\ Live(j) /\ job[j].pc = "existing" /\ job[j].write = "none"
        /\ job[j].text \in Texts /\ e \in Entities /\ UNCHANGED <<index, settled>>
    BY <1>4 DEF JobExisting, At, Live, JobInv, JobsFormed
  <2>2. CASE GoTo(j, "commit")
    BY <2>1, <2>2, MovingKeepsJobs
  <2>3. CASE job' = [job EXCEPT ![j] = [@ EXCEPT !.pc = "embed", !.had = index[e]]]
    <3>1. index[e] \in IndexRows \cup {NoRow}
      BY <2>1 DEF JobInv
    <3>2. job' \in [Jobs -> Job]
      BY <1>0, <2>3, <3>1 DEF JobInv, Job
    <3>3. JobsFormed'
      BY <1>0, <2>1, <2>3 DEF JobInv, JobsFormed, Live, Job
    <3>4. IndexLocks'
      BY <1>0, <2>1, <2>3 DEF JobInv, IndexLocks, Job
    <3> QED BY <2>1, <3>2, <3>3, <3>4 DEF JobInv
  <2> QED BY <1>4, <2>2, <2>3 DEF JobExisting
<1>5. CASE JobEmbed(j)
  <2>1. /\ Live(j) /\ job[j].write = "none" /\ job[j].text \in Texts
        /\ GoTo(j, "flush") /\ UNCHANGED <<index, settled>>
    BY <1>5 DEF JobEmbed, At, Live, JobInv, JobsFormed
  <2> QED BY <2>1, MovingKeepsJobs
<1>6. CASE JobFlush(j)
  <2>1. /\ Live(j) /\ job[j].pc = "flush" /\ job[j].write = "none" /\ e \in Entities
        /\ job[j].text \in Texts /\ UNCHANGED <<index, settled>>
    BY <1>6 DEF JobFlush, At, Live, JobInv, JobsFormed
  <2>2. CASE Finish(j)
    BY <2>1, <2>2, LeaveKeepsJobs DEF Live
  <2>3. CASE \E write \in {"update", "insert"} :
               /\ (index[e] = NoRow) = (write = "insert")
               /\ job' = [job EXCEPT ![j] =
                    [@ EXCEPT !.pc = "commit", !.write = write, !.had = NoRow]]
    <3>1. PICK write \in {"update", "insert"} :
               /\ (index[e] = NoRow) = (write = "insert")
               /\ job' = [job EXCEPT ![j] =
                    [@ EXCEPT !.pc = "commit", !.write = write, !.had = NoRow]]
      BY <2>3
    <3>2. job' \in [Jobs -> Job]
      BY <1>0, <3>1 DEF JobInv, Job
    <3>3. JobsFormed'
      BY <1>0, <2>1, <3>1 DEF JobInv, JobsFormed, Live, Job
    <3>4. \A k \in Jobs \ {j} : job[k].e = e => job[k].write = "none"
      BY <1>6 DEF JobFlush, Pending, At, JobInv, JobsFormed, Job
    <3>5. IndexLocks'
      BY <1>0, <2>1, <3>1, <3>4 DEF JobInv, IndexLocks, Job
    <3> QED BY <2>1, <3>2, <3>3, <3>5 DEF JobInv
  <2> QED BY <1>6, <2>2, <2>3 DEF JobFlush
<1>7. CASE JobDelete(j)
  <2> DEFINE write == IF index[e] = NoRow THEN "none" ELSE "delete"
  <2>1. /\ Live(j) /\ job[j].pc = "delete" /\ job[j].write = "none" /\ e \in Entities
        /\ UNCHANGED <<index, settled>>
        /\ job' = [job EXCEPT ![j] = [@ EXCEPT !.pc = "commit", !.write = write]]
    BY <1>7 DEF JobDelete, At, Live, JobInv, JobsFormed
  <2>2. job' \in [Jobs -> Job]
    BY <1>0, <2>1 DEF JobInv, Job
  <2>3. JobsFormed'
    BY <1>0, <2>1 DEF JobInv, JobsFormed, Live, Job
  <2>4. index[e] # NoRow => \A k \in Jobs \ {j} : job[k].e = e => job[k].write = "none"
    BY <1>7 DEF JobDelete, Pending, At, JobInv, JobsFormed, IndexLocks, Job
  <2>5. IndexLocks'
    BY <1>0, <2>1, <2>4 DEF JobInv, IndexLocks, Job
  <2> QED BY <2>1, <2>2, <2>3, <2>5 DEF JobInv
<1>8. CASE JobCommit(j)
  <2>1. /\ job[j].pc = "commit" /\ Live(j) /\ e \in Entities /\ job[j].tries \in 1 .. MaxTries
        /\ index' = [index EXCEPT ![e] = Indexed(j)]
        /\ settled' \in {settled \cup {e}, settled \ {e}}
        /\ Return(j)
    BY <1>0, <1>8 DEF JobCommit, At, Live, JobInv, JobsFormed, Job
  <2>2. Indexed(j) \in IndexRows \cup {NoRow}
    <3>1. index[e] \in IndexRows \cup {NoRow}
      BY <2>1 DEF JobInv
    <3>2. CASE job[j].write = "update"
      <4>1. index[e] \in IndexRows /\ job[j].text \in Texts
        BY <3>1, <3>2 DEF JobInv, IndexLocks, JobsFormed
      <4> QED BY <3>2, <4>1 DEF Indexed, IndexRows
    <3>3. CASE job[j].write = "insert"
      <4>1. job[j].text \in Texts /\ <<j, job[j].tries>> \in Key
        BY <2>1, <3>3 DEF JobInv, JobsFormed, Key
      <4> QED BY <3>3, <4>1 DEF Indexed, IndexRows
    <3> QED BY <1>0, <3>1, <3>2, <3>3 DEF Indexed, Job
  <2>3. index' \in [Entities -> IndexRows \cup {NoRow}]
    BY <2>1, <2>2 DEF JobInv
  <2> DEFINE left == [NewJob EXCEPT !.pc = "ack", !.kind = job[j].kind,
                                    !.e = job[j].e, !.tries = job[j].tries]
  <2>4. job' = [job EXCEPT ![j] = left]
    BY <2>1 DEF Return, Leave
  <2>5. left \in Job /\ left.e = e /\ left.write = "none" /\ left.pc = "ack"
    BY <1>0, IdleTyped DEF NewJob, Job
  <2> HIDE DEF left
  <2>6. job' \in [Jobs -> Job]
    BY <2>4, <2>5 DEF JobInv
  <2>7. JobsFormed'
    BY <2>1, <2>4, <2>5 DEF JobInv, JobsFormed, Live
  <2>8. IndexLocks'
    <3>1. ASSUME NEW k \in Jobs, k # j, job[k].write # "none", Indexed(j) # index[e]
          PROVE  job[k].e # e
      BY <1>0, <3>1 DEF JobInv, IndexLocks, Indexed, Job
    <3>2. \A k \in Jobs \ {j} : job'[k] = job[k]
      BY <2>4
    <3>3. job'[j].write = "none"
      BY <2>4, <2>5 DEF JobInv
    <3>4. ASSUME NEW k \in Jobs, k # j, job[k].write # "none"
          PROVE  index'[job[k].e] = index[job[k].e]
      <4>1. job[k].e \in Entities
        BY <3>4 DEF JobInv, JobsFormed
      <4> QED BY <2>1, <3>1, <3>4, <4>1 DEF JobInv
    <3>5. \A k \in Jobs : job'[k].write # "none" =>
            k # j /\ job'[k] = job[k] /\ index'[job[k].e] = index[job[k].e]
      BY <3>2, <3>3, <3>4
    <3>6. \A k \in Jobs : job'[k].e = job[k].e
      BY <2>4, <2>5, <3>2 DEF JobInv
    <3> QED BY <3>5, <3>6 DEF JobInv, IndexLocks
  <2>9. settled' \in SUBSET Entities
    BY <2>1 DEF JobInv
  <2> QED BY <2>3, <2>6, <2>7, <2>8, <2>9 DEF JobInv
<1>9. CASE JobAck(j) \/ JobFails(j)
  BY <1>9, LeaveKeepsJobs DEF JobAck, JobFails, At, Live
<1>10. CASE JobCrashes(j)
  BY <1>10, LeaveKeepsJobs DEF JobCrashes, At, Live
<1> QED BY <1>1, <1>2, <1>3, <1>4, <1>5, <1>6, <1>7, <1>8, <1>9, <1>10 DEF JobStep

\* No step of any actor breaks the types or the locks ...
LEMMA NextKeepsBase ==
  ASSUME RequestInv, JobInv, [Next]_vars
  PROVE  RequestInv' /\ JobInv'
<1>1. CASE \E r \in Requests : RequestStep(r)
  <2>1. PICK r \in Requests : RequestStep(r)
    BY <1>1
  <2>2. RequestInv'
    BY <2>1, RequestKeepsRequests
  <2>3. CASE UNCHANGED <<index, job, settled>>
    BY <2>2, <2>3 DEF JobInv, JobsFormed, IndexLocks, Live
  <2>4. CASE \E es \in SUBSET Entities : Disturb(es) /\ index' = index
    BY <2>2, <2>4, DisturbKeepsJobs
  <2>5. CASE /\ \E kind \in {"index", "remove"}, e \in Entities : Put(kind, e)
             /\ UNCHANGED <<index, settled>>
    BY <2>2, <2>5, PutKeepsJobs
  <2> QED BY <2>1, <2>2, <2>3, <2>4, <2>5, RequestTouchesJobs
<1>2. CASE \E j \in Jobs : JobStep(j)
  <2>1. UNCHANGED api
    BY <1>2 DEF JobStep, JobBegin, JobCheck, JobRead, JobExisting, JobEmbed, JobFlush,
                JobDelete, JobCommit, JobAck, JobFails, JobCrashes
  <2>2. RequestInv'
    BY <2>1 DEF RequestInv, RequestsFormed, RowLocks, Locking
  <2> QED BY <1>2, <2>2, JobKeepsJobs
<1>3. CASE Switch \/ UNCHANGED vars
  BY <1>3 DEF Switch, RequestInv, RequestsFormed, RowLocks, Locking,
              JobInv, JobsFormed, IndexLocks, Live
<1> QED BY <1>1, <1>2, <1>3 DEF Next

\* ... so they hold throughout: every variable keeps its type, an UPDATE always
\* finds its row, and no job is attempted more than MaxTries times.
THEOREM TypeCorrect == Spec => []TypeOK
<1>1. RequestInv /\ JobInv => TypeOK
  BY DEF RequestInv, JobInv, TypeOK
<1>2. Init => RequestInv /\ JobInv
  BY InitInv
<1>3. RequestInv /\ JobInv /\ [Next]_vars => RequestInv' /\ JobInv'
  BY NextKeepsBase
<1> QED BY <1>1, <1>2, <1>3, PTL DEF Spec

-----------------------------------------------------------------------------
(* Where the text of the index comes from.                                 *)

LEMMA TextInit == Init => Texting /\ CommittedTextOnly
<1> SUFFICES ASSUME Init PROVE Texting /\ CommittedTextOnly
  OBVIOUS
<1>1. \A e \in Entities : row[e] # NoRow => row[e].text \in ever[e]
  BY DEF Init
<1>2. \A j \in Jobs : job[j].text = NoRow
  BY DEF Init, NewJob
<1>3. ASSUME NEW e \in Entities, index[e] # NoRow PROVE index[e].text \in ever[e]
  <2>1. Right(e)
    BY <1>3 DEF Init
  <2> QED BY <1>1, <1>3, <2>1 DEF Right
<1> QED BY <1>1, <1>2, <1>3 DEF Texting, CommittedTextOnly

\* A request adds the text it commits to the entity's history.
LEMMA RequestKeepsText ==
  ASSUME RequestInv, JobInv, Texting, CommittedTextOnly, NEW r \in Requests, RequestStep(r)
  PROVE  Texting' /\ CommittedTextOnly'
<1>1. /\ \A e \in Entities : ever[e] \subseteq ever'[e]
      /\ \A e \in Entities : row'[e] # NoRow => row'[e].text \in ever'[e]
  <2>1. CASE UNCHANGED <<row, ever>>
    BY <2>1 DEF Texting
  <2>2. CASE Commit(r)
    <3> DEFINE e == req[r].e
               new == Written(r)
    <3>1. /\ e \in Entities
          /\ row' = [row EXCEPT ![e] = new]
          /\ ever' = [ever EXCEPT ![e] = IF new = NoRow THEN @ ELSE @ \cup {new.text}]
      BY <2>2 DEF Commit, RequestInv, RequestsFormed
    <3> HIDE DEF e, new
    <3> QED BY <3>1 DEF Texting, RequestInv
  <2>3. CASE Batch(r)
    <3>1. PICK es \in SUBSET Entities, enabled \in BOOLEAN :
            row' = [e \in Entities |-> IF e \in es /\ row[e] # NoRow
                                      THEN [row[e] EXCEPT !.enabled = enabled] ELSE row[e]]
      BY <2>3 DEF Batch
    <3>2. ever' = ever
      BY <2>3 DEF Batch
    <3>3. \A e \in Entities : row[e] # NoRow =>
            [row[e] EXCEPT !.enabled = enabled].text = row[e].text
      BY DEF RequestInv, Rows
    <3> QED BY <3>1, <3>2, <3>3 DEF Texting
  <2> QED BY <2>1, <2>2, <2>3
          DEF RequestStep, Create, Read, Flush, Enqueue, BatchEnqueue, RequestFails
<1>2. \A j \in Jobs : job'[j].text # NoRow => job'[j].text = job[j].text /\ job'[j].e = job[j].e
  <2>1. CASE job' = job
    BY <2>1
  <2>2. CASE \E kind \in {"index", "remove"}, e \in Entities : Put(kind, e)
    BY <2>2 DEF Put, NewJob, JobInv
  <2>3. CASE \E es \in SUBSET Entities : Disturb(es)
    <3>1. \A j \in Jobs : job'[j] \in {job[j], [job[j] EXCEPT !.alone = FALSE]}
      BY <2>3 DEF Disturb
    <3> QED BY <3>1 DEF JobInv, Job
  <2> QED BY <2>1, <2>2, <2>3, RequestTouchesJobs
<1>3. index' = index
  BY RequestTouchesJobs
<1>4. \A j \in Jobs : job'[j].text # NoRow => job[j].e \in Entities
  BY <1>2 DEF JobInv, JobsFormed
<1> QED BY <1>1, <1>2, <1>3, <1>4 DEF Texting, CommittedTextOnly

\* A job takes its text from the entity's row, and the index from the job.
LEMMA JobKeepsText ==
  ASSUME RequestInv, JobInv, Texting, CommittedTextOnly, NEW j \in Jobs, JobStep(j)
  PROVE  Texting' /\ CommittedTextOnly'
<1> DEFINE e == job[j].e
<1>0. UNCHANGED api /\ job[j] \in Job
  BY DEF JobStep, JobBegin, JobCheck, JobRead, JobExisting, JobEmbed, JobFlush,
         JobDelete, JobCommit, JobAck, JobFails, JobCrashes, JobInv
<1>1. \A k \in Jobs : job'[k].text # NoRow =>
        /\ job'[k].e = job[k].e
        /\ \/ job'[k].text = job[k].text
           \/ k = j /\ JobRead(j) /\ row[e] # NoRow /\ job'[k].text = row[e].text
  <2>1. CASE JobBegin(j)
    <3>1. \A k \in Jobs : job'[k].text = job[k].text /\ job'[k].e = job[k].e
      BY <2>1 DEF JobBegin, JobInv, Job
    <3> QED BY <3>1
  <2>2. CASE \E left \in Job : left.text = NoRow /\ job' = [job EXCEPT ![j] = left]
    BY <2>2 DEF JobInv
  <2>3. CASE \E pc \in {"read", "delete", "flush", "commit"} : GoTo(j, pc)
    BY <2>3 DEF GoTo, JobInv, Job
  <2>4. Leave(j, "ack") \/ Leave(j, "queued") \/ Finish(j) =>
          \E left \in Job : left.text = NoRow /\ job' = [job EXCEPT ![j] = left]
    <3>1. \A pc \in {"queued", "ack"} :
            /\ [NewJob EXCEPT !.pc = pc, !.kind = job[j].kind,
                              !.e = job[j].e, !.tries = job[j].tries] \in Job
            /\ [NewJob EXCEPT !.pc = pc, !.kind = job[j].kind,
                              !.e = job[j].e, !.tries = job[j].tries].text = NoRow
      BY <1>0, Left DEF NewJob
    <3>2. /\ [NewJob EXCEPT !.pc = "done", !.e = job[j].e] \in Job
          /\ [NewJob EXCEPT !.pc = "done", !.e = job[j].e].text = NoRow
      BY <1>0, Left DEF NewJob
    <3> QED BY <3>1, <3>2 DEF Leave, Finish
  <2>5. CASE JobCheck(j) \/ JobEmbed(j) \/ JobCommit(j) \/ JobAck(j) \/ JobFails(j) \/ JobCrashes(j)
    BY <2>2, <2>3, <2>4, <2>5
       DEF JobCheck, JobEmbed, JobCommit, JobAck, JobFails, JobCrashes, Return
  <2>6. CASE JobRead(j)
    <3>1. CASE /\ row[e] # NoRow
               /\ job' = [job EXCEPT ![j] = [@ EXCEPT !.pc = "existing", !.text = row[e].text]]
      BY <1>0, <2>6, <3>1 DEF JobInv, Job
    <3>2. CASE Return(j)
      BY <2>2, <2>4, <3>2 DEF Return
    <3> QED BY <2>6, <3>1, <3>2 DEF JobRead
  <2>7. CASE JobExisting(j)
    <3>1. CASE job' = [job EXCEPT ![j] = [@ EXCEPT !.pc = "embed", !.had = index[e]]]
      BY <1>0, <3>1 DEF JobInv, Job
    <3> QED BY <2>3, <2>7, <3>1 DEF JobExisting
  <2>8. CASE JobFlush(j) \/ JobDelete(j)
    <3>1. CASE \E write \in {"update", "insert"} : job' = [job EXCEPT ![j] =
                 [@ EXCEPT !.pc = "commit", !.write = write, !.had = NoRow]]
      BY <1>0, <3>1 DEF JobInv, Job
    <3>2. CASE \E write \in {"none", "delete"} : job' = [job EXCEPT ![j] =
                 [@ EXCEPT !.pc = "commit", !.write = write]]
      BY <1>0, <3>2 DEF JobInv, Job
    <3>3. CASE Finish(j)
      BY <2>2, <2>4, <3>3
    <3> QED BY <2>8, <3>1, <3>2, <3>3 DEF JobFlush, JobDelete
  <2> QED BY <2>1, <2>5, <2>6, <2>7, <2>8 DEF JobStep
<1>2. JobRead(j) => e \in Entities
  BY DEF JobRead, At, JobInv, JobsFormed
<1>3. Texting'
  BY <1>0, <1>1, <1>2 DEF Texting
<1>4. CommittedTextOnly'
  <2>1. CASE index' = index
    BY <1>0, <2>1 DEF CommittedTextOnly
  <2>2. CASE JobCommit(j)
    <3>1. e \in Entities /\ index' = [index EXCEPT ![e] = Indexed(j)]
      BY <2>2 DEF JobCommit, At, JobInv, JobsFormed
    <3>2. Indexed(j) # NoRow => Indexed(j).text \in ever[e]
      <4>1. CASE job[j].write = "none"
        BY <3>1, <4>1 DEF Indexed, CommittedTextOnly
      <4>2. CASE job[j].write = "delete"
        BY <4>2 DEF Indexed
      <4>3. CASE job[j].write \in {"insert", "update"}
        <5>1. job[j].text \in ever[e] /\ job[j].text \in Texts
          BY <4>3, ConstAssumption DEF Texting, JobInv, JobsFormed, RequestInv
        <5>2. job[j].write = "update" => index[e] \in IndexRows
          BY <3>1 DEF JobInv, IndexLocks
        <5> QED BY <4>3, <5>1, <5>2 DEF Indexed, IndexRows
      <4> QED BY <1>0, <4>1, <4>2, <4>3 DEF Job
    <3> QED BY <1>0, <3>1, <3>2 DEF CommittedTextOnly, JobInv
  <2> QED BY <2>1, <2>2 DEF JobStep, JobBegin, JobCheck, JobRead, JobExisting, JobEmbed,
             JobFlush, JobDelete, JobAck, JobFails, JobCrashes
<1> QED BY <1>3, <1>4

\* Nothing is ever in the index that its entity did not have in a committed row,
\* whatever jobs and requests race, fail or are tried again.
THEOREM TextIsCommitted == Spec => []CommittedTextOnly
<1> DEFINE Inv == RequestInv /\ JobInv /\ Texting /\ CommittedTextOnly
<1>1. Init => Inv
  BY InitInv, TextInit
<1>2. Inv /\ [Next]_vars => Inv'
  <2> SUFFICES ASSUME Inv, [Next]_vars PROVE Inv'
    OBVIOUS
  <2>1. RequestInv' /\ JobInv'
    BY NextKeepsBase
  <2>2. CASE Switch \/ UNCHANGED vars
    BY <2>1, <2>2 DEF Switch, Texting, CommittedTextOnly
  <2>3. CASE (\E r \in Requests : RequestStep(r)) \/ (\E j \in Jobs : JobStep(j))
    BY <2>1, <2>3, RequestKeepsText, JobKeepsText
  <2> QED BY <2>2, <2>3 DEF Next
<1> QED BY <1>1, <1>2, PTL DEF Spec

-----------------------------------------------------------------------------
(* A job that had its entity for itself leaves the index right about it.   *)

\* What one lone job has established depends on itself, its entity's two rows,
\* and no other job being at work on the entity.
LEMMA LoneKept ==
  ASSUME NEW k \in Jobs, Lone(k), job'[k] = job[k],
         row'[job[k].e] = row[job[k].e], index'[job[k].e] = index[job[k].e],
         \A i \in Jobs \ {k} : job'[i].e = job[k].e => ~Live(i)'
  PROVE  Lone(k)'
<1>1. /\ Live(k)' = Live(k)
      /\ \A i \in Jobs \ {k} : job'[i].e = job'[k].e => ~Live(i)'
  BY DEF Live
<1>2. /\ job'[k].pc \in {"read", "existing", "embed", "flush"} => Enabled(job[k].e)
      /\ job'[k].pc \in {"existing", "embed", "flush"} => job'[k].text = row'[job'[k].e].text
  BY DEF Lone
<1> QED BY <1>1, <1>2 DEF Lone, Right, Enabled

LEMMA RequestKeepsLone ==
  ASSUME RequestInv, JobInv, LoneJobs, LoneJobRepairs, NEW r \in Requests, RequestStep(r)
  PROVE  LoneJobs' /\ LoneJobRepairs'
<1>0. index' = index
  BY RequestTouchesJobs
<1>1. CASE UNCHANGED <<row, settled>> /\ job' = job
  BY <1>0, <1>1 DEF LoneJobs, Lone, LoneJobRepairs, Right, Enabled, Live
<1>2. CASE /\ UNCHANGED <<row, settled>>
           /\ \E kind \in {"index", "remove"}, e \in Entities : Put(kind, e)
  <2>1. PICK n \in Jobs : /\ \A k \in Jobs \ {n} : job'[k] = job[k]
                         /\ job'[n].pc = "queued" /\ job'[n].alone = FALSE
    BY <1>2 DEF Put, JobInv, NewJob
  <2>2. ASSUME NEW k \in Jobs, job'[k].alone PROVE Lone(k)'
    <3>1. k # n /\ job'[k] = job[k] /\ Lone(k)
      BY <2>1, <2>2 DEF LoneJobs
    <3>2. \A i \in Jobs \ {k} : job'[i].e = job[k].e => ~Live(i)'
      BY <2>1, <3>1 DEF Lone, Live
    <3> QED BY <1>0, <1>2, <3>1, <3>2, LoneKept
  <2> QED BY <1>0, <1>2, <2>2 DEF LoneJobs, LoneJobRepairs, Right
<1>3. ASSUME NEW es \in SUBSET Entities, Disturb(es), \A e \in Entities \ es : row'[e] = row[e]
      PROVE  LoneJobs' /\ LoneJobRepairs'
  <2>1. \A k \in Jobs : job'[k].e = job[k].e /\ job'[k].pc = job[k].pc
    BY <1>3 DEF Disturb, JobInv, Job
  <2>2. ASSUME NEW k \in Jobs, job'[k].alone PROVE Lone(k)'
    <3>1. job'[k] = job[k] /\ job[k].e \notin es
      BY <1>3, <2>2 DEF Disturb, JobInv, Job
    <3>2. Lone(k) /\ job[k].e \in Entities
      BY <2>2, <3>1 DEF LoneJobs, Lone, Live, JobInv, JobsFormed
    <3>3. \A i \in Jobs \ {k} : job'[i].e = job[k].e => ~Live(i)'
      BY <2>1, <3>2 DEF Lone, Live
    <3> QED BY <1>0, <1>3, <3>1, <3>2, <3>3, LoneKept
  <2>3. LoneJobRepairs'
    BY <1>0, <1>3 DEF Disturb, LoneJobRepairs, Right, JobInv
  <2> QED BY <2>2, <2>3 DEF LoneJobs
<1> QED BY <1>1, <1>2, <1>3, RequestTouchesJobs

\* A job that begins disturbs the jobs at work on its entity, and is alone when
\* there are none.
LEMMA Beginning ==
  ASSUME JobInv, NEW j \in Jobs, JobBegin(j)
  PROVE  /\ UNCHANGED <<row, index, settled>>
         /\ \A i \in Jobs : job'[i].e = job[i].e /\ (i # j => job'[i].pc = job[i].pc)
         /\ \A k \in Jobs \ {j} : job'[k].alone =>
              job'[k] = job[k] /\ ~(job[k].e = job[j].e /\ Live(k))
         /\ job'[j].kind = job[j].kind
         /\ job'[j].pc \in {"delete", "check", "ack"}
         /\ job'[j].pc \in {"delete"} => job[j].kind = "remove"
         /\ job'[j].pc = "check" => job[j].kind = "index"
         /\ job'[j].alone => /\ job'[j].pc # "ack"
                            /\ \A k \in Jobs \ {j} : job[k].e = job[j].e => ~Live(k)
<1> DEFINE e == job[j].e
           others == {k \in Jobs \ {j} : job[k].e = e /\ Live(k)}
<1>1. PICK pc \in {"delete", "check", "ack"} :
        /\ job' = [k \in Jobs |->
              IF k = j THEN [job[j] EXCEPT !.pc = pc, !.tries = job[j].tries + 1,
                                           !.alone = (others = {} /\ pc # "ack")]
              ELSE IF k \in others THEN [job[k] EXCEPT !.alone = FALSE]
              ELSE job[k]]
        /\ pc = "delete" => job[j].kind = "remove"
        /\ pc = "check" => job[j].kind = "index"
  BY DEF JobBegin
<1>2. \A k \in Jobs \ {j} : job'[k] = IF k \in others THEN [job[k] EXCEPT !.alone = FALSE] ELSE job[k]
  BY <1>1
<1>3. ASSUME NEW k \in Jobs \ {j}
      PROVE  /\ job'[k].e = job[k].e /\ job'[k].pc = job[k].pc
             /\ job'[k].alone => job'[k] = job[k] /\ k \notin others
  <2>1. CASE k \in others
    <3>1. job'[k] = [job[k] EXCEPT !.alone = FALSE] /\ job[k] \in Job
      BY <1>2, <2>1 DEF JobInv
    <3> QED BY <3>1 DEF Job
  <2>2. CASE k \notin others
    BY <1>2, <2>2
  <2> QED BY <2>1, <2>2
<1> DEFINE b == others = {} /\ pc # "ack"
<1>4. job'[j] = [job[j] EXCEPT !.pc = pc, !.tries = job[j].tries + 1, !.alone = b]
  BY <1>1
<1>5. (b => pc # "ack" /\ others = {}) /\ b \in BOOLEAN
  OBVIOUS
<1> HIDE DEF b
<1>6. /\ job'[j].e = e /\ job'[j].kind = job[j].kind /\ job'[j].pc = pc
      /\ job'[j].alone = b
  BY <1>4 DEF JobInv, Job
<1>7. others = {} => \A k \in Jobs \ {j} : job[k].e = e => ~Live(k)
  OBVIOUS
<1>8. UNCHANGED <<row, index, settled>>
  BY DEF JobBegin
<1>9. job'[j].alone => /\ pc # "ack"
                       /\ \A k \in Jobs \ {j} : job[k].e = e => ~Live(k)
  BY <1>5, <1>6, <1>7
<1> QED BY <1>1, <1>3, <1>6, <1>8, <1>9

\* Any other step of a job changes that job's own record only.
LEMMA OneJob ==
  ASSUME JobInv, NEW j \in Jobs, JobStep(j), ~JobBegin(j)
  PROVE  /\ \A i \in Jobs \ {j} : job'[i] = job[i]
         /\ job'[j].e = job[j].e
         /\ Live(j) \/ ~Live(j)'
<1> DEFINE Own == /\ \A i \in Jobs \ {j} : job'[i] = job[i]
                  /\ job'[j].e = job[j].e
<1>1. job[j] \in Job /\ job \in [Jobs -> Job]
  BY DEF JobInv
<1>2. \A pc \in {"read", "delete", "flush", "commit"} : GoTo(j, pc) => Own
  BY <1>1 DEF GoTo, Job
<1>3. \A pc \in {"queued", "ack"} : Leave(j, pc) => Own /\ ~Live(j)'
  BY <1>1 DEF Leave, NewJob, Live
<1>4. Finish(j) => Own /\ ~Live(j)'
  BY <1>1 DEF Finish, NewJob, Live
<1> HIDE DEF Own
<1>5. CASE JobCheck(j) \/ JobEmbed(j)
  <2>1. Live(j)
    BY <1>5 DEF JobCheck, JobEmbed, At, Live
  <2>2. Own
    BY <1>2, <1>3, <1>5 DEF JobCheck, JobEmbed, Return
  <2> QED BY <2>1, <2>2 DEF Own
<1>6. CASE JobRead(j)
  <2>1. Live(j)
    BY <1>6 DEF JobRead, At, Live
  <2>2. CASE job' = [job EXCEPT ![j] = [@ EXCEPT !.pc = "existing", !.text = row[job[j].e].text]]
    BY <1>1, <2>1, <2>2 DEF Job
  <2>3. Return(j) => Own
    BY <1>3 DEF Return
  <2> QED BY <1>6, <2>1, <2>2, <2>3 DEF JobRead, Own
<1>7. CASE JobExisting(j)
  <2>1. Live(j)
    BY <1>7 DEF JobExisting, At, Live
  <2>2. CASE job' = [job EXCEPT ![j] = [@ EXCEPT !.pc = "embed", !.had = index[job[j].e]]]
    BY <1>1, <2>1, <2>2 DEF Job
  <2>3. GoTo(j, "commit") => Own
    BY <1>2
  <2> QED BY <1>7, <2>1, <2>2, <2>3 DEF JobExisting, Own
<1>8. CASE JobFlush(j)
  <2>1. Live(j)
    BY <1>8 DEF JobFlush, At, Live
  <2>2. CASE \E write \in {"update", "insert"} : job' = [job EXCEPT ![j] =
               [@ EXCEPT !.pc = "commit", !.write = write, !.had = NoRow]]
    BY <1>1, <2>1, <2>2 DEF Job
  <2>3. Finish(j) \/ \E write \in {"update", "insert"} : job' = [job EXCEPT ![j] =
               [@ EXCEPT !.pc = "commit", !.write = write, !.had = NoRow]]
    BY <1>8 DEF JobFlush
  <2> QED BY <1>4, <2>1, <2>2, <2>3 DEF Own
<1>9. CASE JobDelete(j)
  <2>1. Live(j)
    BY <1>9 DEF JobDelete, At, Live
  <2>2. PICK write \in {"none", "delete"} :
          job' = [job EXCEPT ![j] = [@ EXCEPT !.pc = "commit", !.write = write]]
    BY <1>9 DEF JobDelete
  <2> QED BY <1>1, <2>1, <2>2 DEF Job
<1>10. CASE JobCommit(j) \/ JobAck(j) \/ JobFails(j) \/ JobCrashes(j)
  BY <1>3, <1>4, <1>10 DEF JobCommit, JobAck, JobFails, JobCrashes, Return, Own
<1> QED BY <1>5, <1>6, <1>7, <1>8, <1>9, <1>10 DEF JobStep

\* Only a commit changes the index.
LEMMA OnlyCommits ==
  ASSUME NEW j \in Jobs, JobStep(j)
  PROVE  UNCHANGED row /\ (JobCommit(j) \/ UNCHANGED <<index, settled>>)
BY DEF JobStep, JobBegin, JobCheck, JobRead, JobExisting, JobEmbed, JobFlush, JobDelete,
       JobCommit, JobAck, JobFails, JobCrashes

\* The steps of job j as a job with an entity to itself sees them.
LEMMA JobAndOthers ==
  ASSUME JobInv, NEW j \in Jobs, JobStep(j), NEW k \in Jobs, k # j, job'[k].alone,
         job'[k] = job[k] => Lone(k)
  PROVE  Lone(k)'
<1> DEFINE e == job[j].e
<1>1. CASE JobBegin(j)
  <2>1. job'[k] = job[k] /\ UNCHANGED <<row, index>> /\ ~(job[k].e = e /\ Live(k))
    BY <1>1, Beginning
  <2>2. Lone(k) /\ job[k].e # e
    BY <2>1 DEF Lone
  <2>3. \A i \in Jobs : job'[i].e = job[i].e /\ (i # j => job'[i].pc = job[i].pc)
    BY <1>1, Beginning
  <2>4. \A i \in Jobs \ {k} : job'[i].e = job[k].e => ~Live(i)'
    BY <2>2, <2>3 DEF Lone, Live
  <2> QED BY <2>1, <2>2, <2>4, LoneKept
<1>2. CASE ~JobBegin(j)
  <2>1. /\ \A i \in Jobs \ {j} : job'[i] = job[i]
        /\ job'[j].e = e
        /\ Live(j) \/ ~Live(j)'
    BY <1>2, OneJob
  <2>2. Lone(k) /\ job'[k] = job[k]
    BY <2>1
  <2>3. job[k].e = e => ~Live(j)
    BY <2>2 DEF Lone
  <2>4. \A i \in Jobs \ {k} : job'[i].e = job[k].e => ~Live(i)'
    BY <2>1, <2>2, <2>3 DEF Lone, Live
  <2>5. index'[job[k].e] = index[job[k].e]
    <3>1. CASE JobCommit(j)
      <4>1. Live(j) /\ index' = [index EXCEPT ![e] = Indexed(j)]
        BY <3>1 DEF JobCommit, At, Live
      <4>2. job[k].e \in Entities
        BY <2>2 DEF Lone, Live, JobInv, JobsFormed
      <4> QED BY <2>3, <4>1, <4>2 DEF JobInv
    <3> QED BY <3>1, OnlyCommits
  <2> QED BY <2>2, <2>4, <2>5, LoneKept, OnlyCommits
<1> QED BY <1>1, <1>2

\* The steps of a job that has its entity for itself, and what each establishes.
LEMMA JobEstablishes ==
  ASSUME RequestInv, JobInv, NEW j \in Jobs, JobStep(j), job'[j].alone,
         job[j].alone => Lone(j)
  PROVE  Lone(j)'
<1> DEFINE e == job[j].e
<1>1. job[j] \in Job /\ job \in [Jobs -> Job] /\ row' = row
  BY OnlyCommits DEF JobInv
<1>2. CASE JobBegin(j)
  <2>1. \A k \in Jobs \ {j} : job'[k].e = job'[j].e => ~Live(k)'
    BY <1>2, Beginning DEF Live
  <2>2. Live(j)' /\ job'[j].pc \in {"delete", "check"}
    BY <1>2, Beginning DEF Live
  <2>3. /\ job'[j].pc = "delete" => job'[j].kind = "remove"
        /\ job'[j].pc = "check" => job'[j].kind = "index"
    BY <1>2, Beginning
  <2> QED BY <2>1, <2>2, <2>3 DEF Lone
<1>3. ASSUME ~JobBegin(j), Lone(j)
      PROVE  \A k \in Jobs \ {j} : job'[k].e = job'[j].e => ~Live(k)'
  BY <1>3, OneJob DEF Lone, Live
<1>4. ~Leave(j, "ack") /\ ~Leave(j, "queued") /\ ~Finish(j)
  BY <1>1 DEF Leave, Finish, NewJob
<1>5. CASE JobCheck(j)
  <2>1. PICK pc \in {"read", "delete"} :
          /\ job' = [job EXCEPT ![j].pc = pc]
          /\ job[j].pc = "check" /\ ~JobBegin(j)
          /\ IF pc = "read" THEN Enabled(e) ELSE ~Enabled(e)
    BY <1>4, <1>5 DEF JobCheck, JobBegin, GoTo, Return, Enabled, At
  <2>2. /\ job'[j].pc = pc /\ job'[j].e = e /\ job'[j].kind = job[j].kind
        /\ job'[j].alone = job[j].alone
    BY <1>1, <2>1 DEF Job
  <2>3. Lone(j) /\ job[j].kind = "index"
    BY <2>1, <2>2 DEF Lone
  <2> QED BY <1>1, <1>3, <2>1, <2>2, <2>3 DEF Lone, Live, Enabled
<1>6. CASE JobRead(j)
  <2>1. /\ job[j].pc = "read" /\ ~JobBegin(j)
        /\ job' = [job EXCEPT ![j] = [@ EXCEPT !.pc = "existing", !.text = row[e].text]]
    BY <1>4, <1>6 DEF JobRead, JobBegin, Return, At
  <2>2. /\ job'[j].pc = "existing" /\ job'[j].e = e /\ job'[j].kind = job[j].kind
        /\ job'[j].alone = job[j].alone /\ job'[j].text = row[e].text
    BY <1>1, <2>1 DEF Job
  <2>3. Lone(j)
    BY <2>2
  <2> QED BY <1>1, <1>3, <2>1, <2>2, <2>3 DEF Lone, Live, Enabled
<1>7. CASE JobExisting(j)
  <2>1. PICK pc \in {"commit", "embed"} :
          /\ job[j].pc = "existing" /\ ~JobBegin(j)
          /\ job' = [job EXCEPT ![j].pc = pc] \/
             job' = [job EXCEPT ![j] = [@ EXCEPT !.pc = pc, !.had = index[e]]]
          /\ pc = "commit" => index[e] # NoRow /\ index[e].text = job[j].text
    BY <1>7 DEF JobExisting, JobBegin, GoTo, At
  <2>2. /\ job'[j].pc = pc /\ job'[j].e = e /\ job'[j].kind = job[j].kind
        /\ job'[j].alone = job[j].alone /\ job'[j].text = job[j].text
        /\ job'[j].write = job[j].write
    <3>1. CASE job' = [job EXCEPT ![j].pc = pc]
      BY <1>1, <3>1 DEF Job
    <3>2. CASE job' = [job EXCEPT ![j] = [@ EXCEPT !.pc = pc, !.had = index[e]]]
      BY <1>1, <3>2 DEF Job
    <3> QED BY <2>1, <3>1, <3>2
  <2>5. index' = index
    BY <1>7 DEF JobExisting
  <2>3. Lone(j)
    BY <2>2
  <2>4. /\ Enabled(e) /\ job[j].kind = "index" /\ job[j].text = row[e].text
        /\ job[j].write = "none"
    BY <2>1, <2>3 DEF Lone, JobInv, JobsFormed
  <2> QED BY <1>1, <1>3, <2>1, <2>2, <2>3, <2>4, <2>5 DEF Lone, Live, Enabled, Right
<1>8. CASE JobEmbed(j)
  <2>1. job[j].pc = "embed" /\ ~JobBegin(j) /\ job' = [job EXCEPT ![j].pc = "flush"]
    BY <1>8 DEF JobEmbed, JobBegin, GoTo, At
  <2>2. /\ job'[j].pc = "flush" /\ job'[j].e = e /\ job'[j].kind = job[j].kind
        /\ job'[j].alone = job[j].alone /\ job'[j].text = job[j].text
    BY <1>1, <2>1 DEF Job
  <2>3. Lone(j)
    BY <2>2
  <2> QED BY <1>1, <1>3, <2>1, <2>2, <2>3 DEF Lone, Live, Enabled
<1>9. CASE JobFlush(j)
  <2>1. PICK write \in {"update", "insert"} :
          /\ job[j].pc = "flush" /\ ~JobBegin(j)
          /\ job' = [job EXCEPT ![j] = [@ EXCEPT !.pc = "commit", !.write = write, !.had = NoRow]]
    BY <1>4, <1>9 DEF JobFlush, JobBegin, At
  <2>2. /\ job'[j].pc = "commit" /\ job'[j].e = e /\ job'[j].kind = job[j].kind
        /\ job'[j].alone = job[j].alone /\ job'[j].text = job[j].text
        /\ job'[j].write = write
    BY <1>1, <2>1 DEF Job
  <2>3. Lone(j)
    BY <2>2
  <2> QED BY <1>1, <1>3, <2>1, <2>2, <2>3 DEF Lone, Live, Enabled
<1>10. CASE JobDelete(j)
  <2> DEFINE write == IF index[e] = NoRow THEN "none" ELSE "delete"
  <2>1. /\ job[j].pc = "delete" /\ ~JobBegin(j) /\ index' = index
        /\ job' = [job EXCEPT ![j] = [@ EXCEPT !.pc = "commit", !.write = write]]
    BY <1>10 DEF JobDelete, JobBegin, At
  <2>2. /\ job'[j].pc = "commit" /\ job'[j].e = e /\ job'[j].kind = job[j].kind
        /\ job'[j].alone = job[j].alone /\ job'[j].write = write
    BY <1>1, <2>1 DEF Job
  <2>3. Lone(j)
    BY <2>2
  <2> QED BY <1>1, <1>3, <2>1, <2>2, <2>3 DEF Lone, Live, Enabled, Right
<1> QED BY <1>2, <1>4, <1>5, <1>6, <1>7, <1>8, <1>9, <1>10
        DEF JobStep, JobCommit, JobAck, JobFails, JobCrashes, Return

\* What the commit of a lone job leaves behind.
LEMMA CommitSettles ==
  ASSUME RequestInv, JobInv, LoneJobs, LoneJobRepairs, NEW j \in Jobs, JobStep(j)
  PROVE  LoneJobRepairs'
<1> DEFINE e == job[j].e
<1>1. CASE UNCHANGED <<row, index, settled>>
  BY <1>1 DEF LoneJobRepairs, Right
<1>2. CASE JobCommit(j)
  <2> PICK f \in Entities : f = e
    BY <1>2 DEF JobCommit, At, JobInv, JobsFormed
  <2>1. /\ job[j].pc = "commit" /\ row' = row
        /\ index' = [index EXCEPT ![f] = Indexed(j)]
        /\ settled' = IF job[j].alone /\ (job[j].kind = "index" \/ row[e] = NoRow)
                      THEN settled \cup {f} ELSE settled \ {f}
    BY <1>2 DEF JobCommit, At
  <2>2. \A d \in Entities \ {f} : Right(d)' = Right(d)
    BY <2>1 DEF Right, JobInv
  <2>3. ASSUME job[j].alone, job[j].kind = "index" \/ row[e] = NoRow
        PROVE  IF Enabled(e) THEN Indexed(j) # NoRow /\ Indexed(j).text = row[e].text
                             ELSE Indexed(j) = NoRow
    <3>1. Lone(j) /\ job[j] \in Job
      BY <2>3 DEF LoneJobs, JobInv
    <3>2. CASE job[j].write = "none"
      <4>1. IF job[j].kind = "index" THEN Right(e) ELSE index[e] = NoRow
        BY <2>1, <3>1, <3>2 DEF Lone
      <4> QED BY <2>3, <3>2, <4>1 DEF Indexed, Right, Enabled
    <3>3. CASE job[j].write = "delete"
      BY <2>1, <2>3, <3>1, <3>3 DEF Lone, Indexed, Enabled
    <3>4. CASE job[j].write \in {"insert", "update"}
      <4>1. Enabled(e) /\ job[j].text = row[e].text
        BY <2>1, <3>1, <3>4 DEF Lone
      <4>2. job[j].write = "update" => index[e] \in IndexRows
        BY <2>1 DEF JobInv, IndexLocks
      <4>3. job[j].text \in Texts /\ <<j, job[j].tries>> \in Key
        BY <2>1, <3>1, <3>4, ConstAssumption DEF JobInv, JobsFormed, Live, Key, Job
      <4>4. Indexed(j) \in IndexRows /\ Indexed(j).text = job[j].text
        BY <3>4, <4>2, <4>3 DEF Indexed, IndexRows
      <4> QED BY <4>1, <4>4, ConstAssumption
    <3> QED BY <3>1, <3>2, <3>3, <3>4 DEF Job
  <2>4. ASSUME f \in settled' PROVE Right(f)'
    <3>1. job[j].alone /\ (job[j].kind = "index" \/ row[e] = NoRow)
      BY <2>1, <2>4
    <3>2. index'[f] = Indexed(j)
      BY <2>1 DEF JobInv
    <3> QED BY <2>1, <2>3, <3>1, <3>2 DEF Right, Enabled
  <2>5. \A d \in settled' \ {f} : d \in settled /\ d \in Entities
    BY <2>1 DEF JobInv
  <2>6. ASSUME NEW d \in settled' \ {f} PROVE Right(d)'
    BY <2>2, <2>5 DEF LoneJobRepairs
  <2> QED BY <2>4, <2>6 DEF LoneJobRepairs
<1> QED BY <1>1, <1>2, OnlyCommits

\* Whatever has gone wrong before, a job that had the entity for itself leaves the
\* index right about it, until the entity changes or jobs on it overlap.
THEOREM Repair == Spec => []LoneJobRepairs
<1> DEFINE Inv == RequestInv /\ JobInv /\ LoneJobs /\ LoneJobRepairs
<1>1. Init => Inv
  BY InitInv DEF Init, LoneJobs, NewJob, LoneJobRepairs
<1>2. Inv /\ [Next]_vars => Inv'
  <2> SUFFICES ASSUME Inv, [Next]_vars PROVE Inv'
    OBVIOUS
  <2>1. RequestInv' /\ JobInv'
    BY NextKeepsBase
  <2>2. CASE \E r \in Requests : RequestStep(r)
    BY <2>1, <2>2, RequestKeepsLone
  <2>3. CASE \E j \in Jobs : JobStep(j)
    <3>1. PICK j \in Jobs : JobStep(j)
      BY <2>3
    <3>2. LoneJobRepairs'
      BY <3>1, CommitSettles
    <3>3. ASSUME NEW k \in Jobs, job'[k].alone PROVE Lone(k)'
      <4>1. job[k].alone => Lone(k)
        BY DEF LoneJobs
      <4>2. job'[k] = job[k] => Lone(k)
        BY <3>3, <4>1
      <4> QED BY <3>1, <3>3, <4>1, <4>2, JobAndOthers, JobEstablishes
    <3> QED BY <2>1, <3>2, <3>3 DEF LoneJobs
  <2>4. CASE Switch \/ UNCHANGED vars
    <3>1. UNCHANGED <<row, index, job, settled>>
      BY <2>4 DEF Switch
    <3> QED BY <2>1, <3>1 DEF LoneJobs, Lone, LoneJobRepairs, Right, Enabled, Live
  <2> QED BY <2>2, <2>3, <2>4 DEF Next
<1> QED BY <1>1, <1>2, PTL DEF Spec
=============================================================================
