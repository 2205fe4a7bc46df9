-------------------------- MODULE ReindexJob_proofs --------------------------
(* Proofs of the safety properties of ReindexJob for any number of jobs,     *)
(* entities, entity types, concurrent requests and attempts.                 *)
EXTENDS ReindexJob, FiniteSetTheorems, TLAPS

\* Where each program counter has valid data to work with.
ReqOK(r) == r \in Req /\ (r.pc \notin {"idle", "startPut"} => r.job \in Jobs)

RunOK(r) == /\ r \in Run
            /\ r.pc \in {"index", "flush"} => r.entity \in Entities
            /\ r.pc = "progressPut" => r.copy \in Progress
            /\ r.pc \in {"endRead", "endPut", "endTell"} => r.ending \in Endings
            /\ r.pc \in {"cancelUnflag", "cancelExit"} => r.ending = "cancelled"

WellFormed == /\ \A a \in Admins : ReqOK(req[a])
              /\ \A j \in Jobs : RunOK(run[j])

TypeInv == TypeOK /\ WellFormed

USE DEF vars, redis, queue, history

LEMMA NoStateTyped == NoState \in MaybeProgress
BY DEF MaybeProgress

LEMMA IdleTyped == /\ IdleRun \in Run
                   /\ IdleReq \in Req
BY ConstAssumption, NoStateTyped DEF IdleRun, IdleReq, Run, Req, RunPc, ReqPc

\* Type correctness is established by Init ...
LEMMA TypeInit == Init => TypeInv
<1> SUFFICES ASSUME Init PROVE TypeInv
  OBVIOUS
<1>1. TypeOK
  BY ConstAssumption, NoStateTyped, IdleTyped DEF Init, TypeOK
<1>2. RunOK(IdleRun) /\ ReqOK(IdleReq)
  BY IdleTyped DEF RunOK, ReqOK, IdleRun, IdleReq
<1> QED BY <1>1, <1>2 DEF Init, TypeInv, WellFormed

LEMMA PutTyped ==
  ASSUME NEW p \in MaybeProgress, NEW s \in InProgress \cup Endings
  PROVE  [p EXCEPT !.status = s] \in Progress
BY DEF MaybeProgress, Progress, NoState, InProgress, Endings

\* ... and kept by the administrators' requests ...
LEMMA TypeRequest ==
  ASSUME TypeInv, NEW a \in Admins, Arrive(a) \/ RequestStep(a) \/ RequestFault(a)
  PROVE  TypeInv'
<1> USE ConstAssumption, NoStateTyped, IdleTyped, PutTyped
    DEF TypeInv, TypeOK, WellFormed, ReqOK, Req, ReqPc
<1>1. CASE StartReadCurrent(a)
  BY <1>1 DEF StartReadCurrent
<1>2. CASE CancelReadCurrent(a)
  BY <1>2 DEF CancelReadCurrent
<1>3. CASE StartReadState(a)
  BY <1>3 DEF StartReadState, Reply, SendTo, IdleReq
<1>4. CASE StartPut(a)
  <2>1. [NoState EXCEPT !.status = "running"] \in MaybeProgress
    BY DEF NoState, MaybeProgress, Progress, InProgress
  <2>2. PICK j \in Jobs :
          /\ arq' = [arq EXCEPT ![j] = "drawn"]
          /\ state' = [state EXCEPT ![j] = [NoState EXCEPT !.status = "running"]]
          /\ req' = [req EXCEPT ![a] = [@ EXCEPT !.pc = "startPoint", !.job = j]]
    BY <1>4 DEF StartPut
  <2>3. state' \in [Jobs -> MaybeProgress]
    BY <2>1, <2>2
  <2>4. /\ arq' \in [Jobs -> {"new", "drawn", "queued", "running", "done", "dead"}]
        /\ req' \in [Admins -> Req]
        /\ \A b \in Admins : req'[b].pc \notin {"idle", "startPut"} => req'[b].job \in Jobs
    BY <2>2
  <2>5. UNCHANGED <<current, cancel, tries, run, indexed, history>>
    BY <1>4 DEF StartPut
  <2> QED BY <2>3, <2>4, <2>5
<1>5. CASE StartBound(a)
  BY <1>5 DEF StartBound, Reply, IdleReq
<1>6. CASE StartPoint(a)
  BY <1>6 DEF StartPoint, SendTo
<1>7. CASE Enqueue(a)
  BY <1>7 DEF Enqueue, Reply, IdleReq
<1>8. CASE EnqueueFailRead(a)
  BY <1>8 DEF EnqueueFailRead
<1>9. CASE EnqueueFailPut(a)
  <2>1. state' \in [Jobs -> MaybeProgress]
    BY <1>9 DEF EnqueueFailPut, Endings, MaybeProgress
  <2> QED BY <1>9, <2>1 DEF EnqueueFailPut, SendTo
<1>10. CASE EnqueueFailTell(a)
  BY <1>10 DEF EnqueueFailTell, Reply, Tell, Lost, IdleReq, Endings
<1>11. CASE CancelReadState(a)
  <2>1. CASE Reply(a)
    BY <1>11, <2>1 DEF CancelReadState, Reply, IdleReq
  <2>2. CASE \E pc \in Asks : SendTo(a, pc)
    BY <1>11, <2>2 DEF CancelReadState, SendTo
  <2> QED BY <1>11, <2>1, <2>2 DEF CancelReadState
<1>12. CASE AskRead(a)
  <2>1. state[req[a].job] \in MaybeProgress
    BY <1>12 DEF AskRead
  <2>2. CASE req' = [req EXCEPT ![a] = IdleReq]
    BY <1>12, <2>2 DEF AskRead, IdleReq
  <2>3. CASE req' = [req EXCEPT ![a] = [@ EXCEPT !.pc = "askFlag",
                                                 !.copy = state[req[a].job]]]
    BY <1>12, <2>1, <2>3 DEF AskRead
  <2> QED BY <1>12, <2>2, <2>3 DEF AskRead, Reply
<1>13. CASE AskFlag(a)
  BY <1>13 DEF AskFlag, SendTo
<1>14. CASE AskPut(a)
  BY <1>14 DEF AskPut, Reply, IdleReq, InProgress, MaybeProgress
<1>15. CASE ForceRead(a)
  <2>1. state[req[a].job] \in MaybeProgress
    BY <1>15 DEF ForceRead
  <2>2. CASE req' = [req EXCEPT ![a] = IdleReq]
    BY <1>15, <2>2 DEF ForceRead, IdleReq
  <2>3. CASE req' = [req EXCEPT ![a] = [@ EXCEPT !.pc = "forcePut",
                                                 !.copy = state[req[a].job]]]
    BY <1>15, <2>1, <2>3 DEF ForceRead
  <2> QED BY <1>15, <2>2, <2>3 DEF ForceRead, Reply
<1>16. CASE ForcePut(a)
  <2>1. state' \in [Jobs -> MaybeProgress]
    BY <1>16 DEF ForcePut, Endings, MaybeProgress
  <2> QED BY <1>16, <2>1 DEF ForcePut, SendTo
<1>17. CASE ForceReadCurrent(a)
  BY <1>17 DEF ForceReadCurrent, SendTo
<1>18. CASE ForceDelCurrent(a)
  BY <1>18 DEF ForceDelCurrent, SendTo
<1>19. CASE ForceUnflag(a)
  BY <1>19 DEF ForceUnflag, SendTo, Unflag
<1>20. CASE ForceTell(a)
  BY <1>20 DEF ForceTell, Reply, Tell, Lost, IdleReq, Endings
<1>21. CASE EnqueueFails(a)
  BY <1>21 DEF EnqueueFails, SendTo
<1>22. CASE RequestLost(a)
  BY <1>22 DEF RequestLost, Reply, IdleReq
<1> QED
  BY <1>1, <1>2, <1>3, <1>4, <1>5, <1>6, <1>7, <1>8, <1>9, <1>10, <1>11, <1>12, <1>13, <1>14, <1>15, <1>16, <1>17, <1>18, <1>19, <1>20, <1>21, <1>22
     DEF Arrive, RequestStep, RequestFault

\* The records the worker's steps make of its locals.
LEMMA RunShapes ==
  ASSUME NEW j \in Jobs, RunOK(run[j]), ConstAssumption
  PROVE  /\ \A pc \in {"list", "commit", "return"} : RunOK([run[j] EXCEPT !.pc = pc])
         /\ \A ending \in Endings : RunOK(Ending(ending))
         /\ RunOK(IdleRun) /\ RunOK([IdleRun EXCEPT !.pc = "configure"])
         /\ RunOK([IdleRun EXCEPT !.pc = "return"])
         /\ RunOK(Counted(j)) /\ RunOK(Miscounted(j))
         /\ \A T \in SUBSET Entities : RunOK([run[j] EXCEPT !.pc = "next", !.todo = T])
         /\ \A e \in Entities, T \in SUBSET Entities :
              RunOK([run[j] EXCEPT !.pc = "index", !.entity = e, !.todo = T])
<1>1. /\ run[j] \in Run
      /\ run[j].processed \in Nat /\ run[j].errors \in Nat
      /\ run[j].processed + 1 \in Nat /\ run[j].errors + 1 \in Nat
  BY DEF RunOK, Run
<1>2. \A pc \in {"list", "commit", "return"} : RunOK([run[j] EXCEPT !.pc = pc])
  BY <1>1 DEF RunOK, Run, RunPc
<1>3. /\ RunOK(IdleRun) /\ RunOK([IdleRun EXCEPT !.pc = "configure"])
      /\ RunOK([IdleRun EXCEPT !.pc = "return"])
  <2>1. IdleRun.pc = "idle"
    BY DEF IdleRun
  <2> QED BY <2>1, IdleTyped DEF RunOK, Run, RunPc
<1>7. ASSUME NEW ending \in Endings PROVE RunOK(Ending(ending))
  BY IdleTyped DEF RunOK, Run, RunPc, Ending
<1>4. RunOK(Counted(j)) /\ RunOK(Miscounted(j))
  BY <1>1 DEF RunOK, Run, RunPc, Counted, Miscounted
<1>5. \A T \in SUBSET Entities : RunOK([run[j] EXCEPT !.pc = "next", !.todo = T])
  BY <1>1 DEF RunOK, Run, RunPc
<1>6. \A e \in Entities, T \in SUBSET Entities :
        RunOK([run[j] EXCEPT !.pc = "index", !.entity = e, !.todo = T])
  BY <1>1 DEF RunOK, Run, RunPc
<1> QED BY <1>2, <1>3, <1>4, <1>5, <1>6, <1>7

\* One job's locals change to a well-formed record.
LEMMA RunUpdate ==
  ASSUME TypeInv, NEW j \in Jobs, NEW r, RunOK(r), Becomes(j, r)
  PROVE  /\ run' \in [Jobs -> Run]
         /\ \A k \in Jobs : RunOK(run'[k])
BY DEF TypeInv, TypeOK, WellFormed, Becomes, RunOK

\* ... by the worker ...
LEMMA TypeRun ==
  ASSUME TypeInv, NEW j \in Jobs, RunStep(j) \/ RunFault(j)
  PROVE  TypeInv'
<1> USE ConstAssumption, PutTyped, NoStateTyped
<1>0. /\ RunOK(run[j])
      /\ state[j] \in MaybeProgress
      /\ run[j].copy \in MaybeProgress
      /\ run[j].todo \in SUBSET Entities
      /\ run[j].type \in 1 .. NTypes
      /\ run[j].ending \in Endings \cup {"none"}
      /\ run[j].inserted \in SUBSET Entities
  BY DEF TypeInv, TypeOK, WellFormed, RunOK, Run
<1>1. CASE RunStart(j)
  <2>1. RunOK([IdleRun EXCEPT !.pc = "configure"])
    BY RunShapes, <1>0
  <2> QED BY <1>1, <2>1, RunUpdate DEF RunStart, TypeInv, TypeOK, WellFormed
<1>2. CASE RunExhausted(j)
  BY <1>2 DEF RunExhausted, TypeInv, TypeOK, WellFormed
<1>3. CASE RunConfigure(j)
  <2>1. RunOK(Ending("failed")) /\ RunOK([run[j] EXCEPT !.pc = "list"])
    BY RunShapes, <1>0 DEF Endings, RunPc
  <2> QED BY <1>3, <2>1, RunUpdate DEF RunConfigure, Fail, Go, TypeInv, TypeOK, WellFormed
<1>4. CASE RunList(j)
  <2>1. /\ \A T \in SUBSET Entities : RunOK([run[j] EXCEPT !.pc = "next", !.todo = T])
        /\ RunOK(Ending("failed"))
    BY RunShapes, <1>0 DEF Endings
  <2> QED BY <1>4, <2>1, RunUpdate DEF RunList, Fail, TypeInv, TypeOK, WellFormed
<1>5. CASE RunNextType(j)
  <2>1. /\ RunOK([run[j] EXCEPT !.pc = "commit"])
        /\ run[j].type < NTypes
             => RunOK([run[j] EXCEPT !.pc = "list", !.type = run[j].type + 1])
    <3>1. run[j].type < NTypes => run[j].type + 1 \in 1 .. NTypes
      BY <1>0
    <3>2. RunOK([run[j] EXCEPT !.pc = "commit"])
      BY RunShapes, <1>0 DEF RunPc
    <3> QED BY <3>1, <3>2, <1>0 DEF RunOK, Run, RunPc
  <2> QED BY <1>5, <2>1, RunUpdate DEF RunNextType, Go, TypeInv, TypeOK, WellFormed
<1>6. CASE RunCheckCancel(j)
  <2>1. /\ RunOK([run[j] EXCEPT !.pc = "endRead", !.ending = "cancelled"])
        /\ \A e \in run[j].todo :
             RunOK([run[j] EXCEPT !.pc = "index", !.entity = e, !.todo = run[j].todo \ {e}])
    <3>1. RunOK([run[j] EXCEPT !.pc = "endRead", !.ending = "cancelled"])
      BY <1>0 DEF RunOK, Run, RunPc, Endings
    <3> QED BY <3>1, RunShapes, <1>0
  <2> QED BY <1>6, <2>1, RunUpdate DEF RunCheckCancel, TypeInv, TypeOK, WellFormed
<1>7. CASE RunIndex(j)
  <2>1. /\ RunOK(Counted(j)) /\ RunOK(Miscounted(j))
        /\ RunOK([run[j] EXCEPT !.pc = "flush"])
    <3>1. run[j].entity \in Entities
      BY <1>0, <1>7 DEF RunIndex, RunOK
    <3>2. RunOK([run[j] EXCEPT !.pc = "flush"])
      BY <3>1, <1>0 DEF RunOK, Run, RunPc
    <3> QED BY <3>2, RunShapes, <1>0
  <2> QED BY <1>7, <2>1, RunUpdate DEF RunIndex, Go, TypeInv, TypeOK, WellFormed
<1>8. CASE RunInsert(j)
  <2>1. RunOK([Counted(j) EXCEPT !.inserted = run[j].inserted \cup {run[j].entity}])
    <3>1. run[j].entity \in Entities
      BY <1>0, <1>8 DEF RunInsert, RunOK
    <3>2. RunOK(Counted(j))
      BY RunShapes, <1>0
    <3>3. Counted(j).pc = "progressRead"
      BY <1>0 DEF Counted, RunOK, Run
    <3> QED BY <3>1, <3>2, <3>3, <1>0 DEF RunOK, Run
  <2> QED BY <1>8, <2>1, RunUpdate DEF RunInsert, TypeInv, TypeOK, WellFormed
<1>9. CASE RunFlushFails(j)
  <2>1. RunOK([Miscounted(j) EXCEPT !.inserted = {}, !.poisoned = TRUE])
    <3>1. RunOK(Miscounted(j))
      BY RunShapes, <1>0
    <3>2. Miscounted(j).pc = "progressRead"
      BY <1>0 DEF Miscounted, RunOK, Run
    <3> QED BY <3>1, <3>2 DEF RunOK, Run
  <2> QED BY <1>9, <2>1, RunUpdate DEF RunFlushFails, TypeInv, TypeOK, WellFormed
<1>10. CASE RunProgressRead(j)
  <2>1. RunOK([run[j] EXCEPT
                 !.pc = IF state[j] = NoState THEN "next" ELSE "progressPut",
                 !.entity = NoEntity, !.copy = state[j]])
    <3>1. state[j] # NoState => state[j] \in Progress
      BY <1>0 DEF MaybeProgress
    <3>2. CASE state[j] = NoState
      BY <3>2, <1>0 DEF RunOK, Run, RunPc
    <3>3. CASE state[j] # NoState
      BY <3>1, <3>3, <1>0 DEF RunOK, Run, RunPc
    <3> QED BY <3>2, <3>3
  <2> QED BY <1>10, <2>1, RunUpdate DEF RunProgressRead, TypeInv, TypeOK, WellFormed
<1>11. CASE RunProgressPut(j)
  <2>1. RunOK([run[j] EXCEPT !.pc = "next", !.copy = NoState])
    BY <1>0 DEF RunOK, Run, RunPc
  <2>2. [run[j].copy EXCEPT !.processed = run[j].processed, !.errors = run[j].errors]
          \in MaybeProgress
    BY <1>0, <1>11 DEF RunProgressPut, RunOK, Run, Progress, MaybeProgress
  <2>3. state' \in [Jobs -> MaybeProgress]
    BY <1>11, <2>2 DEF RunProgressPut, TypeInv, TypeOK
  <2> QED BY <1>11, <2>1, <2>3, RunUpdate DEF RunProgressPut, TypeInv, TypeOK, WellFormed
<1>12. CASE RunCommit(j)
  <2>1. RunOK(Ending("failed")) /\ RunOK(Ending("completed"))
    BY RunShapes, <1>0 DEF Endings
  <2> QED BY <1>12, <1>0, <2>1, RunUpdate DEF RunCommit, Fail, Commit, TypeInv, TypeOK, WellFormed
<1>17. CASE RunCancelExit(j)
  <2>1. RunOK(Ending("failed")) /\ RunOK([IdleRun EXCEPT !.pc = "return"])
    BY RunShapes, <1>0 DEF Endings
  <2> QED BY <1>17, <1>0, <2>1, RunUpdate DEF RunCancelExit, Fail, Commit, TypeInv, TypeOK, WellFormed
<1>13. CASE RunEndRead(j)
  <2>1. RunOK([run[j] EXCEPT
                 !.pc = IF state[j] = NoState THEN AfterPut(j) ELSE "endPut",
                 !.copy = state[j]])
    BY <1>0, <1>13 DEF RunEndRead, RunOK, Run, RunPc, AfterPut
  <2> QED BY <1>13, <2>1, RunUpdate DEF RunEndRead, TypeInv, TypeOK, WellFormed
<1>14. CASE RunEndPut(j)
  <2>1. RunOK([run[j] EXCEPT !.pc = AfterPut(j), !.copy = NoState])
    BY <1>0, <1>14 DEF RunEndPut, RunOK, Run, RunPc, AfterPut
  <2>2. run[j].ending \in Endings
    BY <1>0, <1>14 DEF RunEndPut, RunOK
  <2>3. state' \in [Jobs -> MaybeProgress]
    BY <1>0, <1>14, <2>2 DEF RunEndPut, TypeInv, TypeOK, MaybeProgress
  <2> QED BY <1>14, <2>1, <2>3, RunUpdate DEF RunEndPut, TypeInv, TypeOK, WellFormed
<1>15. CASE RunCancelUnflag(j)
  <2>1. RunOK([run[j] EXCEPT !.pc = "endTell"])
    BY <1>0, <1>15 DEF RunCancelUnflag, RunOK, Run, RunPc, Endings
  <2> QED BY <1>15, <2>1, RunUpdate DEF RunCancelUnflag, Go, Unflag, TypeInv, TypeOK, WellFormed
<1>16. CASE RunTell(j)
  <2>1. /\ RunOK([run[j] EXCEPT !.pc = IF run[j].ending = "cancelled"
                                          THEN "cancelExit" ELSE "return"])
        /\ run[j].ending \in Endings
    BY <1>0, <1>16 DEF RunTell, RunOK, Run, RunPc
  <2> QED BY <1>16, <2>1, RunUpdate DEF RunTell, Go, Tell, TypeInv, TypeOK, WellFormed
<1>18. CASE RunReturn(j)
  <2>1. RunOK(IdleRun)
    BY RunShapes, <1>0
  <2> QED BY <1>18, <2>1, RunUpdate DEF RunReturn, Finish, TypeInv, TypeOK, WellFormed
<1>21. CASE RunEscapes(j)
  <2>1. RunOK(IdleRun)
    BY RunShapes, <1>0
  <2> QED BY <1>21, <2>1, RunUpdate DEF RunEscapes, Finish, TypeInv, TypeOK, WellFormed
<1>22. CASE RunTimesOut(j)
  <2>1. RunOK(IdleRun)
    BY RunShapes, <1>0
  <2> QED BY <1>22, <2>1, RunUpdate DEF RunTimesOut, Finish, TypeInv, TypeOK, WellFormed
<1>23. CASE RunCrashes(j)
  <2>1. RunOK(IdleRun)
    BY RunShapes, <1>0
  <2> QED BY <1>23, <2>1, RunUpdate DEF RunCrashes, Finish, TypeInv, TypeOK, WellFormed
<1>19. CASE RunEmbeddingFails(j)
  <2>1. RunOK(Miscounted(j))
    BY RunShapes, <1>0
  <2> QED BY <1>19, <2>1, RunUpdate DEF RunEmbeddingFails, TypeInv, TypeOK, WellFormed
<1>20. CASE RunRaises(j)
  <2>1. RunOK(Ending("failed"))
    BY RunShapes, <1>0 DEF Endings
  <2> QED BY <1>20, <2>1, RunUpdate DEF RunRaises, Fail, TypeInv, TypeOK, WellFormed
<1> QED
  BY <1>1, <1>2, <1>3, <1>4, <1>5, <1>6, <1>7, <1>8, <1>9, <1>10, <1>11, <1>12, <1>13, <1>14, <1>15, <1>16, <1>17, <1>18, <1>19, <1>20, <1>21, <1>22, <1>23
     DEF RunStep, RunFault

\* ... and by everything around the reindex.
LEMMA TypeOutside ==
  ASSUME TypeInv,
         \/ \E j \in Jobs : Expire(j) \/ ExpireQueued(j)
         \/ \E e \in Entities : IndexOne(e) \/ RemoveOne(e)
         \/ UNCHANGED vars
  PROVE  TypeInv'
<1> USE ConstAssumption, NoStateTyped DEF TypeInv, TypeOK, WellFormed
<1>1. CASE \E j \in Jobs : Expire(j) \/ ExpireQueued(j)
  BY <1>1 DEF Expire, ExpireState, ExpireFlag, ExpireQueued, Unflag
<1>2. CASE \E e \in Entities : IndexOne(e) \/ RemoveOne(e)
  BY <1>2 DEF IndexOne, RemoveOne
<1>3. CASE UNCHANGED vars
  BY <1>3
<1> QED BY <1>1, <1>2, <1>3

LEMMA TypeStep == TypeInv /\ [Next]_vars => TypeInv'
BY TypeRequest, TypeRun, TypeOutside DEF Next

\* The Redis values, the queue and the locals of worker and requests always
\* have their types.
THEOREM TypeCorrect == Spec => []TypeOK
<1>1. Spec => []TypeInv
  BY TypeInit, TypeStep, PTL DEF Spec
<1> QED BY <1>1, PTL DEF TypeInv
-----------------------------------------------------------------------------
\* Telling adds one event, which may be a lost one.
LEMMA Telling ==
  ASSUME NEW j \in Jobs, NEW ending, Tell(j, ending)
  PROVE  \E event \in {ending, Lost} : told' = [told EXCEPT ![j] = @ \cup {event}]
BY DEF Tell

\* What a step of an administrator's request can do to the rest.
RequestEffect ==
  /\ UNCHANGED <<run, indexed, saved>>
  /\ \A j \in Jobs : /\ told[j] \subseteq told'[j]
                     /\ "completed" \in told'[j] => "completed" \in told[j]
  /\ \A j \in Jobs : \/ state'[j].status = state[j].status
                     \/ state'[j].status \in {"cancelling", "cancelled", "failed"}
                     \/ arq[j] = "new" /\ state'[j].status = "running"
  /\ \/ cancel \subseteq cancel' /\ UNCHANGED late
     \/ \E j \in Jobs : Unflag(j)

LEMMA RequestEffects ==
  ASSUME TypeInv, NEW a \in Admins, Arrive(a) \/ RequestStep(a) \/ RequestFault(a)
  PROVE  RequestEffect
<1> USE DEF RequestEffect
<1>0. /\ state \in [Jobs -> MaybeProgress]
      /\ told \in [Jobs -> SUBSET (Endings \cup {Lost})]
      /\ req[a].pc \notin {"idle", "startPut"} => req[a].job \in Jobs
      /\ req[a].copy \in MaybeProgress
  BY DEF TypeInv, TypeOK, WellFormed, ReqOK, Req
<1>1. CASE StartPut(a)
  BY <1>0, <1>1 DEF StartPut, NoState
<1>2. CASE EnqueueFailPut(a) \/ AskPut(a) \/ ForcePut(a)
  <2>1. \A s \in InProgress \cup Endings : [req[a].copy EXCEPT !.status = s].status = s
    BY <1>0 DEF MaybeProgress, Progress, NoState
  <2> QED BY <1>0, <1>2, <2>1 DEF EnqueueFailPut, AskPut, ForcePut, InProgress, Endings
<1>3. CASE EnqueueFailTell(a) \/ ForceTell(a)
  <2>1. req[a].job \in Jobs
    BY <1>0, <1>3 DEF EnqueueFailTell, ForceTell
  <2>2. PICK event \in {"failed", "cancelled", Lost} :
          told' = [told EXCEPT ![req[a].job] = @ \cup {event}]
    BY <1>3, <2>1, Telling DEF EnqueueFailTell, ForceTell
  <2>3. \A j \in Jobs : told[j] \subseteq told'[j]
                        /\ ("completed" \in told'[j] => "completed" \in told[j])
    BY <1>0, <2>2 DEF Lost
  <2> QED BY <1>3, <2>3 DEF EnqueueFailTell, ForceTell
<1>4. CASE ForceUnflag(a)
  BY <1>0, <1>4 DEF ForceUnflag, Unflag
<1>5. CASE Arrive(a) \/ StartReadState(a) \/ StartBound(a) \/ StartPoint(a) \/ Enqueue(a)
             \/ EnqueueFailRead(a) \/ RequestFault(a)
  BY <1>5 DEF Arrive, RequestFault, StartReadCurrent, CancelReadCurrent, StartReadState,
              StartBound, StartPoint, Enqueue, EnqueueFailRead, EnqueueFails, RequestLost
<1>6. CASE CancelReadState(a) \/ AskRead(a) \/ AskFlag(a) \/ ForceRead(a)
             \/ ForceReadCurrent(a) \/ ForceDelCurrent(a)
  BY <1>6 DEF CancelReadState, AskRead, AskFlag, ForceRead, ForceReadCurrent, ForceDelCurrent
<1> QED BY <1>1, <1>2, <1>3, <1>4, <1>5, <1>6 DEF RequestStep

\* What the other tasks and the expiry of keys can do to the rest.
OutsideStep == \/ \E j \in Jobs : Expire(j) \/ ExpireQueued(j)
               \/ \E e \in Entities : IndexOne(e) \/ RemoveOne(e)
               \/ UNCHANGED vars

LEMMA OutsideEffects ==
  ASSUME TypeInv, OutsideStep
  PROVE  /\ UNCHANGED <<run, req, saved, told>>
         /\ \A j \in Jobs : state'[j] \in {state[j], NoState}
         /\ \A j \in Jobs : arq'[j] = arq[j] \/ (arq[j] = "queued" /\ arq'[j] = "dead")
         /\ UNCHANGED <<cancel, late>> \/ \E j \in Jobs : Unflag(j)
BY DEF TypeInv, TypeOK, OutsideStep, Expire, ExpireState, ExpireFlag, ExpireQueued,
       IndexOne, RemoveOne

\* The fields the properties look at, after the worker's steps that neither
\* write the job's state nor publish nor commit.
Quiet(j) ==
  /\ UNCHANGED <<state, told, saved>>
  /\ \A k \in Jobs \ {j} : run'[k] = run[k]
  /\ run'[j].ending \in {run[j].ending, "none", "failed", "cancelled"}
  /\ run'[j].copy \in {run[j].copy, NoState, state[j]}
  /\ run'[j].pc = "index" => run[j].pc = "index" \/ j \notin cancel
  /\ indexed' = indexed
  /\ RunInsert(j) \/ run'[j].inserted \in {run[j].inserted, {}}

LEMMA RunFields ==
  ASSUME NEW j \in Jobs, run[j] \in Run
  PROVE  /\ \A pc : /\ [run[j] EXCEPT !.pc = pc].pc = pc
                    /\ [run[j] EXCEPT !.pc = pc].ending = run[j].ending
                    /\ [run[j] EXCEPT !.pc = pc].copy = run[j].copy
                    /\ [run[j] EXCEPT !.pc = pc].inserted = run[j].inserted
         /\ \A r \in {Counted(j), Miscounted(j)} :
              /\ r \in Run
              /\ r.pc = "progressRead"
              /\ r.ending = run[j].ending
              /\ r.copy = run[j].copy
              /\ r.inserted = run[j].inserted
         /\ \A ending : /\ Ending(ending).pc = "endRead"
                        /\ Ending(ending).ending = ending
                        /\ Ending(ending).copy = NoState
                        /\ Ending(ending).inserted = {}
<1>1. /\ run[j].processed + 1 \in Nat /\ run[j].errors + 1 \in Nat
  BY DEF Run
<1>2. \A pc : /\ [run[j] EXCEPT !.pc = pc].pc = pc
              /\ [run[j] EXCEPT !.pc = pc].ending = run[j].ending
              /\ [run[j] EXCEPT !.pc = pc].copy = run[j].copy
              /\ [run[j] EXCEPT !.pc = pc].inserted = run[j].inserted
  BY DEF Run
<1>3. /\ Counted(j) \in Run /\ Miscounted(j) \in Run
      /\ Counted(j).pc = "progressRead" /\ Miscounted(j).pc = "progressRead"
  BY <1>1 DEF Counted, Miscounted, Run, RunPc
<1>4. /\ Counted(j).ending = run[j].ending /\ Miscounted(j).ending = run[j].ending
      /\ Counted(j).copy = run[j].copy /\ Miscounted(j).copy = run[j].copy
      /\ Counted(j).inserted = run[j].inserted /\ Miscounted(j).inserted = run[j].inserted
  BY DEF Counted, Miscounted, Run
<1>5. \A ending : /\ Ending(ending).pc = "endRead"
                  /\ Ending(ending).ending = ending
                  /\ Ending(ending).copy = NoState
                  /\ Ending(ending).inserted = {}
  BY DEF Ending, IdleRun
<1> QED BY <1>2, <1>3, <1>4, <1>5

LEMMA IndexFields ==
  ASSUME NEW j \in Jobs, run[j] \in Run,
         NEW r \in {Counted(j), Miscounted(j), [run[j] EXCEPT !.pc = "flush"]}
  PROVE  /\ r.pc \in {"progressRead", "flush"}
         /\ r.ending = run[j].ending
         /\ r.copy = run[j].copy
         /\ r.inserted = run[j].inserted
<1>1. CASE r = Counted(j)
  BY <1>1, RunFields
<1>2. CASE r = Miscounted(j)
  BY <1>2, RunFields
<1>3. CASE r = [run[j] EXCEPT !.pc = "flush"]
  BY <1>3 DEF Run
<1> QED BY <1>1, <1>2, <1>3

QuietStep(j) ==
  \/ RunStart(j) \/ RunExhausted(j) \/ RunConfigure(j) \/ RunList(j) \/ RunNextType(j)
  \/ RunCheckCancel(j) \/ RunIndex(j) \/ RunInsert(j) \/ RunFlushFails(j)
  \/ RunEmbeddingFails(j) \/ RunProgressRead(j) \/ RunEndRead(j) \/ RunCancelUnflag(j)
  \/ RunReturn(j) \/ RunRaises(j) \/ RunEscapes(j) \/ RunTimesOut(j) \/ RunCrashes(j)

LEMMA QuietSteps ==
  ASSUME TypeInv, NEW j \in Jobs, QuietStep(j)
  PROVE  Quiet(j)
<1> USE DEF Quiet, Becomes
<1>0. run \in [Jobs -> Run] /\ run[j] \in Run
  BY DEF TypeInv, TypeOK
<1>1. CASE RunStart(j) \/ RunReturn(j) \/ RunEscapes(j) \/ RunTimesOut(j) \/ RunCrashes(j)
  BY <1>0, <1>1 DEF RunStart, RunReturn, RunEscapes, RunTimesOut, RunCrashes, Finish, IdleRun
<1>2. CASE RunExhausted(j)
  BY <1>0, <1>2 DEF RunExhausted
<1>3. CASE RunConfigure(j)
  <2>1. CASE Fail(j)
    BY <1>0, <1>3, <2>1, RunFields DEF RunConfigure, Fail
  <2>2. CASE Go(j, "list")
    BY <1>0, <1>3, <2>2, RunFields DEF RunConfigure, Go
  <2> QED BY <1>3, <2>1, <2>2 DEF RunConfigure
<1>4. CASE RunRaises(j)
  BY <1>0, <1>4, RunFields DEF RunRaises, Fail
<1>5. CASE RunList(j)
  <2>1. UNCHANGED <<state, told, saved, indexed>>
    BY <1>5 DEF RunList
  <2>2. CASE run[j].poisoned
    BY <1>0, <1>5, <2>1, <2>2, RunFields DEF RunList, Fail
  <2>3. CASE ~ run[j].poisoned
    <3>1. PICK T : Becomes(j, [run[j] EXCEPT !.pc = "next", !.todo = T])
      BY <1>5, <2>3 DEF RunList
    <3> QED BY <1>0, <2>1, <3>1 DEF Run
  <2> QED BY <2>2, <2>3
<1>6. CASE RunNextType(j)
  <2>1. CASE Go(j, "commit")
    BY <1>0, <1>6, <2>1, RunFields DEF RunNextType, Go
  <2>2. CASE Becomes(j, [run[j] EXCEPT !.pc = "list", !.type = run[j].type + 1])
    BY <1>0, <1>6, <2>2 DEF RunNextType, Run
  <2> QED BY <1>6, <2>1, <2>2 DEF RunNextType
<1>7. CASE RunCheckCancel(j)
  <2>1. CASE j \in cancel
    <3>1. Becomes(j, [run[j] EXCEPT !.pc = "endRead", !.ending = "cancelled"])
      BY <1>7, <2>1 DEF RunCheckCancel
    <3>2. UNCHANGED <<state, told, saved, indexed>>
      BY <1>7 DEF RunCheckCancel
    <3> QED BY <1>0, <3>1, <3>2 DEF Run
  <2>2. CASE j \notin cancel
    <3>1. PICK e \in run[j].todo :
            Becomes(j, [run[j] EXCEPT !.pc = "index", !.entity = e, !.todo = run[j].todo \ {e}])
      BY <1>7, <2>2 DEF RunCheckCancel
    <3> QED BY <1>0, <1>7, <2>2, <3>1 DEF RunCheckCancel, Run
  <2> QED BY <2>1, <2>2
<1>8. CASE RunIndex(j)
  <2>1. UNCHANGED <<state, told, saved, indexed>>
    BY <1>8 DEF RunIndex
  <2>2. PICK r \in {Counted(j), Miscounted(j), [run[j] EXCEPT !.pc = "flush"]} : Becomes(j, r)
    BY <1>8 DEF RunIndex, Go
  <2>3. /\ r.pc # "index" /\ r.ending = run[j].ending /\ r.copy = run[j].copy
        /\ r.inserted = run[j].inserted
    BY <1>0, <2>2, IndexFields
  <2> QED BY <1>0, <2>1, <2>2, <2>3
<1>9. CASE RunInsert(j)
  BY <1>0, <1>9, RunFields DEF RunInsert, Run
<1>10. CASE RunFlushFails(j)
  BY <1>0, <1>10, RunFields DEF RunFlushFails, Run
<1>11. CASE RunEmbeddingFails(j)
  BY <1>0, <1>11, RunFields DEF RunEmbeddingFails
<1>12. CASE RunProgressRead(j)
  BY <1>0, <1>12 DEF RunProgressRead, Run
<1>13. CASE RunEndRead(j)
  BY <1>0, <1>13 DEF RunEndRead, AfterPut, Run
<1>14. CASE RunCancelUnflag(j)
  BY <1>0, <1>14, RunFields DEF RunCancelUnflag, Go
<1> QED BY <1>1, <1>2, <1>3, <1>4, <1>5, <1>6, <1>7, <1>8, <1>9, <1>10, <1>11,
           <1>12, <1>13, <1>14 DEF QuietStep

-----------------------------------------------------------------------------
\* "completed" in the job's record, in its event, in the copy the worker holds
\* or as the ending it is about to record: each only after the commit.
Durable ==
  /\ CompletedIsDurable
  /\ \A j \in Jobs :
       run[j].ending = "completed" \/ run[j].copy.status = "completed" => j \in saved

LEMMA DurableRun ==
  ASSUME TypeInv, Durable, NEW j \in Jobs, RunStep(j) \/ RunFault(j)
  PROVE  Durable'
<1> USE DEF Durable, CompletedIsDurable
<1>0. /\ run \in [Jobs -> Run] /\ state \in [Jobs -> MaybeProgress]
      /\ told \in [Jobs -> SUBSET (Endings \cup {Lost})] /\ run[j] \in Run
  BY DEF TypeInv, TypeOK
<1>1. IdleRun.ending # "completed" /\ IdleRun.copy.status # "completed"
  BY DEF IdleRun, NoState
<1>2. \A ending \in Endings : /\ Ending(ending).ending = ending
                              /\ Ending(ending).copy.status # "completed"
  BY DEF Ending, IdleRun, NoState
<1>3. CASE QuietStep(j)
  <2>1. Quiet(j)
    BY <1>3, QuietSteps
  <2> QED BY <1>0, <2>1 DEF Quiet, NoState
<1>4. CASE RunProgressPut(j)
  BY <1>0, <1>4 DEF RunProgressPut, Becomes, NoState, Run, MaybeProgress, Progress
<1>5. CASE RunCommit(j) \/ RunCancelExit(j)
  BY <1>0, <1>1, <1>2, <1>5 DEF RunCommit, RunCancelExit, Commit, Fail, Becomes, Endings
<1>6. CASE RunEndPut(j)
  BY <1>0, <1>6 DEF RunEndPut, Becomes, NoState, Run, MaybeProgress, Progress
<1>7. CASE RunTell(j)
  <2>1. PICK event \in {run[j].ending, Lost} : told' = [told EXCEPT ![j] = @ \cup {event}]
    BY <1>7, Telling DEF RunTell
  <2>2. \A k \in Jobs : "completed" \in told'[k] => k \in saved
    BY <1>0, <2>1 DEF Lost
  <2>3. UNCHANGED <<state, saved>>
    BY <1>7 DEF RunTell
  <2>4. \A k \in Jobs : run'[k].ending = run[k].ending /\ run'[k].copy = run[k].copy
    BY <1>0, <1>7 DEF RunTell, Go, Becomes, Run
  <2> QED BY <2>2, <2>3, <2>4
<1> QED BY <1>3, <1>4, <1>5, <1>6, <1>7 DEF RunStep, RunFault, QuietStep

LEMMA DurableStep == TypeInv /\ Durable /\ [Next]_vars => Durable'
<1> SUFFICES ASSUME TypeInv, Durable, [Next]_vars PROVE Durable'
  OBVIOUS
<1> USE DEF Durable, CompletedIsDurable
<1>1. CASE \E a \in Admins : Arrive(a) \/ RequestStep(a) \/ RequestFault(a)
  BY <1>1, RequestEffects DEF RequestEffect
<1>2. CASE \E j \in Jobs : RunStep(j) \/ RunFault(j)
  BY <1>2, DurableRun
<1>3. CASE OutsideStep
  BY <1>3, OutsideEffects DEF NoState
<1> QED BY <1>1, <1>2, <1>3 DEF Next, OutsideStep

\* A job reports "completed" only after its transaction has committed.
THEOREM DurableCompletion == Spec => []CompletedIsDurable
<1>1. Init => Durable
  BY DEF Init, Durable, CompletedIsDurable, IdleRun, NoState
<1>2. Spec => [](TypeInv /\ Durable)
  BY <1>1, TypeInit, TypeStep, DurableStep, PTL DEF Spec
<1> QED BY <1>2, PTL DEF Durable

-----------------------------------------------------------------------------
\* The count of entities begun under the cancel flag, with the place where
\* the worker has already looked at the flag.
Boundary ==
  /\ CancelBoundary
  /\ \A j \in Jobs : j \notin cancel => late[j] = 0
  /\ \A j \in Jobs : run[j].pc = "index" => late[j] = 0

LEMMA BoundaryRun ==
  ASSUME TypeInv, Boundary, NEW j \in Jobs, RunStep(j) \/ RunFault(j)
  PROVE  Boundary'
<1> USE DEF Boundary, CancelBoundary
<1>0. /\ run \in [Jobs -> Run] /\ late \in [Jobs -> Nat] /\ run[j] \in Run
  BY DEF TypeInv, TypeOK
<1>1. CASE RunIndex(j)
  <2>1. PICK r \in {Counted(j), Miscounted(j), [run[j] EXCEPT !.pc = "flush"]} : Becomes(j, r)
    BY <1>1 DEF RunIndex, Go
  <2>2. r.pc # "index"
    BY <1>0, <2>1, IndexFields
  <2>3. late' = [late EXCEPT ![j] = IF j \in cancel THEN late[j] + 1 ELSE late[j]] /\ late[j] = 0
    BY <1>1 DEF RunIndex
  <2>4. cancel' = cancel
    BY <1>1 DEF RunIndex
  <2>5. \A k \in Jobs : /\ late'[k] <= 1 /\ (k \notin cancel => late'[k] = 0)
                        /\ k # j => late'[k] = late[k]
    BY <1>0, <2>3
  <2> QED BY <1>0, <2>1, <2>2, <2>4, <2>5 DEF Becomes
<1>2. CASE RunCancelUnflag(j)
  BY <1>0, <1>2, RunFields DEF RunCancelUnflag, Unflag, Go, Becomes
<1>3. CASE QuietStep(j) /\ UNCHANGED <<cancel, late>>
  <2>1. Quiet(j)
    BY <1>3, QuietSteps
  <2> QED BY <1>0, <1>3, <2>1 DEF Quiet
<1>4. QuietStep(j) /\ ~ RunIndex(j) /\ ~ RunCancelUnflag(j) => UNCHANGED <<cancel, late>>
  BY DEF QuietStep, RunStart, RunExhausted, RunConfigure, RunList, RunNextType, RunCheckCancel,
         RunInsert, RunFlushFails, RunEmbeddingFails, RunProgressRead, RunEndRead, RunReturn,
         RunRaises, RunEscapes, RunTimesOut, RunCrashes
<1>5. CASE RunProgressPut(j) \/ RunEndPut(j)
  BY <1>0, <1>5 DEF RunProgressPut, RunEndPut, AfterPut, Becomes, Run
<1>6. CASE RunTell(j)
  BY <1>0, <1>6, RunFields DEF RunTell, Go, Becomes
<1>7. CASE RunCommit(j) \/ RunCancelExit(j)
  <2>1. [IdleRun EXCEPT !.pc = "return"].pc = "return"
    BY DEF IdleRun
  <2>2. \A ending : Ending(ending).pc = "endRead"
    BY <1>0, RunFields
  <2>3. run'[j].pc # "index" /\ \A k \in Jobs \ {j} : run'[k] = run[k]
    BY <1>0, <1>7, <2>1, <2>2 DEF RunCommit, RunCancelExit, Fail, Becomes
  <2> QED BY <1>0, <1>7, <2>3 DEF RunCommit, RunCancelExit
<1> QED BY <1>1, <1>2, <1>3, <1>4, <1>5, <1>6, <1>7 DEF RunStep, RunFault, QuietStep

LEMMA BoundaryStep == TypeInv /\ Boundary /\ [Next]_vars => Boundary'
<1> SUFFICES ASSUME TypeInv, Boundary, [Next]_vars PROVE Boundary'
  OBVIOUS
<1>0. late \in [Jobs -> Nat]
  BY DEF TypeInv, TypeOK
<1> USE DEF Boundary, CancelBoundary
<1>1. CASE \E a \in Admins : Arrive(a) \/ RequestStep(a) \/ RequestFault(a)
  BY <1>0, <1>1, RequestEffects DEF RequestEffect, Unflag
<1>2. CASE \E j \in Jobs : RunStep(j) \/ RunFault(j)
  BY <1>2, BoundaryRun
<1>3. CASE OutsideStep
  BY <1>0, <1>3, OutsideEffects DEF Unflag
<1> QED BY <1>1, <1>2, <1>3 DEF Next, OutsideStep

\* After a cancellation has been requested, at most one more entity is begun.
THEOREM CancellationStops == Spec => []CancelBoundary
<1>1. Init => Boundary
  BY DEF Init, Boundary, CancelBoundary
<1>2. Spec => [](TypeInv /\ Boundary)
  BY <1>1, TypeInit, TypeStep, BoundaryStep, PTL DEF Spec
<1> QED BY <1>2, PTL DEF Boundary

-----------------------------------------------------------------------------
\* A row about to be inserted is not already among the run's own rows.
Fresh == \A j \in Jobs : run[j].pc = "flush" => run[j].entity \notin run[j].inserted

LEMMA FreshRun ==
  ASSUME TypeInv, Fresh, NEW j \in Jobs, RunStep(j) \/ RunFault(j)
  PROVE  Fresh'
<1>0. run \in [Jobs -> Run] /\ run[j] \in Run
  BY DEF TypeInv, TypeOK
<1>1. CASE RunIndex(j)
  <2>1. CASE Go(j, "flush") /\ run[j].entity \notin Visible(j)
    BY <1>0, <2>1 DEF Go, Becomes, Visible, Fresh, Run
  <2>2. CASE Becomes(j, Counted(j)) \/ Becomes(j, Miscounted(j))
    BY <1>0, <2>2, RunFields DEF Becomes, Fresh
  <2> QED BY <1>1, <2>1, <2>2 DEF RunIndex
<1>2. CASE run'[j].pc # "flush" /\ \A k \in Jobs \ {j} : run'[k] = run[k]
  BY <1>2 DEF Fresh
<1>3. CASE RunExhausted(j)
  BY <1>3 DEF RunExhausted, Fresh
<1>4. CASE RunStart(j) \/ RunReturn(j) \/ RunEscapes(j) \/ RunTimesOut(j) \/ RunCrashes(j)
  BY <1>0, <1>2, <1>4
     DEF RunStart, RunReturn, RunEscapes, RunTimesOut, RunCrashes, Finish, Becomes, IdleRun
<1>5. CASE RunConfigure(j)
  <2>1. CASE Fail(j)
    BY <1>0, <1>2, <2>1, RunFields DEF Fail, Becomes
  <2>2. CASE Go(j, "list")
    BY <1>0, <1>2, <2>2, RunFields DEF Go, Becomes
  <2> QED BY <1>5, <2>1, <2>2 DEF RunConfigure
<1>6. CASE RunRaises(j)
  BY <1>0, <1>2, <1>6, RunFields DEF RunRaises, Fail, Becomes
<1>7. CASE RunList(j)
  <2>1. CASE run[j].poisoned
    BY <1>0, <1>2, <1>7, <2>1, RunFields DEF RunList, Fail, Becomes
  <2>2. CASE ~ run[j].poisoned
    BY <1>0, <1>2, <1>7, <2>2 DEF RunList, Becomes, Run
  <2> QED BY <2>1, <2>2
<1>8. CASE RunNextType(j)
  <2>1. CASE Go(j, "commit")
    BY <1>0, <1>2, <2>1, RunFields DEF Go, Becomes
  <2>2. CASE Becomes(j, [run[j] EXCEPT !.pc = "list", !.type = run[j].type + 1])
    BY <1>0, <1>2, <2>2 DEF Becomes, Run
  <2> QED BY <1>8, <2>1, <2>2 DEF RunNextType
<1>9. CASE RunCheckCancel(j)
  <2>1. CASE Becomes(j, [run[j] EXCEPT !.pc = "endRead", !.ending = "cancelled"])
    BY <1>0, <1>2, <2>1 DEF Becomes, Run
  <2>2. ASSUME NEW e \in run[j].todo,
               Becomes(j, [run[j] EXCEPT !.pc = "index", !.entity = e, !.todo = run[j].todo \ {e}])
        PROVE  Fresh'
    BY <1>0, <1>2, <2>2 DEF Becomes, Run
  <2> QED BY <1>9, <2>1, <2>2 DEF RunCheckCancel
<1>10. CASE RunInsert(j)
  BY <1>0, <1>2, <1>10, RunFields DEF RunInsert, Becomes, Run
<1>11. CASE RunFlushFails(j)
  BY <1>0, <1>2, <1>11, RunFields DEF RunFlushFails, Becomes, Run
<1>12. CASE RunEmbeddingFails(j)
  BY <1>0, <1>2, <1>12, RunFields DEF RunEmbeddingFails, Becomes
<1>13. CASE RunProgressRead(j) \/ RunProgressPut(j)
  BY <1>0, <1>2, <1>13 DEF RunProgressRead, RunProgressPut, Becomes, Run
<1>14. CASE RunEndRead(j) \/ RunEndPut(j)
  BY <1>0, <1>2, <1>14 DEF RunEndRead, RunEndPut, AfterPut, Becomes, Run
<1>15. CASE RunCancelUnflag(j) \/ RunTell(j)
  <2>1. PICK pc \in {"endTell", "cancelExit", "return"} : Go(j, pc)
    BY <1>15 DEF RunCancelUnflag, RunTell
  <2> QED BY <1>0, <1>2, <2>1, RunFields DEF Go, Becomes
<1>16. CASE RunCommit(j) \/ RunCancelExit(j)
  <2>1. [IdleRun EXCEPT !.pc = "return"].pc = "return"
    BY DEF IdleRun
  <2>2. \A ending : Ending(ending).pc = "endRead"
    BY <1>0, RunFields
  <2> QED BY <1>0, <1>2, <1>16, <2>1, <2>2 DEF RunCommit, RunCancelExit, Fail, Becomes
<1> QED BY <1>1, <1>3, <1>4, <1>5, <1>6, <1>7, <1>8, <1>9, <1>10, <1>11, <1>12,
           <1>13, <1>14, <1>15, <1>16 DEF RunStep, RunFault

LEMMA FreshStep == TypeInv /\ Fresh /\ [Next]_vars => Fresh'
<1> SUFFICES ASSUME TypeInv, Fresh, [Next]_vars PROVE Fresh'
  OBVIOUS
<1>1. CASE \E a \in Admins : Arrive(a) \/ RequestStep(a) \/ RequestFault(a)
  BY <1>1, RequestEffects DEF RequestEffect, Fresh
<1>2. CASE \E j \in Jobs : RunStep(j) \/ RunFault(j)
  BY <1>2, FreshRun
<1>3. CASE OutsideStep
  BY <1>3, OutsideEffects DEF Fresh
<1> QED BY <1>1, <1>2, <1>3 DEF Next, OutsideStep

-----------------------------------------------------------------------------
\* The steps of ReindexContract, on the rows the runs hold.
Batch == [j \in Jobs |-> run[j].inserted]

\* Only run j's rows change, and they become B.
LEMMA BatchUpdate ==
  ASSUME TypeInv, NEW j \in Jobs, NEW B,
         \A k \in Jobs \ {j} : run'[k] = run[k], run'[j].inserted = B
  PROVE  Batch' = [Batch EXCEPT ![j] = B]
BY DEF Batch

\* A worker's step that keeps or drops its rows and touches nothing else.
LEMMA KeepOrLose ==
  ASSUME TypeInv, NEW j \in Jobs, UNCHANGED <<indexed, saved, told>>,
         \A k \in Jobs \ {j} : run'[k] = run[k],
         run'[j].inserted \in {run[j].inserted, {}}
  PROVE  [Contract!Next]_(Contract!cvars)
<1>1. CASE run'[j].inserted = run[j].inserted
  BY <1>1 DEF Contract!cvars
<1>2. CASE run'[j].inserted = {}
  <2>1. Contract!Lose(j)
    BY <1>2, BatchUpdate DEF Contract!Lose, Batch
  <2> QED BY <2>1 DEF Contract!Next
<1> QED BY <1>1, <1>2

\* The row written was not there: not committed, not held by another run, and,
\* being about to be flushed, not among the run's own.
LEMMA InsertWrites ==
  ASSUME TypeInv, Fresh, NEW j \in Jobs, RunInsert(j)
  PROVE  Contract!Write(j)
<1> DEFINE e == run[j].entity
<1>1. /\ run \in [Jobs -> Run] /\ run[j] \in Run /\ e \in Entities
  BY DEF TypeInv, TypeOK, WellFormed, RunOK, RunInsert
<1>2. e \notin indexed /\ \A k \in Jobs : e \notin run[k].inserted
  BY DEF RunInsert, HeldByOthers, Fresh
<1>3. e \notin Contract!Held
  BY <1>2 DEF Contract!Held
<1>4. Batch' = [Batch EXCEPT ![j] = run[j].inserted \cup {e}]
  <2>1. [Counted(j) EXCEPT !.inserted = run[j].inserted \cup {e}].inserted = run[j].inserted \cup {e}
    BY <1>1, RunFields DEF Run
  <2>2. /\ run'[j].inserted = run[j].inserted \cup {e}
        /\ \A k \in Jobs \ {j} : run'[k] = run[k]
    BY <1>1, <2>1 DEF RunInsert, Becomes
  <2> QED BY <2>2, BatchUpdate
<1> QED BY <1>1, <1>2, <1>3, <1>4 DEF Contract!Write, Batch, RunInsert

LEMMA CommitSaves ==
  ASSUME TypeInv, NEW j \in Jobs, RunCommit(j) \/ RunCancelExit(j)
  PROVE  [Contract!Next]_(Contract!cvars)
<1>0. run \in [Jobs -> Run] /\ run[j] \in Run
  BY DEF TypeInv, TypeOK
<1>1. CASE run[j].poisoned
  BY <1>0, <1>1, RunFields, KeepOrLose DEF RunCommit, RunCancelExit, Fail, Becomes
<1>2. CASE ~ run[j].poisoned
  <2>1. PICK r \in {Ending("completed"), Ending("failed"), [IdleRun EXCEPT !.pc = "return"]} :
          Becomes(j, r)
    BY <1>2 DEF RunCommit, RunCancelExit, Fail
  <2>2. r.inserted = {}
    BY <1>0, <2>1 DEF Ending, IdleRun
  <2>3. Batch' = [Batch EXCEPT ![j] = {}]
    BY <1>0, <2>1, <2>2, BatchUpdate DEF Becomes
  <2>4. Contract!Save(j)
    BY <1>2, <2>3 DEF RunCommit, RunCancelExit, Commit, Contract!Save, Batch
  <2> QED BY <2>4 DEF Contract!Next
<1> QED BY <1>1, <1>2

LEMMA WorkerImplements ==
  ASSUME TypeInv, Durable, Fresh, NEW j \in Jobs, RunStep(j) \/ RunFault(j)
  PROVE  [Contract!Next]_(Contract!cvars)
<1>0. /\ run \in [Jobs -> Run] /\ run[j] \in Run
      /\ run[j].pc = "endTell" => run[j].ending \in Endings
  BY DEF TypeInv, TypeOK, WellFormed, RunOK
<1>1. CASE RunInsert(j)
  BY <1>1, InsertWrites DEF Contract!Next
<1>2. CASE QuietStep(j) /\ ~ RunInsert(j)
  BY <1>2, QuietSteps, KeepOrLose DEF Quiet
<1>3. CASE RunProgressPut(j) \/ RunEndPut(j)
  <2>1. /\ run'[j].inserted = run[j].inserted
        /\ \A k \in Jobs \ {j} : run'[k] = run[k]
    BY <1>0, <1>3 DEF RunProgressPut, RunEndPut, Becomes, Run
  <2> QED BY <1>3, <2>1, KeepOrLose DEF RunProgressPut, RunEndPut
<1>4. CASE RunCommit(j) \/ RunCancelExit(j)
  BY <1>4, CommitSaves
<1>5. CASE RunTell(j)
  <2>1. PICK pc : Go(j, pc)
    BY <1>5 DEF RunTell
  <2>2. Batch' = [Batch EXCEPT ![j] = run[j].inserted]
    BY <1>0, <2>1, RunFields, BatchUpdate DEF Go, Becomes
  <2>3. PICK event \in {run[j].ending, Lost} : told' = [told EXCEPT ![j] = @ \cup {event}]
    BY <1>5, Telling DEF RunTell
  <2>4. /\ event \in Contract!Endings \cup {"lost"}
        /\ event = "completed" => j \in saved
    BY <1>0, <1>5, <2>3 DEF RunTell, Contract!Endings, Endings, Lost, Durable
  <2>5. Contract!Tell(j)
    BY <1>0, <1>5, <2>2, <2>3, <2>4 DEF RunTell, Contract!Tell, Batch
  <2> QED BY <2>5 DEF Contract!Next
<1> QED BY <1>1, <1>2, <1>3, <1>4, <1>5 DEF RunStep, RunFault, QuietStep

LEMMA RequestImplements ==
  ASSUME TypeInv, NEW a \in Admins, Arrive(a) \/ RequestStep(a) \/ RequestFault(a)
  PROVE  [Contract!Next]_(Contract!cvars)
<1>1. UNCHANGED <<run, indexed, saved>>
  BY RequestEffects DEF RequestEffect
<1>2. CASE EnqueueFailTell(a) \/ ForceTell(a)
  <2>1. req[a].job \in Jobs
    BY <1>2 DEF TypeInv, WellFormed, ReqOK, EnqueueFailTell, ForceTell
  <2>2. PICK event \in {"failed", "cancelled", Lost} :
          told' = [told EXCEPT ![req[a].job] = @ \cup {event}]
    BY <1>2, <2>1, Telling DEF EnqueueFailTell, ForceTell
  <2>3. event \in Contract!Endings \cup {"lost"} /\ event # "completed"
    BY DEF Lost, Contract!Endings
  <2>4. Contract!Tell(req[a].job)
    BY <1>1, <2>2, <2>3 DEF Contract!Tell
  <2> QED BY <2>1, <2>4 DEF Contract!Next
<1>3. CASE UNCHANGED told
  BY <1>1, <1>3 DEF Contract!cvars
<1> QED BY <1>2, <1>3 DEF Arrive, RequestStep, RequestFault, StartReadCurrent,
      CancelReadCurrent, StartReadState, StartPut, StartBound, StartPoint, Enqueue,
      EnqueueFailRead, EnqueueFailPut, EnqueueFails, RequestLost, CancelReadState,
      AskRead, AskFlag, AskPut, ForceRead, ForcePut, ForceReadCurrent,
      ForceDelCurrent, ForceUnflag

LEMMA OutsideImplements ==
  ASSUME TypeInv, OutsideStep
  PROVE  [Contract!Next]_(Contract!cvars)
<1>1. UNCHANGED <<run, saved, told>>
  BY OutsideEffects
<1>2. ASSUME NEW e \in Entities, IndexOne(e) PROVE Contract!IndexOne
  BY <1>1, <1>2 DEF IndexOne, Held, Contract!IndexOne, Contract!Held
<1>3. ASSUME NEW e \in Entities, RemoveOne(e) PROVE Contract!RemoveOne
  BY <1>1, <1>3 DEF RemoveOne, Contract!RemoveOne
<1>4. CASE UNCHANGED indexed
  BY <1>1, <1>4 DEF Contract!cvars
<1> QED BY <1>2, <1>3, <1>4
        DEF OutsideStep, Expire, ExpireState, ExpireFlag, ExpireQueued, Contract!Next

\* The reindex implements its contract: one row per entity, rows that become
\* visible together or not at all, no "completed" before the commit.
THEOREM Implementation == Spec => ContractSpec
<1>1. Init => Durable /\ Fresh /\ Contract!Init
  BY DEF Init, Durable, CompletedIsDurable, Fresh, IdleRun, NoState, Contract!Init
<1>2. TypeInv /\ Durable /\ Fresh /\ [Next]_vars => [Contract!Next]_(Contract!cvars)
  BY WorkerImplements, RequestImplements, OutsideImplements DEF Next, OutsideStep
<1>3. Spec => [](TypeInv /\ Durable /\ Fresh)
  BY <1>1, TypeInit, TypeStep, DurableStep, FreshStep, PTL DEF Spec
<1> QED BY <1>1, <1>2, <1>3, PTL DEF Spec, ContractSpec, Contract!Spec
-----------------------------------------------------------------------------
(***************************************************************************)
(* How a bulk reindex ends: it says so, it stays ended, and it has counted *)
(* no more than there is.  Each invariant follows a run through the steps  *)
(* of its ending.                                                          *)
(***************************************************************************)

\* The steps after the ending has been recorded.
Late == {"cancelUnflag", "endTell", "cancelExit", "return"}

\* The worker's steps up to the recording.
EarlyStep(j) ==
  \/ RunStart(j) \/ RunExhausted(j) \/ RunConfigure(j) \/ RunList(j) \/ RunNextType(j)
  \/ RunCheckCancel(j) \/ RunIndex(j) \/ RunInsert(j) \/ RunFlushFails(j)
  \/ RunEmbeddingFails(j) \/ RunProgressRead(j) \/ RunProgressPut(j) \/ RunCommit(j)
  \/ RunRaises(j) \/ RunEscapes(j) \/ RunTimesOut(j) \/ RunCrashes(j)

LateStep(j) == \/ RunEndRead(j) \/ RunEndPut(j) \/ RunCancelUnflag(j) \/ RunTell(j)
               \/ RunCancelExit(j) \/ RunReturn(j)

LEMMA WorkerSteps ==
  ASSUME NEW j \in Jobs, RunStep(j) \/ RunFault(j)
  PROVE  EarlyStep(j) \/ LateStep(j)
BY DEF RunStep, RunFault, EarlyStep, LateStep

\* A step of the worker on j leaves the other jobs and the requests alone.
LEMMA WorkerFrame ==
  ASSUME TypeInv, NEW j \in Jobs, EarlyStep(j) \/ LateStep(j)
  PROVE  /\ UNCHANGED <<req, current>>
         /\ \A k \in Jobs \ {j} : /\ run'[k] = run[k] /\ arq'[k] = arq[k]
                                  /\ told'[k] = told[k] /\ state'[k] = state[k]
         /\ told[j] \subseteq told'[j]
<1> USE DEF Becomes, Fail, Go, Finish, Tell
<1>0. /\ run \in [Jobs -> Run] /\ told \in [Jobs -> SUBSET (Endings \cup {Lost})]
      /\ state \in [Jobs -> MaybeProgress]
      /\ arq \in [Jobs -> {"new", "drawn", "queued", "running", "done", "dead"}]
  BY DEF TypeInv, TypeOK
<1>1. CASE RunStart(j) \/ RunExhausted(j) \/ RunConfigure(j) \/ RunList(j) \/ RunNextType(j)
             \/ RunCheckCancel(j)
  BY <1>0, <1>1 DEF RunStart, RunExhausted, RunConfigure, RunList, RunNextType, RunCheckCancel
<1>2. CASE RunIndex(j) \/ RunInsert(j) \/ RunFlushFails(j) \/ RunEmbeddingFails(j)
             \/ RunProgressRead(j) \/ RunProgressPut(j)
  BY <1>0, <1>2 DEF RunIndex, RunInsert, RunFlushFails, RunEmbeddingFails, RunProgressRead,
                    RunProgressPut
<1>3. CASE RunCommit(j) \/ RunRaises(j) \/ RunEscapes(j) \/ RunTimesOut(j) \/ RunCrashes(j)
  BY <1>0, <1>3 DEF RunCommit, RunRaises, RunEscapes, RunTimesOut, RunCrashes, Commit
<1>4. CASE LateStep(j)
  BY <1>0, <1>4 DEF LateStep, RunEndRead, RunEndPut, RunCancelUnflag, RunTell, RunCancelExit,
                    RunReturn, Unflag, Commit
<1> QED BY <1>1, <1>2, <1>3, <1>4 DEF EarlyStep

\* No early step leads past the recording.
LEMMA EarlyMoves ==
  ASSUME TypeInv, NEW j \in Jobs, EarlyStep(j)
  PROVE  run'[j].pc \in Late => run'[j] = run[j]
<1> USE DEF Becomes, Fail, Go, Finish, Late
<1>0. run \in [Jobs -> Run] /\ run[j] \in Run
  BY DEF TypeInv, TypeOK
<1>1. CASE RunStart(j) \/ RunExhausted(j) \/ RunEscapes(j) \/ RunTimesOut(j) \/ RunCrashes(j)
  BY <1>0, <1>1 DEF RunStart, RunExhausted, RunEscapes, RunTimesOut, RunCrashes, IdleRun
<1>2. CASE RunConfigure(j) \/ RunCommit(j) \/ RunRaises(j)
  <2>1. \/ Go(j, "list")
        \/ \E ending \in {"failed", "completed"} : Becomes(j, Ending(ending))
    BY <1>2 DEF RunConfigure, RunCommit, RunRaises
  <2>2. CASE Go(j, "list")
    BY <1>0, <2>2, RunFields
  <2>3. CASE \E ending \in {"failed", "completed"} : Becomes(j, Ending(ending))
    <3>1. PICK ending : Becomes(j, Ending(ending))
      BY <2>3
    <3> QED BY <1>0, <3>1, RunFields
  <2> QED BY <2>1, <2>2, <2>3
<1>3. CASE RunList(j)
  <2>1. CASE run[j].poisoned
    BY <1>0, <1>3, <2>1, RunFields DEF RunList
  <2>2. CASE ~run[j].poisoned
    <3>1. PICK T : run' = [run EXCEPT ![j] = [run[j] EXCEPT !.pc = "next", !.todo = T]]
      BY <1>3, <2>2 DEF RunList
    <3> QED BY <1>0, <3>1 DEF Run
  <2> QED BY <2>1, <2>2
<1>4. CASE RunNextType(j)
  <2>1. CASE Go(j, "commit")
    BY <1>0, <2>1, RunFields
  <2>2. CASE Becomes(j, [run[j] EXCEPT !.pc = "list", !.type = run[j].type + 1])
    BY <1>0, <2>2 DEF Run
  <2> QED BY <1>4, <2>1, <2>2 DEF RunNextType
<1>5. CASE RunCheckCancel(j)
  <2>1. \/ Becomes(j, [run[j] EXCEPT !.pc = "endRead", !.ending = "cancelled"])
        \/ \E e \in run[j].todo :
             Becomes(j, [run[j] EXCEPT !.pc = "index", !.entity = e, !.todo = run[j].todo \ {e}])
    BY <1>5 DEF RunCheckCancel
  <2>2. /\ [run[j] EXCEPT !.pc = "endRead", !.ending = "cancelled"].pc = "endRead"
        /\ \A e : [run[j] EXCEPT !.pc = "index", !.entity = e, !.todo = run[j].todo \ {e}].pc = "index"
    BY <1>0 DEF Run
  <2> QED BY <1>0, <2>1, <2>2
<1>6. CASE RunIndex(j)
  <2>1. PICK r \in {Counted(j), Miscounted(j), [run[j] EXCEPT !.pc = "flush"]} : Becomes(j, r)
    BY <1>6 DEF RunIndex
  <2> QED BY <1>0, <2>1, IndexFields
<1>7. CASE RunInsert(j) \/ RunFlushFails(j) \/ RunEmbeddingFails(j)
  <2>1. Counted(j) \in Run /\ Counted(j).pc = "progressRead"
        /\ Miscounted(j) \in Run /\ Miscounted(j).pc = "progressRead"
    BY <1>0, RunFields
  <2>2. /\ \A S : [Counted(j) EXCEPT !.inserted = S].pc = "progressRead"
        /\ [Miscounted(j) EXCEPT !.inserted = {}, !.poisoned = TRUE].pc = "progressRead"
    BY <2>1 DEF Run
  <2>3. \/ \E S : Becomes(j, [Counted(j) EXCEPT !.inserted = S])
        \/ Becomes(j, [Miscounted(j) EXCEPT !.inserted = {}, !.poisoned = TRUE])
        \/ Becomes(j, Miscounted(j))
    BY <1>7 DEF RunInsert, RunFlushFails, RunEmbeddingFails
  <2> QED BY <1>0, <2>1, <2>2, <2>3
<1>8. CASE RunProgressRead(j)
  BY <1>0, <1>8 DEF RunProgressRead, Run
<1>9. CASE RunProgressPut(j)
  BY <1>0, <1>9 DEF RunProgressPut, Run
<1> QED BY <1>1, <1>2, <1>3, <1>4, <1>5, <1>6, <1>7, <1>8, <1>9 DEF EarlyStep

LEMMA EarlyNotDone ==
  ASSUME TypeInv, NEW j \in Jobs, EarlyStep(j)
  PROVE  arq'[j] = "done" => arq[j] = "done"
<1>1. arq \in [Jobs -> {"new", "drawn", "queued", "running", "done", "dead"}]
  BY DEF TypeInv, TypeOK
<1> QED
  BY <1>1 DEF EarlyStep, RunStart, RunExhausted, RunConfigure, RunList, RunNextType,
     RunCheckCancel, RunIndex, RunInsert, RunFlushFails, RunEmbeddingFails, RunProgressRead,
     RunProgressPut, RunCommit, RunRaises, RunEscapes, RunTimesOut, RunCrashes, Finish

\* What the late steps do.
LEMMA LateMoves ==
  ASSUME TypeInv, NEW j \in Jobs, LateStep(j)
  PROVE  /\ RunEndRead(j) => run'[j].pc \in {"cancelUnflag", "endTell", "endPut"}
         /\ RunEndPut(j) => run'[j].pc \in {"cancelUnflag", "endTell"}
         /\ RunCancelUnflag(j) => run'[j].pc = "endTell"
         /\ RunTell(j) => run'[j].pc \in {"cancelExit", "return"}
         /\ RunCancelExit(j) => run'[j].pc \in {"endRead", "return"}
         /\ RunReturn(j) => run'[j].pc = "idle"
<1> USE DEF Becomes, Fail, Go, Finish, Late
<1>0. run \in [Jobs -> Run] /\ run[j] \in Run
  BY DEF TypeInv, TypeOK
<1>1. RunEndRead(j) => run'[j].pc \in {"cancelUnflag", "endTell", "endPut"}
  BY <1>0 DEF RunEndRead, AfterPut, Run
<1>2. RunEndPut(j) => run'[j].pc \in {"cancelUnflag", "endTell"}
  BY <1>0 DEF RunEndPut, AfterPut, Run
<1>3. RunCancelUnflag(j) => run'[j].pc = "endTell"
  BY <1>0, RunFields DEF RunCancelUnflag
<1>4. RunTell(j) => run'[j].pc \in {"cancelExit", "return"}
  BY <1>0, RunFields DEF RunTell
<1>5. RunCancelExit(j) => run'[j].pc \in {"endRead", "return"}
  BY <1>0, RunFields DEF RunCancelExit, IdleRun
<1>6. RunReturn(j) => run'[j].pc = "idle"
  BY <1>0 DEF RunReturn, IdleRun
<1> QED BY <1>1, <1>2, <1>3, <1>4, <1>5, <1>6
-----------------------------------------------------------------------------
\* A run that has recorded its ending and is about to return has told it, or
\* its telling was lost.
Heard(j) == told[j] \cap Endings # {} \/ Lost \in told[j]

Announced ==
  /\ NoSilentEnd
  /\ \A j \in Jobs : run[j].pc \in {"cancelExit", "return"} => Heard(j)

LEMMA AnnouncedRun ==
  ASSUME TypeInv, Announced, NEW j \in Jobs, RunStep(j) \/ RunFault(j)
  PROVE  Announced'
<1> USE DEF Announced, NoSilentEnd, Heard
<1>0. /\ arq \in [Jobs -> {"new", "drawn", "queued", "running", "done", "dead"}]
      /\ told \in [Jobs -> SUBSET (Endings \cup {Lost})]
  BY DEF TypeInv, TypeOK
<1>1. EarlyStep(j) \/ LateStep(j)
  BY WorkerSteps
<1>2. /\ \A k \in Jobs \ {j} : run'[k] = run[k] /\ arq'[k] = arq[k] /\ told'[k] = told[k]
      /\ told[j] \subseteq told'[j]
  BY <1>1, WorkerFrame
<1>3. CASE EarlyStep(j)
  <2>1. arq'[j] = "done" => arq[j] = "done"
    BY <1>3, EarlyNotDone
  <2>2. run'[j].pc \in {"cancelExit", "return"} => run[j].pc \in {"cancelExit", "return"}
    BY <1>3, EarlyMoves DEF Late
  <2> QED BY <1>2, <2>1, <2>2
<1>4. CASE RunTell(j)
  <2>1. run[j].ending \in Endings
    BY <1>4 DEF TypeInv, WellFormed, RunOK, RunTell
  <2>2. PICK event \in {run[j].ending, Lost} : told' = [told EXCEPT ![j] = @ \cup {event}]
    BY <1>4, Telling DEF RunTell
  <2>3. Heard(j)'
    BY <1>0, <2>1, <2>2
  <2>4. arq' = arq
    BY <1>4 DEF RunTell
  <2> QED BY <1>2, <2>3, <2>4
<1>5. CASE RunReturn(j) \/ RunCancelExit(j)
  <2>1. Heard(j)
    BY <1>5 DEF RunReturn, RunCancelExit
  <2> QED BY <1>2, <2>1
<1>6. CASE RunEndRead(j) \/ RunEndPut(j) \/ RunCancelUnflag(j)
  <2>1. arq' = arq
    BY <1>6 DEF RunEndRead, RunEndPut, RunCancelUnflag
  <2>2. run'[j].pc \notin {"cancelExit", "return"}
    BY <1>6, LateMoves DEF LateStep, Late
  <2> QED BY <1>2, <2>1, <2>2
<1> QED BY <1>1, <1>3, <1>4, <1>5, <1>6 DEF LateStep

\* No request makes arq record a job as done.
LEMMA RequestFrame ==
  ASSUME TypeInv, NEW a \in Admins, Arrive(a) \/ RequestStep(a) \/ RequestFault(a)
  PROVE  /\ run' = run
         /\ \A j \in Jobs : told[j] \subseteq told'[j] /\ (arq'[j] = "done" => arq[j] = "done")
<1>0. /\ arq \in [Jobs -> {"new", "drawn", "queued", "running", "done", "dead"}]
      /\ RequestEffect
  BY RequestEffects DEF TypeInv, TypeOK
<1>1. \A j \in Jobs : arq'[j] = "done" => arq[j] = "done"
  <2>1. CASE Arrive(a) \/ RequestFault(a)
    BY <1>0, <2>1 DEF Arrive, RequestFault, StartReadCurrent, CancelReadCurrent, EnqueueFails,
                      RequestLost
  <2>2. CASE RequestStep(a)
    BY <1>0, <2>2 DEF RequestStep, StartReadState, StartPut, StartBound, StartPoint, Enqueue,
       EnqueueFailRead, EnqueueFailPut, EnqueueFailTell, CancelReadState, AskRead, AskFlag,
       AskPut, ForceRead, ForcePut, ForceReadCurrent, ForceDelCurrent, ForceUnflag, ForceTell
  <2> QED BY <2>1, <2>2
<1> QED BY <1>0, <1>1 DEF RequestEffect

LEMMA AnnouncedStep == TypeInv /\ Announced /\ [Next]_vars => Announced'
<1> SUFFICES ASSUME TypeInv, Announced, [Next]_vars PROVE Announced'
  OBVIOUS
<1>1. ASSUME NEW a \in Admins, Arrive(a) \/ RequestStep(a) \/ RequestFault(a) PROVE Announced'
  BY <1>1, RequestFrame DEF Announced, NoSilentEnd, Heard
<1>2. ASSUME NEW j \in Jobs, RunStep(j) \/ RunFault(j) PROVE Announced'
  BY <1>2, AnnouncedRun
<1>3. CASE OutsideStep
  BY <1>3, OutsideEffects DEF Announced, NoSilentEnd, Heard
<1> QED BY <1>1, <1>2, <1>3 DEF Next, OutsideStep

\* A job that arq records as finished has told its subscribers how it ended,
\* or Redis lost a terminal event of it: reindex_task publishes before it
\* returns, and nothing else makes arq record a result.
THEOREM NobodyEndsSilently == Spec => []NoSilentEnd
<1>1. Init => Announced
  BY DEF Init, IdleRun, Announced, NoSilentEnd, Heard
<1>2. Spec => []TypeInv
  BY TypeInit, TypeStep, PTL DEF Spec
<1>3. Spec => []Announced
  BY <1>1, <1>2, AnnouncedStep, PTL DEF Spec
<1> QED BY <1>3, PTL DEF Announced
-----------------------------------------------------------------------------
\* A job under way is the one that arq calls running, and a job drawn and not
\* yet queued is in the hands of one request only.
Placed ==
  /\ \A j \in Jobs : Live(j) => arq[j] = "running"
  /\ \A a \in Admins : req[a].pc \in {"startPoint", "enqueue"} => arq[req[a].job] = "drawn"
  /\ \A a, b \in Admins :
       req[a].pc \in {"startPoint", "enqueue"} /\ req[b].pc \in {"startPoint", "enqueue"}
         /\ req[a].job = req[b].job => a = b

LEMMA PlacedRun ==
  ASSUME TypeInv, Placed, NEW j \in Jobs, RunStep(j) \/ RunFault(j)
  PROVE  /\ Placed'
         /\ arq[j] \notin {"new", "drawn"} /\ arq'[j] \notin {"new", "drawn"}
<1>0. /\ run \in [Jobs -> Run]
      /\ arq \in [Jobs -> {"new", "drawn", "queued", "running", "done", "dead"}]
  BY DEF TypeInv, TypeOK
<1>1. EarlyStep(j) \/ LateStep(j)
  BY WorkerSteps
<1>2. /\ req' = req
      /\ \A k \in Jobs \ {j} : run'[k] = run[k] /\ arq'[k] = arq[k]
  BY <1>1, WorkerFrame
<1>3. /\ arq[j] \notin {"new", "drawn"} /\ arq'[j] \notin {"new", "drawn"}
      /\ Live(j)' => arq'[j] = "running"
  <2>1. CASE RunStart(j) \/ RunExhausted(j)
    BY <1>0, <2>1 DEF Placed, Live, RunStart, RunExhausted
  <2>2. CASE RunReturn(j) \/ RunEscapes(j) \/ RunTimesOut(j) \/ RunCrashes(j)
    BY <1>0, <2>2 DEF Placed, Live, RunReturn, RunEscapes, RunTimesOut, RunCrashes, Finish,
                      Becomes, IdleRun
  <2>3. CASE ~(RunStart(j) \/ RunExhausted(j) \/ RunReturn(j) \/ RunEscapes(j)
               \/ RunTimesOut(j) \/ RunCrashes(j))
    <3>1. Live(j) /\ arq' = arq
      BY <1>1, <2>3 DEF EarlyStep, LateStep, Live, RunConfigure, RunList, RunNextType,
         RunCheckCancel, RunIndex, RunInsert, RunFlushFails, RunEmbeddingFails, RunProgressRead,
         RunProgressPut, RunCommit, RunRaises, MayRaise, RunEndRead, RunEndPut, RunCancelUnflag,
         RunTell, RunCancelExit
    <3> QED BY <3>1 DEF Placed
  <2> QED BY <2>1, <2>2, <2>3
<1>4. \A a \in Admins : req[a].pc \in {"startPoint", "enqueue"} => req[a].job \in Jobs
  BY DEF TypeInv, WellFormed, ReqOK
<1> QED BY <1>2, <1>3, <1>4 DEF Placed, Live

\* A request that does not draw a job and does not queue one.
LEMMA PlacedKept ==
  ASSUME TypeInv, Placed, NEW a \in Admins, arq' = arq, run' = run,
         \A b \in Admins \ {a} : req'[b] = req[b],
         req'[a].pc \in {"startPoint", "enqueue"} =>
           req[a].pc \in {"startPoint", "enqueue"} /\ req'[a].job = req[a].job
  PROVE  Placed'
BY DEF Placed, Live, TypeInv, TypeOK

LEMMA PlacedRequest ==
  ASSUME TypeInv, Placed, NEW a \in Admins, Arrive(a) \/ RequestStep(a) \/ RequestFault(a)
  PROVE  Placed'
<1>0. /\ req \in [Admins -> Req] /\ req[a] \in Req
      /\ arq \in [Jobs -> {"new", "drawn", "queued", "running", "done", "dead"}]
      /\ \A b \in Admins : req[b].pc \in {"startPoint", "enqueue"} => req[b].job \in Jobs
      /\ run' = run
  BY RequestFrame DEF TypeInv, TypeOK, WellFormed, ReqOK
<1>1. CASE StartPut(a)
  BY <1>0, <1>1 DEF StartPut, Placed, Live, Req
<1>2. CASE Enqueue(a)
  BY <1>0, <1>2 DEF Enqueue, Reply, IdleReq, Placed, Live
<1>3. CASE EnqueueFails(a)
  BY <1>0, <1>3 DEF EnqueueFails, SendTo, Placed, Live, Req
<1>4. CASE StartPoint(a)
  BY <1>0, <1>4, PlacedKept DEF StartPoint, SendTo, Req
<1>5. CASE ~(StartPut(a) \/ Enqueue(a) \/ EnqueueFails(a) \/ StartPoint(a))
  <2> DEFINE Idly == /\ arq' = arq /\ \A b \in Admins \ {a} : req'[b] = req[b]
                     /\ req'[a].pc \notin {"startPoint", "enqueue"}
  <2> SUFFICES Idly
    BY <1>0, PlacedKept
  <2>1. CASE Arrive(a)
    <3>1. CASE StartReadCurrent(a)
      BY <1>0, <3>1 DEF StartReadCurrent, Req
    <3>2. CASE CancelReadCurrent(a)
      BY <1>0, <3>2 DEF CancelReadCurrent, Req
    <3> QED BY <2>1, <3>1, <3>2 DEF Arrive
  <2>2. CASE Reply(a) /\ arq' = arq
    BY <1>0, <2>2 DEF Reply, IdleReq
  <2>3. CASE (\E pc \in ReqPc \ {"startPoint", "enqueue"} : SendTo(a, pc)) /\ arq' = arq
    BY <1>0, <2>3 DEF SendTo, Req
  <2>4. CASE EnqueueFailRead(a) \/ AskRead(a) \/ ForceRead(a)
    <3>1. CASE Reply(a)
      BY <2>2, <2>4, <3>1 DEF EnqueueFailRead, AskRead, ForceRead
    <3>2. CASE ~Reply(a)
      <4>1. PICK pc \in {"failTell", "failPut", "askFlag", "forcePut"} :
              /\ req' = [req EXCEPT ![a] = [@ EXCEPT !.pc = pc, !.copy = state[req[a].job]]]
              /\ arq' = arq
        BY <2>4, <3>2 DEF EnqueueFailRead, AskRead, ForceRead
      <4>2. [req[a] EXCEPT !.pc = pc, !.copy = state[req[a].job]].pc = pc
        BY <1>0 DEF Req
      <4> QED BY <1>0, <4>1, <4>2
    <3> QED BY <3>1, <3>2
  <2>5. CASE ~(Arrive(a) \/ EnqueueFailRead(a) \/ AskRead(a) \/ ForceRead(a))
    <3>1. /\ arq' = arq
          /\ Reply(a) \/ \E pc \in ReqPc \ {"startPoint", "enqueue"} : SendTo(a, pc)
      BY <1>5, <2>5, ConstAssumption DEF RequestStep, RequestFault, RequestLost, StartReadState,
         StartBound, EnqueueFailPut, EnqueueFailTell, CancelReadState, AskFlag, AskPut, ForcePut,
         ForceReadCurrent, ForceDelCurrent, ForceUnflag, ForceTell, ReqPc
    <3> QED BY <2>2, <2>3, <3>1
  <2> QED BY <2>1, <2>4, <2>5
<1> QED BY <1>1, <1>2, <1>3, <1>4, <1>5

LEMMA PlacedStep == TypeInv /\ Placed /\ [Next]_vars => Placed'
<1> SUFFICES ASSUME TypeInv, Placed, [Next]_vars PROVE Placed'
  OBVIOUS
<1>1. ASSUME NEW a \in Admins, Arrive(a) \/ RequestStep(a) \/ RequestFault(a) PROVE Placed'
  BY <1>1, PlacedRequest
<1>2. ASSUME NEW j \in Jobs, RunStep(j) \/ RunFault(j) PROVE Placed'
  BY <1>2, PlacedRun
<1>3. CASE OutsideStep
  <2>1. /\ UNCHANGED <<run, req>>
        /\ \A j \in Jobs : arq'[j] = arq[j] \/ (arq[j] = "queued" /\ arq'[j] = "dead")
    BY <1>3, OutsideEffects
  <2>2. \A a \in Admins : req[a].pc \in {"startPoint", "enqueue"} => req[a].job \in Jobs
    BY DEF TypeInv, WellFormed, ReqOK
  <2> QED BY <2>1, <2>2 DEF Placed, Live
<1> QED BY <1>1, <1>2, <1>3 DEF Next, OutsideStep
-----------------------------------------------------------------------------
\* The record of a job whose run has written its ending is not "running".
Over == /\ FinishedNotRunning
        /\ \A j \in Jobs : run[j].pc \in Late => state[j].status # "running"

LEMMA OverRun ==
  ASSUME TypeInv, Placed, Over, NEW j \in Jobs, RunStep(j) \/ RunFault(j)
  PROVE  Over'
<1> USE DEF Over, FinishedNotRunning
<1>0. /\ state \in [Jobs -> MaybeProgress] /\ run \in [Jobs -> Run] /\ run[j] \in Run
      /\ RunOK(run[j])
  BY DEF TypeInv, TypeOK, WellFormed
<1>1. EarlyStep(j) \/ LateStep(j)
  BY WorkerSteps
<1>2. \A k \in Jobs \ {j} : run'[k] = run[k] /\ arq'[k] = arq[k] /\ state'[k] = state[k]
  BY <1>1, WorkerFrame
<1>3. CASE RunProgressPut(j)
  <2>1. run'[j].pc = "next"
    BY <1>0, <1>3 DEF RunProgressPut, Becomes, Run
  <2>2. arq' = arq /\ arq[j] = "running"
    BY <1>3 DEF RunProgressPut, Placed, Live
  <2> QED BY <1>2, <2>1, <2>2 DEF Late
<1>4. CASE EarlyStep(j) /\ ~RunProgressPut(j)
  <2>1. state' = state
    BY <1>4 DEF EarlyStep, RunStart, RunExhausted, RunConfigure, RunList, RunNextType,
       RunCheckCancel, RunIndex, RunInsert, RunFlushFails, RunEmbeddingFails, RunProgressRead,
       RunCommit, RunRaises, RunEscapes, RunTimesOut, RunCrashes
  <2>2. /\ run'[j].pc \in Late => run'[j] = run[j]
        /\ arq'[j] = "done" => arq[j] = "done"
    BY <1>4, EarlyMoves, EarlyNotDone
  <2> QED BY <1>2, <2>1, <2>2
<1>5. CASE RunEndRead(j)
  <2>1. run'[j].pc \in Late => state[j] = NoState
    BY <1>0, <1>5 DEF RunEndRead, Becomes, Late, Run
  <2>2. state' = state /\ arq' = arq
    BY <1>5 DEF RunEndRead
  <2> QED BY <1>2, <2>1, <2>2 DEF NoState
<1>6. CASE RunEndPut(j)
  <2>1. state'[j].status = run[j].ending
    BY <1>0, <1>6 DEF RunEndPut, Run, MaybeProgress, Progress, NoState
  <2>2. run[j].ending # "running"
    BY <1>0, <1>6 DEF RunEndPut, RunOK, Endings
  <2>3. arq' = arq
    BY <1>6 DEF RunEndPut
  <2> QED BY <1>2, <2>1, <2>2, <2>3
<1>7. CASE RunCancelUnflag(j) \/ RunTell(j) \/ RunCancelExit(j) \/ RunReturn(j)
  <2>1. state' = state /\ run[j].pc \in Late
    BY <1>7 DEF RunCancelUnflag, RunTell, RunCancelExit, RunReturn, Late
  <2> QED BY <1>2, <2>1
<1> QED BY <1>1, <1>3, <1>4, <1>5, <1>6, <1>7 DEF LateStep

LEMMA OverStep == TypeInv /\ Placed /\ Over /\ [Next]_vars => Over'
<1> SUFFICES ASSUME TypeInv, Placed, Over, [Next]_vars PROVE Over'
  OBVIOUS
<1>1. ASSUME NEW a \in Admins, Arrive(a) \/ RequestStep(a) \/ RequestFault(a) PROVE Over'
  <2>1. /\ run' = run
        /\ \A j \in Jobs : arq'[j] = "done" => arq[j] = "done"
    BY <1>1, RequestFrame
  <2>2. ASSUME NEW j \in Jobs
        PROVE  \/ state'[j].status = state[j].status
               \/ state'[j].status # "running"
               \/ arq[j] = "new"
    BY <1>1, RequestEffects DEF RequestEffect
  <2>3. ASSUME NEW j \in Jobs, arq[j] = "new" PROVE run[j].pc \notin Late
    BY <2>3 DEF Placed, Live, Late
  <2> QED BY <2>1, <2>2, <2>3 DEF Over, FinishedNotRunning
<1>2. ASSUME NEW j \in Jobs, RunStep(j) \/ RunFault(j) PROVE Over'
  BY <1>2, OverRun
<1>3. CASE OutsideStep
  BY <1>3, OutsideEffects DEF Over, FinishedNotRunning, NoState
<1> QED BY <1>1, <1>2, <1>3 DEF Next, OutsideStep

\* The status of a job that has finished is never "running" again: whoever
\* holds a copy of the record that says so has no step left that writes it
\* back as it is, and a job id is drawn once.
THEOREM FinishedStaysFinished == Spec => []FinishedNotRunning
<1>1. Init => Placed /\ Over
  BY DEF Init, IdleRun, IdleReq, NoState, Placed, Over, FinishedNotRunning, Live, Late
<1>2. Spec => []TypeInv
  BY TypeInit, TypeStep, PTL DEF Spec
<1>3. Spec => []Placed
  BY <1>1, <1>2, PlacedStep, PTL DEF Spec
<1>4. Spec => []Over
  BY <1>1, <1>2, <1>3, OverStep, PTL DEF Spec
<1> QED BY <1>4, PTL DEF Over
-----------------------------------------------------------------------------
\* What a run r in its loop has still to come to, and that it has counted
\* nothing of that yet.
Loop == {"configure", "list", "next", "index", "flush", "progressRead", "progressPut", "commit"}

Rest(r) == {e \in Entities : \/ e \in r.todo \/ TypeOf[e] > r.type
                             \/ r.pc \in {"configure", "list"} /\ TypeOf[e] >= r.type
                             \/ r.pc \in {"index", "flush"} /\ e = r.entity}

Bounded(r) ==
  r.pc \in Loop =>
    /\ r.processed + r.errors + Cardinality(Rest(r)) <= Cardinality(Entities)
    /\ \A e \in r.todo : TypeOf[e] = r.type
    /\ r.pc \in {"index", "flush"} => r.entity \notin r.todo /\ TypeOf[r.entity] = r.type

Within(p) == p.processed + p.errors <= Cardinality(Entities)

Counts == /\ ProgressWithinTotal
          /\ \A j \in Jobs : Bounded(run[j]) /\ Within(run[j].copy)
          /\ \A a \in Admins : Within(req[a].copy)

LEMMA RestFinite ==
  ASSUME NEW r
  PROVE  /\ IsFiniteSet(Rest(r)) /\ Cardinality(Rest(r)) \in Nat
         /\ Cardinality(Entities) \in Nat
         /\ Cardinality(Rest(r)) <= Cardinality(Entities)
<1>1. IsFiniteSet(Entities) /\ Rest(r) \subseteq Entities
  BY ConstAssumption DEF Rest
<1> QED BY <1>1, FS_Subset, FS_CardinalityType

\* Going on without counting ...
LEMMA RestShrinks ==
  ASSUME NEW r \in Run, NEW s \in Run, r.pc \in Loop, Bounded(r),
         s.processed = r.processed, s.errors = r.errors, Rest(s) \subseteq Rest(r)
  PROVE  s.processed + s.errors + Cardinality(Rest(s)) <= Cardinality(Entities)
<1>1. Cardinality(Rest(s)) <= Cardinality(Rest(r))
  BY RestFinite, FS_Subset
<1>2. /\ Cardinality(Rest(s)) \in Nat /\ Cardinality(Rest(r)) \in Nat
      /\ Cardinality(Entities) \in Nat
  BY RestFinite
<1> QED BY <1>1, <1>2 DEF Bounded, Run

\* ... and counting the entity in hand.
LEMMA RestCounted ==
  ASSUME NEW r \in Run, NEW s \in Run, r.pc \in {"index", "flush"}, Bounded(r),
         r.entity \in Entities, s.pc = "progressRead", s.todo = r.todo, s.type = r.type,
         \/ s.processed = r.processed + 1 /\ s.errors = r.errors
         \/ s.processed = r.processed /\ s.errors = r.errors + 1
  PROVE  Bounded(s)
<1>1. /\ r.processed + r.errors + Cardinality(Rest(r)) <= Cardinality(Entities)
      /\ \A e \in r.todo : TypeOf[e] = r.type
      /\ r.entity \notin r.todo /\ TypeOf[r.entity] = r.type
  BY DEF Bounded, Loop
<1>2. r.type \in Int
  BY DEF Run
<1>3. r.entity \in Rest(r) /\ Rest(s) = Rest(r) \ {r.entity}
  BY <1>1, <1>2 DEF Rest
<1>4. Cardinality(Rest(s)) = Cardinality(Rest(r)) - 1
  BY <1>3, RestFinite, FS_RemoveElement
<1>5. /\ Cardinality(Rest(s)) \in Nat /\ Cardinality(Rest(r)) \in Nat
      /\ Cardinality(Entities) \in Nat
  BY RestFinite
<1>6. s.processed + s.errors + Cardinality(Rest(s)) <= Cardinality(Entities)
  BY <1>1, <1>4, <1>5 DEF Run
<1> QED BY <1>1, <1>6 DEF Bounded

\* The first step of an attempt has everything before it.
LEMMA RestAll ==
  /\ Bounded([IdleRun EXCEPT !.pc = "configure"])
  /\ Within(NoState)
  /\ \A r : r.pc \notin Loop => Bounded(r)
<1>1. Cardinality(Entities) \in Nat
  BY RestFinite
<1>2. LET s == [IdleRun EXCEPT !.pc = "configure"]
      IN  s.pc = "configure" /\ s.todo = {} /\ s.processed = 0 /\ s.errors = 0
  BY DEF IdleRun
<1>3. Cardinality(Rest([IdleRun EXCEPT !.pc = "configure"])) <= Cardinality(Entities)
      /\ Cardinality(Rest([IdleRun EXCEPT !.pc = "configure"])) \in Nat
  BY RestFinite
<1> QED BY <1>1, <1>2, <1>3 DEF Bounded, Within, NoState

\* What a step of the worker makes of its locals stays within the bound.
LEMMA BoundedEarly ==
  ASSUME TypeInv, NEW j \in Jobs, Bounded(run[j]), EarlyStep(j)
  PROVE  Bounded(run'[j])
<1> USE DEF Becomes, Fail, Go, Finish
<1>0. /\ run \in [Jobs -> Run] /\ run[j] \in Run /\ run'[j] \in Run
      /\ run[j].pc \in {"index", "flush"} => run[j].entity \in Entities
      /\ TypeOf \in [Entities -> 1 .. NTypes]
  <2>1. TypeInv'
    BY TypeRun DEF EarlyStep, RunStep, RunFault
  <2> QED BY <2>1, ConstAssumption DEF TypeInv, TypeOK, WellFormed, RunOK
<1> DEFINE r == run[j]
           s == run'[j]
<1>1. ASSUME r.pc \in Loop, s.pc \in Loop \ {"index", "flush"}, s.processed = r.processed,
             s.errors = r.errors, s.todo = r.todo, s.type = r.type,
             s.pc \in {"configure", "list"} => r.pc \in {"configure", "list"}
      PROVE  Bounded(s)
  <2>1. Rest(s) \subseteq Rest(r)
    BY <1>1 DEF Rest
  <2> QED BY <1>0, <1>1, <2>1, RestShrinks DEF Bounded
<1>2. CASE RunStart(j)
  BY <1>0, <1>2, RestAll DEF RunStart
<1>3. CASE RunExhausted(j)
  BY <1>3 DEF RunExhausted
<1>4. CASE s.pc \notin Loop
  BY <1>4, RestAll
<1>5. CASE RunEscapes(j) \/ RunTimesOut(j) \/ RunCrashes(j)
  <2>1. s = IdleRun
    BY <1>0, <1>5 DEF RunEscapes, RunTimesOut, RunCrashes
  <2> QED BY <1>4, <2>1 DEF IdleRun, Loop
<1>6. CASE \E ending : Becomes(j, Ending(ending))
  <2>1. s.pc = "endRead"
    BY <1>0, <1>6 DEF Ending, IdleRun
  <2> QED BY <1>4, <2>1 DEF Loop
<1>7. CASE RunConfigure(j)
  <2>1. CASE Go(j, "list")
    <3>1. /\ r.pc = "configure" /\ s.pc = "list" /\ s.processed = r.processed
          /\ s.errors = r.errors /\ s.todo = r.todo /\ s.type = r.type
      BY <1>0, <1>7, <2>1 DEF RunConfigure, Run
    <3> QED BY <1>1, <3>1 DEF Loop
  <2> QED BY <1>6, <1>7, <2>1 DEF RunConfigure
<1>8. CASE RunList(j)
  <2>1. CASE run[j].poisoned
    BY <1>6, <1>8, <2>1 DEF RunList
  <2>2. CASE ~run[j].poisoned
    <3> DEFINE T == {e \in Entities : TypeOf[e] = run[j].type /\ e \notin Visible(j)}
    <3>1. /\ r.pc = "list" /\ s = [r EXCEPT !.pc = "next", !.todo = T]
      BY <1>0, <1>8, <2>2 DEF RunList
    <3>2. /\ s.pc = "next" /\ s.processed = r.processed /\ s.errors = r.errors
          /\ s.todo = T /\ s.type = r.type
      BY <1>0, <3>1 DEF Run
    <3>3. /\ \A e \in T : e \in Entities /\ TypeOf[e] = r.type
          /\ r.type \in Int /\ r.type >= r.type
      BY <1>0 DEF Run
    <3>4. \A e \in Rest(s) : e \in T \/ TypeOf[e] > r.type
      BY <3>2 DEF Rest
    <3>5. Rest(s) \subseteq Entities
      BY DEF Rest
    <3>6. Rest(s) \subseteq Rest(r)
      BY <3>1, <3>3, <3>4, <3>5 DEF Rest
    <3> QED BY <1>0, <3>1, <3>2, <3>3, <3>6, RestShrinks DEF Bounded, Loop
  <2> QED BY <2>1, <2>2
<1>9. CASE RunNextType(j)
  <2>1. CASE Go(j, "commit")
    <3>1. /\ r.pc = "next" /\ s.pc = "commit" /\ s.processed = r.processed
          /\ s.errors = r.errors /\ s.todo = r.todo /\ s.type = r.type
      BY <1>0, <1>9, <2>1 DEF RunNextType, Run
    <3> QED BY <1>1, <3>1 DEF Loop
  <2>2. CASE Becomes(j, [run[j] EXCEPT !.pc = "list", !.type = run[j].type + 1])
    <3>1. /\ r.pc = "next" /\ r.todo = {} /\ s.pc = "list" /\ s.processed = r.processed
          /\ s.errors = r.errors /\ s.todo = {} /\ s.type = r.type + 1
      BY <1>0, <1>9, <2>2 DEF RunNextType, Run
    <3>2. Rest(s) \subseteq Rest(r)
      BY <1>0, <3>1 DEF Rest, Run
    <3> QED BY <1>0, <3>1, <3>2, RestShrinks DEF Bounded, Loop
  <2> QED BY <1>9, <2>1, <2>2 DEF RunNextType
<1>10. CASE RunCheckCancel(j)
  <2>1. CASE Becomes(j, [run[j] EXCEPT !.pc = "endRead", !.ending = "cancelled"])
    <3>1. s.pc = "endRead"
      BY <1>0, <2>1 DEF Run
    <3> QED BY <1>4, <3>1 DEF Loop
  <2>2. CASE \E e \in run[j].todo : Becomes(j, [run[j] EXCEPT
                !.pc = "index", !.entity = e, !.todo = run[j].todo \ {e}])
    <3>1. PICK e \in r.todo : s = [r EXCEPT !.pc = "index", !.entity = e, !.todo = r.todo \ {e}]
      BY <1>0, <2>2
    <3>2. /\ r.pc = "next" /\ s.pc = "index" /\ s.processed = r.processed
          /\ s.errors = r.errors /\ s.todo = r.todo \ {e} /\ s.type = r.type /\ s.entity = e
      BY <1>0, <1>10, <3>1 DEF RunCheckCancel, Run
    <3>3. Rest(s) \subseteq Rest(r)
      BY <1>0, <3>2 DEF Rest, Run
    <3> QED BY <1>0, <3>2, <3>3, RestShrinks DEF Bounded, Loop
  <2> QED BY <1>10, <2>1, <2>2 DEF RunCheckCancel
<1>11. ASSUME r.pc \in {"index", "flush"}, s.pc = "progressRead", s.todo = r.todo,
              s.type = r.type,
              \/ s.processed = r.processed + 1 /\ s.errors = r.errors
              \/ s.processed = r.processed /\ s.errors = r.errors + 1
       PROVE  Bounded(s)
  BY <1>0, <1>11, RestCounted
<1>12. CASE RunIndex(j)
  <2>1. CASE Go(j, "flush")
    <3>1. /\ r.pc = "index" /\ s.pc = "flush" /\ s.processed = r.processed
          /\ s.errors = r.errors /\ s.todo = r.todo /\ s.type = r.type /\ s.entity = r.entity
      BY <1>0, <1>12, <2>1 DEF RunIndex, Run
    <3>2. Rest(s) \subseteq Rest(r)
      BY <3>1 DEF Rest
    <3> QED BY <1>0, <3>1, <3>2, RestShrinks DEF Bounded, Loop
  <2>2. CASE Becomes(j, Counted(j)) \/ Becomes(j, Miscounted(j))
    <3>1. r.pc = "index"
      BY <1>12 DEF RunIndex
    <3>2. CASE Becomes(j, Counted(j))
      BY <1>0, <1>11, <3>1, <3>2 DEF Counted, Run
    <3>3. CASE Becomes(j, Miscounted(j))
      BY <1>0, <1>11, <3>1, <3>3 DEF Miscounted, Run
    <3> QED BY <2>2, <3>2, <3>3
  <2> QED BY <1>12, <2>1, <2>2 DEF RunIndex
<1>13. CASE RunInsert(j)
  BY <1>0, <1>11, <1>13 DEF RunInsert, Counted, Run
<1>14. CASE RunFlushFails(j)
  BY <1>0, <1>11, <1>14 DEF RunFlushFails, Miscounted, Run
<1>15. CASE RunEmbeddingFails(j)
  BY <1>0, <1>11, <1>15 DEF RunEmbeddingFails, Miscounted, Run
<1>16. CASE RunProgressRead(j)
  <2>1. /\ r.pc = "progressRead" /\ s.pc \in {"next", "progressPut"}
        /\ s.processed = r.processed /\ s.errors = r.errors /\ s.todo = r.todo
        /\ s.type = r.type
    BY <1>0, <1>16 DEF RunProgressRead, Run
  <2> QED BY <1>1, <2>1 DEF Loop
<1>17. CASE RunProgressPut(j)
  <2>1. /\ r.pc = "progressPut" /\ s.pc = "next"
        /\ s.processed = r.processed /\ s.errors = r.errors /\ s.todo = r.todo
        /\ s.type = r.type
    BY <1>0, <1>17 DEF RunProgressPut, Run
  <2> QED BY <1>1, <2>1 DEF Loop
<1>18. CASE RunCommit(j) \/ RunRaises(j)
  BY <1>6, <1>18 DEF RunCommit, RunRaises
<1> QED BY <1>2, <1>3, <1>5, <1>7, <1>8, <1>9, <1>10, <1>12, <1>13, <1>14, <1>15, <1>16,
           <1>17, <1>18 DEF EarlyStep

LEMMA BoundedLate ==
  ASSUME TypeInv, NEW j \in Jobs, LateStep(j)
  PROVE  Bounded(run'[j])
<1>1. run'[j].pc \in {"cancelUnflag", "endTell", "endPut", "cancelExit", "return", "endRead", "idle"}
  BY LateMoves DEF LateStep
<1> QED BY <1>1, RestAll DEF Loop

\* A copy of a record with another status counts the same.
LEMMA WithinStatus ==
  ASSUME NEW p \in MaybeProgress, Within(p)
  PROVE  \A status : Within([p EXCEPT !.status = status])
BY DEF Within, MaybeProgress, Progress, NoState

LEMMA CountsRun ==
  ASSUME TypeInv, Counts, NEW j \in Jobs, RunStep(j) \/ RunFault(j)
  PROVE  Counts'
<1>0. /\ run \in [Jobs -> Run] /\ run[j] \in Run /\ state \in [Jobs -> MaybeProgress]
      /\ run[j].copy \in MaybeProgress /\ RunOK(run[j])
      /\ \A k \in Jobs : Within(state[k]) /\ Bounded(run[k]) /\ Within(run[k].copy)
      /\ \A a \in Admins : Within(req[a].copy)
  BY DEF TypeInv, TypeOK, WellFormed, Run, Counts, ProgressWithinTotal, Within
<1>1. EarlyStep(j) \/ LateStep(j)
  BY WorkerSteps
<1>2. /\ req' = req
      /\ \A k \in Jobs \ {j} : run'[k] = run[k] /\ state'[k] = state[k]
  BY <1>1, WorkerFrame
<1>3. Bounded(run'[j])
  BY <1>0, <1>1, BoundedEarly, BoundedLate
<1>4. Within(state'[j]) /\ Within(run'[j].copy)
  <2>1. CASE RunProgressPut(j)
    <3>1. /\ run[j].processed + run[j].errors + Cardinality(Rest(run[j])) <= Cardinality(Entities)
          /\ run[j].copy \in Progress
      BY <1>0, <2>1 DEF Bounded, Loop, RunProgressPut, RunOK
    <3>2. /\ state'[j].processed = run[j].processed /\ state'[j].errors = run[j].errors
          /\ run'[j].copy = NoState
      BY <1>0, <2>1, <3>1 DEF RunProgressPut, Becomes, Run, Progress
    <3>3. Cardinality(Rest(run[j])) \in Nat /\ Cardinality(Entities) \in Nat
      BY RestFinite
    <3>4. run[j].processed + run[j].errors <= Cardinality(Entities)
      BY <1>0, <3>1, <3>3 DEF Run
    <3> QED BY <3>2, <3>4, RestAll DEF Within
  <2>2. CASE RunEndPut(j)
    <3>1. state'[j] = [run[j].copy EXCEPT !.status = run[j].ending] /\ run'[j].copy = NoState
      BY <1>0, <2>2 DEF RunEndPut, Becomes, Run
    <3> QED BY <1>0, <3>1, WithinStatus, RestAll
  <2>3. CASE QuietStep(j)
    BY <1>0, <2>3, QuietSteps, RestAll DEF Quiet
  <2>4. CASE RunCommit(j) \/ RunTell(j) \/ RunCancelExit(j)
    <3>1. state' = state
      BY <2>4 DEF RunCommit, RunTell, RunCancelExit
    <3>2. run'[j].copy \in {run[j].copy, NoState}
      <4>1. CASE RunCommit(j)
        BY <1>0, <4>1, RunFields DEF RunCommit, Becomes, Fail
      <4>2. CASE RunTell(j)
        BY <1>0, <4>2, RunFields DEF RunTell, Becomes, Go
      <4>3. CASE RunCancelExit(j)
        BY <1>0, <4>3, RunFields DEF RunCancelExit, Becomes, Fail, IdleRun
      <4> QED BY <2>4, <4>1, <4>2, <4>3
    <3> QED BY <1>0, <3>1, <3>2, RestAll
  <2> QED BY <1>1, <2>1, <2>2, <2>3, <2>4 DEF EarlyStep, LateStep, QuietStep
<1> QED BY <1>0, <1>2, <1>3, <1>4 DEF Counts, ProgressWithinTotal, Within

\* A request takes its counts from a record and gives back what it took.
LEMMA CountsRequest ==
  ASSUME TypeInv, Counts, NEW a \in Admins, Arrive(a) \/ RequestStep(a) \/ RequestFault(a)
  PROVE  Counts'
<1>0. /\ state \in [Jobs -> MaybeProgress] /\ req \in [Admins -> Req] /\ req[a] \in Req
      /\ req[a].copy \in MaybeProgress
      /\ req[a].pc \notin {"idle", "startPut"} => req[a].job \in Jobs
      /\ \A j \in Jobs : Within(state[j]) /\ Bounded(run[j]) /\ Within(run[j].copy)
      /\ \A b \in Admins : Within(req[b].copy)
      /\ run' = run
  BY RequestFrame DEF TypeInv, TypeOK, WellFormed, ReqOK, Req, Counts, ProgressWithinTotal, Within
<1> SUFFICES /\ \A j \in Jobs : Within(state'[j])
             /\ \A b \in Admins : Within(req'[b].copy)
  BY <1>0 DEF Counts, ProgressWithinTotal, Within
<1>1. ASSUME NEW r, req' = [req EXCEPT ![a] = r], r.copy \in {req[a].copy, NoState}
      PROVE  \A b \in Admins : Within(req'[b].copy)
  BY <1>0, <1>1, RestAll
<1>2. CASE StartPut(a)
  <2>1. PICK j \in Jobs :
          /\ state' = [state EXCEPT ![j] = [NoState EXCEPT !.status = "running"]]
          /\ req' = [req EXCEPT ![a] = [@ EXCEPT !.pc = "startPoint", !.job = j]]
    BY <1>2 DEF StartPut
  <2>2. Within([NoState EXCEPT !.status = "running"])
    BY WithinStatus, RestAll, NoStateTyped
  <2>3. [req[a] EXCEPT !.pc = "startPoint", !.job = j].copy = req[a].copy
    BY <1>0 DEF Req
  <2> QED BY <1>0, <1>1, <2>1, <2>2, <2>3
<1>3. CASE EnqueueFailPut(a) \/ AskPut(a) \/ ForcePut(a)
  <2>1. PICK status : state' = [state EXCEPT ![req[a].job] = [req[a].copy EXCEPT !.status = status]]
    BY <1>3 DEF EnqueueFailPut, AskPut, ForcePut
  <2>2. \A j \in Jobs : Within(state'[j])
    BY <1>0, <2>1, WithinStatus
  <2>3. \A b \in Admins : Within(req'[b].copy)
    BY <1>0, <1>1, <1>3, RestAll DEF EnqueueFailPut, AskPut, ForcePut, Reply, SendTo, IdleReq, Req
  <2> QED BY <2>2, <2>3
<1>4. CASE EnqueueFailRead(a) \/ AskRead(a) \/ ForceRead(a)
  <2>1. state' = state /\ req[a].job \in Jobs
    BY <1>0, <1>4 DEF EnqueueFailRead, AskRead, ForceRead
  <2>2. CASE Reply(a)
    BY <1>0, <1>1, <2>1, <2>2, RestAll DEF Reply, IdleReq
  <2>3. CASE ~Reply(a)
    <3>1. PICK pc : req' = [req EXCEPT ![a] = [@ EXCEPT !.pc = pc, !.copy = state[req[a].job]]]
      BY <1>4, <2>3 DEF EnqueueFailRead, AskRead, ForceRead
    <3>2. [req[a] EXCEPT !.pc = pc, !.copy = state[req[a].job]].copy = state[req[a].job]
      BY <1>0 DEF Req
    <3> QED BY <1>0, <2>1, <3>1, <3>2
  <2> QED BY <2>2, <2>3
<1>5. CASE Arrive(a)
  <2>1. state' = state
    BY <1>5 DEF Arrive, StartReadCurrent, CancelReadCurrent
  <2>2. PICK pc, j : req' = [req EXCEPT ![a] = [@ EXCEPT !.pc = pc, !.job = j]]
    BY <1>5 DEF Arrive, StartReadCurrent, CancelReadCurrent
  <2>3. [req[a] EXCEPT !.pc = pc, !.job = j].copy = req[a].copy
    BY <1>0 DEF Req
  <2> QED BY <1>0, <1>1, <2>1, <2>2, <2>3
<1>6. CASE ~(Arrive(a) \/ StartPut(a) \/ EnqueueFailPut(a) \/ AskPut(a) \/ ForcePut(a)
             \/ EnqueueFailRead(a) \/ AskRead(a) \/ ForceRead(a))
  <2>1. state' = state /\ (Reply(a) \/ \E pc : SendTo(a, pc))
    BY <1>6 DEF RequestStep, RequestFault, RequestLost, EnqueueFails, StartReadState,
       StartBound, StartPoint, Enqueue, EnqueueFailTell, CancelReadState, AskFlag,
       ForceReadCurrent, ForceDelCurrent, ForceUnflag, ForceTell
  <2>2. CASE Reply(a)
    BY <1>0, <1>1, <2>1, <2>2, RestAll DEF Reply, IdleReq
  <2>3. CASE \E pc : SendTo(a, pc)
    BY <1>0, <1>1, <2>1, <2>3 DEF SendTo, Req
  <2> QED BY <2>1, <2>2, <2>3
<1> QED BY <1>2, <1>3, <1>4, <1>5, <1>6

LEMMA CountsStep == TypeInv /\ Counts /\ [Next]_vars => Counts'
<1> SUFFICES ASSUME TypeInv, Counts, [Next]_vars PROVE Counts'
  OBVIOUS
<1>1. ASSUME NEW a \in Admins, Arrive(a) \/ RequestStep(a) \/ RequestFault(a) PROVE Counts'
  BY <1>1, CountsRequest
<1>2. ASSUME NEW j \in Jobs, RunStep(j) \/ RunFault(j) PROVE Counts'
  BY <1>2, CountsRun
<1>3. CASE OutsideStep
  BY <1>3, OutsideEffects, RestAll DEF Counts, ProgressWithinTotal, Within
<1> QED BY <1>1, <1>2, <1>3 DEF Next, OutsideStep

\* The progress bar never exceeds the total, whatever fails, is cancelled or
\* attempted again: what a run has counted and what it has still to come to
\* are different entities, and every copy of the record is one a run has made.
THEOREM ProgressIsWithin == Spec => []ProgressWithinTotal
<1>1. Init => Counts
  BY RestAll DEF Init, IdleRun, IdleReq, Counts, ProgressWithinTotal, Within, Loop
<1>2. Spec => []TypeInv
  BY TypeInit, TypeStep, PTL DEF Spec
<1>3. Spec => []Counts
  BY <1>1, <1>2, CountsStep, PTL DEF Spec
<1> QED BY <1>3, PTL DEF Counts
=============================================================================
