----------------------------- MODULE Web_proofs -----------------------------
(***************************************************************************)
(* Proofs about the API process and its page, for every set of exports,    *)
(* calls, accounts, credentials and concurrent requests: first of each     *)
(* part by itself, then of the parts together.                             *)
(***************************************************************************)
EXTENDS Web, TLAPS, FiniteSetTheorems

(* Exports.  LinksAreGood follows from what holds of each export by itself: *)
(* a task that is about to complete has stored its archive, a completed row *)
(* has one too, and nothing that the task writes takes back a revocation.   *)

ExportStatuses == {"pending", "processing", "completed", "failed"}
Link == [id: ExportIds, stored: BOOLEAN, withdrawn: BOOLEAN, expired: BOOLEAN]
Task == [at: TaskStates, row: ExportRow \cup {NoRow}]

\* Before an export is asked for there is no row and nothing to revoke.
Unborn(e) == tasks[e].at = "none" => exports[e] = NoRow /\ e \notin withdrawn

\* A revocation is never undone.
Revoked(e) == e \in withdrawn /\ exports[e] # NoRow => exports[e].revoked

\* The archive comes before the completion of the row.
Archived(e) ==
  /\ tasks[e].at = "complete" => e \in stored
  /\ exports[e] # NoRow /\ exports[e].status = "completed" => e \in stored

\* The task says "completed" last of all, and nothing writes the status after.
Told(e) ==
  announced[e] = "completed" =>
    /\ tasks[e].at = "ended"
    /\ exports[e] # NoRow => exports[e].status = "completed" /\ exports[e].key

SoundExport(e) == Unborn(e) /\ Revoked(e) /\ Archived(e) /\ Told(e)
GoodLinks == \A l \in links : l.stored /\ ~l.withdrawn /\ ~l.expired

ExportsInv == ExportsTypeOK /\ (\A e \in ExportIds : SoundExport(e)) /\ GoodLinks
-----------------------------------------------------------------------------
(* What the helpers do to the row and the task of an export, and that they  *)
(* leave the others alone.                                                  *)

LEMMA WrittenRow ==
  ASSUME NEW e, exports[e] \in ExportRow, NEW status \in ExportStatuses, NEW key \in BOOLEAN
  PROVE  /\ Written(e, status, key) \in ExportRow
         /\ Written(e, status, key).status = status
         /\ Written(e, status, key).revoked = exports[e].revoked
         /\ key => Written(e, status, key).key
<1>1. exports[e].key \in BOOLEAN
  BY DEF ExportRow
<1>2. (key \/ exports[e].key) \in BOOLEAN
  OBVIOUS
<1> DEFINE k == key \/ exports[e].key
<1>3. Written(e, status, key) = [exports[e] EXCEPT !.status = status, !.key = k]
  BY DEF Written
<1>4. k \in BOOLEAN /\ (key => k)
  BY <1>2
<1> HIDE DEF k
<1> QED
  BY <1>3, <1>4 DEF ExportRow, ExportStatuses

LEMMA GoingEffect ==
  ASSUME ExportsTypeOK, NEW e \in ExportIds, NEW at \in TaskStates, Going(e, at)
  PROVE  /\ tasks' \in [ExportIds -> Task]
         /\ tasks'[e].at = at
         /\ \A d \in ExportIds \ {e} : tasks'[d] = tasks[d]
  BY DEF ExportsTypeOK, Going, Task

LEMMA UpdateStatusEffect ==
  ASSUME ExportsTypeOK, NEW e \in ExportIds, NEW status \in ExportStatuses,
         NEW key \in BOOLEAN, NEW next \in TaskStates,
         UpdateStatus(e, status, key, next)
  PROVE  /\ exports' \in [ExportIds -> ExportRow \cup {NoRow}]
         /\ tasks' \in [ExportIds -> Task]
         /\ \A d \in ExportIds \ {e} : exports'[d] = exports[d] /\ tasks'[d] = tasks[d]
         /\ exports[e] = NoRow => exports'[e] = NoRow /\ tasks'[e].at = "broken"
         /\ exports[e] # NoRow =>
              /\ tasks'[e].at = next
              /\ exports'[e].status = status
              /\ exports'[e].revoked = exports[e].revoked
              /\ key => exports'[e].key
<1>1. CASE exports[e] = NoRow
  <2>1. Going(e, "broken") /\ exports' = exports
    BY <1>1 DEF UpdateStatus
  <2>2. "broken" \in TaskStates
    BY DEF TaskStates
  <2> QED
    BY <1>1, <2>1, <2>2, GoingEffect DEF ExportsTypeOK
<1>2. CASE exports[e] # NoRow
  <2>1. exports[e] \in ExportRow
    BY <1>2 DEF ExportsTypeOK
  <2>2. /\ Written(e, status, key) \in ExportRow
        /\ Written(e, status, key).status = status
        /\ Written(e, status, key).revoked = exports[e].revoked
        /\ key => Written(e, status, key).key
    BY <2>1, WrittenRow
  <2>3. /\ exports' = [exports EXCEPT ![e] = Written(e, status, key)]
        /\ tasks' = [tasks EXCEPT ![e] = [at |-> next, row |-> exports'[e]]]
    BY <1>2 DEF UpdateStatus
  <2>4. /\ exports' \in [ExportIds -> ExportRow \cup {NoRow}]
        /\ exports'[e] = Written(e, status, key)
        /\ \A d \in ExportIds \ {e} : exports'[d] = exports[d]
    BY <2>2, <2>3 DEF ExportsTypeOK
  <2>5. [at |-> next, row |-> exports'[e]] \in Task
    BY <2>2, <2>4 DEF Task
  <2>6. /\ tasks' \in [ExportIds -> Task]
        /\ tasks'[e] = [at |-> next, row |-> exports'[e]]
        /\ \A d \in ExportIds \ {e} : tasks'[d] = tasks[d]
    BY <2>3, <2>5 DEF ExportsTypeOK, Task
  <2> QED
    BY <1>2, <2>2, <2>4, <2>6
<1> QED
  BY <1>1, <1>2

LEMMA AnnounceEffect ==
  ASSUME ExportsTypeOK, NEW e \in ExportIds,
         NEW message \in {"progress", "completed", "failed"}, Announce(e, message)
  PROVE  /\ announced' \in [ExportIds -> {"nothing", "progress", "completed", "failed"}]
         /\ announced'[e] = message
         /\ \A d \in ExportIds \ {e} : announced'[d] = announced[d]
  BY DEF ExportsTypeOK, Announce
-----------------------------------------------------------------------------
(* Steps. *)

\* What does not change of an export is as sound as it was.
LEMMA Untouched ==
  ASSUME NEW d, SoundExport(d),
         exports'[d] = exports[d], tasks'[d].at = tasks[d].at, announced'[d] = announced[d],
         d \in withdrawn' <=> d \in withdrawn,
         d \in stored => d \in stored'
  PROVE  SoundExport(d)'
  BY DEF SoundExport, Unborn, Revoked, Archived, Told

\* Only the next step of a task changes, and it is not about to complete.
LEMMA TaskGoesOn ==
  ASSUME NEW d, SoundExport(d), tasks[d].at \notin {"none", "ended"},
         tasks'[d].at \notin {"none", "complete"},
         exports'[d] = exports[d], announced'[d] # "completed",
         withdrawn' = withdrawn, stored' = stored
  PROVE  SoundExport(d)'
  BY DEF SoundExport, Unborn, Revoked, Archived, Told

LEMMA Silent ==
  ASSUME NEW d, SoundExport(d), tasks[d].at # "ended"
  PROVE  announced[d] # "completed"
  BY DEF SoundExport, Told

THEOREM ExportsStart == ExportsInit => ExportsInv
<1> SUFFICES ASSUME ExportsInit PROVE ExportsInv
  OBVIOUS
<1>1. ExportsTypeOK
  BY DEF ExportsInit, ExportsTypeOK, TaskStates
<1>2. ASSUME NEW e \in ExportIds PROVE SoundExport(e)
  BY DEF ExportsInit, SoundExport, Unborn, Revoked, Archived, Told
<1>3. GoodLinks
  BY DEF ExportsInit, GoodLinks
<1> QED
  BY <1>1, <1>2, <1>3 DEF ExportsInv

LEMMA CreateSound ==
  ASSUME ExportsInv, NEW e \in ExportIds, CreateExport(e)
  PROVE  ExportsInv'
<1> DEFINE fresh == [status |-> "pending", key |-> FALSE, revoked |-> FALSE, expired |-> FALSE]
<1>1. fresh \in ExportRow
  BY DEF ExportRow
<1>2. /\ tasks[e].at = "none" /\ exports' = [exports EXCEPT ![e] = fresh] /\ Going(e, "queued")
      /\ UNCHANGED <<stored, announced, withdrawn, links, abandoned>>
  BY DEF CreateExport
<1>3. ExportsTypeOK /\ "queued" \in TaskStates
  BY DEF ExportsInv, TaskStates
<1>4. /\ tasks' \in [ExportIds -> Task] /\ tasks'[e].at = "queued"
      /\ \A d \in ExportIds \ {e} : tasks'[d] = tasks[d]
  BY <1>2, <1>3, GoingEffect
<1>5. /\ exports' \in [ExportIds -> ExportRow \cup {NoRow}] /\ exports'[e] = fresh
      /\ \A d \in ExportIds \ {e} : exports'[d] = exports[d]
  BY <1>1, <1>2, <1>3 DEF ExportsTypeOK
<1>6. ExportsTypeOK'
  BY <1>2, <1>3, <1>4, <1>5 DEF ExportsTypeOK, Task
<1>7. e \notin withdrawn /\ announced[e] # "completed"
  BY <1>2, Silent DEF ExportsInv, SoundExport, Unborn
<1>8. SoundExport(e)'
  BY <1>2, <1>4, <1>5, <1>7 DEF SoundExport, Unborn, Revoked, Archived, Told
<1>9. ASSUME NEW d \in ExportIds \ {e} PROVE SoundExport(d)'
  BY <1>2, <1>4, <1>5, Untouched DEF ExportsInv
<1> QED
  BY <1>2, <1>6, <1>8, <1>9 DEF ExportsInv, GoodLinks

LEMMA DownloadSound ==
  ASSUME ExportsInv, NEW e \in ExportIds, DownloadExport(e)
  PROVE  ExportsInv'
<1> DEFINE link == [id |-> e, stored |-> e \in stored,
                    withdrawn |-> e \in withdrawn, expired |-> exports[e].expired]
<1>1. /\ exports[e] # NoRow /\ ~exports[e].revoked /\ ~exports[e].expired
      /\ exports[e].status = "completed"
      /\ links' = links \cup {link}
      /\ UNCHANGED <<exports, tasks, stored, announced, withdrawn, abandoned>>
  BY DEF DownloadExport
<1>2. SoundExport(e)
  BY DEF ExportsInv
<1>3. e \in stored /\ e \notin withdrawn
  BY <1>1, <1>2 DEF SoundExport, Archived, Revoked
<1>4. exports[e] \in ExportRow
  BY <1>1 DEF ExportsInv, ExportsTypeOK
<1>5. exports[e].expired = FALSE
  BY <1>1, <1>4 DEF ExportRow
<1>6. link = [id |-> e, stored |-> TRUE, withdrawn |-> FALSE, expired |-> FALSE]
  <2>1. (e \in stored) = TRUE /\ (e \in withdrawn) = FALSE
    BY <1>3
  <2> QED
    BY <1>5, <2>1, Zenon
<1>7. link \in Link /\ link.stored /\ ~link.withdrawn /\ ~link.expired
  BY <1>6 DEF Link
<1> HIDE DEF link
<1>8. ExportsTypeOK'
  BY <1>1, <1>7 DEF ExportsInv, ExportsTypeOK, Link
<1>9. ASSUME NEW d \in ExportIds PROVE SoundExport(d)'
  BY <1>1, Untouched DEF ExportsInv
<1>10. GoodLinks'
  BY <1>1, <1>7 DEF ExportsInv, GoodLinks
<1> QED
  BY <1>8, <1>9, <1>10 DEF ExportsInv

LEMMA RevokeSound ==
  ASSUME ExportsInv, NEW e \in ExportIds, RevokeExport(e)
  PROVE  ExportsInv'
<1>1. /\ exports[e] # NoRow
      /\ exports' = [exports EXCEPT ![e] = [exports[e] EXCEPT !.revoked = TRUE]]
      /\ withdrawn' = withdrawn \cup {e}
      /\ UNCHANGED <<tasks, stored, announced, links, abandoned>>
  BY DEF RevokeExport
<1>2. exports[e] \in ExportRow /\ SoundExport(e)
  BY <1>1 DEF ExportsInv, ExportsTypeOK
<1>3. [exports[e] EXCEPT !.revoked = TRUE] \in ExportRow
  BY <1>2 DEF ExportRow
<1>4. /\ exports' \in [ExportIds -> ExportRow \cup {NoRow}]
      /\ exports'[e] = [exports[e] EXCEPT !.revoked = TRUE]
      /\ \A d \in ExportIds \ {e} : exports'[d] = exports[d]
  BY <1>1, <1>3 DEF ExportsInv, ExportsTypeOK
<1>5. /\ exports'[e].revoked
      /\ exports'[e].status = exports[e].status /\ exports'[e].key = exports[e].key
  BY <1>2, <1>4 DEF ExportRow
<1>6. ExportsTypeOK'
  BY <1>1, <1>4 DEF ExportsInv, ExportsTypeOK
<1>7. SoundExport(e)'
  BY <1>1, <1>2, <1>5 DEF SoundExport, Unborn, Revoked, Archived, Told
<1>8. ASSUME NEW d \in ExportIds \ {e} PROVE SoundExport(d)'
  BY <1>1, <1>4, Untouched DEF ExportsInv
<1> QED
  BY <1>1, <1>6, <1>7, <1>8 DEF ExportsInv, GoodLinks

LEMMA ExpireSound ==
  ASSUME ExportsInv, NEW e \in ExportIds, ExpireExport(e)
  PROVE  ExportsInv'
<1>1. /\ exports[e] # NoRow
      /\ exports' = [exports EXCEPT ![e] = [exports[e] EXCEPT !.expired = TRUE]]
      /\ UNCHANGED <<tasks, stored, announced, withdrawn, links, abandoned>>
  BY DEF ExpireExport
<1>2. exports[e] \in ExportRow /\ SoundExport(e)
  BY <1>1 DEF ExportsInv, ExportsTypeOK
<1>3. [exports[e] EXCEPT !.expired = TRUE] \in ExportRow
  BY <1>2 DEF ExportRow
<1>4. /\ exports' \in [ExportIds -> ExportRow \cup {NoRow}]
      /\ exports'[e] = [exports[e] EXCEPT !.expired = TRUE]
      /\ \A d \in ExportIds \ {e} : exports'[d] = exports[d]
  BY <1>1, <1>3 DEF ExportsInv, ExportsTypeOK
<1>5. /\ exports'[e].revoked = exports[e].revoked
      /\ exports'[e].status = exports[e].status /\ exports'[e].key = exports[e].key
  BY <1>2, <1>4 DEF ExportRow
<1>6. ExportsTypeOK'
  BY <1>1, <1>4 DEF ExportsInv, ExportsTypeOK
<1>7. SoundExport(e)'
  BY <1>1, <1>2, <1>5 DEF SoundExport, Unborn, Revoked, Archived, Told
<1>8. ASSUME NEW d \in ExportIds \ {e} PROVE SoundExport(d)'
  BY <1>1, <1>4, Untouched DEF ExportsInv
<1> QED
  BY <1>1, <1>6, <1>7, <1>8 DEF ExportsInv, GoodLinks

LEMMA RemoveSound ==
  ASSUME ExportsInv, NEW owned \in SUBSET ExportIds, RemoveExports(owned)
  PROVE  ExportsInv'
<1>1. /\ \A d \in ExportIds : exports'[d] \in {exports[d], NoRow}
      /\ exports' \in [ExportIds -> ExportRow \cup {NoRow}]
      /\ abandoned' \subseteq ExportIds
      /\ UNCHANGED <<tasks, stored, announced, withdrawn, links>>
  BY DEF ExportsInv, ExportsTypeOK, RemoveExports
<1>2. ExportsTypeOK'
  BY <1>1 DEF ExportsInv, ExportsTypeOK
<1>3. ASSUME NEW d \in ExportIds PROVE SoundExport(d)'
  BY <1>1, <1>3 DEF ExportsInv, SoundExport, Unborn, Revoked, Archived, Told
<1> QED
  BY <1>1, <1>2, <1>3 DEF ExportsInv, GoodLinks
-----------------------------------------------------------------------------
(* The task. *)

LEMMA TakeSound ==
  ASSUME ExportsInv, NEW e \in ExportIds, TakeExport(e)
  PROVE  ExportsInv'
<1>1. /\ tasks[e].at = "queued"
      /\ UNCHANGED <<stored, announced, withdrawn, links, abandoned>>
      /\ ExportsTypeOK /\ SoundExport(e)
  BY DEF TakeExport, ExportsInv
<1>2. announced[e] # "completed"
  BY <1>1, Silent
<1>3. CASE exports[e] = NoRow
  <2>1. exports' = exports /\ Going(e, "ended") /\ "ended" \in TaskStates
    BY <1>3 DEF TakeExport, TaskStates
  <2>2. /\ tasks' \in [ExportIds -> Task] /\ tasks'[e].at = "ended"
        /\ \A d \in ExportIds \ {e} : tasks'[d] = tasks[d]
    BY <1>1, <2>1, GoingEffect
  <2>3. SoundExport(e)'
    BY <1>1, <1>2, <2>1, <2>2, TaskGoesOn
  <2>4. ASSUME NEW d \in ExportIds \ {e} PROVE SoundExport(d)'
    BY <1>1, <2>1, <2>2, Untouched DEF ExportsInv
  <2>5. ExportsTypeOK'
    BY <1>1, <2>1, <2>2 DEF ExportsTypeOK, Task
  <2> QED
    BY <1>1, <2>3, <2>4, <2>5 DEF ExportsInv, GoodLinks
<1>4. CASE exports[e] # NoRow
  <2>1. /\ UpdateStatus(e, "processing", FALSE, "passwords")
        /\ "processing" \in ExportStatuses /\ FALSE \in BOOLEAN /\ "passwords" \in TaskStates
    BY <1>4 DEF TakeExport, TaskStates, Reading, ExportStatuses
  <2>2. /\ exports' \in [ExportIds -> ExportRow \cup {NoRow}]
        /\ tasks' \in [ExportIds -> Task]
        /\ \A d \in ExportIds \ {e} : exports'[d] = exports[d] /\ tasks'[d] = tasks[d]
        /\ tasks'[e].at = "passwords"
        /\ exports'[e].status = "processing" /\ exports'[e].revoked = exports[e].revoked
    BY <1>1, <1>4, <2>1, UpdateStatusEffect
  <2>4. SoundExport(e)'
    BY <1>1, <1>2, <1>4, <2>2 DEF SoundExport, Unborn, Revoked, Archived, Told
  <2>5. ASSUME NEW d \in ExportIds \ {e} PROVE SoundExport(d)'
    BY <1>1, <2>2, Untouched DEF ExportsInv
  <2>6. ExportsTypeOK'
    BY <1>1, <2>2 DEF ExportsTypeOK, Task
  <2> QED
    BY <1>1, <2>4, <2>5, <2>6 DEF ExportsInv, GoodLinks
<1> QED
  BY <1>3, <1>4

\* A step that only moves the task, to somewhere it does not complete from.
LEMMA MoveSound ==
  ASSUME ExportsInv, NEW e \in ExportIds, NEW at \in TaskStates \ {"none", "complete"},
         tasks[e].at \notin {"none", "ended"}, Going(e, at),
         UNCHANGED <<exports, stored, announced, withdrawn, links>>,
         abandoned' \subseteq ExportIds
  PROVE  ExportsInv'
<1>1. ExportsTypeOK /\ SoundExport(e)
  BY DEF ExportsInv
<1>2. /\ tasks' \in [ExportIds -> Task] /\ tasks'[e].at = at
      /\ \A d \in ExportIds \ {e} : tasks'[d] = tasks[d]
  BY <1>1, GoingEffect
<1>3. SoundExport(e)'
  BY <1>1, <1>2, Silent, TaskGoesOn
<1>4. ASSUME NEW d \in ExportIds \ {e} PROVE SoundExport(d)'
  BY <1>2, Untouched DEF ExportsInv
<1>5. ExportsTypeOK'
  BY <1>1, <1>2 DEF ExportsTypeOK, Task
<1> QED
  BY <1>3, <1>4, <1>5 DEF ExportsInv, GoodLinks

\* The same with a message that is not the last one.
LEMMA CsvSound ==
  ASSUME ExportsInv, NEW e \in ExportIds, NEW file \in Reading,
         NEW next \in Reading \cup {"upload"}, Csv(e, file, next)
  PROVE  ExportsInv'
<1>1. /\ ExportsTypeOK /\ SoundExport(e)
      /\ tasks[e].at = file /\ Going(e, next) /\ Announce(e, "progress")
      /\ UNCHANGED <<exports, stored, withdrawn, links, abandoned>>
  BY DEF ExportsInv, Csv
<1>2. /\ file \notin {"none", "ended"} /\ next \in TaskStates
      /\ next \notin {"none", "complete"}
  BY DEF Reading, TaskStates
<1>3. /\ tasks' \in [ExportIds -> Task] /\ tasks'[e].at = next
      /\ \A d \in ExportIds \ {e} : tasks'[d] = tasks[d]
  BY <1>1, <1>2, GoingEffect
<1>4. /\ announced' \in [ExportIds -> {"nothing", "progress", "completed", "failed"}]
      /\ announced'[e] = "progress"
      /\ \A d \in ExportIds \ {e} : announced'[d] = announced[d]
  BY <1>1, AnnounceEffect
<1>5. SoundExport(e)'
  BY <1>1, <1>2, <1>3, <1>4, TaskGoesOn
<1>6. ASSUME NEW d \in ExportIds \ {e} PROVE SoundExport(d)'
  BY <1>1, <1>3, <1>4, Untouched DEF ExportsInv
<1>7. ExportsTypeOK'
  BY <1>1, <1>3, <1>4 DEF ExportsTypeOK, Task
<1> QED
  BY <1>1, <1>5, <1>6, <1>7 DEF ExportsInv, GoodLinks

LEMMA UploadSound ==
  ASSUME ExportsInv, NEW e \in ExportIds, UploadExport(e)
  PROVE  ExportsInv'
<1>1. /\ ExportsTypeOK /\ SoundExport(e)
      /\ tasks[e].at = "upload" /\ Going(e, "complete")
      /\ stored' = stored \cup {e}
      /\ UNCHANGED <<exports, announced, withdrawn, links, abandoned>>
  BY DEF ExportsInv, UploadExport
<1>2. "complete" \in TaskStates
  BY DEF TaskStates
<1>3. /\ tasks' \in [ExportIds -> Task] /\ tasks'[e].at = "complete"
      /\ \A d \in ExportIds \ {e} : tasks'[d] = tasks[d]
  BY <1>1, <1>2, GoingEffect
<1>4. announced[e] # "completed"
  BY <1>1, Silent
<1>5. SoundExport(e)'
  BY <1>1, <1>3, <1>4 DEF SoundExport, Unborn, Revoked, Archived, Told
<1>6. ASSUME NEW d \in ExportIds \ {e} PROVE SoundExport(d)'
  BY <1>1, <1>3, Untouched DEF ExportsInv
<1>7. ExportsTypeOK'
  BY <1>1, <1>3 DEF ExportsTypeOK, Task
<1> QED
  BY <1>1, <1>5, <1>6, <1>7 DEF ExportsInv, GoodLinks

LEMMA CompleteSound ==
  ASSUME ExportsInv, NEW e \in ExportIds, CompleteExport(e)
  PROVE  ExportsInv'
<1>1. /\ ExportsTypeOK /\ SoundExport(e)
      /\ tasks[e].at = "complete" /\ UpdateStatus(e, "completed", TRUE, "ended")
      /\ UNCHANGED <<stored, withdrawn, links, abandoned>>
  BY DEF ExportsInv, CompleteExport
<1>2. "completed" \in ExportStatuses /\ TRUE \in BOOLEAN /\ "ended" \in TaskStates
  BY DEF ExportStatuses, TaskStates
<1>3. /\ exports' \in [ExportIds -> ExportRow \cup {NoRow}]
      /\ tasks' \in [ExportIds -> Task]
      /\ \A d \in ExportIds \ {e} : exports'[d] = exports[d] /\ tasks'[d] = tasks[d]
      /\ exports[e] = NoRow => exports'[e] = NoRow /\ tasks'[e].at = "broken"
      /\ exports[e] # NoRow =>
           /\ tasks'[e].at = "ended"
           /\ exports'[e].status = "completed" /\ exports'[e].key
           /\ exports'[e].revoked = exports[e].revoked
  BY <1>1, <1>2, UpdateStatusEffect
<1>4. e \in stored /\ announced[e] # "completed"
  BY <1>1, Silent DEF SoundExport, Archived
<1>5. CASE exports[e] = NoRow
  <2>1. announced' = announced
    BY <1>5 DEF CompleteExport
  <2>2. SoundExport(e)'
    BY <1>1, <1>3, <1>4, <1>5, <2>1 DEF SoundExport, Unborn, Revoked, Archived, Told
  <2>3. ASSUME NEW d \in ExportIds \ {e} PROVE SoundExport(d)'
    BY <1>1, <1>3, <2>1, Untouched DEF ExportsInv
  <2>4. ExportsTypeOK'
    BY <1>1, <1>3, <2>1 DEF ExportsTypeOK, Task
  <2> QED
    BY <1>1, <2>2, <2>3, <2>4 DEF ExportsInv, GoodLinks
<1>6. CASE exports[e] # NoRow
  <2>1. Announce(e, "completed")
    BY <1>6 DEF CompleteExport
  <2>2. /\ announced' \in [ExportIds -> {"nothing", "progress", "completed", "failed"}]
        /\ announced'[e] = "completed"
        /\ \A d \in ExportIds \ {e} : announced'[d] = announced[d]
    BY <1>1, <2>1, AnnounceEffect
  <2>4. SoundExport(e)'
    BY <1>1, <1>3, <1>4, <1>6, <2>2 DEF SoundExport, Unborn, Revoked, Archived, Told
  <2>5. ASSUME NEW d \in ExportIds \ {e} PROVE SoundExport(d)'
    BY <1>1, <1>3, <2>2, Untouched DEF ExportsInv
  <2>6. ExportsTypeOK'
    BY <1>1, <1>3, <2>2 DEF ExportsTypeOK, Task
  <2> QED
    BY <1>1, <2>4, <2>5, <2>6 DEF ExportsInv, GoodLinks
<1> QED
  BY <1>5, <1>6

LEMMA FailSound ==
  ASSUME ExportsInv, NEW e \in ExportIds, FailExport(e)
  PROVE  ExportsInv'
<1>1. /\ ExportsTypeOK /\ SoundExport(e)
      /\ tasks[e].at \in {"fail", "broken"} /\ Announce(e, "failed")
      /\ UNCHANGED <<stored, withdrawn, links>>
  BY DEF ExportsInv, FailExport
<1>2. /\ announced' \in [ExportIds -> {"nothing", "progress", "completed", "failed"}]
      /\ announced'[e] = "failed"
      /\ \A d \in ExportIds \ {e} : announced'[d] = announced[d]
  BY <1>1, AnnounceEffect
<1>3. "failed" \in ExportStatuses /\ FALSE \in BOOLEAN /\ "ended" \in TaskStates
  BY DEF ExportStatuses, TaskStates
<1>4. CASE tasks[e].at = "fail" /\ exports[e] # NoRow
  <2>1. UpdateStatus(e, "failed", FALSE, "ended") /\ abandoned' = abandoned
    BY <1>4 DEF FailExport
  <2>2. /\ exports' \in [ExportIds -> ExportRow \cup {NoRow}]
        /\ tasks' \in [ExportIds -> Task]
        /\ \A d \in ExportIds \ {e} : exports'[d] = exports[d] /\ tasks'[d] = tasks[d]
        /\ tasks'[e].at = "ended"
        /\ exports'[e].status = "failed" /\ exports'[e].revoked = exports[e].revoked
    BY <1>1, <1>3, <1>4, <2>1, UpdateStatusEffect
  <2>4. SoundExport(e)'
    BY <1>1, <1>2, <1>4, <2>2 DEF SoundExport, Unborn, Revoked, Archived, Told
  <2>5. ASSUME NEW d \in ExportIds \ {e} PROVE SoundExport(d)'
    BY <1>1, <1>2, <2>2, Untouched DEF ExportsInv
  <2>6. ExportsTypeOK'
    BY <1>1, <1>2, <2>1, <2>2 DEF ExportsTypeOK, Task
  <2> QED
    BY <1>1, <2>4, <2>5, <2>6 DEF ExportsInv, GoodLinks
<1>5. CASE ~(tasks[e].at = "fail" /\ exports[e] # NoRow)
  <2>1. Going(e, "ended") /\ abandoned' = abandoned \cup {e} /\ exports' = exports
    BY <1>5 DEF FailExport
  <2>2. /\ tasks' \in [ExportIds -> Task] /\ tasks'[e].at = "ended"
        /\ \A d \in ExportIds \ {e} : tasks'[d] = tasks[d]
    BY <1>1, <1>3, <2>1, GoingEffect
  <2>3. SoundExport(e)'
    BY <1>1, <1>2, <2>1, <2>2, TaskGoesOn
  <2>4. ASSUME NEW d \in ExportIds \ {e} PROVE SoundExport(d)'
    BY <1>1, <1>2, <2>1, <2>2, Untouched DEF ExportsInv
  <2>5. ExportsTypeOK'
    BY <1>1, <1>2, <2>1, <2>2 DEF ExportsTypeOK, Task
  <2> QED
    BY <1>1, <2>3, <2>4, <2>5 DEF ExportsInv, GoodLinks
<1> QED
  BY <1>4, <1>5

LEMMA StopSound ==
  ASSUME ExportsInv, StopExports
  PROVE  ExportsInv'
<1> DEFINE running == {e \in ExportIds : tasks[e].at \in InProcess}
<1>1. /\ tasks' = [e \in ExportIds |->
                     IF e \in running THEN [tasks[e] EXCEPT !.at = "ended"] ELSE tasks[e]]
      /\ abandoned' = abandoned \cup running
      /\ UNCHANGED <<exports, stored, announced, withdrawn, links>>
      /\ ExportsTypeOK
  BY DEF StopExports, ExportsInv
<1>2. ASSUME NEW d \in ExportIds PROVE tasks[d] \in Task /\ SoundExport(d)
  BY DEF ExportsInv, ExportsTypeOK, Task
<1>3. "ended" \in TaskStates
  BY DEF TaskStates
<1>4. ASSUME NEW d \in ExportIds
      PROVE  /\ tasks'[d] \in Task
             /\ tasks'[d].at = IF d \in running THEN "ended" ELSE tasks[d].at
  BY <1>1, <1>2, <1>3 DEF Task
<1>5. ASSUME NEW d \in ExportIds PROVE SoundExport(d)'
  <2>1. CASE d \in running
    <3>1. tasks[d].at \notin {"none", "ended"}
      BY <2>1 DEF InProcess
    <3>2. SoundExport(d) /\ announced'[d] # "completed"
      BY <1>1, <1>2, <3>1, Silent
    <3>3. tasks'[d].at \notin {"none", "complete"}
      BY <1>4, <2>1
    <3> QED
      BY <1>1, <3>1, <3>2, <3>3, TaskGoesOn
  <2>2. CASE d \notin running
    BY <1>1, <1>2, <1>4, <2>2, Untouched
  <2> QED
    BY <2>1, <2>2
<1>6. tasks' \in [ExportIds -> Task]
  BY <1>1, <1>4
<1>7. ExportsTypeOK'
  BY <1>1, <1>6 DEF ExportsTypeOK, Task
<1> QED
  BY <1>1, <1>5, <1>7 DEF ExportsInv, GoodLinks
-----------------------------------------------------------------------------
(* The specification. *)

\* A step of the task of an export.
LEMMA TaskSound ==
  ASSUME ExportsInv, NEW e \in ExportIds, ExportTask(e)
  PROVE  ExportsInv'
<1>1. CASE TakeExport(e)
  BY <1>1, TakeSound
<1>2. CASE NothingToExport(e)
  <2>1. /\ tasks[e].at = "passwords" /\ Going(e, "fail") /\ abandoned' = abandoned
        /\ UNCHANGED <<exports, stored, announced, withdrawn, links>>
    BY <1>2 DEF NothingToExport
  <2>2. "fail" \in TaskStates \ {"none", "complete"}
    BY DEF TaskStates
  <2>3. tasks[e].at \notin {"none", "ended"} /\ abandoned' \subseteq ExportIds
    BY <2>1 DEF ExportsInv, ExportsTypeOK
  <2> QED
    BY <2>1, <2>2, <2>3, MoveSound
<1>3. CASE ExportPasswords(e) \/ ExportConfigurations(e) \/ ExportLocations(e)
           \/ ExportDocuments(e) \/ ExportCustomAssets(e)
  <2>1. PICK file \in Reading, next \in Reading \cup {"upload"} : Csv(e, file, next)
    BY <1>3 DEF ExportPasswords, ExportConfigurations, ExportLocations,
                ExportDocuments, ExportCustomAssets, Reading
  <2> QED
    BY <2>1, CsvSound
<1>4. CASE UploadExport(e)
  BY <1>4, UploadSound
<1>5. CASE CompleteExport(e)
  BY <1>5, CompleteSound
<1>6. CASE FailExport(e)
  BY <1>6, FailSound
<1> QED
  BY <1>1, <1>2, <1>3, <1>4, <1>5, <1>6 DEF ExportTask

\* The database or the file storage fails under the task.
LEMMA FaultSound ==
  ASSUME ExportsInv, NEW e \in ExportIds, DatabaseFails(e) \/ UploadFails(e)
  PROVE  ExportsInv'
<1>1. /\ tasks[e].at \notin {"none", "ended"}
      /\ Going(e, "broken") \/ Going(e, "fail")
      /\ UNCHANGED <<exports, stored, announced, withdrawn, links, abandoned>>
  BY DEF DatabaseFails, UploadFails, Reading
<1>2. {"broken", "fail"} \subseteq TaskStates \ {"none", "complete"}
  BY DEF TaskStates
<1>3. abandoned' \subseteq ExportIds
  BY <1>1 DEF ExportsInv, ExportsTypeOK
<1> QED
  BY <1>1, <1>2, <1>3, MoveSound

\* Every step of the component keeps the invariant.
THEOREM ExportsKeep == ExportsInv /\ [ExportsNext]_exportVars => ExportsInv'
<1> SUFFICES ASSUME ExportsInv, [ExportsNext]_exportVars PROVE ExportsInv'
  OBVIOUS
<1>1. CASE ExportsUser
  BY <1>1, CreateSound, RevokeSound DEF ExportsUser
<1>2. CASE ExportsFault
  BY <1>2, FaultSound DEF ExportsFault
<1>3. CASE ExportsStep
  BY <1>3, TaskSound, DownloadSound, ExpireSound DEF ExportsStep
<1>4. CASE StopExports
  BY <1>4, StopSound
<1>5. CASE \E owned \in SUBSET ExportIds : RemoveExports(owned)
  BY <1>5, RemoveSound
<1>6. CASE UNCHANGED exportVars
  <2>1. UNCHANGED <<exports, tasks, stored, announced, withdrawn, links, abandoned>>
    BY <1>6 DEF exportVars
  <2>2. ASSUME NEW d \in ExportIds PROVE SoundExport(d)'
    BY <2>1, Untouched DEF ExportsInv
  <2>3. ExportsTypeOK'
    BY <2>1 DEF ExportsInv, ExportsTypeOK
  <2> QED
    BY <2>1, <2>2, <2>3 DEF ExportsInv, GoodLinks
<1> QED
  BY <1>1, <1>2, <1>3, <1>4, <1>5, <1>6 DEF ExportsNext

\* The row of an export, its task and its links have the states that the code
\* gives them, however the requests, the task and the faults interleave.
THEOREM ExportsTypes == ExportsSpec => []ExportsTypeOK
<1>1. ExportsInv => ExportsTypeOK
  BY DEF ExportsInv
<1> QED
  BY ExportsStart, ExportsKeep, <1>1, PTL DEF ExportsSpec

\* No link is ever handed out for an archive that is missing, expired or
\* withdrawn, and none is announced that cannot be downloaded, for any number
\* of exports and any interleaving of update_status with a revocation, the
\* deletion of the owner, a restart or an error.
THEOREM LinksGood == ExportsSpec => []LinksAreGood
<1>1. ASSUME ExportsInv PROVE LinksAreGood
  <2>1. \A l \in links : l.stored /\ ~l.withdrawn /\ ~l.expired
    BY <1>1 DEF ExportsInv, GoodLinks
  <2>2. ASSUME NEW e \in ExportIds, announced[e] = "completed", exports[e] # NoRow
        PROVE  e \in stored /\ exports[e].status = "completed" /\ exports[e].key
    BY <1>1, <2>2 DEF ExportsInv, SoundExport, Told, Archived
  <2> QED
    BY <2>1, <2>2 DEF LinksAreGood
<1> QED
  BY ExportsStart, ExportsKeep, <1>1, PTL DEF ExportsSpec
-----------------------------------------------------------------------------
(* Accounts and credentials. *)

\* A request under way is a record of what it does, with what and for whom.
Shaped ==
  /\ requests = [r \in Requests |-> requests[r]]
  /\ \A r \in Requests : requests[r] \notin {Fresh, Ended} =>
       requests[r] = [op |-> requests[r].op, at |-> requests[r].at,
                      account |-> requests[r].account, item |-> requests[r].item,
                      seen |-> requests[r].seen, methods |-> requests[r].methods]

\* A row that a request has updated stays until the request commits.
Uses == {"signin", "use_key"}
InUse == \A r \in Requests : \A op \in Uses :
           Is(r, op, "second") => ~RowFree(Rows(op), requests[r].item)

\* The rows of one table: one for each proof, and an account behind each.
Unambiguous(rows) == \A v, w \in rows : v[1] = w[1] => v = w
Behind(rows) == \A w \in rows : w[2] \in Present

SoundAccounts == /\ \A a, b \in Present : a # b => accounts[a].email # accounts[b].email
         /\ Unambiguous(passkeys) /\ Unambiguous(identities) /\ Unambiguous(keys)
         /\ Behind(passkeys) /\ Behind(identities) /\ Behind(keys)
         /\ lateUse = {}

AccountsInv == Shaped /\ InUse /\ SoundAccounts

LEMMA SoundIsGoal == SoundAccounts => CredentialsSound
BY DEF SoundAccounts, CredentialsSound, Unambiguous, Behind, Present

LEMMA AccountsStart == AccountsInit => AccountsInv
<1> SUFFICES ASSUME AccountsInit PROVE AccountsInv
  OBVIOUS
<1>1. Shaped /\ InUse
  BY DEF AccountsInit, Shaped, InUse, Is
<1>2. CASE /\ accounts = EmptyPlatform.accounts /\ passkeys = EmptyPlatform.passkeys
           /\ identities = EmptyPlatform.identities /\ keys = EmptyPlatform.keys
  BY <1>1, <1>2 DEF AccountsInit, EmptyPlatform, AccountsInv, SoundAccounts, Unambiguous, Behind, Present
<1>3. CASE /\ accounts = Enrolled.accounts /\ passkeys = Enrolled.passkeys
           /\ identities = Enrolled.identities /\ keys = Enrolled.keys
  BY <1>1, <1>3, EnrolledAssumption DEF AccountsInit, AccountsInv, SoundAccounts, Unambiguous, Behind, Present
<1> QED BY <1>2, <1>3 DEF AccountsInit
-----------------------------------------------------------------------------
(* What the steps do to the requests. *)

\* No request begins to use a row.
NoNewUse == /\ Shaped'
            /\ \A r \in Requests : \A op \in Uses :
                 Is(r, op, "second")' => Is(r, op, "second") /\ requests'[r] = requests[r]

LEMMA BeginsNoUse ==
  ASSUME Shaped, NEW r \in Requests, NEW op, NEW at, NEW a, NEW x, NEW seen, NEW methods,
         at # "second",
         Enter(r, [op |-> op, at |-> at, account |-> a, item |-> x, seen |-> seen,
                   methods |-> methods])
  PROVE  NoNewUse
BY DEF Enter, Shaped, NoNewUse, Is

LEMMA EndsNoUse == ASSUME Shaped, NEW r \in Requests, End(r) PROVE NoNewUse
BY DEF End, Shaped, NoNewUse, Is

LEMMA MovesOn ==
  ASSUME Shaped, NEW r \in Requests, NEW at, NEW a, NEW seen,
         requests[r] \notin {Fresh, Ended}, Move(r, at, a, seen)
  PROVE  /\ requests'[r].op = requests[r].op /\ requests'[r].at = at
         /\ requests'[r].item = requests[r].item
         /\ \A q \in Requests \ {r} : requests'[q] = requests[q]
         /\ Shaped'
<1>1. PICK q : /\ q = requests[r]
               /\ q = [op |-> q.op, at |-> q.at, account |-> q.account, item |-> q.item,
                       seen |-> q.seen, methods |-> q.methods]
  BY DEF Shaped
<1>2. DOMAIN requests = Requests
  BY DEF Shaped
<1>3. /\ requests' = [requests EXCEPT ![r] = requests'[r]]
      /\ requests'[r] = [q EXCEPT !.at = at, !.account = a, !.seen = seen]
  BY <1>1, <1>2 DEF Move
<1>4. requests'[r] = [op |-> q.op, at |-> at, account |-> a, item |-> q.item,
                      seen |-> seen, methods |-> q.methods]
  BY <1>1, <1>3
<1> QED BY <1>1, <1>3, <1>4 DEF Shaped

LEMMA MovesNoUse ==
  ASSUME Shaped, NEW r \in Requests, NEW at, NEW a, NEW seen,
         requests[r] \notin {Fresh, Ended}, Move(r, at, a, seen),
         at # "second" \/ requests[r].op \notin Uses
  PROVE  NoNewUse
BY MovesOn DEF NoNewUse, Is

LEMMA IdleNoUse == ASSUME Shaped, UNCHANGED requests PROVE NoNewUse
BY DEF Shaped, NoNewUse, Is

LEMMA FreeMeans ==
  ASSUME NEW rows, NEW x
  PROVE  RowFree(rows, x) <=> \A w \in rows : w[1] # x
BY DEF RowFree, Owner

\* A step that begins no use and deletes no row in use.
LEMMA KeptInUse ==
  ASSUME InUse, NoNewUse,
         \A w \in passkeys \ passkeys' : \A r \in Requests :
           Is(r, "signin", "second") => requests[r].item # w[1] \/ ~Is(r, "signin", "second")',
         \A w \in keys \ keys' : \A r \in Requests :
           Is(r, "use_key", "second") => requests[r].item # w[1] \/ ~Is(r, "use_key", "second")'
  PROVE  InUse'
<1>1. SUFFICES ASSUME NEW r \in Requests, NEW op \in Uses, Is(r, op, "second")'
               PROVE  ~RowFree(Rows(op), requests[r].item)'
  BY DEF InUse
<1>2. /\ Is(r, op, "second") /\ requests'[r] = requests[r]
      /\ ~RowFree(Rows(op), requests[r].item)
  BY <1>1 DEF NoNewUse, InUse
<1>3. PICK w \in Rows(op) : w[1] = requests[r].item
  BY <1>2, FreeMeans
<1>4. w \in Rows(op)'
  BY <1>1, <1>2, <1>3 DEF Uses, Rows
<1>5. \E v \in Rows(op)' : v[1] = requests'[r].item
  BY <1>2, <1>3, <1>4
<1>6. ~RowFree(Rows(op)', requests'[r].item)
  BY <1>5, FreeMeans
<1> QED BY <1>6 DEF RowFree, Owner

LEMMA SameRows ==
  ASSUME AccountsInv, NoNewUse, UNCHANGED <<accounts, passkeys, identities, keys, lateUse>>
  PROVE  AccountsInv'
<1>1. Shaped' /\ InUse'
  BY KeptInUse DEF AccountsInv, NoNewUse
<1>2. SoundAccounts'
  BY DEF AccountsInv, SoundAccounts, Unambiguous, Behind, Present
<1> QED BY <1>1, <1>2 DEF AccountsInv

LEMMA AddRow ==
  ASSUME NEW rows, NEW x, NEW b, Unambiguous(rows), RowFree(rows, x)
  PROVE  Unambiguous(rows \cup {<<x, b>>})
BY FreeMeans DEF Unambiguous

\* A new account: nobody else has its address.
LEMMA NewAccount ==
  ASSUME SoundAccounts, Room, NEW email, NEW password, NEW role, EmailFree(email),
         Insert(email, password, role)
  PROVE  /\ Present' = Present \cup {NewId}
         /\ \A a, b \in Present' : a # b => accounts'[a].email # accounts'[b].email
<1>1. NewId \in FreeIds
  BY DEF Room, NewId
<1>2. NewId \notin Present
  BY <1>1 DEF FreeIds
<1>3. /\ Present' = Present \cup {NewId}
      /\ accounts'[NewId].email = email
      /\ \A a \in Present : accounts'[a] = accounts[a]
  BY <1>2 DEF Insert, Present
<1>4. \A a \in Present : accounts[a].email # email
  BY DEF EmailFree, With
<1> QED BY <1>3, <1>4 DEF SoundAccounts

-----------------------------------------------------------------------------
\* The steps that leave the rows alone.
LEMMA LookingSteps ==
  ASSUME AccountsInv, NEW r \in Requests,
         \/ \E email \in Emails : Register(r, email) \/ SetupOptions(r, email)
         \/ \E a \in AccountIds :
              \/ EnrolOptions(r, a) \/ SetupMfa(r, a) \/ VerifyMfa(r, a)
              \/ RemoveMfa(r, a) \/ RegenerateBackupCodes(r, a)
              \/ \E p \in Providers : UnlinkOAuthAccount(r, a, p)
         \/ \E x \in Credentials : DeletePasskey(r, x) \/ SignInOptions(r, x)
         \/ \E x \in Keys : AuthenticateApiKey(r, x) \/ DeleteApiKey(r, x)
         \/ \E s \in Subjects : InitOAuth(r, s)
         \/ \E p \in Providers : Configure(r, p)
  PROVE  AccountsInv'
<1>1. /\ UNCHANGED <<accounts, passkeys, identities, keys, lateUse>>
      /\ \E op, at, a, x, seen, methods :
           /\ at # "second"
           /\ Enter(r, [op |-> op, at |-> at, account |-> a, item |-> x, seen |-> seen,
                        methods |-> methods])
  <2>1. CASE \E email \in Emails : Register(r, email) \/ SetupOptions(r, email)
    BY <2>1 DEF Register, SetupOptions, Begin
  <2>2. CASE \E a \in AccountIds : EnrolOptions(r, a) \/ \E p \in Providers : UnlinkOAuthAccount(r, a, p)
    BY <2>2 DEF EnrolOptions, UnlinkOAuthAccount, Begin
  <2>3. CASE \E a \in AccountIds : SetupMfa(r, a) \/ VerifyMfa(r, a)
                                   \/ RemoveMfa(r, a) \/ RegenerateBackupCodes(r, a)
    BY <2>3 DEF SetupMfa, VerifyMfa, RemoveMfa, RegenerateBackupCodes, BeginMfa, MfaUnchanged
  <2>4. CASE \/ \E x \in Credentials : DeletePasskey(r, x) \/ SignInOptions(r, x)
             \/ \E x \in Keys : AuthenticateApiKey(r, x) \/ DeleteApiKey(r, x)
    BY <2>4 DEF DeletePasskey, SignInOptions, AuthenticateApiKey, DeleteApiKey, Begin
  <2>5. CASE (\E s \in Subjects : InitOAuth(r, s)) \/ (\E p \in Providers : Configure(r, p))
    BY <2>5 DEF InitOAuth, Configure, Begin
  <2> QED BY <2>1, <2>2, <2>3, <2>4, <2>5
<1>2. NoNewUse
  BY <1>1, BeginsNoUse DEF AccountsInv
<1> QED BY <1>1, <1>2, SameRows

LEMMA SecondLooks ==
  ASSUME AccountsInv, NEW r \in Requests,
         \/ VerifySetup(r) \/ VerifyEnrol(r) \/ VerifySignIn(r) \/ Callback(r) \/ FindLink(r)
         \/ CommitConfigure(r) \/ CommitSetupMfa(r) \/ CommitVerifyMfa(r)
         \/ CommitRemoveMfa(r) \/ CommitRegenerate(r) \/ IssueTokens(r)
  PROVE  AccountsInv'
<1> USE DEF Is
<1>1. UNCHANGED <<accounts, passkeys, identities, keys, lateUse>>
  BY DEF VerifySetup, VerifyEnrol, VerifySignIn, Callback, FindLink, CommitConfigure, IssueTokens,
         CommitSetupMfa, CommitVerifyMfa, CommitRemoveMfa, CommitRegenerate, MfaUnchanged
<1>2. CASE CommitConfigure(r) \/ CommitSetupMfa(r) \/ CommitVerifyMfa(r)
             \/ CommitRemoveMfa(r) \/ CommitRegenerate(r) \/ IssueTokens(r)
  <2>1. End(r)
    BY <1>2 DEF CommitConfigure, CommitSetupMfa, CommitVerifyMfa, CommitRemoveMfa, CommitRegenerate, IssueTokens
  <2> QED BY <1>1, <2>1, EndsNoUse, SameRows DEF AccountsInv
<1>3. CASE VerifySetup(r) \/ VerifyEnrol(r) \/ VerifySignIn(r) \/ Callback(r)
  <2>1. requests[r] \notin {Fresh, Ended} /\ (End(r) \/ \E a, seen : Move(r, "read", a, seen))
    BY <1>3 DEF VerifySetup, VerifyEnrol, VerifySignIn, Callback
  <2> QED BY <1>1, <2>1, EndsNoUse, MovesNoUse, SameRows DEF AccountsInv
<1>4. CASE FindLink(r)
  <2>1. /\ requests[r] \notin {Fresh, Ended} /\ requests[r].op = "callback"
        /\ \E a, seen : Move(r, "second", a, seen)
    BY <1>4 DEF FindLink
  <2> QED BY <1>1, <2>1, MovesNoUse, SameRows DEF AccountsInv, Uses
<1> QED BY <1>2, <1>3, <1>4

LEMMA OtherSteps ==
  ASSUME AccountsInv, (\E p \in Providers : DeleteProvider(p)) \/ SetDomain \/ StopAccounts
  PROVE  AccountsInv'
<1>1. UNCHANGED <<accounts, passkeys, identities, keys, lateUse>>
  BY DEF DeleteProvider, SetDomain, StopAccounts
<1>2. CASE (\E p \in Providers : DeleteProvider(p)) \/ SetDomain
  BY <1>1, <1>2, IdleNoUse, SameRows DEF AccountsInv, DeleteProvider, SetDomain
<1>3. CASE StopAccounts
  <2>1. NoNewUse
    BY <1>3 DEF StopAccounts, NoNewUse, Shaped, AccountsInv, Is
  <2> QED BY <1>1, <2>1, SameRows
<1> QED BY <1>2, <1>3
-----------------------------------------------------------------------------
(* The steps that write rows. *)

\* Rows that are added, and accounts, take none of what is in use.
LEMMA Growing ==
  ASSUME AccountsInv, NEW r \in Requests, End(r), passkeys \subseteq passkeys', keys \subseteq keys'
  PROVE  Shaped' /\ InUse'
BY EndsNoUse, KeptInUse DEF AccountsInv, NoNewUse

LEMMA RegisterStep == ASSUME AccountsInv, NEW r \in Requests, CommitRegister(r) PROVE AccountsInv'
<1>1. Shaped' /\ InUse'
  BY Growing DEF CommitRegister
<1>2. CASE accounts' = accounts
  BY <1>1, <1>2 DEF CommitRegister, AccountsInv, SoundAccounts, Unambiguous, Behind, Present
<1>3. CASE accounts' # accounts
  <2>1. PICK role : /\ EmailFree(requests[r].item) /\ Room
                    /\ Insert(requests[r].item, TRUE, role)
    BY <1>3 DEF CommitRegister
  <2>2. /\ Present' = Present \cup {NewId}
        /\ \A a, b \in Present' : a # b => accounts'[a].email # accounts'[b].email
    BY <2>1, NewAccount DEF AccountsInv
  <2> QED BY <1>1, <2>2 DEF CommitRegister, AccountsInv, SoundAccounts, Unambiguous, Behind
<1> QED BY <1>2, <1>3

LEMMA SetupStep == ASSUME AccountsInv, NEW r \in Requests, CommitSetup(r) PROVE AccountsInv'
<1>1. UNCHANGED <<identities, keys, lateUse>> /\ Room /\ End(r)
  BY DEF CommitSetup
<1>2. CASE UNCHANGED <<accounts, passkeys>>
  BY <1>1, <1>2, EndsNoUse, SameRows DEF AccountsInv
<1>3. CASE ~UNCHANGED <<accounts, passkeys>>
  <2>1. PICK x \in Credentials :
          /\ EmailFree(requests[r].item) /\ PasskeyFree(x)
          /\ Insert(requests[r].item, FALSE, "owner") /\ passkeys' = passkeys \cup {<<x, NewId>>}
    BY <1>3 DEF CommitSetup
  <2>2. /\ Present' = Present \cup {NewId}
        /\ \A a, b \in Present' : a # b => accounts'[a].email # accounts'[b].email
    BY <1>1, <2>1, NewAccount DEF AccountsInv
  <2>3. Unambiguous(passkeys')
    BY <2>1, AddRow DEF PasskeyFree, AccountsInv, SoundAccounts
  <2>4. Shaped' /\ InUse'
    BY <1>1, <2>1, Growing
  <2> QED BY <1>1, <2>1, <2>2, <2>3, <2>4 DEF AccountsInv, SoundAccounts, Unambiguous, Behind
<1> QED BY <1>2, <1>3

LEMMA EnrolStep == ASSUME AccountsInv, NEW r \in Requests, CommitEnrol(r) PROVE AccountsInv'
<1>1. UNCHANGED <<accounts, identities, keys, lateUse>> /\ End(r)
  BY DEF CommitEnrol
<1>2. CASE passkeys' = passkeys
  BY <1>1, <1>2, EndsNoUse, SameRows DEF AccountsInv
<1>3. CASE passkeys' # passkeys
  <2>1. PICK x : /\ PasskeyFree(x) /\ requests[r].account \in Present
                 /\ passkeys' = passkeys \cup {<<x, requests[r].account>>}
    BY <1>3 DEF CommitEnrol
  <2>2. Unambiguous(passkeys')
    BY <2>1, AddRow DEF PasskeyFree, AccountsInv, SoundAccounts
  <2>3. Shaped' /\ InUse'
    BY <1>1, <2>1, Growing
  <2> QED BY <1>1, <2>1, <2>2, <2>3 DEF AccountsInv, SoundAccounts, Unambiguous, Behind, Present
<1> QED BY <1>2, <1>3

LEMMA CreateKeyStep ==
  ASSUME AccountsInv, NEW a \in AccountIds, NEW x \in Keys, CreateApiKey(a, x) PROVE AccountsInv'
<1>1. /\ UNCHANGED <<accounts, passkeys, identities, lateUse, requests>>
      /\ a \in Present /\ RowFree(keys, x) /\ keys' = keys \cup {<<x, a>>}
  BY DEF CreateApiKey, KeyFree
<1>2. Unambiguous(keys')
  BY <1>1, AddRow DEF AccountsInv, SoundAccounts
<1>3. Shaped' /\ InUse'
  BY <1>1, IdleNoUse, KeptInUse DEF AccountsInv, NoNewUse
<1> QED BY <1>1, <1>2, <1>3 DEF AccountsInv, SoundAccounts, Unambiguous, Behind, Present

\* Whoever deletes a row waits for its use: the rows in use are others.
LEMMA DeletePasskeyStep ==
  ASSUME AccountsInv, NEW r \in Requests, CommitDeletePasskey(r) PROVE AccountsInv'
<1>1. /\ UNCHANGED <<accounts, identities, keys, lateUse>> /\ End(r)
      /\ passkeys' = {row \in passkeys : row[1] # requests[r].item}
      /\ ~Locked(requests[r].item)
  BY DEF CommitDeletePasskey
<1>2. \A q \in Requests : Is(q, "signin", "second") => requests[q].item # requests[r].item
  BY <1>1 DEF Locked
<1>3. Shaped' /\ InUse'
  BY <1>1, <1>2, EndsNoUse, KeptInUse DEF AccountsInv, NoNewUse
<1> QED BY <1>1, <1>3 DEF AccountsInv, SoundAccounts, Unambiguous, Behind, Present

LEMMA DeleteKeyStep ==
  ASSUME AccountsInv, NEW r \in Requests, CommitDeleteApiKey(r) PROVE AccountsInv'
<1>1. /\ UNCHANGED <<accounts, identities, passkeys, lateUse>> /\ End(r)
      /\ keys' = {row \in keys : row[1] # requests[r].item}
      /\ ~Locked(requests[r].item)
  BY DEF CommitDeleteApiKey
<1>2. \A q \in Requests : Is(q, "use_key", "second") => requests[q].item # requests[r].item
  BY <1>1 DEF Locked
<1>3. Shaped' /\ InUse'
  BY <1>1, <1>2, EndsNoUse, KeptInUse DEF AccountsInv, NoNewUse
<1> QED BY <1>1, <1>3 DEF AccountsInv, SoundAccounts, Unambiguous, Behind, Present

\* The row is found and locked in one statement.
LEMMA TouchStep == ASSUME AccountsInv, NEW r \in Requests, Touch(r) PROVE AccountsInv'
<1>1. /\ UNCHANGED <<accounts, passkeys, identities, keys, lateUse>>
      /\ requests[r] \notin {Fresh, Ended}
  BY DEF Touch, Is
<1>2. CASE End(r)
  BY <1>1, <1>2, EndsNoUse, SameRows DEF AccountsInv
<1>3. CASE ~End(r)
  <2>1. PICK op \in Uses : /\ Is(r, op, "read") /\ ~RowFree(Rows(op), requests[r].item)
                           /\ Move(r, "second", None, TRUE)
    BY <1>3 DEF Touch, Uses
  <2>2. /\ requests'[r].op = requests[r].op /\ requests'[r].item = requests[r].item
        /\ \A q \in Requests \ {r} : requests'[q] = requests[q]
        /\ Shaped'
    BY <1>1, <2>1, MovesOn DEF AccountsInv
  <2>3. ASSUME NEW q \in Requests, NEW use \in Uses, Is(q, use, "second")'
        PROVE  ~RowFree(Rows(use), requests'[q].item)
    BY <2>1, <2>2, <2>3 DEF AccountsInv, InUse, Is
  <2>4. InUse'
    BY <1>1, <2>3 DEF InUse, Rows, RowFree, Owner
  <2>5. SoundAccounts'
    BY <1>1 DEF AccountsInv, SoundAccounts, Unambiguous, Behind, Present
  <2> QED BY <2>2, <2>4, <2>5 DEF AccountsInv
<1> QED BY <1>2, <1>3

LEMMA UseStep == ASSUME AccountsInv, NEW r \in Requests, CommitUse(r) PROVE AccountsInv'
<1>1. /\ UNCHANGED <<accounts, passkeys, identities, keys>> /\ requests[r] \notin {Fresh, Ended}
      /\ End(r) \/ Move(r, "recorded", None, TRUE)
  BY DEF CommitUse, Is
<1>2. lateUse' = lateUse
  BY DEF CommitUse, AccountsInv, InUse, Uses
<1>3. NoNewUse
  BY <1>1, EndsNoUse, MovesNoUse DEF AccountsInv
<1> QED BY <1>1, <1>2, <1>3, SameRows

LEMMA UnlinkStep == ASSUME AccountsInv, NEW r \in Requests, CommitUnlink(r) PROVE AccountsInv'
<1>1. /\ UNCHANGED <<accounts, passkeys, keys, lateUse>> /\ End(r)
      /\ identities' \subseteq identities
  BY DEF CommitUnlink
<1>2. Shaped' /\ InUse'
  BY <1>1, Growing
<1> QED BY <1>1, <1>2 DEF AccountsInv, SoundAccounts, Unambiguous, Behind, Present

\* The unique columns decide what two callbacks have found before.
LEMMA CallbackStep == ASSUME AccountsInv, NEW r \in Requests, CommitCallback(r) PROVE AccountsInv'
<1> DEFINE s == requests[r].item
           a == requests[r].account
<1>1. UNCHANGED <<passkeys, keys, lateUse>> /\ End(r) /\ Room
  BY DEF CommitCallback
<1>2. Shaped' /\ InUse'
  BY <1>1, Growing
<1>3. CASE UNCHANGED <<accounts, identities>>
  BY <1>1, <1>3, EndsNoUse, SameRows DEF AccountsInv
<1>4. ASSUME identities' # identities => LinkFree(s),
             \E b : identities' \in {identities, identities \cup {<<s, b>>}}
      PROVE  Unambiguous(identities')
  <2>1. Unambiguous(identities)
    BY DEF AccountsInv, SoundAccounts
  <2>2. PICK b : identities' \in {identities, identities \cup {<<s, b>>}}
    BY <1>4
  <2>3. CASE identities' = identities
    BY <2>1, <2>3 DEF Unambiguous
  <2>4. CASE RowFree(identities, s) /\ identities' = identities \cup {<<s, b>>}
    <3>1. Unambiguous(identities \cup {<<s, b>>})
      BY <2>1, <2>4, AddRow
    <3> QED BY <2>4, <3>1 DEF Unambiguous
  <2> QED BY <1>4, <2>2, <2>3, <2>4 DEF LinkFree
<1>5. CASE /\ a = None /\ EmailFree(UserInfo(s)) /\ Insert(UserInfo(s), FALSE, "contributor")
           /\ identities' \in {identities, identities \cup {<<s, NewId>>}}
           /\ identities' # identities => LinkFree(s)
  <2>1. /\ Present' = Present \cup {NewId}
        /\ \A c, d \in Present' : c # d => accounts'[c].email # accounts'[d].email
    BY <1>1, <1>5, NewAccount DEF AccountsInv
  <2>2. \E b : identities' \in {identities, identities \cup {<<s, b>>}}
    BY <1>5
  <2>3. identities' # identities => LinkFree(s)
    BY <1>5
  <2>4. Unambiguous(identities')
    BY <1>4, <2>2, <2>3
  <2> QED BY <1>1, <1>2, <1>5, <2>1, <2>4 DEF AccountsInv, SoundAccounts, Unambiguous, Behind
<1>6. CASE /\ a \in Present /\ accounts' = accounts
           /\ identities' \in {identities, identities \cup {<<s, a>>}}
           /\ identities' # identities => LinkFree(s)
  <2>1. \E b : identities' \in {identities, identities \cup {<<s, b>>}}
    BY <1>6
  <2>2. identities' # identities => LinkFree(s)
    BY <1>6
  <2>3. Unambiguous(identities')
    BY <1>4, <2>1, <2>2
  <2> QED BY <1>1, <1>2, <1>6, <2>3 DEF AccountsInv, SoundAccounts, Unambiguous, Behind, Present
<1> QED BY <1>3, <1>5, <1>6 DEF CommitCallback

\* An account goes when no row refers to it any more.
LEMMA RemoveStep ==
  ASSUME AccountsInv, NEW a \in AccountIds, RemoveAccount(a) PROVE AccountsInv'
<1>1. /\ UNCHANGED <<passkeys, identities, keys, requests, lateUse>>
      /\ accounts' = [b \in Present \ {a} |-> accounts[b]]
      /\ \A rows \in {passkeys, identities, keys} : Of(rows, a) = {}
  BY DEF RemoveAccount
<1>2. \A rows \in {passkeys, identities, keys} : \A w \in rows : w[2] # a
  BY <1>1 DEF Of
<1>3. /\ Present' = Present \ {a}
      /\ \A b \in Present' : accounts'[b] = accounts[b]
  BY <1>1 DEF Present
<1>4. Shaped' /\ InUse'
  BY <1>1, IdleNoUse, KeptInUse DEF AccountsInv, NoNewUse
<1> QED BY <1>1, <1>2, <1>3, <1>4 DEF AccountsInv, SoundAccounts, Unambiguous, Behind
-----------------------------------------------------------------------------
LEMMA AccountsKeep == AccountsInv /\ [AccountsNext]_accountVars => AccountsInv'
<1> SUFFICES ASSUME AccountsInv, [AccountsNext]_accountVars PROVE AccountsInv'
  OBVIOUS
<1>1. CASE UNCHANGED accountVars
  BY <1>1, IdleNoUse, SameRows DEF AccountsInv, accountVars
<1>2. CASE AccountsUser
  <2>1. CASE (\E p \in Providers : DeleteProvider(p)) \/ SetDomain
    BY <2>1, OtherSteps
  <2>2. CASE \E a \in AccountIds, x \in Keys : CreateApiKey(a, x)
    BY <2>2, CreateKeyStep
  <2> QED BY <1>2, <2>1, <2>2, LookingSteps DEF AccountsUser
<1>3. CASE AccountsStep
  BY <1>3, SecondLooks, RegisterStep, SetupStep, EnrolStep, DeletePasskeyStep, TouchStep,
     UseStep, DeleteKeyStep, CallbackStep, UnlinkStep DEF AccountsStep
<1>4. CASE StopAccounts
  BY <1>4, OtherSteps
<1>5. CASE \E a \in AccountIds : RemoveAccount(a)
  BY <1>5, RemoveStep
<1> QED BY <1>1, <1>2, <1>3, <1>4, <1>5 DEF AccountsNext

\* Nobody's proof of identity opens two accounts or one that is gone, and no
\* use of a passkey or an API key is recorded after its deletion: whichever
\* registrations, callbacks, enrolments and deletions overlap, the unique
\* columns and the lock on the row that is used decide.  What a request does
\* after it has recorded the use is not covered.
THEOREM CredentialsStaySound == AccountsSpec => []CredentialsSound
<1>1. AccountsSpec => []AccountsInv
  BY AccountsStart, AccountsKeep, PTL DEF AccountsSpec
<1>2. AccountsInv => CredentialsSound
  BY SoundIsGoal DEF AccountsInv
<1> QED BY <1>1, <1>2, PTL
-----------------------------------------------------------------------------
(* The page's session.  A call has had no effect until it is done, and once *)
(* it is done nothing sends it again.                                       *)

Call == [at: Progress, bearer: {"none", "good", "old"}, retry: BOOLEAN]
DoneOnce(c) == executed[c] <= 1 /\ (calls[c].at # "done" => executed[c] = 0)
SessionInv == SessionTypeOK /\ \A c \in Calls : DoneOnce(c)

\* Every call stays a call, and what is done stays done.
Moves == calls' \in [Calls -> Call] /\ \A c \in Calls : calls[c].at = "done" => calls'[c].at = "done"

LEMMA MovesKeep ==
  ASSUME SessionInv, Moves, executed' = executed,
         token' \in {"none", "good", "old"}, accepted' \in BOOLEAN,
         isRefreshing' \in BOOLEAN, sharedRefresh' \in BOOLEAN, socketRefresh' \in BOOLEAN
  PROVE  SessionInv'
BY DEF SessionInv, SessionTypeOK, Moves, DoneOnce, Call

LEMMA AtMoves ==
  ASSUME SessionTypeOK, NEW c \in Calls, NEW at \in Progress, At(c, at),
         calls[c].at # "done" \/ at = "done"
  PROVE  Moves
BY DEF SessionTypeOK, At, Moves, Call

LEMMA SentCall ==
  ASSUME NEW call \in Call, NEW bearer \in {"none", "good", "old"}
  PROVE  Sent(call, bearer) \in Call /\ Sent(call, bearer).at = "sent"
         /\ Rejected(call) \in Call /\ Rejected(call).at = "done"
BY DEF Call, Sent, Rejected, Progress

LEMMA OneMoves ==
  ASSUME SessionTypeOK, NEW c \in Calls, NEW call \in Call, calls' = [calls EXCEPT ![c] = call],
         calls[c].at # "done"
  PROVE  Moves
BY DEF SessionTypeOK, Moves, Call

LEMMA SettleMoves ==
  ASSUME SessionTypeOK, NEW c \in Calls, NEW own \in Call, calls[c].at # "done",
         Settle(AllResent, c, own) \/ Settle(AllRejected, c, own)
  PROVE  Moves
<1>1. \A d \in Calls : calls[d] \in Call
  BY DEF SessionTypeOK, Call
<1>2. ASSUME NEW d \in Waiting(Held)
      PROVE  /\ d \in Calls /\ calls[d].at # "done"
             /\ Resent(calls[d]) \in Call /\ Rejected(calls[d]) \in Call
  BY <1>1, SentCall DEF Waiting, Held, Resent
<1>3. CASE Settle(AllResent, c, own)
  <2>1. calls' = [d \in Calls |-> IF d = c THEN own
                                  ELSE IF d \in Waiting(Held) THEN Resent(calls[d]) ELSE calls[d]]
    BY <1>3 DEF Settle, AllResent
  <2> QED
    BY <1>1, <1>2, <2>1 DEF Moves
<1>4. CASE Settle(AllRejected, c, own)
  <2>1. calls' = [d \in Calls |-> IF d = c THEN own
                                  ELSE IF d \in Waiting(Held) THEN Rejected(calls[d]) ELSE calls[d]]
    BY <1>4 DEF Settle, AllRejected
  <2> QED
    BY <1>1, <1>2, <2>1 DEF Moves
<1> QED
  BY <1>3, <1>4

LEMMA IdleMoves == ASSUME SessionTypeOK, calls' = calls PROVE Moves
BY DEF SessionTypeOK, Moves, Call

LEMMA RequestKeeps ==
  ASSUME SessionInv, NEW c \in Calls, AxiosRequest(c) \/ FetchRequest(c)
  PROVE  SessionInv'
<1>1. SessionTypeOK /\ calls[c] \in Call /\ token \in {"none", "good", "old"} /\ calls[c].at = "new"
  BY DEF SessionInv, SessionTypeOK, Call, AxiosRequest, FetchRequest, NewCall
<1>2. {"held", "renewing", "following"} \subseteq Progress
  BY DEF Progress, Held, Renewing
<1>3. Moves
  <2>1. CASE calls' = [calls EXCEPT ![c] = Sent(calls[c], token)]
    BY <1>1, <2>1, SentCall, OneMoves
  <2>2. CASE \E at \in {"held", "renewing", "following"} : At(c, at)
    BY <1>1, <1>2, <2>2, AtMoves
  <2> QED
    BY <2>1, <2>2 DEF AxiosRequest, FetchRequest
<1> QED
  BY <1>1, <1>3, MovesKeep DEF AxiosRequest, FetchRequest, SessionTypeOK

\* A 401 has had no effect.
LEMMA UnauthorizedKeeps ==
  ASSUME SessionInv, NEW c \in Calls, AxiosUnauthorized(c) \/ FetchUnauthorized(c)
  PROVE  SessionInv'
<1>1. SessionTypeOK /\ calls[c] \in Call /\ calls[c].at = "sent"
  BY DEF SessionInv, SessionTypeOK, Call, AxiosUnauthorized, FetchUnauthorized
<1>2. {"done", "queued", "renewing401"} \subseteq Progress
  BY DEF Progress, Held, Renewing
<1>3. Moves
  <2>1. CASE \E at \in {"done", "queued"} : At(c, at)
    BY <1>1, <1>2, <2>1, AtMoves
  <2>2. CASE Settle(AllRejected, c, Rejected(calls[c]))
    BY <1>1, <2>2, SentCall, SettleMoves
  <2>3. CASE calls' = [calls EXCEPT ![c].at = "renewing401", ![c].retry = TRUE]
    <3>1. [calls[c] EXCEPT !.at = "renewing401", !.retry = TRUE] \in Call
      BY <1>1, <1>2 DEF Call
    <3>2. calls' = [calls EXCEPT ![c] = [calls[c] EXCEPT !.at = "renewing401", !.retry = TRUE]]
      BY <1>1, <2>3 DEF SessionTypeOK
    <3> QED
      BY <1>1, <3>1, <3>2, OneMoves
  <2> QED
    BY <2>1, <2>2, <2>3 DEF AxiosUnauthorized, FetchUnauthorized
<1> QED
  BY <1>1, <1>3, MovesKeep DEF AxiosUnauthorized, FetchUnauthorized, SessionTypeOK

LEMMA RefreshKeeps ==
  ASSUME SessionInv, NEW c \in Calls,
         AxiosRenewed(c) \/ AxiosNotRenewed(c) \/ FetchRenewed(c) \/ FetchNotRenewed(c)
  PROVE  SessionInv'
<1>1. SessionTypeOK /\ calls[c] \in Call /\ calls[c].at # "done"
  BY DEF SessionInv, SessionTypeOK, Call, AxiosRenewed, AxiosNotRenewed, FetchRenewed, FetchNotRenewed,
         Renewing
<1>2. "done" \in Progress
  BY DEF Progress
<1>3. Moves
  <2>1. CASE AxiosRenewed(c)
    BY <1>1, <2>1, SentCall, SettleMoves DEF AxiosRenewed
  <2>2. CASE AxiosNotRenewed(c)
    BY <1>1, <2>2, SentCall, SettleMoves DEF AxiosNotRenewed
  <2>3. CASE FetchRenewed(c)
    BY <1>1, <2>3, SentCall, OneMoves DEF FetchRenewed
  <2>4. CASE FetchNotRenewed(c)
    BY <1>1, <1>2, <2>4, AtMoves DEF FetchNotRenewed
  <2> QED
    BY <2>1, <2>2, <2>3, <2>4
<1> QED
  BY <1>1, <1>3, MovesKeep
  DEF AxiosRenewed, AxiosNotRenewed, FetchRenewed, FetchNotRenewed, Renew, RefreshToken, Store,
      ClearAuth, SessionTypeOK

LEMMA SharedKeeps == SessionInv /\ (SharedRenewed \/ SharedNotRenewed) => SessionInv'
<1> SUFFICES ASSUME SessionInv, SharedRenewed \/ SharedNotRenewed PROVE SessionInv'
  OBVIOUS
<1>1. \A c \in Calls : calls[c] \in Call
  BY DEF SessionInv, SessionTypeOK, Call
<1>2. PICK bearer \in {"none", "good"} :
        calls' = [c \in Calls |-> IF calls[c].at = "following" THEN Sent(calls[c], bearer) ELSE calls[c]]
  BY DEF SharedRenewed, SharedNotRenewed
<1>3. Moves
  BY <1>1, <1>2, SentCall DEF Moves
<1> QED
  BY <1>3, MovesKeep DEF SharedRenewed, SharedNotRenewed, Renew, RefreshToken, Store, SessionInv,
                         SessionTypeOK

LEMMA TokenKeeps ==
  SessionInv /\ (RefreshForSocket \/ SocketRenewed \/ SocketNotRenewed \/ SignIn \/ SignOut \/ Forget)
    => SessionInv'
<1> SUFFICES ASSUME SessionInv,
                    RefreshForSocket \/ SocketRenewed \/ SocketNotRenewed \/ SignIn \/ SignOut \/ Forget
             PROVE  SessionInv'
  OBVIOUS
<1>1. calls' = calls /\ executed' = executed
  BY DEF RefreshForSocket, SocketRenewed, SocketNotRenewed, SignIn, SignOut, Forget
<1> QED
  BY <1>1, IdleMoves, MovesKeep
  DEF RefreshForSocket, SocketRenewed, SocketNotRenewed, SignIn, SignOut, Forget, Renew, RefreshToken,
      Store, ClearAuth, SessionInv, SessionTypeOK

LEMMA AgeKeeps == SessionInv /\ Age => SessionInv'
<1> SUFFICES ASSUME SessionInv, Age PROVE SessionInv'
  OBVIOUS
<1>1. \A c \in Calls : calls[c] \in Call /\ [calls[c] EXCEPT !.bearer = "old"] \in Call
                       /\ [calls[c] EXCEPT !.bearer = "old"].at = calls[c].at
  BY DEF SessionInv, SessionTypeOK, Call
<1>2. Moves
  BY <1>1 DEF Age, Moves
<1> QED
  BY <1>2, MovesKeep DEF Age, SessionInv, SessionTypeOK

\* Only a call that is under way has an effect, and then it is done.
LEMMA EffectKeeps ==
  ASSUME SessionInv, NEW c \in Calls, Execute(c) \/ LoseCall(c)
  PROVE  SessionInv'
<1>1. /\ SessionTypeOK /\ calls[c].at = "sent" /\ executed[c] = 0
      /\ UNCHANGED <<token, accepted, isRefreshing, sharedRefresh, socketRefresh>>
  BY DEF Execute, LoseCall, SessionInv, DoneOnce
<1>2. Moves /\ calls'[c].at = "done"
  <2>1. "done" \in Progress
    BY DEF Progress
  <2> QED
    BY <1>1, <2>1, AtMoves DEF Execute, LoseCall, At, SessionTypeOK
<1>3. PICK reached \in {0, 1} : executed' = [executed EXCEPT ![c] = executed[c] + reached]
  BY DEF Execute, LoseCall
<1>4. executed' \in [Calls -> 0..2] /\ executed'[c] \in {0, 1}
      /\ \A d \in Calls \ {c} : executed'[d] = executed[d]
  BY <1>1, <1>3 DEF SessionTypeOK
<1>5. \A d \in Calls : DoneOnce(d)'
  BY <1>2, <1>4 DEF SessionInv, DoneOnce, Moves
<1> QED
  BY <1>1, <1>2, <1>4, <1>5 DEF SessionInv, SessionTypeOK, Moves, Call

LEMMA SessionStart == SessionInit => SessionInv
<1> SUFFICES ASSUME SessionInit PROVE SessionInv
  OBVIOUS
<1>1. calls \in [Calls -> [at: Progress, bearer: {"none", "good", "old"}, retry: BOOLEAN]]
  BY DEF SessionInit, Progress
<1>2. executed \in [Calls -> 0..2] /\ \A c \in Calls : executed[c] = 0
  BY DEF SessionInit
<1>3. \A c \in Calls : DoneOnce(c)
  BY <1>2 DEF DoneOnce
<1> QED
  BY <1>1, <1>2, <1>3 DEF SessionInit, SessionInv, SessionTypeOK

LEMMA SessionKeep == SessionInv /\ [SessionNext]_sessionVars => SessionInv'
<1> SUFFICES ASSUME SessionInv, [SessionNext]_sessionVars PROVE SessionInv'
  OBVIOUS
<1>1. CASE UNCHANGED sessionVars
  BY <1>1, IdleMoves, MovesKeep DEF sessionVars, SessionInv, SessionTypeOK
<1>2. CASE SessionUser
  BY <1>2, RequestKeeps, TokenKeeps DEF SessionUser
<1>3. CASE SessionFault
  BY <1>3, AgeKeeps, EffectKeeps, RefreshKeeps, SharedKeeps, TokenKeeps DEF SessionFault, RefreshFails
<1>4. CASE SessionStep
  BY <1>4, EffectKeeps, UnauthorizedKeeps, RefreshKeeps, SharedKeeps, TokenKeeps
     DEF SessionStep, Answer, SharedAnswer, SocketAnswer
<1>5. CASE SignIn \/ Forget \/ RefreshForSocket
  BY <1>5, TokenKeeps
<1> QED
  BY <1>1, <1>2, <1>3, <1>4, <1>5 DEF SessionNext

\* The server does what a call asks for at most once, because what was executed
\* has left every queue.
THEOREM CallsOnce == SessionSpec => [](SessionTypeOK /\ CallsRunOnce)
<1>1. SessionInv => SessionTypeOK /\ CallsRunOnce
  BY DEF SessionInv, DoneOnce, CallsRunOnce
<1> QED
  BY SessionStart, SessionKeep, <1>1, PTL DEF SessionSpec
-----------------------------------------------------------------------------
(* The lock of the interceptors and the shared promise.                     *)

\* Who holds what, in terms of one call.
Queued(call) == call.at \in Held
Renews(call) == call.at \in Renewing
SharesPromise(call) == call.at = "following"

\* Nobody joins a queue, and who renews goes on to.
LEMMA SameLock ==
  ASSUME NobodyLeftBehind, isRefreshing' = isRefreshing, sharedRefresh' = sharedRefresh,
         \A d \in Calls : Queued(calls'[d]) => Queued(calls[d]),
         \A d \in AxiosCalls : Renews(calls'[d]) <=> Renews(calls[d]),
         \A d \in Calls : SharesPromise(calls'[d]) <=> SharesPromise(calls[d])
  PROVE  NobodyLeftBehind'
BY DEF NobodyLeftBehind, Waiting, Queued, Renews, SharesPromise, Calls

\* The same when one call moves that renews nothing for axios, before or after.
LEMMA OneElsewhere ==
  ASSUME SessionTypeOK, NobodyLeftBehind, NEW c \in Calls, NEW call,
         calls' = [calls EXCEPT ![c] = call],
         isRefreshing' = isRefreshing, sharedRefresh' = sharedRefresh,
         Queued(call) => isRefreshing,
         c \in AxiosCalls => ~Renews(calls[c]) /\ ~Renews(call),
         SharesPromise(calls[c]) <=> SharesPromise(call)
  PROVE  NobodyLeftBehind'
<1>1. /\ calls'[c] = call
      /\ \A d \in Calls \ {c} : calls'[d] = calls[d]
  BY DEF SessionTypeOK
<1>2. Waiting(Held)' # {} => isRefreshing
  BY <1>1 DEF Waiting, NobodyLeftBehind, Queued
<1>3. \A d \in AxiosCalls : calls'[d].at \in Renewing <=> calls[d].at \in Renewing
  BY <1>1 DEF Renews, Calls
<1>4. Waiting({"following"})' = Waiting({"following"})
  BY <1>1 DEF Waiting, SharesPromise
<1> QED
  BY <1>2, <1>3, <1>4 DEF NobodyLeftBehind

\* Who takes the free lock renews alone.
LEMMA LockTaken ==
  ASSUME SessionTypeOK, NobodyLeftBehind, NEW c \in AxiosCalls, NEW call,
         calls' = [calls EXCEPT ![c] = call], ~isRefreshing, isRefreshing', Renews(call),
         ~SharesPromise(calls[c]), sharedRefresh' = sharedRefresh
  PROVE  NobodyLeftBehind'
<1>1. c \in Calls /\ calls'[c] = call /\ \A d \in Calls \ {c} : calls'[d] = calls[d]
  BY DEF SessionTypeOK, Calls
<1>2. \A d \in AxiosCalls : calls'[d].at \in Renewing <=> d = c
  BY <1>1 DEF NobodyLeftBehind, Renews, Calls
<1>3. Waiting({"following"})' = Waiting({"following"})
  BY <1>1 DEF Waiting, SharesPromise, Renews, Renewing
<1> QED
  BY <1>2, <1>3 DEF NobodyLeftBehind

\* Who releases the lock, or meets a free one without a token, empties the queue.
LEMMA QueueEmptied ==
  ASSUME SessionTypeOK, NobodyLeftBehind, NEW c \in AxiosCalls, NEW own \in Call, own.at \in {"sent", "done"},
         Settle(AllResent, c, own) \/ Settle(AllRejected, c, own),
         Renews(calls[c]) \/ (calls[c].at = "sent" /\ ~isRefreshing),
         isRefreshing' = FALSE, sharedRefresh' = sharedRefresh
  PROVE  NobodyLeftBehind'
<1>1. \A d \in Waiting(Held) : Resent(calls[d]).at = "sent" /\ Rejected(calls[d]).at = "done"
  BY SentCall DEF Waiting, Resent, SessionTypeOK, Call
<1>2. c \in Calls
  BY DEF Calls
<1>3. /\ calls'[c] = own
      /\ \A d \in Waiting(Held) \ {c} : calls'[d].at \in {"sent", "done"}
      /\ \A d \in Calls \ (Waiting(Held) \cup {c}) : calls'[d] = calls[d]
  <2>1. CASE Settle(AllResent, c, own)
    <3>1. calls' = [d \in Calls |-> IF d = c THEN own
                                    ELSE IF d \in Waiting(Held) THEN Resent(calls[d]) ELSE calls[d]]
      BY <2>1 DEF Settle, AllResent
    <3> QED
      BY <1>1, <1>2, <3>1 DEF Waiting
  <2>2. CASE Settle(AllRejected, c, own)
    <3>1. calls' = [d \in Calls |-> IF d = c THEN own
                                    ELSE IF d \in Waiting(Held) THEN Rejected(calls[d]) ELSE calls[d]]
      BY <2>2 DEF Settle, AllRejected
    <3> QED
      BY <1>1, <1>2, <3>1 DEF Waiting
  <2> QED
    BY <2>1, <2>2
<1>4. Waiting(Held)' = {}
  BY <1>3 DEF Waiting, Held
<1>5. \A d \in AxiosCalls : calls'[d].at \notin Renewing
  <2> TAKE d \in AxiosCalls
  <2>1. CASE d = c
    BY <1>3, <2>1 DEF Renewing
  <2>2. CASE d \in Waiting(Held) \ {c}
    BY <1>3, <2>2 DEF Renewing
  <2>3. CASE d \notin Waiting(Held) \cup {c}
    BY <1>3, <2>3 DEF NobodyLeftBehind, Renews, Calls
  <2> QED
    BY <2>1, <2>2, <2>3
<1>6. Waiting({"following"})' = Waiting({"following"})
  <2>1. calls[c].at # "following" /\ own.at # "following"
    BY DEF Renews, Renewing
  <2>2. \A d \in Waiting(Held) : calls[d].at # "following"
    BY DEF Waiting, Held
  <2> QED
    BY <1>3, <2>1, <2>2 DEF Waiting
<1> QED
  BY <1>4, <1>5, <1>6 DEF NobodyLeftBehind

LEMMA BehindRequest ==
  ASSUME SessionTypeOK, NobodyLeftBehind, NEW c \in Calls, AxiosRequest(c) \/ FetchRequest(c)
  PROVE  NobodyLeftBehind'
<1>1. calls[c].at = "new" /\ calls[c] \in Call /\ ~Renews(calls[c]) /\ ~SharesPromise(calls[c])
  BY DEF SessionTypeOK, Call, AxiosRequest, FetchRequest, NewCall, Renews, Renewing, SharesPromise
<1>2. CASE calls' = [calls EXCEPT ![c] = Sent(calls[c], token)]
           /\ isRefreshing' = isRefreshing /\ sharedRefresh' = sharedRefresh
  <2>1. Sent(calls[c], token).at = "sent"
    BY <1>1, SentCall DEF SessionTypeOK
  <2> QED
    BY <1>1, <1>2, <2>1, OneElsewhere DEF Queued, Held, Renews, Renewing, SharesPromise
<1> DEFINE Now(at) == [calls[c] EXCEPT !.at = at]
<1>3. \A at : At(c, at) => calls' = [calls EXCEPT ![c] = Now(at)]
  BY DEF At, SessionTypeOK
<1>4. \A at : Now(at).at = at
  BY <1>1 DEF Call
<1> HIDE DEF Now
<1>5. CASE At(c, "held") /\ isRefreshing /\ isRefreshing' = isRefreshing /\ sharedRefresh' = sharedRefresh
  BY <1>1, <1>3, <1>4, <1>5, OneElsewhere DEF Renews, Renewing, SharesPromise
<1>6. CASE At(c, "renewing") /\ c \in AxiosCalls /\ ~isRefreshing /\ isRefreshing'
           /\ sharedRefresh' = sharedRefresh
  <2>1. Renews(Now("renewing"))
    BY <1>4 DEF Renews, Renewing
  <2> QED
    BY <1>1, <1>3, <1>6, <2>1, LockTaken
<1>7. CASE At(c, "following") /\ sharedRefresh' /\ c \in FetchCalls /\ isRefreshing' = isRefreshing
  <2>1. calls'[c].at = "following" /\ \A d \in Calls \ {c} : calls'[d] = calls[d]
    BY <1>3, <1>4, <1>7 DEF SessionTypeOK
  <2>2. Waiting({"following"})' # {}
    BY <2>1 DEF Waiting
  <2>3. Waiting(Held)' \subseteq Waiting(Held)
    BY <2>1 DEF Waiting, Held
  <2>4. \A d \in AxiosCalls : calls'[d] = calls[d]
    BY <1>7, <2>1, ClientsAssumption DEF Calls
  <2> QED
    BY <1>7, <2>2, <2>3, <2>4 DEF NobodyLeftBehind
<1> QED
  BY <1>2, <1>5, <1>6, <1>7 DEF AxiosRequest, FetchRequest, NewCall, SessionTypeOK

LEMMA BehindUnauthorized ==
  ASSUME SessionTypeOK, NobodyLeftBehind, NEW c \in Calls, AxiosUnauthorized(c) \/ FetchUnauthorized(c)
  PROVE  NobodyLeftBehind'
<1>1. calls[c].at = "sent" /\ calls[c] \in Call /\ ~Renews(calls[c]) /\ ~SharesPromise(calls[c])
      /\ sharedRefresh' = sharedRefresh
  BY DEF SessionTypeOK, Call, AxiosUnauthorized, FetchUnauthorized, Renews, Renewing, SharesPromise
<1> DEFINE Now(at) == [calls[c] EXCEPT !.at = at]
           Retried == [calls[c] EXCEPT !.at = "renewing401", !.retry = TRUE]
<1>2. \A at : At(c, at) => calls' = [calls EXCEPT ![c] = Now(at)]
  BY DEF At, SessionTypeOK
<1>3. (\A at : Now(at).at = at) /\ Retried.at = "renewing401"
  BY <1>1 DEF Call
<1>4. calls' = [calls EXCEPT ![c].at = "renewing401", ![c].retry = TRUE]
        => calls' = [calls EXCEPT ![c] = Retried]
  BY DEF SessionTypeOK
<1> HIDE DEF Now, Retried
<1>5. CASE At(c, "done") /\ isRefreshing' = isRefreshing
  BY <1>1, <1>2, <1>3, <1>5, OneElsewhere DEF Queued, Held, Renews, Renewing, SharesPromise
<1>6. CASE At(c, "queued") /\ isRefreshing /\ isRefreshing' = isRefreshing
  BY <1>1, <1>2, <1>3, <1>6, OneElsewhere DEF Renews, Renewing, SharesPromise
<1>7. CASE Settle(AllRejected, c, Rejected(calls[c])) /\ c \in AxiosCalls /\ ~isRefreshing
           /\ isRefreshing' = isRefreshing
  <2>1. Rejected(calls[c]) \in Call /\ Rejected(calls[c]).at = "done"
    BY <1>1, SentCall
  <2>2. isRefreshing' = FALSE
    BY <1>7 DEF SessionTypeOK
  <2> QED
    BY <1>1, <1>7, <2>1, <2>2, QueueEmptied
<1>8. CASE calls' = [calls EXCEPT ![c] = Retried] /\ c \in AxiosCalls /\ ~isRefreshing /\ isRefreshing'
  <2>1. Renews(Retried)
    BY <1>3 DEF Renews, Renewing
  <2> QED
    BY <1>1, <1>8, <2>1, LockTaken
<1>9. CASE calls' = [calls EXCEPT ![c] = Retried] /\ c \in FetchCalls /\ isRefreshing' = isRefreshing
  <2>1. c \notin AxiosCalls
    BY <1>9, ClientsAssumption
  <2> QED
    BY <1>1, <1>3, <1>9, <2>1, OneElsewhere DEF Queued, Held, SharesPromise
<1> QED
  BY <1>4, <1>5, <1>6, <1>7, <1>8, <1>9 DEF AxiosUnauthorized, FetchUnauthorized

LEMMA BehindRefresh ==
  ASSUME SessionTypeOK, NobodyLeftBehind, NEW c \in Calls,
         AxiosRenewed(c) \/ AxiosNotRenewed(c) \/ FetchRenewed(c) \/ FetchNotRenewed(c)
  PROVE  NobodyLeftBehind'
<1>1. calls[c] \in Call /\ sharedRefresh' = sharedRefresh
  BY DEF SessionTypeOK, Call, AxiosRenewed, AxiosNotRenewed, FetchRenewed, FetchNotRenewed
<1>2. \A bearer \in {"none", "good", "old"} :
        Sent(calls[c], bearer) \in Call /\ Sent(calls[c], bearer).at = "sent"
  BY <1>1, SentCall
<1>3. Rejected(calls[c]) \in Call /\ Rejected(calls[c]).at = "done"
  BY <1>1, SentCall
<1>4. CASE AxiosRenewed(c) \/ AxiosNotRenewed(c)
  <2>1. PICK own \in {Sent(calls[c], "good"), Sent(calls[c], "old"), Rejected(calls[c])} :
          Settle(AllResent, c, own) \/ Settle(AllRejected, c, own)
    BY <1>4 DEF AxiosRenewed, AxiosNotRenewed
  <2>2. own \in Call /\ own.at \in {"sent", "done"}
    BY <1>2, <1>3
  <2>3. c \in AxiosCalls /\ Renews(calls[c]) /\ isRefreshing' = FALSE
    BY <1>4 DEF AxiosRenewed, AxiosNotRenewed, Renews
  <2> QED
    BY <1>1, <2>1, <2>2, <2>3, QueueEmptied
<1>5. CASE FetchRenewed(c) \/ FetchNotRenewed(c)
  <2>1. c \notin AxiosCalls /\ isRefreshing' = isRefreshing /\ calls[c].at = "renewing401"
    BY <1>5, ClientsAssumption DEF FetchRenewed, FetchNotRenewed
  <2>2. PICK call : calls' = [calls EXCEPT ![c] = call] /\ call.at \in {"sent", "done"}
    <3>1. CASE FetchRenewed(c)
      BY <1>2, <3>1 DEF FetchRenewed
    <3>2. CASE FetchNotRenewed(c)
      <4>1. calls' = [calls EXCEPT ![c] = [calls[c] EXCEPT !.at = "done"]]
        BY <3>2 DEF FetchNotRenewed, At, SessionTypeOK
      <4>2. [calls[c] EXCEPT !.at = "done"].at = "done"
        BY <1>1 DEF Call
      <4> QED
        BY <4>1, <4>2
    <3> QED
      BY <1>5, <3>1, <3>2
  <2> QED
    BY <1>1, <2>1, <2>2, OneElsewhere DEF Queued, Held, SharesPromise
<1> QED
  BY <1>4, <1>5

LEMMA BehindShared ==
  ASSUME SessionTypeOK, NobodyLeftBehind, SharedRenewed \/ SharedNotRenewed
  PROVE  NobodyLeftBehind'
<1>1. PICK bearer \in {"none", "good"} :
        calls' = [c \in Calls |-> IF calls[c].at = "following" THEN Sent(calls[c], bearer) ELSE calls[c]]
  BY DEF SharedRenewed, SharedNotRenewed
<1>2. \A c \in Calls : calls[c] \in Call
  BY DEF SessionTypeOK, Call
<1>3. \A c \in Calls : IF calls[c].at = "following" THEN calls'[c].at = "sent" ELSE calls'[c] = calls[c]
  BY <1>1, <1>2, SentCall
<1>4. Waiting({"following"})' = {}
  BY <1>3 DEF Waiting
<1>5. Waiting(Held)' \subseteq Waiting(Held)
  BY <1>3 DEF Waiting, Held
<1>6. \A c \in AxiosCalls : calls'[c].at \in Renewing <=> calls[c].at \in Renewing
  BY <1>3 DEF Renewing, Calls
<1>7. isRefreshing' = isRefreshing /\ sharedRefresh' = FALSE
  BY DEF SharedRenewed, SharedNotRenewed
<1> QED
  BY <1>4, <1>5, <1>6, <1>7 DEF NobodyLeftBehind

LEMMA BehindEffect ==
  ASSUME SessionTypeOK, NobodyLeftBehind, NEW c \in Calls, Execute(c) \/ LoseCall(c)
  PROVE  NobodyLeftBehind'
<1>1. calls[c].at = "sent" /\ isRefreshing' = isRefreshing /\ sharedRefresh' = sharedRefresh
  BY DEF Execute, LoseCall
<1>2. calls' = [calls EXCEPT ![c] = [calls[c] EXCEPT !.at = "done"]]
  BY DEF Execute, LoseCall, At, SessionTypeOK
<1>3. [calls[c] EXCEPT !.at = "done"].at = "done"
  BY DEF SessionTypeOK
<1> QED
  BY <1>1, <1>2, <1>3, OneElsewhere DEF Queued, Held, Renews, Renewing, SharesPromise

LEMMA BehindAge == ASSUME SessionTypeOK, NobodyLeftBehind, Age PROVE NobodyLeftBehind'
<1>1. \A c \in Calls : calls'[c].at = calls[c].at
  BY DEF Age, SessionTypeOK
<1> QED
  BY <1>1, SameLock DEF Age, Queued, Renews, SharesPromise, Calls

LEMMA BehindStep ==
  ASSUME SessionTypeOK, NobodyLeftBehind, [SessionNext]_sessionVars
  PROVE  NobodyLeftBehind'
<1>1. CASE UNCHANGED <<calls, isRefreshing, sharedRefresh>>
  BY <1>1 DEF NobodyLeftBehind, Waiting
<1>2. CASE UNCHANGED sessionVars \/ SignIn \/ SignOut \/ Forget \/ RefreshForSocket
           \/ SocketRenewed \/ SocketNotRenewed
  BY <1>1, <1>2 DEF sessionVars, SignIn, SignOut, Forget, RefreshForSocket, SocketRenewed, SocketNotRenewed
<1>3. CASE SessionUser
  BY <1>2, <1>3, BehindRequest DEF SessionUser
<1>4. CASE SessionFault
  BY <1>2, <1>4, BehindAge, BehindEffect, BehindRefresh, BehindShared DEF SessionFault, RefreshFails
<1>5. CASE SessionStep
  BY <1>2, <1>5, BehindEffect, BehindUnauthorized, BehindRefresh, BehindShared
     DEF SessionStep, Answer, SharedAnswer, SocketAnswer
<1> QED
  BY <1>2, <1>3, <1>4, <1>5 DEF SessionNext

\* Whatever refreshes of the two clients and of the websocket cross each other,
\* a call waits in a queue only behind a refresh that is under way and will
\* empty it.
THEOREM CallsNotLeftBehind == SessionSpec => []NobodyLeftBehind
<1>1. SessionInit => NobodyLeftBehind
  BY DEF SessionInit, NobodyLeftBehind, Waiting, Held, Renewing, Calls
<1>2. SessionSpec => []SessionTypeOK
  BY CallsOnce, PTL
<1> QED
  BY <1>1, <1>2, BehindStep, PTL DEF SessionSpec
-----------------------------------------------------------------------------
(* The chats.  Some facts about sequences first: numbers that are picked    *)
(* out of 1..n have ranks without a gap, and one of them is the greatest.   *)

UpTo(at, i) == {j \in at : j <= i}
Rank(at, i) == Cardinality(UpTo(at, i))

LEMMA Ranks ==
  ASSUME NEW last \in Nat, NEW at \in SUBSET (1..last)
  PROVE  /\ IsFiniteSet(at) /\ Cardinality(at) \in Nat
         /\ \A i \in at : UpTo(at, i) \in SUBSET at /\ Rank(at, i) \in 1..Cardinality(at)
         /\ \A i, k \in at : Rank(at, i) = Rank(at, k) => i = k
         /\ \A n \in 1..Cardinality(at) : \E i \in at : Rank(at, i) = n
<1> DEFINE N == Cardinality(at)
           rank == [i \in at |-> Rank(at, i)]
<1>1. IsFiniteSet(at) /\ N \in Nat
  <2>1. IsFiniteSet(1..last)
    BY FS_Interval
  <2>2. IsFiniteSet(at)
    BY <2>1, FS_Subset
  <2> QED
    BY <2>2, FS_CardinalityType
<1>2. \A i \in at : UpTo(at, i) \in SUBSET at /\ IsFiniteSet(UpTo(at, i)) /\ Rank(at, i) \in 1..N
  <2> SUFFICES ASSUME NEW i \in at
               PROVE  UpTo(at, i) \in SUBSET at /\ IsFiniteSet(UpTo(at, i)) /\ Rank(at, i) \in 1..N
    OBVIOUS
  <2>1. UpTo(at, i) \in SUBSET at /\ i \in UpTo(at, i)
    BY DEF UpTo
  <2>2. IsFiniteSet(UpTo(at, i)) /\ Rank(at, i) <= N
    BY <1>1, <2>1, FS_Subset DEF Rank
  <2>3. Rank(at, i) \in Nat /\ Rank(at, i) # 0
    BY <2>1, <2>2, FS_CardinalityType, FS_EmptySet DEF Rank
  <2> QED
    BY <1>1, <2>1, <2>2, <2>3
<1>3. \A i, k \in at : i < k => Rank(at, i) # Rank(at, k)
  <2> SUFFICES ASSUME NEW i \in at, NEW k \in at, i < k PROVE Rank(at, i) # Rank(at, k)
    OBVIOUS
  <2>1. UpTo(at, i) \in SUBSET UpTo(at, k) /\ k \in UpTo(at, k) /\ k \notin UpTo(at, i)
    <3>1. at \subseteq Int
      OBVIOUS
    <3>2. \A j \in at : j <= i => j <= k
      BY <3>1
    <3>3. k <= k /\ ~(k <= i)
      BY <3>1
    <3> QED
      BY <3>2, <3>3 DEF UpTo
  <2> QED
    BY <1>2, <2>1, FS_Subset DEF Rank
<1>4. \A i, k \in at : Rank(at, i) = Rank(at, k) => i = k
  <2> SUFFICES ASSUME NEW i \in at, NEW k \in at, Rank(at, i) = Rank(at, k), i # k PROVE FALSE
    OBVIOUS
  <2>1. i < k \/ k < i
    OBVIOUS
  <2> QED
    BY <1>3, <2>1
<1>5. rank \in Injection(at, 1..N)
  <2>1. rank \in [at -> 1..N] /\ \A i, k \in at : rank[i] = rank[k] => i = k
    BY <1>2, <1>4
  <2> QED
    BY <2>1 DEF Injection, IsInjective
<1>6. rank \in Surjection(at, 1..N)
  <2>1. IsFiniteSet(1..N) /\ Cardinality(1..N) = N
    BY <1>1, FS_Interval
  <2> HIDE DEF rank
  <2> QED
    BY <1>1, <1>5, <2>1, FS_Injection
<1>7. \A n \in 1..N : \E i \in at : rank[i] = n
  BY <1>6 DEF Surjection
<1> QED
  BY <1>1, <1>2, <1>4, <1>7

LEMMA Greatest ==
  ASSUME NEW last \in Nat, NEW at \in SUBSET (1..last), at # {}
  PROVE  \E i \in at : \A j \in at : j <= i
<1>1. IsFiniteSet(at) /\ Cardinality(at) \in Nat
  BY Ranks
<1>2. Cardinality(at) # 0
  BY <1>1, FS_EmptySet
<1>3. Cardinality(at) \in 1..Cardinality(at)
  BY <1>1, <1>2
<1>4. PICK i \in at : Rank(at, i) = Cardinality(at)
  BY <1>3, Ranks
<1>5. UpTo(at, i) \in SUBSET at
  BY DEF UpTo
<1>6. UpTo(at, i) = at
  BY <1>1, <1>4, <1>5, FS_Subset DEF Rank
<1> QED
  BY <1>6 DEF UpTo

\* Taking members out of a sequence keeps each of them, in a sequence.
LEMMA AmongMembers ==
  ASSUME NEW S, NEW s \in Seq(S), NEW set
  PROVE  /\ Among(s, set) \in Seq(S \cap set)
         /\ \A i \in DOMAIN s : s[i] \in set => \E n \in DOMAIN Among(s, set) : Among(s, set)[n] = s[i]
         /\ \A n \in DOMAIN Among(s, set) : \E i \in DOMAIN s : Among(s, set)[n] = s[i]
<1> DEFINE at == {i \in DOMAIN s : s[i] \in set}
           Nth(n) == CHOOSE i \in at : Cardinality({j \in at : j <= i}) = n
<1>1. at \in SUBSET (1..Len(s)) /\ Len(s) \in Nat
  OBVIOUS
<1>2. Among(s, set) = [n \in 1..Cardinality(at) |-> s[Nth(n)]]
  BY DEF Among
<1> HIDE DEF at
<1>3. \A i : Rank(at, i) = Cardinality({j \in at : j <= i})
  BY DEF Rank, UpTo
<1>4. \A n \in 1..Cardinality(at) : Nth(n) \in at /\ Rank(at, Nth(n)) = n
  <2> SUFFICES ASSUME NEW n \in 1..Cardinality(at) PROVE Nth(n) \in at /\ Rank(at, Nth(n)) = n
    OBVIOUS
  <2>1. PICK i \in at : Rank(at, i) = n
    BY <1>1, Ranks
  <2> QED
    BY <1>3, <2>1
<1> HIDE DEF Nth
<1>5. \A i \in at : Rank(at, i) \in 1..Cardinality(at) /\ Nth(Rank(at, i)) = i
  <2>1. \A i \in at : Rank(at, i) \in 1..Cardinality(at)
    BY <1>1, Ranks
  <2>2. \A i, k \in at : Rank(at, i) = Rank(at, k) => i = k
    BY <1>1, Ranks
  <2> QED
    BY <1>4, <2>1, <2>2
<1>6. \A i : i \in at <=> i \in DOMAIN s /\ s[i] \in set
  BY DEF at
<1>7. \A n \in 1..Cardinality(at) : s[Nth(n)] \in S \cap set
  BY <1>4, <1>6
<1>8. Cardinality(at) \in Nat
  BY <1>1, Ranks
<1>9. Among(s, set) \in Seq(S \cap set) /\ DOMAIN Among(s, set) = 1..Cardinality(at)
  BY <1>2, <1>7, <1>8
<1> QED
  BY <1>2, <1>4, <1>5, <1>6, <1>9
-----------------------------------------------------------------------------
(* What the handlers of the messages do to the hook.                        *)

\* The refs and the callbacks that no message of an answer touches.
SameListeners(g, h) ==
  /\ g.listening = h.listening /\ g.unsubscribe = h.unsubscribe
  /\ g.loading = h.loading /\ g.request = h.request

\* The bubbles keep their places, their chats and whose turn they are.
SameBubbles(ns, ms) ==
  /\ ns \in Seq(Bubble) /\ Len(ns) >= Len(ms)
  /\ \A i \in 1..Len(ms) : ns[i].of = ms[i].of /\ (ns[i].kind = "user" <=> ms[i].kind = "user")
SameTexts(ns, ms, which) ==
  \A i \in which : ns[i].text = ms[i].text
EmptyLast(ns, c) ==
  LET last == ns[Len(ns)] IN last.of = c /\ last.kind # "user" /\ last.text = <<>>

LEMMA HookFields ==
  ASSUME NEW h \in Hook
  PROVE  /\ h.messages \in Seq(Bubble) /\ h.content \in Seq(Piece)
         /\ h.unsubscribe \in Chats \cup {Null}
         /\ h.request \in Chats \cup {Null} /\ h.listening \in SUBSET Chats
         /\ h.loading \in BOOLEAN /\ h.streaming \in BOOLEAN
BY DEF Hook

\* A bubble of which something is replaced.
LEMMA ChangedBubble ==
  ASSUME NEW b \in Bubble, NEW text \in Seq(Piece),
         NEW kind \in {"preview", "error"}
  PROVE  /\ [b EXCEPT !.kind = kind] \in Bubble
         /\ [b EXCEPT !.text = text] \in Bubble
BY DEF Bubble

LEMMA FinalizeEffect ==
  ASSUME NEW h \in Hook, NEW prompt \in BOOLEAN
  PROVE  LET ns == Finalize(h, prompt)
             ms == h.messages
         IN /\ SameBubbles(ns, ms) /\ Len(ns) = Len(ms)
            /\ SameTexts(ns, ms, 1..Len(ms) - 1)
            /\ ~IsAssistant(ms) => ns = ms
            /\ IsAssistant(ms) => ns[Len(ms)].text = IF prompt THEN h.content ELSE <<>>
<1> DEFINE ms == h.messages
           text == IF prompt THEN h.content ELSE <<>>
<1>1. ms \in Seq(Bubble) /\ text \in Seq(Piece)
  BY HookFields
<1>2. CASE ~IsAssistant(ms)
  BY <1>1, <1>2 DEF Finalize, SameBubbles, SameTexts
<1>3. CASE IsAssistant(ms)
  <2>1. Finalize(h, prompt) = [ms EXCEPT ![Len(ms)].text = text]
    BY <1>3 DEF Finalize
  <2>2. Len(ms) \in DOMAIN ms
    BY <1>1, <1>3 DEF IsAssistant
  <2> HIDE DEF ms, text
  <2> DEFINE last == [ms[Len(ms)] EXCEPT !.text = text]
  <2>3. Finalize(h, prompt) = [ms EXCEPT ![Len(ms)] = last]
    BY <1>1, <2>1, <2>2
  <2>4. last \in Bubble /\ last.of = ms[Len(ms)].of /\ last.kind = ms[Len(ms)].kind
        /\ last.text = text
    <3>1. ms[Len(ms)] \in Bubble
      BY <1>1, <2>2
    <3> QED
      BY <1>1, <3>1, ChangedBubble DEF Bubble
  <2> HIDE DEF last
  <2> QED
    BY <1>1, <1>3, <2>2, <2>3, <2>4 DEF SameBubbles, SameTexts, ms, text
<1> QED
  BY <1>2, <1>3

LEMMA ShowEffect ==
  ASSUME NEW h \in Hook, NEW content \in Seq(Piece)
  PROVE  LET g == Show(h, content)
             ms == h.messages
         IN /\ g \in Hook /\ SameListeners(g, h) /\ g.streaming = h.streaming
            /\ g.content = content
            /\ SameBubbles(g.messages, ms) /\ Len(g.messages) = Len(ms)
            /\ SameTexts(g.messages, ms, 1..Len(ms) - 1)
            /\ IsAssistant(ms) => g.messages[Len(ms)].text = content
<1> DEFINE ms == h.messages
           ns == IF IsAssistant(ms) THEN [ms EXCEPT ![Len(ms)].text = content] ELSE ms
<1>1. ms \in Seq(Bubble)
  BY HookFields
<1>2. Show(h, content) = [h EXCEPT !.content = content, !.messages = ns]
  BY DEF Show
<1>3. /\ SameBubbles(ns, ms) /\ Len(ns) = Len(ms) /\ SameTexts(ns, ms, 1..Len(ms) - 1)
      /\ IsAssistant(ms) => ns[Len(ms)].text = content
  <2>1. CASE ~IsAssistant(ms)
    BY <1>1, <2>1 DEF SameBubbles, SameTexts
  <2>2. CASE IsAssistant(ms)
    <3>1. Len(ms) \in DOMAIN ms
      BY <1>1, <2>2 DEF IsAssistant
    <3> HIDE DEF ms
    <3> DEFINE last == [ms[Len(ms)] EXCEPT !.text = content]
    <3>2. ns = [ms EXCEPT ![Len(ms)] = last]
      BY <1>1, <2>2, <3>1
    <3>3. last \in Bubble /\ last.of = ms[Len(ms)].of /\ last.kind = ms[Len(ms)].kind /\ last.text = content
      <4>1. ms[Len(ms)] \in Bubble
        BY <1>1, <3>1
      <4> QED
        BY <4>1, ChangedBubble DEF Bubble
    <3> HIDE DEF last, ns
    <3> QED
      BY <1>1, <2>2, <3>1, <3>2, <3>3 DEF SameBubbles, SameTexts
  <2> QED
    BY <2>1, <2>2
<1> HIDE DEF ns
<1>4. ns \in Seq(Bubble)
  BY <1>3 DEF SameBubbles
<1>5. /\ Show(h, content) \in Hook /\ Show(h, content).content = content /\ Show(h, content).messages = ns
      /\ SameListeners(Show(h, content), h) /\ Show(h, content).streaming = h.streaming
  BY <1>2, <1>4 DEF Hook, SameListeners
<1> QED
  BY <1>3, <1>5

NewBubble(kind, c) == [kind |-> kind, of |-> c, text |-> <<>>]
BubbleKinds == {"user", "text", "pending", "preview", "error"}

LEMMA AppendBubble ==
  ASSUME NEW ms \in Seq(Bubble), NEW c \in Chats, NEW kind \in BubbleKinds \ {"user"}
  PROVE  LET ns == Append(ms, NewBubble(kind, c))
         IN /\ SameBubbles(ns, ms) /\ Len(ns) = Len(ms) + 1
            /\ SameTexts(ns, ms, 1..Len(ms)) /\ EmptyLast(ns, c)
<1>1. NewBubble(kind, c) \in Bubble
  BY DEF NewBubble, Bubble, BubbleKinds
<1> QED
  BY <1>1 DEF SameBubbles, SameTexts, EmptyLast, NewBubble

LEMMA PendingEffect ==
  ASSUME NEW h \in Hook, NEW c \in Chats, NEW prompt \in BOOLEAN
  PROVE  LET g == MutationPending(h, c, prompt)
             ms == h.messages
         IN /\ g \in Hook /\ SameListeners(g, h) /\ g.streaming = h.streaming
            /\ SameBubbles(g.messages, ms) /\ Len(g.messages) = Len(ms) + 1
            /\ SameTexts(g.messages, ms, 1..Len(ms) - 1) /\ EmptyLast(g.messages, c)
            /\ g.content = <<>>
            /\ h.content = <<>> => SameTexts(g.messages, ms, 1..Len(ms))
            /\ h.content # <<>> /\ IsAssistant(ms) =>
                 g.messages[Len(ms)].text = IF prompt THEN h.content ELSE <<>>
<1> DEFINE ms == h.messages
           ns == Finalize(h, prompt)
           first == [h EXCEPT !.messages = ns, !.content = <<>>]
<1>1. ms \in Seq(Bubble)
  BY HookFields
<1>2. CASE h.content = <<>>
  <2> DEFINE g == [h EXCEPT !.messages = Append(ms, NewBubble("pending", c))]
  <2>1. MutationPending(h, c, prompt) = g
    BY <1>2 DEF MutationPending, NewBubble
  <2>2. Append(ms, NewBubble("pending", c)) \in Seq(Bubble)
    BY <1>1, AppendBubble DEF SameBubbles, BubbleKinds
  <2>3. /\ g \in Hook /\ SameListeners(g, h) /\ g.streaming = h.streaming
        /\ g.content = <<>> /\ g.messages = Append(ms, NewBubble("pending", c))
    BY <1>2, <2>2 DEF Hook, SameListeners
  <2> HIDE DEF g
  <2>4. LET added == Append(ms, NewBubble("pending", c))
        IN /\ SameBubbles(added, ms) /\ Len(added) = Len(ms) + 1
           /\ SameTexts(added, ms, 1..Len(ms)) /\ EmptyLast(added, c)
    BY <1>1, AppendBubble DEF BubbleKinds
  <2>5. SameTexts(g.messages, ms, 1..Len(ms) - 1)
    BY <1>1, <2>3, <2>4 DEF SameTexts
  <2> QED
    BY <1>2, <2>1, <2>3, <2>4, <2>5
<1>3. CASE h.content # <<>>
  <2> DEFINE g == [h EXCEPT !.messages = Append(ns, NewBubble("pending", c)), !.content = <<>>]
  <2>1. MutationPending(h, c, prompt) = g
    <3>1. MutationPending(h, c, prompt) = [first EXCEPT !.messages = Append(@, NewBubble("pending", c))]
      BY <1>3 DEF MutationPending, NewBubble
    <3> HIDE DEF ns
    <3> QED
      BY <3>1 DEF Hook
  <2>2. /\ SameBubbles(ns, ms) /\ Len(ns) = Len(ms) /\ SameTexts(ns, ms, 1..Len(ms) - 1)
        /\ IsAssistant(ms) => ns[Len(ms)].text = IF prompt THEN h.content ELSE <<>>
    BY FinalizeEffect
  <2> HIDE DEF ns
  <2>3. ns \in Seq(Bubble)
    BY <2>2 DEF SameBubbles
  <2> DEFINE added == Append(ns, NewBubble("pending", c))
  <2>4. /\ SameBubbles(added, ns) /\ Len(added) = Len(ns) + 1
        /\ SameTexts(added, ns, 1..Len(ns)) /\ EmptyLast(added, c)
    BY <2>3, AppendBubble DEF BubbleKinds
  <2> HIDE DEF added
  <2>5. added \in Seq(Bubble)
    BY <2>4 DEF SameBubbles
  <2>6. /\ g \in Hook /\ SameListeners(g, h) /\ g.streaming = h.streaming
        /\ g.content = <<>> /\ g.messages = added
    <3>1. g = [h EXCEPT !.messages = added, !.content = <<>>]
      BY DEF added
    <3> HIDE DEF g
    <3>2. g \in Hook
      <4>1. <<>> \in Seq(Piece)
        OBVIOUS
      <4> QED
        BY <2>5, <3>1, <4>1 DEF Hook
    <3> QED
      BY <3>1, <3>2 DEF Hook, SameListeners
  <2>7. SameBubbles(added, ms) /\ Len(added) = Len(ms) + 1
    BY <1>1, <2>2, <2>4 DEF SameBubbles
  <2>8. SameTexts(added, ms, 1..Len(ms) - 1)
    BY <1>1, <2>2, <2>4 DEF SameTexts
  <2>9. IsAssistant(ms) => added[Len(ms)].text = IF prompt THEN h.content ELSE <<>>
    <3>1. IsAssistant(ms) => Len(ms) \in 1..Len(ns)
      BY <1>1, <2>2 DEF IsAssistant
    <3> QED
      BY <2>2, <2>4, <3>1 DEF SameTexts
  <2> HIDE DEF g
  <2> QED
    BY <1>3, <2>1, <2>4, <2>6, <2>7, <2>8, <2>9
<1> QED
  BY <1>2, <1>3

LEMMA ReplaceEffect ==
  ASSUME NEW h \in Hook, NEW c \in Chats, NEW pending \in SUBSET Pending(h), NEW kind \in {"preview", "error"}
  PROVE  LET g == Replace(h, c, pending, kind)
             ms == h.messages
         IN /\ g \in Hook /\ SameListeners(g, h) /\ g.streaming = h.streaming
            /\ g.content = h.content
            /\ SameBubbles(g.messages, ms) /\ SameTexts(g.messages, ms, 1..Len(ms))
            /\ Len(g.messages) = Len(ms) \/ (Len(g.messages) = Len(ms) + 1 /\ EmptyLast(g.messages, c))
<1> DEFINE ms == h.messages
<1>1. ms \in Seq(Bubble)
  BY HookFields
<1>2. CASE pending = {}
  <2> DEFINE added == Append(ms, NewBubble(kind, c))
  <2>1. Replace(h, c, pending, kind) = [h EXCEPT !.messages = added]
    BY <1>2 DEF Replace, NewBubble
  <2>2. SameBubbles(added, ms) /\ Len(added) = Len(ms) + 1 /\ SameTexts(added, ms, 1..Len(ms)) /\ EmptyLast(added, c)
    BY <1>1, AppendBubble DEF BubbleKinds
  <2> HIDE DEF added
  <2>3. added \in Seq(Bubble)
    BY <2>2 DEF SameBubbles
  <2> QED
    BY <2>1, <2>2, <2>3 DEF Hook, SameListeners
<1>3. CASE pending # {}
  <2> DEFINE i == CHOOSE i \in pending : \A j \in pending : j <= i
             b == [ms[i] EXCEPT !.kind = kind]
  <2>1. pending \in SUBSET (1..Len(ms)) /\ Len(ms) \in Nat
    BY <1>1 DEF Pending
  <2>2. i \in pending
    BY <1>3, <2>1, Greatest
  <2>3. i \in 1..Len(ms) /\ ms[i].kind = "pending"
    BY <2>1, <2>2 DEF Pending
  <2>4. Replace(h, c, pending, kind) = [h EXCEPT !.messages[i].kind = kind]
    BY <1>3 DEF Replace
  <2> HIDE DEF i
  <2>5. Replace(h, c, pending, kind) = [h EXCEPT !.messages = [ms EXCEPT ![i] = b]]
    BY <2>4
  <2>6. b \in Bubble /\ b.of = ms[i].of /\ b.kind = kind /\ b.text = ms[i].text
    <3>1. ms[i] \in Bubble
      BY <1>1, <2>3
    <3>2. b \in Bubble
      BY <3>1 DEF Bubble
    <3> QED
      BY <3>1, <3>2 DEF Bubble
  <2> HIDE DEF b
  <2> DEFINE ns == [ms EXCEPT ![i] = b]
  <2>7. SameBubbles(ns, ms) /\ SameTexts(ns, ms, 1..Len(ms)) /\ Len(ns) = Len(ms)
    BY <1>1, <2>3, <2>6 DEF SameBubbles, SameTexts
  <2> HIDE DEF ns
  <2>8. ns \in Seq(Bubble)
    BY <2>7 DEF SameBubbles
  <2> QED
    BY <2>5, <2>7, <2>8 DEF Hook, SameListeners, ns
<1> QED
  BY <1>2, <1>3

LEMMA DoneEffect ==
  ASSUME NEW h \in Hook, NEW prompt \in BOOLEAN
  PROVE  LET g == Done(h, prompt)
             ms == h.messages
         IN /\ g \in Hook /\ SameListeners(g, h) /\ ~g.streaming
            /\ g.content = <<>>
            /\ SameBubbles(g.messages, ms) /\ Len(g.messages) = Len(ms)
            /\ SameTexts(g.messages, ms, 1..Len(ms) - 1)
            /\ IsAssistant(ms) => g.messages[Len(ms)].text = IF prompt THEN h.content ELSE <<>>
<1> DEFINE ns == Finalize(h, prompt)
<1>1. Done(h, prompt) = [h EXCEPT !.messages = ns, !.streaming = FALSE, !.content = <<>>]
  BY DEF Done
<1>2. /\ SameBubbles(ns, h.messages) /\ Len(ns) = Len(h.messages) /\ SameTexts(ns, h.messages, 1..Len(h.messages) - 1)
      /\ IsAssistant(h.messages) => ns[Len(h.messages)].text = IF prompt THEN h.content ELSE <<>>
  BY FinalizeEffect
<1> HIDE DEF ns
<1>3. ns \in Seq(Bubble)
  BY <1>2 DEF SameBubbles
<1>4. /\ Done(h, prompt) \in Hook /\ SameListeners(Done(h, prompt), h) /\ ~Done(h, prompt).streaming
      /\ Done(h, prompt).content = <<>> /\ Done(h, prompt).messages = ns
  <2>1. <<>> \in Seq(Piece)
    OBVIOUS
  <2>2. Done(h, prompt) \in Hook
    BY <1>1, <1>3, <2>1 DEF Hook
  <2> QED
    BY <1>1, <2>2 DEF Hook, SameListeners
<1> QED
  BY <1>2, <1>4
-----------------------------------------------------------------------------
(* What a message of an answer does to the window, and what it leaves alone. *)

IsLast(ms, c) == IsAssistant(ms) /\ ms[Len(ms)].of = c

\* Only bubbles of this chat are added, and only those are written.
AddedOnly(c, ns, ms) ==
  /\ SameBubbles(ns, ms)
  /\ \A i \in Len(ms) + 1 .. Len(ns) : ns[i].of = c /\ ns[i].kind # "user"
WroteOnly(c, ns, ms) == AddedOnly(c, ns, ms) /\ SameTexts(ns, ms, {i \in 1..Len(ms) : ms[i].of # c})

LEMMA ChunkEffect ==
  ASSUME NEW h \in Hook, NEW c \in Chats, NEW chunk \in Chunks, NEW prompt \in BOOLEAN, spoken[c] \in Nat
  PROVE  LET g == HandleChunk(h, c, chunk, prompt)
             ms == h.messages
         IN /\ g \in Hook /\ SameListeners(g, h)
            /\ chunk \notin {"done", "error"} => g.streaming = h.streaming
            /\ AddedOnly(c, g.messages, ms)
            /\ IsLast(ms, c) => IsLast(g.messages, c) /\ WroteOnly(c, g.messages, ms)
<1> DEFINE g == HandleChunk(h, c, chunk, prompt)
           ms == h.messages
<1>1. ms \in Seq(Bubble)
  BY HookFields
<1>2. ASSUME SameBubbles(g.messages, ms), SameTexts(g.messages, ms, 1..Len(ms) - 1),
             \/ Len(g.messages) = Len(ms)
             \/ Len(g.messages) = Len(ms) + 1 /\ EmptyLast(g.messages, c)
      PROVE  /\ AddedOnly(c, g.messages, ms)
             /\ IsLast(ms, c) => IsLast(g.messages, c) /\ WroteOnly(c, g.messages, ms)
  <2> HIDE DEF g, ms
  <2>0. AddedOnly(c, g.messages, ms)
    BY <1>1, <1>2 DEF AddedOnly, SameBubbles, EmptyLast
  <2> SUFFICES ASSUME IsLast(ms, c) PROVE IsLast(g.messages, c) /\ WroteOnly(c, g.messages, ms)
    BY <2>0
  <2>1. Len(ms) \in 1..Len(ms) /\ ms[Len(ms)].kind # "user" /\ ms[Len(ms)].of = c
    BY <1>1, <1>2 DEF IsLast, IsAssistant
  <2>2. g.messages \in Seq(Bubble) /\ g.messages # <<>>
    BY <1>1, <1>2, <2>1 DEF SameBubbles
  <2>3. SameTexts(g.messages, ms, {i \in 1..Len(ms) : ms[i].of # c})
    BY <1>1, <1>2, <2>1 DEF SameTexts
  <2>4. CASE Len(g.messages) = Len(ms)
    <3>1. g.messages[Len(ms)].kind # "user" /\ g.messages[Len(ms)].of = c
      BY <1>2, <2>1 DEF SameBubbles
    <3> QED
      BY <1>1, <2>0, <2>2, <2>3, <2>4, <3>1 DEF IsLast, IsAssistant, WroteOnly
  <2>5. CASE Len(g.messages) = Len(ms) + 1 /\ EmptyLast(g.messages, c)
    BY <1>1, <2>0, <2>2, <2>3, <2>5 DEF IsLast, IsAssistant, WroteOnly, EmptyLast
  <2> QED
    BY <1>2, <2>4, <2>5
<1>3. CASE chunk \in {"citations", "delta"}
  <2>1. PICK content \in Seq(Piece) : g = Show(h, content)
    <3>1. h.content \in Seq(Piece) /\ Append(h.content, <<c, spoken[c] + 1>>) \in Seq(Piece)
      BY HookFields DEF Piece
    <3> QED
      BY <1>3, <3>1 DEF HandleChunk, Delta
  <2>2. /\ g \in Hook /\ SameListeners(g, h) /\ g.streaming = h.streaming
        /\ SameBubbles(g.messages, ms) /\ Len(g.messages) = Len(ms) /\ SameTexts(g.messages, ms, 1..Len(ms) - 1)
    BY <2>1, ShowEffect
  <2> QED
    BY <1>2, <2>2
<1>5. CASE chunk = "mutation_pending"
  <2>1. g = MutationPending(h, c, prompt)
    BY <1>5 DEF HandleChunk
  <2>2. /\ g \in Hook /\ SameListeners(g, h) /\ g.streaming = h.streaming
        /\ SameBubbles(g.messages, ms) /\ Len(g.messages) = Len(ms) + 1
        /\ SameTexts(g.messages, ms, 1..Len(ms) - 1) /\ EmptyLast(g.messages, c)
    BY <2>1, PendingEffect
  <2> QED
    BY <1>2, <2>2
<1>6. CASE chunk \in {"mutation_preview", "mutation_error"}
  <2>1. PICK pending \in SUBSET Pending(h), kind \in {"preview", "error"} : g = Replace(h, c, pending, kind)
    BY <1>6 DEF HandleChunk, MutationPreview, MutationError
  <2>2. /\ g \in Hook /\ SameListeners(g, h) /\ g.streaming = h.streaming
        /\ SameBubbles(g.messages, ms) /\ SameTexts(g.messages, ms, 1..Len(ms))
        /\ Len(g.messages) = Len(ms) \/ (Len(g.messages) = Len(ms) + 1 /\ EmptyLast(g.messages, c))
    BY <2>1, ReplaceEffect
  <2>3. SameTexts(g.messages, ms, 1..Len(ms) - 1)
    BY <1>1, <2>2 DEF SameTexts
  <2> QED
    BY <1>2, <2>2, <2>3
<1>7. CASE chunk = "done"
  <2>1. g = Done(h, prompt)
    BY <1>7 DEF HandleChunk
  <2>2. /\ g \in Hook /\ SameListeners(g, h)
        /\ SameBubbles(g.messages, ms) /\ Len(g.messages) = Len(ms) /\ SameTexts(g.messages, ms, 1..Len(ms) - 1)
    BY <2>1, DoneEffect
  <2> QED
    BY <1>2, <1>7, <2>2
<1>8. CASE chunk = "error"
  <2>1. g = [h EXCEPT !.streaming = FALSE]
    BY <1>8 DEF HandleChunk
  <2>2. g \in Hook /\ SameListeners(g, h) /\ g.messages = ms
    <3> HIDE DEF g
    <3> QED
      BY <2>1 DEF Hook, SameListeners
  <2>3. SameBubbles(g.messages, ms) /\ SameTexts(g.messages, ms, 1..Len(ms) - 1)
    BY <1>1, <2>2 DEF SameBubbles, SameTexts
  <2> QED
    BY <1>2, <1>8, <2>2, <2>3
<1> QED
  BY <1>3, <1>5, <1>6, <1>7, <1>8 DEF Chunks, MutationChunks

LEMMA AddedOnlyTwice ==
  ASSUME NEW c, NEW ms \in Seq(Bubble), NEW ns, NEW os, AddedOnly(c, ns, ms), AddedOnly(c, os, ns)
  PROVE  AddedOnly(c, os, ms)
<1>1. ns \in Seq(Bubble) /\ os \in Seq(Bubble) /\ Len(ns) >= Len(ms) /\ Len(os) >= Len(ns)
  BY DEF AddedOnly, SameBubbles
<1>2. SameBubbles(os, ms)
  BY <1>1 DEF AddedOnly, SameBubbles
<1>3. ASSUME NEW i \in Len(ms) + 1 .. Len(os) PROVE os[i].of = c /\ os[i].kind # "user"
  <2>1. i \in 1..Len(ns) \/ i \in Len(ns) + 1 .. Len(os)
    BY <1>1
  <2>2. i \in 1..Len(ns) => i \in Len(ms) + 1 .. Len(ns)
    BY <1>1
  <2> QED
    BY <2>1, <2>2 DEF AddedOnly, SameBubbles
<1> QED
  BY <1>2, <1>3 DEF AddedOnly

LEMMA WroteOnlyTwice ==
  ASSUME NEW c, NEW ms \in Seq(Bubble), NEW ns, NEW os, WroteOnly(c, ns, ms), WroteOnly(c, os, ns)
  PROVE  WroteOnly(c, os, ms)
<1>1. ns \in Seq(Bubble) /\ os \in Seq(Bubble) /\ Len(ns) >= Len(ms) /\ Len(os) >= Len(ns)
  BY DEF WroteOnly, AddedOnly, SameBubbles
<1>2. SameTexts(os, ms, {i \in 1..Len(ms) : ms[i].of # c})
  BY <1>1 DEF WroteOnly, AddedOnly, SameBubbles, SameTexts
<1> QED
  BY <1>2, AddedOnlyTwice DEF WroteOnly

LEMMA ReceivedEffect ==
  ASSUME StreamTypeOK, NEW c \in Chats, Publish(c)
  PROVE  LET chunk == Head(stream[c])
             n == Cardinality(Subscribers(c))
         IN /\ n \in Nat /\ chunk \in Chunks /\ stream[c] # <<>>
            /\ hook' \in Hook /\ SameListeners(hook', hook)
            /\ n = 0 \/ c \notin hook.listening => hook' = hook
            /\ chunk \notin {"done", "error"} => hook'.streaming = hook.streaming
            /\ AddedOnly(c, hook'.messages, hook.messages)
            /\ IsLast(hook.messages, c) => IsLast(hook'.messages, c) /\ WroteOnly(c, hook'.messages, hook.messages)
            /\ blanked' \in {blanked, blanked \cup {c}}
            /\ n = 1 /\ c \in hook.listening =>
                 \E prompt \in BOOLEAN :
                   /\ hook' = HandleChunk(hook, c, chunk, prompt)
                   /\ ~prompt => chunk \in {"done", "mutation_pending"}
                   /\ ~prompt /\ Kept => c \in blanked'
<1> DEFINE chunk == Head(stream[c])
           n == Cardinality(Subscribers(c))
           once(h, prompt) == IF c \in h.listening THEN HandleChunk(h, c, chunk, prompt) ELSE h
<1>1. hook \in Hook /\ spoken[c] \in Nat /\ stream[c] \in Seq(Chunks) /\ stream[c] # <<>>
  BY DEF StreamTypeOK, Publish
<1>2. chunk \in Chunks
  BY <1>1
<1>3. n \in Nat
  <2>1. Subscribers(c) \in SUBSET Sockets /\ IsFiniteSet(Sockets)
    BY StreamAssumption DEF Subscribers
  <2> QED
    BY <2>1, FS_Subset, FS_CardinalityType
<1>4. PICK prompt \in IF chunk \in {"done", "mutation_pending"} THEN BOOLEAN ELSE {TRUE} :
        /\ hook' = CASE n = 0 -> hook
                     [] n = 1 -> once(hook, prompt)
                     [] n > 1 -> once(once(hook, prompt), prompt)
        /\ blanked' = IF ~prompt /\ n > 0 /\ c \in hook.listening /\ Kept
                      THEN blanked \cup {c} ELSE blanked
  BY DEF Publish
<1>5. prompt \in BOOLEAN /\ (~prompt => chunk \in {"done", "mutation_pending"})
  BY <1>4
<1>6. blanked' \in {blanked, blanked \cup {c}}
  BY <1>4
<1>7. hook.messages \in Seq(Bubble)
  BY <1>1, HookFields
<1>8. ASSUME NEW h \in Hook, SameListeners(h, hook)
      PROVE  LET g == once(h, prompt)
             IN /\ g \in Hook /\ SameListeners(g, hook)
                /\ c \notin hook.listening => g = h
                /\ chunk \notin {"done", "error"} => g.streaming = h.streaming
                /\ AddedOnly(c, g.messages, h.messages)
                /\ IsLast(h.messages, c) => IsLast(g.messages, c) /\ WroteOnly(c, g.messages, h.messages)
  <2>1. CASE c \in h.listening
    <3> DEFINE g == HandleChunk(h, c, chunk, prompt)
    <3>1. /\ g \in Hook /\ SameListeners(g, h)
          /\ chunk \notin {"done", "error"} => g.streaming = h.streaming
          /\ AddedOnly(c, g.messages, h.messages)
          /\ IsLast(h.messages, c) => IsLast(g.messages, c) /\ WroteOnly(c, g.messages, h.messages)
      BY <1>1, <1>2, <1>5, <1>8, ChunkEffect
    <3>2. once(h, prompt) = g
      BY <2>1
    <3> HIDE DEF g, once, chunk
    <3>3. SameListeners(g, hook) /\ c \in hook.listening
      BY <1>8, <2>1, <3>1 DEF SameListeners
    <3> QED
      BY <3>1, <3>2, <3>3
  <2>2. CASE c \notin h.listening
    <3>1. once(h, prompt) = h
      BY <2>2
    <3>2. h.messages \in Seq(Bubble)
      BY <1>8, HookFields
    <3>3. WroteOnly(c, h.messages, h.messages) /\ AddedOnly(c, h.messages, h.messages)
      BY <3>2 DEF WroteOnly, AddedOnly, SameBubbles, SameTexts
    <3> HIDE DEF once, chunk
    <3> QED
      BY <1>8, <2>2, <3>1, <3>3
  <2> QED
    BY <2>1, <2>2
<1> HIDE DEF chunk
<1>9. CASE n = 0
  <2>1. hook' = hook
    BY <1>4, <1>9
  <2>2. WroteOnly(c, hook.messages, hook.messages) /\ AddedOnly(c, hook.messages, hook.messages) /\ SameListeners(hook, hook)
    BY <1>7 DEF WroteOnly, AddedOnly, SameBubbles, SameTexts, SameListeners
  <2> QED
    BY <1>1, <1>2, <1>3, <1>6, <1>9, <2>1, <2>2 DEF chunk
<1>10. SameListeners(hook, hook)
  BY DEF SameListeners
<1>11. CASE n = 1
  <2>1. hook' = once(hook, prompt)
    BY <1>4, <1>11
  <2>2. c \in hook.listening => hook' = HandleChunk(hook, c, chunk, prompt)
    BY <2>1
  <2>3. ~prompt /\ Kept /\ c \in hook.listening => c \in blanked'
    BY <1>4, <1>11
  <2> HIDE DEF once
  <2>4. /\ hook' \in Hook /\ SameListeners(hook', hook)
        /\ c \notin hook.listening => hook' = hook
        /\ chunk \notin {"done", "error"} => hook'.streaming = hook.streaming
        /\ AddedOnly(c, hook'.messages, hook.messages)
        /\ IsLast(hook.messages, c) => IsLast(hook'.messages, c) /\ WroteOnly(c, hook'.messages, hook.messages)
    BY <1>1, <1>8, <1>10, <2>1
  <2> QED
    BY <1>1, <1>2, <1>3, <1>5, <1>6, <1>11, <2>2, <2>3, <2>4 DEF chunk
<1>12. CASE n > 1
  <2>1. hook' = once(once(hook, prompt), prompt)
    BY <1>3, <1>4, <1>12
  <2> DEFINE g == once(hook, prompt)
  <2> HIDE DEF once
  <2>2. /\ g \in Hook /\ SameListeners(g, hook)
        /\ c \notin hook.listening => g = hook
        /\ chunk \notin {"done", "error"} => g.streaming = hook.streaming
        /\ AddedOnly(c, g.messages, hook.messages)
        /\ IsLast(hook.messages, c) => IsLast(g.messages, c) /\ WroteOnly(c, g.messages, hook.messages)
    BY <1>1, <1>8, <1>10
  <2> HIDE DEF g
  <2>3. /\ hook' \in Hook /\ SameListeners(hook', hook)
        /\ c \notin hook.listening => hook' = g
        /\ chunk \notin {"done", "error"} => hook'.streaming = g.streaming
        /\ AddedOnly(c, hook'.messages, g.messages)
        /\ IsLast(g.messages, c) => IsLast(hook'.messages, c) /\ WroteOnly(c, hook'.messages, g.messages)
    BY <1>8, <2>1, <2>2 DEF g
  <2>4. IsLast(hook.messages, c) => IsLast(hook'.messages, c) /\ WroteOnly(c, hook'.messages, hook.messages)
    BY <1>7, <2>2, <2>3, WroteOnlyTwice
  <2>5. AddedOnly(c, hook'.messages, hook.messages)
    BY <1>7, <2>2, <2>3, AddedOnlyTwice
  <2> QED
    BY <1>1, <1>2, <1>3, <1>6, <1>12, <2>2, <2>3, <2>4, <2>5 DEF chunk
<1>13. n = 0 \/ n = 1 \/ n > 1
  BY <1>3
<1> QED
  BY <1>9, <1>11, <1>12, <1>13
-----------------------------------------------------------------------------
(* The types of the websocket service and of the chats.                     *)

LEMMA WaitingChatsFinite ==
  ASSUME StreamTypeOK
  PROVE  /\ WaitingChats \in SUBSET Chats /\ IsFiniteSet(WaitingChats)
         /\ Cardinality(WaitingChats) \in Nat
<1> DEFINE at == {i \in DOMAIN service.waiting : service.waiting[i] \in Chats}
           who == [i \in at |-> service.waiting[i]]
<1>1. service.waiting \in Seq(Channels)
  BY DEF StreamTypeOK, Service
<1>2. at \in SUBSET (1..Len(service.waiting)) /\ Len(service.waiting) \in Nat
  BY <1>1
<1>3. IsFiniteSet(at)
  BY <1>2, Ranks
<1>4. who \in Surjection(at, WaitingChats)
  BY DEF Surjection, WaitingChats
<1>5. IsFiniteSet(WaitingChats)
  BY <1>3, <1>4, FS_Surjection
<1> QED
  BY <1>5, FS_CardinalityType DEF WaitingChats

LEMMA RegisteredHook ==
  ASSUME NEW h \in Hook, NEW chats \in Seq(Chats)
  PROVE  LET g == RegisterCallbacks(h, chats)
         IN /\ g \in Hook /\ g.messages = h.messages /\ g.content = h.content
            /\ g.request = h.request
            /\ chats = <<>> => g = h
            /\ chats # <<>> => /\ g.listening = h.listening \cup {chats[i] : i \in DOMAIN chats}
                               /\ g.unsubscribe = chats[Len(chats)] /\ ~g.loading /\ g.streaming
<1>1. CASE chats = <<>>
  BY <1>1 DEF RegisterCallbacks
<1>2. CASE chats # <<>>
  <2>1. chats[Len(chats)] \in Chats /\ {chats[i] : i \in DOMAIN chats} \in SUBSET Chats
    BY <1>2
  <2>2. RegisterCallbacks(h, chats) =
          [h EXCEPT !.listening = @ \cup {chats[i] : i \in DOMAIN chats},
                    !.unsubscribe = chats[Len(chats)], !.loading = FALSE, !.streaming = TRUE]
    BY <1>2 DEF RegisterCallbacks
  <2>3. RegisterCallbacks(h, chats) \in Hook
    BY <2>1, <2>2 DEF Hook
  <2> QED
    BY <1>2, <2>2, <2>3 DEF Hook
<1> QED
  BY <1>1, <1>2

LEMMA GivenUpHook ==
  ASSUME NEW h \in Hook, NEW chats, Cardinality(chats) \in Nat
  PROVE  LET g == GiveUp(h, chats)
             ms == h.messages
         IN /\ g \in Hook /\ ~g.loading /\ ~g.streaming /\ g.listening = h.listening
            /\ g.unsubscribe = h.unsubscribe /\ g.content = h.content
            /\ g.messages \in Seq(Bubble) /\ Len(g.messages) <= Len(ms)
            /\ \A i \in 1..Len(g.messages) : g.messages[i] = ms[i]
            /\ Cardinality(chats) = 1 /\ ms # <<>> => Len(g.messages) = Len(ms) - 1
<1> DEFINE ms == h.messages
           ns == SubSeq(ms, 1, Len(ms) - Cardinality(chats))
<1>1. ms \in Seq(Bubble)
  BY HookFields
<1>2. /\ ns \in Seq(Bubble) /\ Len(ns) <= Len(ms)
      /\ \A i \in 1..Len(ns) : ns[i] = ms[i]
      /\ Cardinality(chats) = 1 /\ ms # <<>> => Len(ns) = Len(ms) - 1
  BY <1>1
<1>3. GiveUp(h, chats) = [h EXCEPT !.loading = FALSE, !.streaming = FALSE, !.messages = ns]
  BY DEF GiveUp
<1> HIDE DEF ns
<1>4. GiveUp(h, chats) \in Hook
  BY <1>2, <1>3 DEF Hook
<1> QED
  BY <1>2, <1>3, <1>4 DEF Hook

LEMMA FreshHookEffect ==
  ASSUME NEW h \in Hook, NEW c \in Chats
  PROVE  LET g == FreshHook(h, c)
             ms == h.messages
         IN /\ g \in Hook /\ g.listening = h.listening \ {h.unsubscribe} /\ g.unsubscribe = Null
            /\ g.loading /\ g.streaming = h.streaming /\ g.request = h.request
            /\ g.content = <<>>
            /\ g.messages \in Seq(Bubble) /\ Len(g.messages) = Len(ms) + 2
            /\ \A i \in 1..Len(ms) : g.messages[i] = ms[i]
            /\ \A i \in Len(ms) + 1 .. Len(ms) + 2 :
                 /\ g.messages[i].of = c /\ g.messages[i].text = <<>>
            /\ IsLast(g.messages, c)
<1> DEFINE ms == h.messages
           user == [kind |-> "user", of |-> c, text |-> <<>>]
           held == [kind |-> "text", of |-> c, text |-> <<>>]
           ns == ms \o <<user, held>>
<1>1. ms \in Seq(Bubble) /\ user \in Bubble /\ held \in Bubble
  <2>1. <<>> \in Seq(Piece)
    OBVIOUS
  <2>2. user \in Bubble /\ held \in Bubble
    BY <2>1 DEF Bubble
  <2> QED
    BY <2>2, HookFields
<1>2. /\ user.of = c /\ user.text = <<>>
      /\ held.of = c /\ held.text = <<>> /\ held.kind = "text"
  OBVIOUS
<1>3. FreshHook(h, c) =
        [h EXCEPT !.listening = @ \ {h.unsubscribe}, !.unsubscribe = Null, !.loading = TRUE,
                  !.content = <<>>, !.messages = ns]
  BY DEF FreshHook
<1> HIDE DEF user, held
<1>4. <<user, held>> \in Seq(Bubble) /\ Len(<<user, held>>) = 2
  BY <1>1
<1>5. /\ ns \in Seq(Bubble) /\ Len(ns) = Len(ms) + 2
      /\ \A i \in 1..Len(ms) : ns[i] = ms[i]
      /\ ns[Len(ms) + 1] = user /\ ns[Len(ms) + 2] = held
  BY <1>1, <1>4
<1>6. \A i \in Len(ms) + 1 .. Len(ms) + 2 : ns[i] \in {user, held}
  <2>1. \A i \in Len(ms) + 1 .. Len(ms) + 2 : i = Len(ms) + 1 \/ i = Len(ms) + 2
    BY <1>1
  <2> QED
    BY <1>5, <2>1
<1> HIDE DEF ns
<1>7. FreshHook(h, c) \in Hook
  <2>1. <<>> \in Seq(Piece)
    OBVIOUS
  <2> QED
    BY <1>3, <1>5, <2>1 DEF Hook
<1>8. IsLast(ns, c)
  <2>1. ns # <<>> /\ Len(ns) = Len(ms) + 2
    BY <1>1, <1>5
  <2> QED
    BY <1>2, <1>5, <2>1 DEF IsLast, IsAssistant
<1> QED
  BY <1>2, <1>3, <1>5, <1>6, <1>7, <1>8 DEF Hook

LEMMA OpenTypes ==
  ASSUME StreamTypeOK, NEW srv \in Service, NEW channels \in SUBSET Channels,
         NEW waiting \in Seq(Channels), Open(srv, channels, waiting)
  PROVE  /\ conns' \in [Sockets -> Connection] /\ service' \in Service /\ asks' = asks
<1>1. NewSocket \in Sockets /\ conns[NewSocket].state = "unused"
  BY DEF Open, NewSocket, Unused
<1>2. conns' = [conns EXCEPT ![NewSocket] = [state |-> "opening", channels |-> channels]]
  BY DEF Open
<1>3. service' = [srv EXCEPT !.ws = NewSocket, !.connecting = NewSocket, !.waiting = waiting]
  BY DEF Open
<1>4. conns' \in [Sockets -> Connection]
  <2>1. [state |-> "opening", channels |-> channels] \in Connection
    BY DEF Connection
  <2> QED
    BY <1>1, <1>2, <2>1 DEF StreamTypeOK
<1>5. service' \in Service
  BY <1>1, <1>3 DEF Service
<1> QED
  BY <1>1, <1>2, <1>3, <1>4, <1>5 DEF Open

LEMMA ClosingTypes ==
  ASSUME NEW srv \in Service
  PROVE  /\ Closing(srv) \in Service
         /\ Closing(srv).connecting = srv.connecting /\ Closing(srv).waiting = srv.waiting
         /\ Closing(srv).subscribed = srv.subscribed
<1> DEFINE timer == srv.timer \/ srv.retries < MaxRetries
           retries == IF srv.retries < MaxRetries THEN srv.retries + 1 ELSE srv.retries
<1>1. timer \in BOOLEAN /\ retries \in 0..MaxRetries
  BY StreamAssumption DEF Service
<1>2. Closing(srv) = [srv EXCEPT !.ws = Null, !.timer = timer, !.retries = retries]
  BY DEF Closing
<1> HIDE DEF timer, retries
<1> QED
  BY <1>1, <1>2 DEF Service

LEMMA ConnectTypes ==
  ASSUME StreamTypeOK, NEW channel \in Channels, NEW ready, Connect(channel, ready)
  PROVE  /\ conns' \in [Sockets -> Connection] /\ service' \in Service
         /\ asks' \in [Sockets -> Seq({"subscribe", "unsubscribe"} \X Channels)]
<1>1. service \in Service /\ service.waiting \in Seq(Channels)
  BY DEF StreamTypeOK, Service
<1>2. CASE channel \in service.subscribed
  BY <1>2 DEF Connect, StreamTypeOK
<1>3. CASE channel \notin service.subscribed /\ IsOpen
  <2>1. service.ws \in Sockets
    BY <1>1, <1>3 DEF IsOpen, Service
  <2>2. asks' = [asks EXCEPT ![service.ws] = Append(@, <<"subscribe", channel>>)] /\ UNCHANGED <<conns, service>>
    BY <1>3 DEF Connect
  <2>3. Append(asks[service.ws], <<"subscribe", channel>>) \in Seq({"subscribe", "unsubscribe"} \X Channels)
    BY <2>1 DEF StreamTypeOK
  <2> QED
    BY <2>1, <2>2, <2>3 DEF StreamTypeOK
<1>4. CASE channel \notin service.subscribed /\ ~IsOpen /\ service.connecting # Null
  <2>1. service' = [service EXCEPT !.waiting = Append(@, channel)] /\ UNCHANGED <<conns, asks>>
    BY <1>4 DEF Connect
  <2>2. Append(service.waiting, channel) \in Seq(Channels)
    BY <1>1
  <2> QED
    BY <1>1, <2>1, <2>2 DEF StreamTypeOK, Service
<1>5. CASE channel \notin service.subscribed /\ ~IsOpen /\ service.connecting = Null
  <2>1. Open(service, {channel}, <<channel>>)
    BY <1>5 DEF Connect
  <2>2. {channel} \in SUBSET Channels /\ <<channel>> \in Seq(Channels)
    OBVIOUS
  <2>3. conns' \in [Sockets -> Connection] /\ service' \in Service /\ asks' = asks
    BY <1>1, <2>1, <2>2, OpenTypes
  <2> QED
    BY <2>3 DEF StreamTypeOK
<1> QED
  BY <1>2, <1>3, <1>4, <1>5

LEMMA MovedTypes ==
  ASSUME StreamTypeOK, NEW chats,
         NEW to \in {"none", "posting", "connecting", "ended", "listening"}
  PROVE  Moved(chats, to) \in [Chats -> {"none", "posting", "connecting", "ended", "listening"}]
BY DEF StreamTypeOK, Moved

LEMMA StreamInitTypes == StreamInit => StreamTypeOK
<1> SUFFICES ASSUME StreamInit PROVE StreamTypeOK
  OBVIOUS
<1>1. NewService \in Service
  BY StreamAssumption DEF NewService, Service
<1>2. [messages |-> <<>>, loading |-> FALSE, streaming |-> FALSE, listening |-> {},
       unsubscribe |-> Null, request |-> Null, content |-> <<>>] \in Hook
  BY DEF Hook
<1>3. [state |-> "unused", channels |-> {}] \in Connection
  BY DEF Connection
<1> QED
  BY <1>1, <1>2, <1>3 DEF StreamInit, StreamTypeOK

LEMMA UserTypes ==
  ASSUME StreamTypeOK, StreamUser
  PROVE  StreamTypeOK'
<1>1. CASE \E c \in Chats : SendMessage(c)
  <2> PICK c \in Chats : SendMessage(c)
    BY <1>1
  <2>1. hook' \in Hook
    BY FreshHookEffect DEF SendMessage, StreamTypeOK
  <2>2. disturbed' \subseteq Chats
    BY DEF SendMessage, StreamTypeOK
  <2> QED
    BY <2>1, <2>2 DEF SendMessage, StreamTypeOK
<1>2. CASE \E j \in Jobs : WatchReindex(j)
  <2>1. PICK j \in Jobs, ready \in BOOLEAN : Connect(j, ready) /\ WatchReindex(j)
    BY <1>2 DEF WatchReindex
  <2>2. /\ conns' \in [Sockets -> Connection] /\ service' \in Service
        /\ asks' \in [Sockets -> Seq({"subscribe", "unsubscribe"} \X Channels)]
    BY <2>1, ConnectTypes DEF Channels
  <2> QED
    BY <2>1, <2>2 DEF WatchReindex, StreamTypeOK
<1>3. CASE CloseWindow
  <2>1. hook \in Hook /\ service \in Service
    BY DEF StreamTypeOK
  <2>2. hook' \in Hook
    <3>1. hook.listening \ {hook.unsubscribe} \in SUBSET Chats
      BY <2>1 DEF Hook
    <3> QED
      BY <1>3, <3>1 DEF CloseWindow, Hook
  <2>3. service' \in Service
    BY <1>3, <2>1 DEF CloseWindow, Unsubscribe, Service
  <2>4. asks' \in [Sockets -> Seq({"subscribe", "unsubscribe"} \X Channels)]
    <3>1. CASE IsOpen /\ hook.request # Null
      <4>1. hook.request \in Channels /\ service.ws \in Sockets
        BY <2>1, <3>1 DEF Hook, Channels, IsOpen, Service
      <4>2. Append(asks[service.ws], <<"unsubscribe", hook.request>>) \in Seq({"subscribe", "unsubscribe"} \X Channels)
        BY <4>1 DEF StreamTypeOK
      <4>3. asks' = [asks EXCEPT ![service.ws] = Append(@, <<"unsubscribe", hook.request>>)]
        BY <1>3, <3>1 DEF CloseWindow, Unsubscribe
      <4> QED
        BY <4>1, <4>2, <4>3 DEF StreamTypeOK
    <3>2. CASE ~(IsOpen /\ hook.request # Null)
      BY <1>3, <3>2 DEF CloseWindow, Unsubscribe, StreamTypeOK
    <3> QED
      BY <3>1, <3>2
  <2> QED
    BY <1>3, <2>2, <2>3, <2>4 DEF CloseWindow, StreamTypeOK
<1> QED
  BY <1>1, <1>2, <1>3 DEF StreamUser

LEMMA TailTypes ==
  ASSUME StreamTypeOK, NEW c \in Chats, stream[c] # <<>>
  PROVE  /\ [stream EXCEPT ![c] = Tail(@)] \in [Chats -> Seq(Chunks)]
         /\ [spoken EXCEPT ![c] = @ + 1] \in [Chats -> Nat]
<1>1. Tail(stream[c]) \in Seq(Chunks)
  BY DEF StreamTypeOK
<1> QED
  BY <1>1 DEF StreamTypeOK

LEMMA ChatRefusedTypes ==
  ASSUME StreamTypeOK, NEW c \in Chats, ChatRefused(c)
  PROVE  StreamTypeOK'
<1>1. Cardinality({c}) \in Nat
  BY FS_Singleton
<1>2. hook' \in Hook
  BY <1>1, GivenUpHook DEF ChatRefused, StreamTypeOK
<1> QED
  BY <1>2 DEF ChatRefused, StreamTypeOK

LEMMA ChatStartedTypes ==
  ASSUME StreamTypeOK, NEW c \in Chats, ChatStarted(c)
  PROVE  StreamTypeOK'
<1>1. PICK script \in Scripts : stream' = [stream EXCEPT ![c] = script]
  BY DEF ChatStarted
<1>2. script \in Seq(Chunks)
  BY ScriptAssumption DEF IsAnswer
<1>3. PICK ready \in BOOLEAN :
        /\ Connect(c, ready)
        /\ phase' = [phase EXCEPT ![c] = IF ready THEN "listening" ELSE "connecting"]
        /\ hook' = [IF ready THEN RegisterCallbacks(hook, <<c>>) ELSE hook EXCEPT !.request = c]
        /\ disturbed' = IF ready THEN disturbed \cup Mixed({c}) ELSE disturbed
  BY DEF ChatStarted
<1>4. /\ conns' \in [Sockets -> Connection] /\ service' \in Service
      /\ asks' \in [Sockets -> Seq({"subscribe", "unsubscribe"} \X Channels)]
  BY <1>3, ConnectTypes DEF Channels
<1>5. hook' \in Hook
  <2>1. hook \in Hook /\ <<c>> \in Seq(Chats)
    BY DEF StreamTypeOK
  <2>2. RegisterCallbacks(hook, <<c>>) \in Hook
    BY <2>1, RegisteredHook
  <2> QED
    BY <1>3, <2>1, <2>2 DEF Hook
<1>6. disturbed' \subseteq Chats
  BY <1>3 DEF Mixed, StreamTypeOK
<1> QED
  BY <1>1, <1>2, <1>3, <1>4, <1>5, <1>6 DEF ChatStarted, StreamTypeOK

LEMMA PublishTypes ==
  ASSUME StreamTypeOK, NEW c \in Chats, Publish(c)
  PROVE  StreamTypeOK'
<1>1. hook' \in Hook /\ stream[c] # <<>> /\ blanked' \in {blanked, blanked \cup {c}}
  BY ReceivedEffect
<1>2. stream' \in [Chats -> Seq(Chunks)] /\ spoken' \in [Chats -> Nat]
  BY <1>1, TailTypes DEF Publish, StreamTypeOK
<1>3. disturbed' \subseteq Chats /\ finished' \subseteq Chats /\ blanked' \subseteq Chats
  BY <1>1 DEF Publish, StreamTypeOK
<1> QED
  BY <1>1, <1>2, <1>3 DEF Publish, StreamTypeOK

LEMMA WaitingSequence ==
  ASSUME StreamTypeOK
  PROVE  LET chats == Among(service.waiting, Chats)
         IN chats \in Seq(Chats) /\ {chats[i] : i \in DOMAIN chats} = WaitingChats
<1> DEFINE chats == Among(service.waiting, Chats)
<1>1. service.waiting \in Seq(Channels)
  BY DEF StreamTypeOK, Service
<1>2. /\ chats \in Seq(Channels \cap Chats)
      /\ \A i \in DOMAIN service.waiting : service.waiting[i] \in Chats => \E n \in DOMAIN chats : chats[n] = service.waiting[i]
      /\ \A n \in DOMAIN chats : \E i \in DOMAIN service.waiting : chats[n] = service.waiting[i]
  <2> DEFINE w == service.waiting
  <2> HIDE DEF w
  <2>1. w \in Seq(Channels)
    BY <1>1 DEF w
  <2>2. /\ Among(w, Chats) \in Seq(Channels \cap Chats)
        /\ \A i \in DOMAIN w : w[i] \in Chats => \E n \in DOMAIN Among(w, Chats) : Among(w, Chats)[n] = w[i]
        /\ \A n \in DOMAIN Among(w, Chats) : \E i \in DOMAIN w : Among(w, Chats)[n] = w[i]
    BY <2>1, AmongMembers
  <2> QED
    BY <2>2 DEF w
<1>3. Channels \cap Chats = Chats
  BY DEF Channels
<1> HIDE DEF chats
<1>4. chats \in Seq(Chats)
  BY <1>2, <1>3
<1>5. \A n \in DOMAIN chats : chats[n] \in Chats
  BY <1>4
<1>6. {chats[i] : i \in DOMAIN chats} = WaitingChats
  BY <1>2, <1>5 DEF WaitingChats
<1> QED
  BY <1>4, <1>6 DEF chats

LEMMA AcceptTypes ==
  ASSUME StreamTypeOK, NEW s \in Sockets, Accept(s)
  PROVE  StreamTypeOK'
<1> DEFINE known == service.subscribed \cup conns[s].channels
           mine == service.connecting = s
           more == Among(service.waiting, Channels \ known)
           called == IF mine THEN Among(service.waiting, Chats) ELSE <<>>
           chats == IF mine THEN WaitingChats ELSE {}
<1>1. service \in Service /\ service.waiting \in Seq(Channels) /\ conns[s] \in Connection /\ hook \in Hook
  BY DEF StreamTypeOK, Service
<1>2. conns' \in [Sockets -> Connection]
  <2>1. conns' = [conns EXCEPT ![s] = [conns[s] EXCEPT !.state = "open"]]
    BY DEF Accept
  <2>2. [conns[s] EXCEPT !.state = "open"] \in Connection
    BY <1>1 DEF Connection
  <2> QED
    BY <2>1, <2>2 DEF StreamTypeOK
<1>3. subs' \in [Sockets -> SUBSET Channels]
  BY <1>1 DEF Accept, Registered, Connection, StreamTypeOK
<1>4. service' \in Service
  <2>1. known \in SUBSET Channels
    BY <1>1 DEF Connection, Service
  <2>2. service' = [service EXCEPT !.retries = 0, !.subscribed = known,
                      !.connecting = IF mine THEN Null ELSE @, !.waiting = IF mine THEN <<>> ELSE @]
    BY DEF Accept
  <2>3. <<>> \in Seq(Channels) /\ 0 \in 0..MaxRetries
    BY StreamAssumption
  <2> HIDE DEF known, mine
  <2> QED
    BY <1>1, <2>1, <2>2, <2>3 DEF Service
<1>5. asks' \in [Sockets -> Seq({"subscribe", "unsubscribe"} \X Channels)]
  <2>1. more \in Seq(Channels)
    <3>1. more \in Seq(Channels \cap (Channels \ known))
      BY <1>1, AmongMembers
    <3> HIDE DEF more
    <3> QED
      BY <3>1
  <2>2. Channel("subscribe", more) \in Seq({"subscribe", "unsubscribe"} \X Channels)
    <3> HIDE DEF more
    <3> QED
      BY <2>1 DEF Channel
  <2>3. asks' = IF mine THEN [asks EXCEPT ![s] = Channel("subscribe", more)] ELSE asks
    BY DEF Accept
  <2> HIDE DEF more, mine
  <2> QED
    BY <2>2, <2>3 DEF StreamTypeOK
<1>6. hook' \in Hook
  <2>1. called \in Seq(Chats)
    BY WaitingSequence
  <2>2. hook' = RegisterCallbacks(hook, called)
    BY DEF Accept
  <2> HIDE DEF called
  <2> QED
    BY <1>1, <2>1, <2>2, RegisteredHook
<1>7. phase' \in [Chats -> {"none", "posting", "connecting", "ended", "listening"}]
  BY MovedTypes DEF Accept
<1>8. disturbed' \subseteq Chats
  BY DEF Accept, Mixed, WaitingChats, StreamTypeOK
<1>9. UNCHANGED <<stream, spoken, finished, blanked>>
  BY DEF Accept
<1> QED
  BY <1>2, <1>3, <1>4, <1>5, <1>6, <1>7, <1>8, <1>9 DEF StreamTypeOK

LEMMA ReceiveTypes ==
  ASSUME StreamTypeOK, NEW s \in Sockets, Receive(s)
  PROVE  StreamTypeOK'
<1>1. asks[s] \in Seq({"subscribe", "unsubscribe"} \X Channels) /\ asks[s] # <<>> /\ service \in Service
  BY DEF Receive, StreamTypeOK
<1>2. Head(asks[s]) \in {"subscribe", "unsubscribe"} \X Channels
      /\ Tail(asks[s]) \in Seq({"subscribe", "unsubscribe"} \X Channels)
  BY <1>1
<1>3. Head(asks[s])[2] \in Channels
  BY <1>2
<1>4. subs' \in [Sockets -> SUBSET Channels]
  <2> DEFINE ch == Head(asks[s])[2]
  <2>1. subs' = Subscribed(s, ch) \/ subs' = Unsubscribed(s, ch)
    BY DEF Receive
  <2>2. ch \in Channels
    BY <1>3
  <2> HIDE DEF ch
  <2> QED
    BY <2>1, <2>2 DEF Subscribed, Unsubscribed, StreamTypeOK
<1>5. service' \in Service
  <2>1. \/ service' = [service EXCEPT !.subscribed = @ \cup {Head(asks[s])[2]}]
        \/ service' = [service EXCEPT !.subscribed = @ \ {Head(asks[s])[2]}]
    BY DEF Receive
  <2> QED
    BY <1>1, <1>3, <2>1 DEF Service
<1>6. asks' \in [Sockets -> Seq({"subscribe", "unsubscribe"} \X Channels)]
  BY <1>2 DEF Receive, StreamTypeOK
<1> QED
  BY <1>4, <1>5, <1>6 DEF Receive, StreamTypeOK

LEMMA ReconnectTypes ==
  ASSUME StreamTypeOK, Reconnect
  PROVE  StreamTypeOK'
<1> DEFINE off == [service EXCEPT !.timer = FALSE]
<1>1. off \in Service /\ service.subscribed \in SUBSET Channels
  BY DEF StreamTypeOK, Service
<1>2. \/ service' = off /\ UNCHANGED <<conns, asks>>
      \/ Open(off, service.subscribed, <<>>)
  BY DEF Reconnect
<1>3. <<>> \in Seq(Channels)
  OBVIOUS
<1> HIDE DEF off
<1>4. conns' \in [Sockets -> Connection] /\ service' \in Service /\ asks' = asks
  BY <1>1, <1>2, <1>3, OpenTypes DEF StreamTypeOK
<1> QED
  BY <1>4 DEF Reconnect, StreamTypeOK

LEMMA AbandonTypes ==
  ASSUME StreamTypeOK, Abandon
  PROVE  /\ phase' \in [Chats -> {"none", "posting", "connecting", "ended", "listening"}]
         /\ hook' \in Hook /\ Unconnected \in Service
<1>1. hook \in Hook /\ service \in Service
  BY DEF StreamTypeOK
<1>2. hook' \in Hook
  BY <1>1, WaitingChatsFinite, GivenUpHook DEF Abandon
<1>3. Unconnected \in Service
  <2>1. <<>> \in Seq(Channels)
    OBVIOUS
  <2> QED
    BY <1>1, <2>1 DEF Unconnected, Service
<1> QED
  BY <1>2, <1>3, MovedTypes DEF Abandon

LEMMA RefuseTypes ==
  ASSUME StreamTypeOK, NEW s \in Sockets, Refuse(s)
  PROVE  StreamTypeOK'
<1>1. conns' \in [Sockets -> Connection]
  <2>1. conns' = [conns EXCEPT ![s] = [conns[s] EXCEPT !.state = "closed"]] /\ conns[s] \in Connection
    BY DEF Refuse, StreamTypeOK
  <2>2. [conns[s] EXCEPT !.state = "closed"] \in Connection
    BY <2>1 DEF Connection
  <2> QED
    BY <2>1, <2>2 DEF StreamTypeOK
<1>2. CASE service.connecting = s
  <2>1. Abandon /\ service' = Closing(Unconnected)
    BY <1>2 DEF Refuse
  <2>2. /\ phase' \in [Chats -> {"none", "posting", "connecting", "ended", "listening"}]
        /\ hook' \in Hook /\ service' \in Service
    BY <2>1, AbandonTypes, ClosingTypes
  <2> QED
    BY <1>1, <2>2 DEF Refuse, StreamTypeOK
<1>3. CASE service.connecting # s
  <2>1. service' \in Service /\ UNCHANGED <<phase, hook>>
    BY <1>3, ClosingTypes DEF Refuse, StreamTypeOK
  <2> QED
    BY <1>1, <2>1 DEF Refuse, StreamTypeOK
<1> QED
  BY <1>2, <1>3

LEMMA LostTypes ==
  ASSUME StreamTypeOK, NEW sockets, Lost(sockets)
  PROVE  /\ conns' \in [Sockets -> Connection] /\ subs' \in [Sockets -> SUBSET Channels]
         /\ asks' \in [Sockets -> Seq({"subscribe", "unsubscribe"} \X Channels)] /\ service' \in Service
<1>1. conns' \in [Sockets -> Connection]
  <2>1. \A s \in Sockets : conns[s] \in Connection /\ [conns[s] EXCEPT !.state = "closed"] \in Connection
    BY DEF StreamTypeOK, Connection
  <2> QED
    BY <2>1 DEF Lost
<1>2. service' \in Service
  BY ClosingTypes DEF Lost, StreamTypeOK
<1>3. <<>> \in Seq({"subscribe", "unsubscribe"} \X Channels)
  OBVIOUS
<1> QED
  BY <1>1, <1>2, <1>3 DEF Lost, StreamTypeOK

LEMMA FaultTypes ==
  ASSUME StreamTypeOK, StreamFault \/ StopStreams
  PROVE  StreamTypeOK'
<1>1. CASE \E c \in Chats : LoseMessage(c)
  <2> PICK c \in Chats : LoseMessage(c)
    BY <1>1
  <2>1. stream' \in [Chats -> Seq(Chunks)] /\ spoken' \in [Chats -> Nat]
    BY TailTypes DEF LoseMessage, StreamTypeOK
  <2> QED
    BY <2>1 DEF LoseMessage, StreamTypeOK
<1>2. CASE \E s \in Sockets : TimeOut(s)
  BY <1>2, AbandonTypes DEF TimeOut, StreamTypeOK
<1>3. CASE \E s \in Sockets : LoseConnection(s)
  BY <1>3, LostTypes DEF LoseConnection, StreamTypeOK
<1>4. CASE StopStreams
  <2>1. stream' \in [Chats -> Seq(Chunks)]
    BY <1>4 DEF StopStreams
  <2> QED
    BY <1>4, <2>1, LostTypes DEF StopStreams, StreamTypeOK
<1> QED
  BY <1>1, <1>2, <1>3, <1>4 DEF StreamFault

LEMMA StreamTypesKept == StreamTypeOK /\ [StreamNext]_streamVars => StreamTypeOK'
<1> SUFFICES ASSUME StreamTypeOK, [StreamNext]_streamVars PROVE StreamTypeOK'
  OBVIOUS
<1>1. CASE StreamUser
  BY <1>1, UserTypes
<1>2. CASE StreamFault \/ StopStreams
  BY <1>2, FaultTypes
<1>3. CASE StreamStep
  BY <1>3, ChatRefusedTypes, ChatStartedTypes, PublishTypes, AcceptTypes, ReceiveTypes DEF StreamStep
<1>4. CASE Reconnect
  BY <1>4, ReconnectTypes
<1>5. CASE \E s \in Sockets : Refuse(s)
  BY <1>5, RefuseTypes
<1>6. CASE UNCHANGED streamVars
  BY <1>6 DEF streamVars, StreamTypeOK
<1> QED
  BY <1>1, <1>2, <1>3, <1>4, <1>5, <1>6 DEF StreamNext
-----------------------------------------------------------------------------
(* Until the page goes on with a chat, nobody listens to it: no websocket    *)
(* is or will be subscribed to its channel, but the one that is opened for   *)
(* it.  So no message of its answer can arrive before there is a callback.   *)

Early == {"none", "posting", "connecting"}

Unheard(c) ==
  /\ c \notin hook.listening /\ c \notin service.subscribed
  /\ \A s \in Sockets :
       /\ c \notin subs[s]
       /\ \A i \in DOMAIN asks[s] : asks[s][i] # <<"subscribe", c>>
       /\ c \in conns[s].channels => phase[c] = "connecting" /\ service.connecting = s

\* Who waits for a websocket is who says so.
WaitingKnown ==
  /\ service.connecting = Null => service.waiting = <<>>
  /\ \A c \in Chats : phase[c] = "connecting" <=> c \in WaitingChats

UnheardInv == WaitingKnown /\ \A c \in Chats : phase[c] \in Early => Unheard(c)

LEMMA UnheardInit == StreamInit => UnheardInv
<1> SUFFICES ASSUME StreamInit PROVE UnheardInv
  OBVIOUS
<1>1. WaitingChats = {}
  BY DEF StreamInit, NewService, WaitingChats
<1>2. WaitingKnown
  BY <1>1 DEF StreamInit, NewService, WaitingKnown
<1>3. \A c \in Chats : Unheard(c)
  BY DEF StreamInit, NewService, Unheard
<1> QED
  BY <1>2, <1>3 DEF UnheardInv

LEMMA ConnectEffect ==
  ASSUME StreamTypeOK, UnheardInv, NEW channel \in Channels, NEW ready \in BOOLEAN, Connect(channel, ready)
  PROVE  /\ service'.subscribed = service.subscribed
         /\ service'.connecting = Null => service'.waiting = <<>>
         /\ WaitingChats' = WaitingChats \cup IF ready THEN {} ELSE {channel} \cap Chats
         /\ \A c \in Chats : phase[c] \in Early /\ (c # channel \/ ~ready) =>
              \A s \in Sockets : \A i \in DOMAIN asks'[s] : asks'[s][i] # <<"subscribe", c>>
         /\ \A c \in Chats : phase[c] \in Early =>
              \A s \in Sockets : c \in conns'[s].channels =>
                /\ service'.connecting = s
                /\ phase[c] = "connecting" \/ (c = channel /\ ~ready)
         /\ channel \in Chats /\ phase[channel] \in Early => channel \notin service.subscribed
<1>1. /\ service \in Service /\ service.waiting \in Seq(Channels)
      /\ asks \in [Sockets -> Seq({"subscribe", "unsubscribe"} \X Channels)]
      /\ conns \in [Sockets -> Connection]
  BY DEF StreamTypeOK, Service
<1>2. channel \in Chats /\ phase[channel] \in Early => channel \notin service.subscribed
  BY DEF UnheardInv, Unheard
<1>3. ASSUME UNCHANGED asks
      PROVE  \A c \in Chats : phase[c] \in Early =>
               \A s \in Sockets : \A i \in DOMAIN asks'[s] : asks'[s][i] # <<"subscribe", c>>
  BY <1>3 DEF UnheardInv, Unheard
<1>4. ASSUME UNCHANGED conns, service'.connecting = service.connecting
      PROVE  \A c \in Chats : phase[c] \in Early =>
               \A s \in Sockets : c \in conns'[s].channels =>
                 service'.connecting = s /\ phase[c] = "connecting"
  BY <1>4 DEF UnheardInv, Unheard
<1>5. CASE channel \in service.subscribed
  <2>1. ready /\ UNCHANGED <<conns, service, asks>>
    BY <1>5 DEF Connect
  <2> QED
    BY <1>2, <1>3, <1>4, <2>1 DEF UnheardInv, WaitingKnown, WaitingChats
<1>6. CASE channel \notin service.subscribed /\ IsOpen
  <2>1. ready /\ asks' = [asks EXCEPT ![service.ws] = Append(@, <<"subscribe", channel>>)] /\ UNCHANGED <<conns, service>>
    BY <1>6 DEF Connect
  <2>2. ASSUME NEW c \in Chats, phase[c] \in Early, c # channel, NEW s \in Sockets, NEW i \in DOMAIN asks'[s]
        PROVE  asks'[s][i] # <<"subscribe", c>>
    <3>1. \A j \in DOMAIN asks[s] : asks[s][j] # <<"subscribe", c>>
      BY <2>2 DEF UnheardInv, Unheard
    <3>2. CASE s # service.ws
      BY <1>1, <2>1, <2>2, <3>1, <3>2
    <3>3. CASE s = service.ws
      <4>1. asks'[s] = Append(asks[s], <<"subscribe", channel>>)
        BY <1>1, <2>1, <3>3
      <4>2. asks'[s][i] = <<"subscribe", channel>> \/ (i \in DOMAIN asks[s] /\ asks'[s][i] = asks[s][i])
        BY <1>1, <2>2, <4>1
      <4> QED
        BY <2>2, <3>1, <4>2
    <3> QED
      BY <3>2, <3>3
  <2> QED
    BY <1>2, <1>4, <2>1, <2>2 DEF UnheardInv, WaitingKnown, WaitingChats
<1>7. CASE channel \notin service.subscribed /\ ~IsOpen /\ service.connecting # Null
  <2>1. ~ready /\ service' = [service EXCEPT !.waiting = Append(@, channel)] /\ UNCHANGED <<conns, asks>>
    BY <1>7 DEF Connect
  <2>2. /\ service'.waiting = Append(service.waiting, channel) /\ service'.connecting = service.connecting
        /\ service'.subscribed = service.subscribed
    BY <1>1, <2>1 DEF Service
  <2>3. WaitingChats' = WaitingChats \cup ({channel} \cap Chats)
    <3>1. \A c : (\E i \in DOMAIN service'.waiting : service'.waiting[i] = c) <=>
                 ((\E i \in DOMAIN service.waiting : service.waiting[i] = c) \/ c = channel)
      <4>1. service'.waiting[Len(service.waiting) + 1] = channel /\ Len(service.waiting) + 1 \in DOMAIN service'.waiting
        BY <1>1, <2>2
      <4>2. \A i \in DOMAIN service'.waiting :
              service'.waiting[i] = channel \/ (i \in DOMAIN service.waiting /\ service'.waiting[i] = service.waiting[i])
        BY <1>1, <2>2
      <4>3. \A i \in DOMAIN service.waiting :
              i \in DOMAIN service'.waiting /\ service'.waiting[i] = service.waiting[i]
        BY <1>1, <2>2
      <4> QED
        BY <4>1, <4>2, <4>3
    <3> QED
      BY <3>1 DEF WaitingChats
  <2> QED
    BY <1>2, <1>3, <1>4, <1>7, <2>1, <2>2, <2>3
<1>8. CASE channel \notin service.subscribed /\ ~IsOpen /\ service.connecting = Null
  <2>1. ~ready /\ Open(service, {channel}, <<channel>>)
    BY <1>8 DEF Connect
  <2>2. PICK s \in Sockets :
          /\ conns' = [conns EXCEPT ![s] = [state |-> "opening", channels |-> {channel}]]
          /\ service' = [service EXCEPT !.ws = s, !.connecting = s, !.waiting = <<channel>>]
          /\ asks' = asks
    <3>1. NewSocket \in Sockets
      BY <2>1 DEF Open, NewSocket, Unused
    <3> QED
      BY <2>1, <3>1 DEF Open
  <2>3. service'.connecting = s /\ service'.waiting = <<channel>> /\ service'.subscribed = service.subscribed
    BY <1>1, <2>2 DEF Service
  <2>4. WaitingChats = {} /\ WaitingChats' = {channel} \cap Chats
    <3>1. service.waiting = <<>>
      BY <1>8 DEF UnheardInv, WaitingKnown
    <3> QED
      BY <2>3, <3>1 DEF WaitingChats
  <2>5. \A c \in Chats : phase[c] \in Early => \A t \in Sockets : c \notin conns[t].channels
    BY <2>4 DEF UnheardInv, Unheard, WaitingKnown
  <2>6. \A c \in Chats : phase[c] \in Early =>
          \A t \in Sockets : c \in conns'[t].channels => t = s /\ c = channel
    BY <1>1, <2>2, <2>5
  <2>7. s # Null
    BY StreamAssumption
  <2> QED
    BY <1>2, <1>3, <2>1, <2>2, <2>3, <2>4, <2>6, <2>7
<1> QED
  BY <1>5, <1>6, <1>7, <1>8

LEMMA UnheardUser ==
  ASSUME StreamTypeOK, UnheardInv, StreamUser
  PROVE  UnheardInv'
<1>1. CASE \E c \in Chats : SendMessage(c)
  <2> PICK c \in Chats : SendMessage(c)
    BY <1>1
  <2>1. /\ phase[c] = "none" /\ phase' = [phase EXCEPT ![c] = "posting"] /\ UNCHANGED <<conns, subs, asks, service>>
        /\ phase \in [Chats -> {"none", "posting", "connecting", "ended", "listening"}]
    BY DEF SendMessage, StreamTypeOK
  <2>2. hook'.listening \subseteq hook.listening
    BY FreshHookEffect DEF SendMessage, StreamTypeOK
  <2>3. WaitingKnown'
    BY <2>1 DEF UnheardInv, WaitingKnown, WaitingChats
  <2>4. \A d \in Chats : phase'[d] \in Early => phase[d] \in Early /\ (phase[d] = "connecting" => phase'[d] = "connecting")
    BY <2>1 DEF Early
  <2>5. \A d \in Chats : phase'[d] \in Early => Unheard(d)'
    BY <2>1, <2>2, <2>4 DEF UnheardInv, Unheard
  <2> QED
    BY <2>3, <2>5 DEF UnheardInv
<1>2. CASE \E j \in Jobs : WatchReindex(j)
  <2>1. PICK j \in Jobs, ready \in BOOLEAN : Connect(j, ready) /\ WatchReindex(j)
    BY <1>2 DEF WatchReindex
  <2>2. j \in Channels /\ j \notin Chats
    BY StreamAssumption DEF Channels
  <2>3. /\ service'.subscribed = service.subscribed
        /\ service'.connecting = Null => service'.waiting = <<>>
        /\ WaitingChats' = WaitingChats
        /\ \A c \in Chats : phase[c] \in Early =>
             \A s \in Sockets : \A i \in DOMAIN asks'[s] : asks'[s][i] # <<"subscribe", c>>
        /\ \A c \in Chats : phase[c] \in Early =>
             \A s \in Sockets : c \in conns'[s].channels => service'.connecting = s /\ phase[c] = "connecting"
    BY <2>1, <2>2, ConnectEffect
  <2>4. UNCHANGED <<subs, phase, hook>>
    BY <2>1 DEF WatchReindex
  <2>5. WaitingKnown'
    BY <2>3, <2>4 DEF UnheardInv, WaitingKnown
  <2>6. \A c \in Chats : phase'[c] \in Early => Unheard(c)'
    BY <2>3, <2>4 DEF UnheardInv, Unheard
  <2> QED
    BY <2>5, <2>6 DEF UnheardInv
<1>3. CASE CloseWindow
  <2>1. service \in Service /\ asks \in [Sockets -> Seq({"subscribe", "unsubscribe"} \X Channels)]
    BY DEF StreamTypeOK
  <2>2. /\ hook'.listening \subseteq hook.listening /\ UNCHANGED <<conns, subs, phase>>
        /\ Unsubscribe(hook.request)
    BY <1>3 DEF CloseWindow
  <2>3. /\ service'.subscribed \subseteq service.subscribed /\ service'.waiting = service.waiting
        /\ service'.connecting = service.connecting
    BY <2>1, <2>2 DEF Unsubscribe, Service
  <2>4. ASSUME NEW c, NEW s \in Sockets, \A i \in DOMAIN asks[s] : asks[s][i] # <<"subscribe", c>>,
               NEW i \in DOMAIN asks'[s]
        PROVE  asks'[s][i] # <<"subscribe", c>>
    <3>1. asks'[s] = asks[s] \/ asks'[s] = Append(asks[s], <<"unsubscribe", hook.request>>)
      BY <2>1, <2>2 DEF Unsubscribe
    <3>2. <<"unsubscribe", hook.request>> # <<"subscribe", c>>
      OBVIOUS
    <3>3. asks'[s][i] = <<"unsubscribe", hook.request>> \/ (i \in DOMAIN asks[s] /\ asks'[s][i] = asks[s][i])
      <4>1. CASE asks'[s] = asks[s]
        BY <2>4, <4>1
      <4>2. CASE asks'[s] = Append(asks[s], <<"unsubscribe", hook.request>>)
        <5>1. asks[s] \in Seq({"subscribe", "unsubscribe"} \X Channels)
          BY <2>1
        <5> DEFINE ask == <<"unsubscribe", hook.request>>
        <5> HIDE DEF ask
        <5>2. asks'[s] = Append(asks[s], ask)
          BY <4>2 DEF ask
        <5>3. i \in DOMAIN Append(asks[s], ask)
          BY <2>4, <5>2
        <5>4. i \in 1..Len(asks[s]) + 1
          BY <5>1, <5>3
        <5> QED
          BY <5>1, <5>2, <5>4 DEF ask
      <4> QED
        BY <3>1, <4>1, <4>2
    <3> QED
      BY <2>4, <3>2, <3>3
  <2>5. WaitingKnown'
    BY <2>2, <2>3 DEF UnheardInv, WaitingKnown, WaitingChats
  <2>6. \A c \in Chats : phase'[c] \in Early => Unheard(c)'
    BY <2>2, <2>3, <2>4 DEF UnheardInv, Unheard
  <2> QED
    BY <2>5, <2>6 DEF UnheardInv
<1> QED
  BY <1>1, <1>2, <1>3 DEF StreamUser

LEMMA UnheardStarted ==
  ASSUME StreamTypeOK, UnheardInv, NEW c \in Chats, ChatStarted(c)
  PROVE  UnheardInv'
<1>1. PICK ready \in BOOLEAN :
        /\ Connect(c, ready)
        /\ phase' = [phase EXCEPT ![c] = IF ready THEN "listening" ELSE "connecting"]
        /\ hook' = [IF ready THEN RegisterCallbacks(hook, <<c>>) ELSE hook EXCEPT !.request = c]
  BY DEF ChatStarted
<1>2. /\ phase[c] = "posting" /\ UNCHANGED subs /\ hook \in Hook /\ c \in Channels
      /\ phase \in [Chats -> {"none", "posting", "connecting", "ended", "listening"}]
  BY DEF ChatStarted, StreamTypeOK, Channels
<1>3. /\ service'.subscribed = service.subscribed
      /\ service'.connecting = Null => service'.waiting = <<>>
      /\ WaitingChats' = WaitingChats \cup IF ready THEN {} ELSE {c} \cap Chats
      /\ \A d \in Chats : phase[d] \in Early /\ (d # c \/ ~ready) =>
           \A s \in Sockets : \A i \in DOMAIN asks'[s] : asks'[s][i] # <<"subscribe", d>>
      /\ \A d \in Chats : phase[d] \in Early =>
           \A s \in Sockets : d \in conns'[s].channels =>
             /\ service'.connecting = s
             /\ phase[d] = "connecting" \/ (d = c /\ ~ready)
  BY <1>1, <1>2, ConnectEffect
<1>4. hook'.listening = IF ready THEN hook.listening \cup {c} ELSE hook.listening
  <2>1. <<c>> \in Seq(Chats) /\ <<c>> # <<>> /\ {<<c>>[i] : i \in DOMAIN <<c>>} = {c}
    OBVIOUS
  <2>2. LET g == RegisterCallbacks(hook, <<c>>) IN g \in Hook /\ g.listening = hook.listening \cup {c}
    BY <1>2, <2>1, RegisteredHook
  <2> QED
    BY <1>1, <1>2, <2>2 DEF Hook
<1>5. WaitingKnown'
  <2>1. ASSUME NEW d \in Chats PROVE phase'[d] = "connecting" <=> d \in WaitingChats'
    <3>1. phase[d] = "connecting" <=> d \in WaitingChats
      BY DEF UnheardInv, WaitingKnown
    <3> QED
      BY <1>1, <1>2, <1>3, <3>1
  <2> QED
    BY <1>3, <2>1 DEF WaitingKnown
<1>6. ASSUME NEW d \in Chats, phase'[d] \in Early PROVE Unheard(d)'
  <2>1. phase[d] \in Early /\ (d = c => ~ready) /\ (phase[d] = "connecting" \/ (d = c /\ ~ready) => phase'[d] = "connecting")
    BY <1>1, <1>2, <1>6 DEF Early
  <2>2. d \notin hook.listening /\ d \notin service.subscribed /\ \A s \in Sockets : d \notin subs[s]
    BY <2>1 DEF UnheardInv, Unheard
  <2> QED
    BY <1>2, <1>3, <1>4, <2>1, <2>2 DEF Unheard
<1> QED
  BY <1>5, <1>6 DEF UnheardInv

LEMMA UnheardAccept ==
  ASSUME StreamTypeOK, UnheardInv, NEW s \in Sockets, Accept(s)
  PROVE  UnheardInv'
<1> DEFINE known == service.subscribed \cup conns[s].channels
           mine == service.connecting = s
           more == Among(service.waiting, Channels \ known)
           called == IF mine THEN Among(service.waiting, Chats) ELSE <<>>
           chats == IF mine THEN WaitingChats ELSE {}
<1>1. /\ service \in Service /\ service.waiting \in Seq(Channels) /\ hook \in Hook
      /\ conns \in [Sockets -> Connection] /\ subs \in [Sockets -> SUBSET Channels]
      /\ asks \in [Sockets -> Seq({"subscribe", "unsubscribe"} \X Channels)]
      /\ phase \in [Chats -> {"none", "posting", "connecting", "ended", "listening"}]
  BY DEF StreamTypeOK, Service
<1>2. /\ conns' = [conns EXCEPT ![s].state = "open"] /\ subs' = [subs EXCEPT ![s] = conns[s].channels]
      /\ service' = [service EXCEPT !.retries = 0, !.subscribed = known,
                       !.connecting = IF mine THEN Null ELSE @, !.waiting = IF mine THEN <<>> ELSE @]
      /\ asks' = IF mine THEN [asks EXCEPT ![s] = Channel("subscribe", more)] ELSE asks
      /\ hook' = RegisterCallbacks(hook, called)
      /\ phase' = Moved(chats, "listening")
  BY DEF Accept, Registered
<1>3. /\ service'.subscribed = known
      /\ service'.connecting = IF mine THEN Null ELSE service.connecting
      /\ service'.waiting = IF mine THEN <<>> ELSE service.waiting
  BY <1>1, <1>2 DEF Service
<1>4. called \in Seq(Chats) /\ {called[i] : i \in DOMAIN called} = chats
  <2>1. CASE mine
    BY <2>1, WaitingSequence
  <2>2. CASE ~mine
    BY <2>2
  <2> QED
    BY <2>1, <2>2
<1>5. hook'.listening \subseteq hook.listening \cup chats
  <2> HIDE DEF called, chats
  <2> QED
    BY <1>1, <1>2, <1>4, RegisteredHook
<1>6. \A c \in Chats : phase'[c] = IF c \in chats THEN "listening" ELSE phase[c]
  BY <1>2 DEF Moved
<1>7. WaitingChats' = IF mine THEN {} ELSE WaitingChats
  BY <1>3 DEF WaitingChats
<1>8. WaitingKnown'
  <2>1. service'.connecting = Null => service'.waiting = <<>>
    BY <1>3 DEF UnheardInv, WaitingKnown
  <2>2. \A c \in Chats : phase'[c] = "connecting" <=> c \in WaitingChats'
    BY <1>6, <1>7 DEF UnheardInv, WaitingKnown
  <2> QED
    BY <2>1, <2>2 DEF WaitingKnown
<1>9. ASSUME NEW c \in Chats, phase'[c] \in Early PROVE Unheard(c)'
  <2>1. c \notin chats /\ phase'[c] = phase[c] /\ phase[c] \in Early
    BY <1>6, <1>9 DEF Early
  <2>2. /\ c \notin hook.listening /\ c \notin service.subscribed /\ (c \in WaitingChats <=> phase[c] = "connecting")
        /\ \A t \in Sockets :
             /\ c \notin subs[t]
             /\ \A i \in DOMAIN asks[t] : asks[t][i] # <<"subscribe", c>>
             /\ c \in conns[t].channels => phase[c] = "connecting" /\ service.connecting = t
    BY <2>1 DEF UnheardInv, WaitingKnown, Unheard
  <2>3. c \notin conns[s].channels
    BY <2>1, <2>2
  <2>4. mine => \A i \in DOMAIN asks'[s] : asks'[s][i] # <<"subscribe", c>>
    <3> SUFFICES ASSUME mine, NEW i \in DOMAIN asks'[s] PROVE asks'[s][i] # <<"subscribe", c>>
      OBVIOUS
    <3>1. asks'[s] = Channel("subscribe", more)
      BY <1>1, <1>2
    <3>2. /\ more \in Seq(Channels \cap (Channels \ known))
          /\ \A n \in DOMAIN more : \E k \in DOMAIN service.waiting : more[n] = service.waiting[k]
      <4> DEFINE w == service.waiting
                 rest == Channels \ known
      <4> HIDE DEF w, rest
      <4>1. w \in Seq(Channels)
        BY <1>1 DEF w
      <4>2. /\ Among(w, rest) \in Seq(Channels \cap rest)
            /\ \A n \in DOMAIN Among(w, rest) : \E k \in DOMAIN w : Among(w, rest)[n] = w[k]
        BY <4>1, AmongMembers
      <4> QED
        BY <4>2 DEF w, rest
    <3>3. i \in DOMAIN more /\ asks'[s][i] = <<"subscribe", more[i]>>
      <4> HIDE DEF more
      <4> QED
        BY <3>1, <3>2 DEF Channel
    <3>4. more[i] # c
      <4>1. \A k \in DOMAIN service.waiting : service.waiting[k] # c
        BY <2>1 DEF WaitingChats
      <4> HIDE DEF more
      <4> QED
        BY <3>2, <3>3, <4>1
    <3> HIDE DEF more
    <3> QED
      BY <3>3, <3>4
  <2>5. \A t \in Sockets : \A i \in DOMAIN asks'[t] : asks'[t][i] # <<"subscribe", c>>
    <3> HIDE DEF more, mine
    <3> QED
      BY <1>1, <1>2, <2>2, <2>4
  <2>6. \A t \in Sockets : c \notin subs'[t]
    BY <1>1, <1>2, <2>2, <2>3
  <2>7. \A t \in Sockets : conns'[t].channels = conns[t].channels
    BY <1>1, <1>2 DEF Connection
  <2>8. c \notin hook'.listening /\ c \notin service'.subscribed
    BY <1>3, <1>5, <2>1, <2>2, <2>3
  <2>9. \A t \in Sockets : c \in conns'[t].channels => phase'[c] = "connecting" /\ service'.connecting = t
    BY <1>3, <2>1, <2>2, <2>7
  <2> QED
    BY <2>5, <2>6, <2>8, <2>9 DEF Unheard
<1> QED
  BY <1>8, <1>9 DEF UnheardInv

LEMMA UnheardReceive ==
  ASSUME StreamTypeOK, UnheardInv, NEW s \in Sockets, Receive(s)
  PROVE  UnheardInv'
<1> DEFINE verb == Head(asks[s])[1]
           ch == Head(asks[s])[2]
<1>1. /\ service \in Service /\ subs \in [Sockets -> SUBSET Channels]
      /\ asks \in [Sockets -> Seq({"subscribe", "unsubscribe"} \X Channels)] /\ asks[s] # <<>>
  BY DEF StreamTypeOK, Receive
<1>2. Head(asks[s]) = <<verb, ch>> /\ Head(asks[s]) = asks[s][1] /\ 1 \in DOMAIN asks[s]
  BY <1>1
<1>3. \/ /\ verb = "subscribe" /\ subs' = [subs EXCEPT ![s] = @ \cup {ch}]
         /\ service' = [service EXCEPT !.subscribed = @ \cup {ch}]
      \/ /\ subs' = [subs EXCEPT ![s] = @ \ {ch}]
         /\ service' = [service EXCEPT !.subscribed = @ \ {ch}]
  BY DEF Receive, Subscribed, Unsubscribed
<1>4. asks' = [asks EXCEPT ![s] = Tail(@)] /\ UNCHANGED <<conns, phase, hook>>
  BY DEF Receive
<1> HIDE DEF verb, ch
<1>5. service'.waiting = service.waiting /\ service'.connecting = service.connecting
  BY <1>1, <1>3 DEF Service
<1>6. WaitingKnown'
  BY <1>4, <1>5 DEF UnheardInv, WaitingKnown, WaitingChats
<1>7. ASSUME NEW c \in Chats, phase'[c] \in Early PROVE Unheard(c)'
  <2>1. Unheard(c)
    BY <1>4, <1>7 DEF UnheardInv
  <2>2. verb = "subscribe" => ch # c
    BY <1>2, <2>1 DEF Unheard
  <2>3. c \notin service'.subscribed /\ \A t \in Sockets : c \notin subs'[t]
    <3>1. c \notin service.subscribed /\ \A t \in Sockets : c \notin subs[t]
      BY <2>1 DEF Unheard
    <3>2. CASE verb = "subscribe" /\ subs' = [subs EXCEPT ![s] = @ \cup {ch}]
               /\ service' = [service EXCEPT !.subscribed = @ \cup {ch}]
      <4>1. service'.subscribed = service.subscribed \cup {ch}
        BY <1>1, <3>2 DEF Service
      <4>2. \A t \in Sockets : subs'[t] \subseteq subs[t] \cup {ch}
        BY <1>1, <3>2
      <4> QED
        BY <2>2, <3>1, <3>2, <4>1, <4>2
    <3>3. CASE /\ subs' = [subs EXCEPT ![s] = @ \ {ch}]
               /\ service' = [service EXCEPT !.subscribed = @ \ {ch}]
      <4>1. service'.subscribed \subseteq service.subscribed
        BY <1>1, <3>3 DEF Service
      <4>2. \A t \in Sockets : subs'[t] \subseteq subs[t]
        BY <1>1, <3>3
      <4> QED
        BY <3>1, <4>1, <4>2
    <3> QED
      BY <1>3, <3>2, <3>3
  <2>4. \A t \in Sockets : \A i \in DOMAIN asks'[t] : asks'[t][i] # <<"subscribe", c>>
    <3>1. ASSUME NEW i \in DOMAIN Tail(asks[s]) PROVE Tail(asks[s])[i] # <<"subscribe", c>>
      <4>1. i + 1 \in DOMAIN asks[s] /\ Tail(asks[s])[i] = asks[s][i + 1]
        BY <1>1
      <4> QED
        BY <2>1, <4>1 DEF Unheard
    <3>2. \A t \in Sockets : asks'[t] = IF t = s THEN Tail(asks[s]) ELSE asks[t]
      BY <1>1, <1>4
    <3> QED
      BY <2>1, <3>1, <3>2 DEF Unheard
  <2> QED
    BY <1>4, <1>5, <2>1, <2>3, <2>4 DEF Unheard
<1> QED
  BY <1>6, <1>7 DEF UnheardInv

LEMMA UnheardReconnect ==
  ASSUME StreamTypeOK, UnheardInv, Reconnect
  PROVE  UnheardInv'
<1> DEFINE off == [service EXCEPT !.timer = FALSE]
<1>1. service \in Service /\ conns \in [Sockets -> Connection]
  BY DEF StreamTypeOK
<1>2. /\ off.subscribed = service.subscribed /\ off.waiting = service.waiting /\ off.connecting = service.connecting
      /\ off \in Service
  BY <1>1 DEF Service
<1>3. UNCHANGED <<subs, phase, hook>>
  BY DEF Reconnect
<1>4. CASE IsOpen \/ service.connecting # Null
  <2>1. service' = off /\ UNCHANGED <<conns, asks>>
    BY <1>4 DEF Reconnect
  <2> HIDE DEF off
  <2> QED
    BY <1>2, <1>3, <2>1 DEF UnheardInv, WaitingKnown, WaitingChats, Unheard
<1>5. CASE service.connecting = Null /\ ~IsOpen
  <2>1. Open(off, service.subscribed, <<>>)
    BY <1>5 DEF Reconnect
  <2> HIDE DEF off
  <2>2. PICK s \in Sockets :
          /\ conns' = [conns EXCEPT ![s] = [state |-> "opening", channels |-> service.subscribed]]
          /\ service' = [off EXCEPT !.ws = s, !.connecting = s, !.waiting = <<>>]
          /\ asks' = asks
    <3>1. NewSocket \in Sockets
      BY <2>1 DEF Open, NewSocket, Unused
    <3> QED
      BY <2>1, <3>1 DEF Open
  <2>3. service'.subscribed = service.subscribed /\ service'.waiting = <<>>
    BY <1>2, <2>2 DEF Service
  <2>4. WaitingChats = {} /\ WaitingChats' = {}
    BY <1>5, <2>3 DEF UnheardInv, WaitingKnown, WaitingChats
  <2>5. WaitingKnown'
    BY <1>3, <2>3, <2>4 DEF UnheardInv, WaitingKnown
  <2>6. ASSUME NEW c \in Chats, phase'[c] \in Early PROVE Unheard(c)'
    <3>1. Unheard(c) /\ phase[c] # "connecting"
      BY <1>3, <2>4, <2>6 DEF UnheardInv, WaitingKnown
    <3>2. \A t \in Sockets : c \notin conns'[t].channels
      BY <1>1, <2>2, <3>1 DEF Unheard
    <3> QED
      BY <1>3, <2>2, <2>3, <3>1, <3>2 DEF Unheard
  <2> QED
    BY <2>5, <2>6 DEF UnheardInv
<1> QED
  BY <1>4, <1>5

LEMMA UnheardAbandon ==
  ASSUME StreamTypeOK, UnheardInv, Abandon,
         service'.connecting = Null, service'.waiting = <<>>, service'.subscribed = service.subscribed,
         \A s \in Sockets : conns'[s].channels = conns[s].channels, UNCHANGED <<subs, asks>>
  PROVE  UnheardInv'
<1>1. \A c \in Chats : phase'[c] = IF c \in WaitingChats THEN "ended" ELSE phase[c]
  BY DEF Abandon, Moved
<1>2. hook'.listening = hook.listening
  BY WaitingChatsFinite, GivenUpHook DEF Abandon, StreamTypeOK
<1>3. WaitingChats' = {}
  BY DEF WaitingChats
<1>4. WaitingKnown'
  BY <1>1, <1>3 DEF UnheardInv, WaitingKnown
<1>5. ASSUME NEW c \in Chats, phase'[c] \in Early PROVE Unheard(c)'
  <2>1. Unheard(c) /\ phase[c] # "connecting" /\ phase'[c] = phase[c]
    BY <1>1, <1>5 DEF UnheardInv, WaitingKnown, Early
  <2> QED
    BY <1>2, <2>1 DEF Unheard
<1> QED
  BY <1>4, <1>5 DEF UnheardInv

LEMMA UnheardLost ==
  ASSUME StreamTypeOK, UnheardInv, NEW sockets, Lost(sockets), UNCHANGED <<phase, hook>>
  PROVE  UnheardInv'
<1>1. service \in Service /\ conns \in [Sockets -> Connection]
  BY DEF StreamTypeOK
<1>2. /\ service'.connecting = service.connecting /\ service'.waiting = service.waiting
      /\ service'.subscribed = service.subscribed
  BY <1>1, ClosingTypes DEF Lost
<1>3. \A s \in Sockets :
        /\ conns'[s].channels = conns[s].channels
        /\ subs'[s] \subseteq subs[s]
        /\ asks'[s] = asks[s] \/ asks'[s] = <<>>
  BY <1>1 DEF Lost, Connection
<1>4. WaitingKnown'
  BY <1>2 DEF UnheardInv, WaitingKnown, WaitingChats
<1>5. ASSUME NEW c \in Chats, phase'[c] \in Early PROVE Unheard(c)'
  <2>1. Unheard(c)
    BY <1>5 DEF UnheardInv
  <2>2. \A s \in Sockets : \A i \in DOMAIN asks'[s] : asks'[s][i] # <<"subscribe", c>>
    BY <1>3, <2>1 DEF Unheard
  <2> QED
    BY <1>2, <1>3, <2>1, <2>2 DEF Unheard
<1> QED
  BY <1>4, <1>5 DEF UnheardInv

LEMMA UnheardRefuse ==
  ASSUME StreamTypeOK, UnheardInv, NEW s \in Sockets, Refuse(s)
  PROVE  UnheardInv'
<1>1. service \in Service /\ conns \in [Sockets -> Connection]
  BY DEF StreamTypeOK
<1>2. \A t \in Sockets : conns'[t].channels = conns[t].channels
  BY <1>1 DEF Refuse, Connection
<1>3. UNCHANGED <<subs, asks>>
  BY DEF Refuse
<1>4. CASE service.connecting = s
  <2>1. Abandon /\ service' = Closing(Unconnected)
    BY <1>4 DEF Refuse
  <2>2. Unconnected.connecting = Null /\ Unconnected.waiting = <<>> /\ Unconnected.subscribed = service.subscribed
    BY <1>1 DEF Unconnected, Service
  <2>3. service'.connecting = Null /\ service'.waiting = <<>> /\ service'.subscribed = service.subscribed
    BY <2>1, <2>2, AbandonTypes, ClosingTypes
  <2> QED
    BY <1>2, <1>3, <2>1, <2>3, UnheardAbandon
<1>5. CASE service.connecting # s
  <2>1. service' = Closing(service) /\ UNCHANGED <<phase, hook>>
    BY <1>5 DEF Refuse
  <2>2. /\ service'.connecting = service.connecting /\ service'.waiting = service.waiting
        /\ service'.subscribed = service.subscribed
    BY <1>1, <2>1, ClosingTypes
  <2>3. WaitingKnown'
    BY <2>1, <2>2 DEF UnheardInv, WaitingKnown, WaitingChats
  <2>4. \A c \in Chats : phase'[c] \in Early => Unheard(c)'
    BY <1>2, <1>3, <2>1, <2>2 DEF UnheardInv, Unheard
  <2> QED
    BY <2>3, <2>4 DEF UnheardInv
<1> QED
  BY <1>4, <1>5

LEMMA UnheardSame ==
  ASSUME UnheardInv, UNCHANGED <<conns, subs, asks, service, phase>>, hook'.listening = hook.listening
  PROVE  UnheardInv'
<1>1. WaitingKnown'
  BY DEF UnheardInv, WaitingKnown, WaitingChats
<1>2. \A c \in Chats : phase'[c] \in Early => Unheard(c)'
  BY DEF UnheardInv, Unheard
<1> QED
  BY <1>1, <1>2 DEF UnheardInv

LEMMA UnheardKept == StreamTypeOK /\ UnheardInv /\ [StreamNext]_streamVars => UnheardInv'
<1> SUFFICES ASSUME StreamTypeOK, UnheardInv, [StreamNext]_streamVars PROVE UnheardInv'
  OBVIOUS
<1>1. CASE StreamUser
  BY <1>1, UnheardUser
<1>2. CASE \E c \in Chats : ChatRefused(c)
  <2> PICK c \in Chats : ChatRefused(c)
    BY <1>2
  <2>1. /\ phase[c] = "posting" /\ phase' = [phase EXCEPT ![c] = "ended"] /\ UNCHANGED <<conns, subs, asks, service>>
        /\ phase \in [Chats -> {"none", "posting", "connecting", "ended", "listening"}]
    BY DEF ChatRefused, StreamTypeOK
  <2>2. hook'.listening = hook.listening
    <3>1. Cardinality({c}) \in Nat
      BY FS_Singleton
    <3> QED
      BY <3>1, GivenUpHook DEF ChatRefused, StreamTypeOK
  <2>3. WaitingKnown'
    BY <2>1 DEF UnheardInv, WaitingKnown, WaitingChats
  <2>4. \A d \in Chats : phase'[d] \in Early => phase'[d] = phase[d]
    BY <2>1 DEF Early
  <2>5. \A d \in Chats : phase'[d] \in Early => Unheard(d)'
    BY <2>1, <2>2, <2>4 DEF UnheardInv, Unheard
  <2> QED
    BY <2>3, <2>5 DEF UnheardInv
<1>3. CASE \E c \in Chats : ChatStarted(c)
  BY <1>3, UnheardStarted
<1>4. CASE \E c \in Chats : Publish(c)
  <2> PICK c \in Chats : Publish(c)
    BY <1>4
  <2>1. SameListeners(hook', hook)
    BY ReceivedEffect
  <2> QED
    BY <2>1, UnheardSame DEF Publish, SameListeners
<1>5. CASE \E s \in Sockets : Accept(s) \/ Receive(s)
  BY <1>5, UnheardAccept, UnheardReceive
<1>6. CASE Reconnect
  BY <1>6, UnheardReconnect
<1>7. CASE \E s \in Sockets : Refuse(s)
  BY <1>7, UnheardRefuse
<1>8. CASE \E c \in Chats : LoseMessage(c)
  BY <1>8, UnheardSame DEF LoseMessage
<1>9. CASE \E s \in Sockets : TimeOut(s)
  <2> PICK s \in Sockets : TimeOut(s)
    BY <1>9
  <2>1. Abandon /\ service' = Unconnected /\ UNCHANGED <<conns, subs, asks>>
    BY DEF TimeOut
  <2>2. service'.connecting = Null /\ service'.waiting = <<>> /\ service'.subscribed = service.subscribed
    BY <2>1 DEF Unconnected, StreamTypeOK, Service
  <2> QED
    BY <2>1, <2>2, UnheardAbandon
<1>10. CASE \E s \in Sockets : LoseConnection(s)
  BY <1>10, UnheardLost DEF LoseConnection
<1>11. CASE StopStreams
  BY <1>11, UnheardLost DEF StopStreams
<1>12. CASE UNCHANGED streamVars
  BY <1>12, UnheardSame DEF streamVars
<1> QED
  BY <1>1, <1>2, <1>3, <1>4, <1>5, <1>6, <1>7, <1>8, <1>9, <1>10, <1>11, <1>12
  DEF StreamNext, StreamFault, StreamStep
-----------------------------------------------------------------------------
(* The last message of an answer is its only end, and an answer that has     *)
(* arrived is over.  A chat that is yet to come has said nothing.            *)

EndsOnce(c) ==
  /\ \A i \in 1 .. Len(stream[c]) - 1 : stream[c][i] \notin {"done", "error"}
  /\ phase[c] \in {"none", "posting"} => stream[c] = <<>> /\ spoken[c] = 0
  /\ phase[c] = "none" => \A i \in DOMAIN hook.messages : hook.messages[i].of # c
  /\ c \in finished => stream[c] = <<>> /\ phase[c] \notin Early

EndsInv == \A c \in Chats : EndsOnce(c)

LEMMA EndsInit == StreamInit => EndsInv
BY DEF StreamInit, EndsInv, EndsOnce

LEMMA LastTail ==
  ASSUME NEW S, NEW s \in Seq(S), s # <<>>
  PROVE  /\ Len(s) \in Nat \ {0} /\ Head(s) = s[1]
         /\ Tail(s) \in Seq(S) /\ Len(Tail(s)) = Len(s) - 1
         /\ Len(s) <= 1 => Tail(s) = <<>>
         /\ \A i \in 1..Len(s) - 1 : Tail(s)[i] = s[i + 1]
<1>1. Tail(s) \in Seq(S) /\ Len(Tail(s)) = Len(s) - 1 /\ Len(s) \in Nat \ {0} /\ Head(s) = s[1]
      /\ \A i \in 1..Len(s) - 1 : Tail(s)[i] = s[i + 1]
  OBVIOUS
<1>2. ASSUME Len(s) <= 1 PROVE Tail(s) = <<>>
  <2> DEFINE t == Tail(s)
  <2>1. t \in Seq(S) /\ Len(t) = 0
    BY <1>1, <1>2
  <2> HIDE DEF t
  <2>2. t = <<>>
    BY <2>1
  <2> QED
    BY <2>2 DEF t
<1> QED
  BY <1>1, <1>2

LEMMA ShorterStream ==
  ASSUME StreamTypeOK, NEW c \in Chats, EndsOnce(c), stream[c] # <<>>
  PROVE  /\ \A i \in 1 .. Len(Tail(stream[c])) - 1 : Tail(stream[c])[i] \notin {"done", "error"}
         /\ Head(stream[c]) \in {"done", "error"} => Tail(stream[c]) = <<>>
<1>1. stream[c] \in Seq(Chunks)
  BY DEF StreamTypeOK
<1>2. Len(Tail(stream[c])) = Len(stream[c]) - 1
      /\ \A i \in 1..Len(Tail(stream[c])) : Tail(stream[c])[i] = stream[c][i + 1]
  BY <1>1
<1>3. ASSUME Head(stream[c]) \in {"done", "error"} PROVE Tail(stream[c]) = <<>>
  <2>1. ~(1 \in 1 .. Len(stream[c]) - 1)
    BY <1>1, <1>3 DEF EndsOnce
  <2>2. Len(stream[c]) \in Nat
    BY <1>1
  <2>3. Len(stream[c]) <= 1
    BY <2>1, <2>2
  <2> QED
    BY <1>1, <2>3, LastTail
<1>4. \A i \in 1 .. Len(Tail(stream[c])) - 1 : i + 1 \in 1 .. Len(stream[c]) - 1
  BY <1>1, <1>2
<1> QED
  BY <1>1, <1>2, <1>3, <1>4 DEF EndsOnce

\* What a step that publishes nothing must keep.
LEMMA EndsSame ==
  ASSUME NEW c \in Chats, EndsOnce(c), stream'[c] = stream[c], spoken'[c] = spoken[c],
         phase'[c] \in {"none", "posting"} => phase[c] \in {"none", "posting"},
         phase'[c] = "none" => phase[c] = "none",
         phase'[c] \in Early => phase[c] \in Early,
         phase'[c] = "none" => \A i \in DOMAIN hook'.messages : hook'.messages[i].of # c,
         c \in finished' => c \in finished
  PROVE  EndsOnce(c)'
BY DEF EndsOnce

LEMMA EndsKept ==
  StreamTypeOK /\ UnheardInv /\ EndsInv /\ [StreamNext]_streamVars => EndsInv'
<1> SUFFICES ASSUME StreamTypeOK, UnheardInv, EndsInv, [StreamNext]_streamVars, NEW d \in Chats
             PROVE  EndsOnce(d)'
  BY DEF EndsInv
<1>0. /\ EndsOnce(d) /\ hook \in Hook /\ hook.messages \in Seq(Bubble)
      /\ phase \in [Chats -> {"none", "posting", "connecting", "ended", "listening"}]
      /\ stream \in [Chats -> Seq(Chunks)] /\ spoken \in [Chats -> Nat]
  BY HookFields DEF EndsInv, StreamTypeOK
<1>1. phase[d] = "none" => \A i \in DOMAIN hook.messages : hook.messages[i].of # d
  BY <1>0 DEF EndsOnce
<1>2. CASE \E c \in Chats : SendMessage(c)
  <2> PICK c \in Chats : SendMessage(c)
    BY <1>2
  <2>1. phase[c] = "none" /\ phase' = [phase EXCEPT ![c] = "posting"] /\ UNCHANGED <<stream, spoken, finished>>
    BY DEF SendMessage
  <2>2. ASSUME phase'[d] = "none", NEW i \in DOMAIN hook'.messages PROVE hook'.messages[i].of # d
    <3>1. d # c /\ phase[d] = "none"
      BY <1>0, <2>1, <2>2
    <3>2. /\ hook'.messages \in Seq(Bubble) /\ Len(hook'.messages) = Len(hook.messages) + 2
          /\ \A k \in 1..Len(hook.messages) : hook'.messages[k] = hook.messages[k]
          /\ \A k \in Len(hook.messages) + 1 .. Len(hook.messages) + 2 : hook'.messages[k].of = c
      BY <1>0, FreshHookEffect DEF SendMessage
    <3>3. i \in 1..Len(hook.messages) \/ i \in Len(hook.messages) + 1 .. Len(hook.messages) + 2
      BY <1>0, <2>2, <3>2
    <3>4. CASE i \in 1..Len(hook.messages)
      <4>1. hook'.messages[i] = hook.messages[i] /\ i \in DOMAIN hook.messages
        BY <1>0, <3>2, <3>4
      <4> QED
        BY <1>1, <3>1, <4>1
    <3>5. CASE i \in Len(hook.messages) + 1 .. Len(hook.messages) + 2
      BY <3>1, <3>2, <3>5
    <3> QED
      BY <3>3, <3>4, <3>5
  <2>3. /\ phase'[d] \in {"none", "posting"} => phase[d] \in {"none", "posting"}
        /\ phase'[d] = "none" => phase[d] = "none"
        /\ phase'[d] \in Early => phase[d] \in Early
    BY <1>0, <2>1 DEF Early
  <2> QED
    BY <1>0, <2>1, <2>2, <2>3, EndsSame
<1>3. CASE \E c \in Chats : ChatStarted(c)
  <2> PICK c \in Chats : ChatStarted(c)
    BY <1>3
  <2>1. PICK script \in Scripts : stream' = [stream EXCEPT ![c] = script]
    BY DEF ChatStarted
  <2>2. PICK ready \in BOOLEAN :
          /\ phase' = [phase EXCEPT ![c] = IF ready THEN "listening" ELSE "connecting"]
          /\ hook' = [IF ready THEN RegisterCallbacks(hook, <<c>>) ELSE hook EXCEPT !.request = c]
    BY DEF ChatStarted
  <2>3. phase[c] = "posting" /\ UNCHANGED <<spoken, finished>>
    BY DEF ChatStarted
  <2>4. hook'.messages = hook.messages
    <3>1. <<c>> \in Seq(Chats)
      OBVIOUS
    <3>2. RegisterCallbacks(hook, <<c>>) \in Hook /\ RegisterCallbacks(hook, <<c>>).messages = hook.messages
      BY <1>0, <3>1, RegisteredHook
    <3> QED
      BY <1>0, <2>2, <3>2 DEF Hook
  <2>5. CASE d = c
    <3>1. \A i \in 1 .. Len(script) - 1 : script[i] \notin {"done", "error"}
      BY ScriptAssumption DEF IsAnswer, Body, Proposal
    <3>2. phase'[c] \in {"listening", "connecting"} /\ stream'[c] = script
      BY <1>0, <2>1, <2>2
    <3>3. c \notin finished'
      BY <1>0, <2>3, <2>5 DEF EndsOnce, Early
    <3> QED
      BY <2>5, <3>1, <3>2, <3>3 DEF EndsOnce
  <2>6. CASE d # c
    BY <1>0, <1>1, <2>1, <2>2, <2>3, <2>4, <2>6, EndsSame
  <2> QED
    BY <2>5, <2>6
<1>4. CASE \E c \in Chats : Publish(c)
  <2> PICK c \in Chats : Publish(c)
    BY <1>4
  <2>1. /\ stream' = [stream EXCEPT ![c] = Tail(@)] /\ stream[c] # <<>> /\ UNCHANGED phase
        /\ spoken' = IF Head(stream[c]) = "delta" THEN [spoken EXCEPT ![c] = @ + 1] ELSE spoken
        /\ finished' = finished \/
             (Head(stream[c]) = "done" /\ c \in hook.listening /\ finished' = finished \cup {c})
    BY DEF Publish
  <2>2. AddedOnly(c, hook'.messages, hook.messages)
    BY ReceivedEffect
  <2>3. CASE d = c
    <3>1. phase[c] \notin {"none", "posting"} /\ c \notin finished
      BY <1>0, <2>1, <2>3 DEF EndsOnce
    <3>2. c \in hook.listening => phase[c] \notin Early
      BY DEF UnheardInv, Unheard
    <3>3. c \in finished' => stream'[c] = <<>> /\ phase'[c] \notin Early
      BY <1>0, <2>1, <2>3, <3>1, <3>2, ShorterStream
    <3>4. \A i \in 1 .. Len(stream'[c]) - 1 : stream'[c][i] \notin {"done", "error"}
      BY <1>0, <2>1, <2>3, ShorterStream
    <3> QED
      BY <2>1, <2>3, <3>1, <3>3, <3>4 DEF EndsOnce
  <2>4. CASE d # c
    <3>1. ASSUME phase'[d] = "none", NEW i \in DOMAIN hook'.messages PROVE hook'.messages[i].of # d
      <4>1. hook'.messages \in Seq(Bubble)
        BY <2>2 DEF AddedOnly, SameBubbles
      <4>2. i \in 1..Len(hook.messages) \/ i \in Len(hook.messages) + 1 .. Len(hook'.messages)
        BY <1>0, <3>1, <4>1
      <4>3. i \in 1..Len(hook.messages) => hook'.messages[i].of = hook.messages[i].of
        BY <2>2 DEF AddedOnly, SameBubbles
      <4>4. i \in Len(hook.messages) + 1 .. Len(hook'.messages) => hook'.messages[i].of = c
        BY <2>2 DEF AddedOnly
      <4> QED
        BY <1>0, <1>1, <2>1, <2>4, <3>1, <4>2, <4>3, <4>4
    <3> QED
      BY <1>0, <2>1, <2>4, <3>1, EndsSame
  <2> QED
    BY <2>3, <2>4
<1>5. CASE \E c \in Chats : LoseMessage(c)
  <2> PICK c \in Chats : LoseMessage(c)
    BY <1>5
  <2>1. /\ stream' = [stream EXCEPT ![c] = Tail(@)] /\ stream[c] # <<>> /\ UNCHANGED <<phase, hook, finished>>
        /\ spoken' = IF Head(stream[c]) = "delta" THEN [spoken EXCEPT ![c] = @ + 1] ELSE spoken
    BY DEF LoseMessage
  <2>2. CASE d = c
    <3>1. phase[c] \notin {"none", "posting"} /\ c \notin finished
      BY <1>0, <2>1, <2>2 DEF EndsOnce
    <3>2. \A i \in 1 .. Len(stream'[c]) - 1 : stream'[c][i] \notin {"done", "error"}
      BY <1>0, <2>1, <2>2, ShorterStream
    <3> QED
      BY <2>1, <2>2, <3>1, <3>2 DEF EndsOnce
  <2>3. CASE d # c
    BY <1>0, <1>1, <2>1, <2>3, EndsSame
  <2> QED
    BY <2>2, <2>3
<1>6. CASE StopStreams
  <2>1. stream'[d] = <<>> /\ UNCHANGED <<spoken, phase, hook, finished>>
    BY <1>6 DEF StopStreams
  <2> QED
    BY <1>0, <2>1 DEF EndsOnce
<1>7. ASSUME UNCHANGED <<stream, spoken, finished>>,
             \E chats : phase' = Moved(chats, "ended") \/ phase' = [phase EXCEPT ![chats] = "ended"] \/ phase' = phase
                        \/ phase' = Moved(chats, "listening"),
             hook' = hook \/ (\E chats : Cardinality(chats) \in Nat /\ hook' = GiveUp(hook, chats))
               \/ hook'.messages = hook.messages
      PROVE  EndsOnce(d)'
  <2>1. phase'[d] \in {phase[d], "ended", "listening"}
    BY <1>0, <1>7 DEF Moved
  <2>2. \A i \in DOMAIN hook'.messages : i \in DOMAIN hook.messages /\ hook'.messages[i] = hook.messages[i]
    <3>1. CASE hook'.messages = hook.messages
      BY <3>1
    <3>2. CASE \E chats : Cardinality(chats) \in Nat /\ hook' = GiveUp(hook, chats)
      <4>1. /\ hook'.messages \in Seq(Bubble) /\ Len(hook'.messages) <= Len(hook.messages)
            /\ \A i \in 1..Len(hook'.messages) : hook'.messages[i] = hook.messages[i]
        BY <1>0, <3>2, GivenUpHook
      <4>2. DOMAIN hook'.messages = 1..Len(hook'.messages) /\ DOMAIN hook.messages = 1..Len(hook.messages)
            /\ Len(hook'.messages) \in Nat /\ Len(hook.messages) \in Nat
        BY <1>0, <4>1
      <4> QED
        BY <4>1, <4>2
    <3> QED
      BY <1>7, <3>1, <3>2
  <2>3. /\ phase'[d] \in {"none", "posting"} => phase[d] \in {"none", "posting"}
        /\ phase'[d] = "none" => phase[d] = "none"
        /\ phase'[d] \in Early => phase[d] \in Early
    BY <2>1 DEF Early
  <2>4. phase'[d] = "none" => \A i \in DOMAIN hook'.messages : hook'.messages[i].of # d
    BY <1>1, <2>2, <2>3
  <2> QED
    BY <1>0, <1>7, <2>3, <2>4, EndsSame
<1>8. CASE (\E j \in Jobs : WatchReindex(j)) \/ (\E s \in Sockets : Receive(s) \/ LoseConnection(s)) \/ Reconnect
           \/ UNCHANGED streamVars
  BY <1>7, <1>8 DEF WatchReindex, Receive, LoseConnection, Reconnect, streamVars
<1>9. CASE CloseWindow
  <2>1. hook'.messages = <<>> /\ finished' = {} /\ UNCHANGED <<stream, spoken, phase>>
    BY <1>9 DEF CloseWindow
  <2> QED
    BY <1>0, <2>1, EndsSame
<1>10. CASE \E c \in Chats : ChatRefused(c)
  <2> PICK c \in Chats : ChatRefused(c)
    BY <1>10
  <2>1. Cardinality({c}) \in Nat
    BY FS_Singleton
  <2>2. UNCHANGED <<stream, spoken, finished>> /\ phase' = [phase EXCEPT ![c] = "ended"] /\ hook' = GiveUp(hook, {c})
    BY DEF ChatRefused
  <2> QED
    BY <1>7, <2>1, <2>2
<1>11. CASE \E s \in Sockets : Accept(s)
  <2> PICK s \in Sockets : Accept(s)
    BY <1>11
  <2> DEFINE called == IF service.connecting = s THEN Among(service.waiting, Chats) ELSE <<>>
  <2>1. called \in Seq(Chats)
    BY WaitingSequence
  <2>2. hook' = RegisterCallbacks(hook, called) /\ UNCHANGED <<stream, spoken, finished>>
        /\ \E chats : phase' = Moved(chats, "listening")
    BY DEF Accept
  <2> HIDE DEF called
  <2>3. hook'.messages = hook.messages
    BY <1>0, <2>1, <2>2, RegisteredHook
  <2> QED
    BY <1>7, <2>2, <2>3
<1>12. ASSUME Abandon, UNCHANGED <<stream, spoken, finished>> PROVE EndsOnce(d)'
  <2>1. phase' = Moved(WaitingChats, "ended") /\ (hook' = hook \/ hook' = GiveUp(hook, WaitingChats))
    BY <1>12 DEF Abandon
  <2> QED
    BY <1>7, <1>12, <2>1, WaitingChatsFinite
<1>13. CASE \E s \in Sockets : Refuse(s) \/ TimeOut(s)
  <2>1. UNCHANGED <<stream, spoken, finished>> /\ (Abandon \/ UNCHANGED <<phase, hook>>)
    BY <1>13 DEF Refuse, TimeOut
  <2> QED
    BY <1>7, <1>12, <2>1
<1> QED
  BY <1>2, <1>3, <1>4, <1>5, <1>6, <1>8, <1>9, <1>10, <1>11, <1>13
  DEF StreamNext, StreamUser, StreamFault, StreamStep
-----------------------------------------------------------------------------
(* The text of an answer.  The hook keeps in a ref what has come since the   *)
(* last proposed change, and writes it into the last bubble.                 *)

Base(content, k) == k + 1 - Len(content)

\* A text that ended before that, or the first part of it.
Fits(text, content, k) ==
  \/ text = <<>>
  \/ Start(text) + Len(text) <= Base(content, k)
  \/ Start(text) = Base(content, k) /\ Len(text) <= Len(content)

InTurn(c, ms) ==
  \A i, j \in DOMAIN ms :
    i < j /\ ms[i].of = c /\ ms[j].of = c /\ ms[i].text # <<>> /\ ms[j].text # <<>> => Follows(ms[j].text, ms[i].text)

\* Of k pieces that were published.
Texts(c, ms, content, k) ==
  /\ \A n \in DOMAIN content : content[n] = <<c, Base(content, k) + n - 1>>
  /\ \A i \in DOMAIN ms : ms[i].of = c => InOrder(c, ms[i].text) /\ Fits(ms[i].text, content, k)
  /\ InTurn(c, ms)
  /\ ms[Len(ms)].text # <<>> => Start(ms[Len(ms)].text) = Base(content, k)

Conveyed(c, ms, k) ==
  \A n \in 1..k : \E i \in DOMAIN ms : ms[i].of = c /\ \E m \in DOMAIN ms[i].text : ms[i].text[m] = <<c, n>>

LEMMA BubbleText ==
  ASSUME NEW ms \in Seq(Bubble), NEW i \in DOMAIN ms
  PROVE  /\ i \in 1..Len(ms) /\ Len(ms) \in Nat /\ ms[i] \in Bubble /\ ms[i].text \in Seq(Piece)
         /\ Len(ms[i].text) \in Nat
         /\ ms[i].text # <<>> => Len(ms[i].text) \in Nat \ {0} /\ Start(ms[i].text) \in Nat
<1>1. ms[i] \in Bubble /\ i \in 1..Len(ms) /\ Len(ms) \in Nat
  OBVIOUS
<1> DEFINE text == ms[i].text
<1>2. text \in Seq(Piece)
  BY <1>1 DEF Bubble
<1> HIDE DEF text
<1>3. text # <<>> => Len(text) \in Nat \ {0} /\ text[1] \in Piece
  BY <1>2
<1>4. text # <<>> => Start(text) \in Nat
  BY <1>3 DEF Start, Piece
<1>5. Len(text) \in Nat
  BY <1>2
<1> QED
  BY <1>1, <1>2, <1>3, <1>4, <1>5 DEF text

\* The last bubble takes what the ref holds, or is blanked.
LEMMA WrittenTexts ==
  ASSUME NEW c \in Chats, NEW ms \in Seq(Bubble), NEW ns, NEW content \in Seq(Piece), NEW k \in Nat,
         NEW more \in Seq(Piece), NEW l \in Nat,
         \/ more = content /\ l = k
         \/ more = Append(content, <<c, k + 1>>) /\ l = k + 1,
         IsLast(ms, c), Texts(c, ms, content, k),
         SameBubbles(ns, ms), Len(ns) = Len(ms), SameTexts(ns, ms, 1..Len(ms) - 1),
         ns[Len(ms)].text \in {more, <<>>}
  PROVE  /\ Texts(c, ns, more, l)
         /\ ns[Len(ms)].text = more /\ Conveyed(c, ms, k) => Conveyed(c, ns, l)
<1> DEFINE b == Base(content, k)
           last == Len(ms)
<1>1. last \in 1..last /\ last \in Nat /\ ms[last].of = c /\ DOMAIN ms = 1..last
  BY DEF IsLast, IsAssistant
<1>2. ns \in Seq(Bubble) /\ DOMAIN ns = 1..last /\ ns[last].of = c
  BY <1>1 DEF SameBubbles
<1>3. \A i \in 1..last : ns[i].of = ms[i].of
  BY DEF SameBubbles
<1>4. \A i \in 1..last : i # last => i < last /\ ns[i].text = ms[i].text
  BY <1>1 DEF SameTexts
<1>5. /\ Base(more, l) = b /\ b \in Int /\ Len(content) \in Nat /\ Len(more) \in Nat /\ Len(content) <= Len(more)
      /\ b + Len(content) = k + 1 /\ b + Len(more) = l + 1 /\ DOMAIN more = 1..Len(more) /\ DOMAIN content = 1..Len(content)
  BY DEF Base
<1>6. \A n \in DOMAIN more : more[n] = <<c, b + n - 1>>
  <2>1. \A n \in DOMAIN content : content[n] = <<c, b + n - 1>>
    BY DEF Texts
  <2>2. CASE more = content
    BY <2>1, <2>2
  <2>3. CASE more = Append(content, <<c, k + 1>>)
    <3> TAKE n \in DOMAIN more
    <3>1. CASE n \in 1..Len(content)
      BY <2>1, <2>3, <3>1
    <3>2. CASE n = Len(content) + 1
      <4>1. more[n] = <<c, k + 1>>
        BY <2>3, <3>2
      <4>2. b + n - 1 = k + 1
        <5>1. b \in Int /\ Len(content) \in Nat /\ b + Len(content) = k + 1
          BY <1>5
        <5> HIDE DEF b
        <5> QED
          BY <3>2, <5>1
      <4> QED
        BY <4>1, <4>2
    <3>3. n \in 1..Len(content) \/ n = Len(content) + 1
      BY <2>3
    <3> QED
      BY <3>1, <3>2, <3>3
  <2> QED
    BY <2>2, <2>3
<1> HIDE DEF b, last
<1>7. more # <<>> => Start(more) = b
  <2>1. more # <<>> => 1 \in DOMAIN more
    OBVIOUS
  <2>2. b \in Int
    BY <1>5
  <2>3. b + 1 - 1 = b
    BY <2>2
  <2> QED
    BY <1>6, <2>1, <2>3 DEF Start
<1>8. InOrder(c, more) /\ Fits(more, more, l)
  <2>1. InOrder(c, more)
    <3>1. \A n \in DOMAIN more : more # <<>>
      OBVIOUS
    <3> QED
      BY <1>6, <1>7, <3>1 DEF InOrder
  <2>2. Fits(more, more, l)
    <3>1. Base(more, l) = b
      BY <1>5
    <3>2. Len(more) <= Len(more)
      OBVIOUS
    <3> QED
      BY <1>7, <3>1, <3>2 DEF Fits
  <2> QED
    BY <2>1, <2>2
<1>9. InOrder(c, <<>>) /\ Fits(<<>>, more, l)
  BY DEF InOrder, Fits
<1>10. ASSUME NEW i \in DOMAIN ms, ms[i].of = c
       PROVE  InOrder(c, ms[i].text) /\ Fits(ms[i].text, more, l)
  <2>1. InOrder(c, ms[i].text) /\ Fits(ms[i].text, content, k)
    BY <1>10 DEF Texts
  <2>2. Fits(ms[i].text, more, l)
    <3>1. Len(ms[i].text) \in Nat /\ (ms[i].text # <<>> => Start(ms[i].text) \in Nat)
      BY <1>10, BubbleText
    <3>2. Base(more, l) = Base(content, k)
      BY <1>5 DEF b
    <3>3. Len(content) \in Nat /\ Len(more) \in Nat /\ Len(content) <= Len(more)
      BY <1>5
    <3> QED
      BY <2>1, <3>1, <3>2, <3>3 DEF Fits
  <2> QED
    BY <2>1, <2>2
<1>11. ASSUME NEW i \in DOMAIN ns, ns[i].of = c
       PROVE  InOrder(c, ns[i].text) /\ Fits(ns[i].text, more, l)
  <2>1. i \in DOMAIN ms /\ ms[i].of = c
    BY <1>1, <1>2, <1>3, <1>11
  <2>2. CASE i = last
    BY <1>8, <1>9, <2>2 DEF last
  <2>3. CASE i # last
    BY <1>1, <1>4, <1>10, <2>1, <2>3
  <2> QED
    BY <2>2, <2>3
<1>12. InTurn(c, ns)
  <2> SUFFICES ASSUME NEW i \in DOMAIN ns, NEW j \in DOMAIN ns, i < j, ns[i].of = c, ns[j].of = c,
                      ns[i].text # <<>>, ns[j].text # <<>>
               PROVE  Follows(ns[j].text, ns[i].text)
    BY DEF InTurn
  <2>1. i \in 1..last /\ j \in 1..last /\ i < last /\ i # last
    BY <1>1, <1>2
  <2>2. ms[i].of = c /\ ms[j].of = c /\ ns[i].text = ms[i].text
    BY <1>3, <1>4, <2>1
  <2>3. CASE j # last
    BY <1>1, <1>4, <2>1, <2>2, <2>3 DEF Texts, InTurn
  <2>4. CASE j = last
    <3>1. ns[j].text = more /\ more # <<>>
      BY <2>4 DEF last
    <3>2. Fits(ms[i].text, more, l)
      BY <1>1, <1>10, <2>1, <2>2
    <3>3. Start(more) = b /\ Base(more, l) = b
      BY <1>5, <1>7, <3>1
    <3> QED
      BY <2>2, <3>1, <3>2, <3>3 DEF Fits, Follows
  <2> QED
    BY <2>3, <2>4
<1>13. Texts(c, ns, more, l)
  <2>1. ns[Len(ns)].text # <<>> => Start(ns[Len(ns)].text) = Base(more, l)
    BY <1>5, <1>7 DEF last
  <2> QED
    BY <1>5, <1>6, <1>11, <1>12, <2>1 DEF Texts
<1>14. ASSUME ns[last].text = more, Conveyed(c, ms, k), NEW n \in 1..l
       PROVE  \E i \in DOMAIN ns : ns[i].of = c /\ \E m \in DOMAIN ns[i].text : ns[i].text[m] = <<c, n>>
  <2>1. ASSUME NEW m \in DOMAIN more, more[m] = <<c, n>>
        PROVE  \E i \in DOMAIN ns : ns[i].of = c /\ \E p \in DOMAIN ns[i].text : ns[i].text[p] = <<c, n>>
    BY <1>1, <1>2, <1>14, <2>1
  <2>2. CASE n \in 1..k
    <3>1. PICK i \in DOMAIN ms : ms[i].of = c /\ \E m \in DOMAIN ms[i].text : ms[i].text[m] = <<c, n>>
      BY <1>14, <2>2 DEF Conveyed
    <3>2. CASE i # last
      BY <1>1, <1>2, <1>3, <1>4, <3>1, <3>2
    <3>3. CASE i = last
      <4> DEFINE text == ms[last].text
      <4>1. PICK m \in DOMAIN text : text[m] = <<c, n>>
        BY <3>1, <3>3
      <4>2. text \in Seq(Piece)
        BY <1>1, BubbleText
      <4>3. InOrder(c, text) /\ Fits(text, content, k) /\ (text # <<>> => Start(text) = b)
        BY <1>1 DEF Texts, last, b
      <4> HIDE DEF text
      <4>4. text # <<>> /\ m \in 1..Len(text) /\ Len(text) \in Nat /\ Len(text) # 0
        BY <4>1, <4>2
      <4>5. Start(text) = b /\ Len(text) <= Len(content)
        <5>1. b \in Int /\ b = Base(content, k)
          BY <1>5 DEF b
        <5> QED
          BY <4>3, <4>4, <5>1 DEF Fits
      <4>6. m \in DOMAIN more /\ more[m] = <<c, b + m - 1>>
        <5>1. Len(content) \in Nat /\ Len(more) \in Nat /\ Len(content) <= Len(more)
          BY <1>5
        <5>2. Len(text) <= Len(content)
          BY <4>5
        <5>3. m \in 1..Len(more)
          BY <4>4, <5>1, <5>2
        <5>4. m \in DOMAIN more
          BY <5>3
        <5> QED
          BY <1>6, <5>4
      <4>7. text[m] = <<c, b + m - 1>>
        BY <4>3, <4>5 DEF InOrder
      <4> QED
        BY <2>1, <4>1, <4>6, <4>7
    <3> QED
      BY <3>2, <3>3
  <2>3. CASE n = k + 1
    <3>1. l = k + 1 /\ more = Append(content, <<c, k + 1>>)
      BY <2>3
    <3>2. Len(content) + 1 \in DOMAIN more /\ more[Len(content) + 1] = <<c, k + 1>>
      BY <1>5, <3>1
    <3> QED
      BY <2>1, <2>3, <3>2
  <2> QED
    BY <2>2, <2>3
<1> QED
  BY <1>13, <1>14 DEF Conveyed, last

\* Something is added below, which is still empty: the text may begin anew.
LEMMA AddedTexts ==
  ASSUME NEW c \in Chats, NEW ms \in Seq(Bubble), NEW ns, NEW content \in Seq(Piece), NEW k \in Nat,
         NEW more \in {content, <<>>}, Texts(c, ms, content, k),
         SameBubbles(ns, ms), Len(ns) = Len(ms) + 1, SameTexts(ns, ms, 1..Len(ms)), EmptyLast(ns, c)
  PROVE  /\ Texts(c, ns, more, k)
         /\ Conveyed(c, ms, k) => Conveyed(c, ns, k)
<1>1. ns \in Seq(Bubble) /\ DOMAIN ns = 1..Len(ms) + 1 /\ DOMAIN ms = 1..Len(ms) /\ Len(ms) \in Nat
  BY DEF SameBubbles
<1>2. /\ \A i \in 1..Len(ms) : ns[i].of = ms[i].of /\ ns[i].text = ms[i].text
      /\ ns[Len(ms) + 1].text = <<>> /\ ns[Len(ns)].text = <<>>
  BY DEF SameBubbles, SameTexts, EmptyLast
<1>3. \A i \in DOMAIN ns : i \in 1..Len(ms) \/ i = Len(ms) + 1
  BY <1>1
<1>4. \A n \in DOMAIN more : more[n] = <<c, Base(more, k) + n - 1>>
  <2>1. CASE more = content
    BY <2>1 DEF Texts
  <2>2. CASE more = <<>>
    BY <2>2
  <2> QED
    BY <2>1, <2>2
<1>5. ASSUME NEW i \in DOMAIN ns, ns[i].of = c
      PROVE  InOrder(c, ns[i].text) /\ Fits(ns[i].text, more, k)
  <2>1. CASE i = Len(ms) + 1
    BY <1>2, <2>1 DEF InOrder, Fits
  <2>2. CASE i \in 1..Len(ms)
    <3>1. i \in DOMAIN ms /\ ms[i].of = c /\ ns[i].text = ms[i].text
      BY <1>1, <1>2, <1>5, <2>2
    <3>2. InOrder(c, ms[i].text) /\ Fits(ms[i].text, content, k)
      BY <3>1 DEF Texts
    <3>3. CASE more = content
      BY <3>1, <3>2, <3>3
    <3>4. CASE more = <<>>
      <4>1. Len(ms[i].text) \in Nat /\ (ms[i].text # <<>> => Start(ms[i].text) \in Nat)
        BY <3>1, BubbleText
      <4>2. Len(content) \in Nat /\ Base(content, k) = k + 1 - Len(content) /\ Base(<<>>, k) = k + 1
        BY DEF Base
      <4>3. Fits(ms[i].text, <<>>, k)
        BY <3>2, <4>1, <4>2 DEF Fits
      <4> QED
        BY <3>1, <3>2, <3>4, <4>3
    <3> QED
      BY <3>3, <3>4
  <2> QED
    BY <1>3, <2>1, <2>2
<1>6. InTurn(c, ns)
  <2> SUFFICES ASSUME NEW i \in DOMAIN ns, NEW j \in DOMAIN ns, i < j, ns[i].of = c, ns[j].of = c,
                      ns[i].text # <<>>, ns[j].text # <<>>
               PROVE  Follows(ns[j].text, ns[i].text)
    BY DEF InTurn
  <2>1. i \in 1..Len(ms) /\ j \in 1..Len(ms)
    BY <1>2, <1>3
  <2> QED
    BY <1>1, <1>2, <2>1 DEF Texts, InTurn
<1>7. Conveyed(c, ms, k) => Conveyed(c, ns, k)
  <2>1. \A i \in DOMAIN ms : i \in DOMAIN ns /\ ns[i].of = ms[i].of /\ ns[i].text = ms[i].text
    BY <1>1, <1>2
  <2> QED
    BY <2>1 DEF Conveyed
<1> QED
  BY <1>2, <1>4, <1>5, <1>6, <1>7 DEF Texts
-----------------------------------------------------------------------------
(* What a message of its own answer does to the text of a chat.              *)

LEMMA ShownText ==
  ASSUME NEW h \in Hook, NEW c \in Chats, NEW k \in Nat, NEW l \in Nat, NEW more \in Seq(Piece),
         \/ more = h.content /\ l = k
         \/ more = Append(h.content, <<c, k + 1>>) /\ l = k + 1,
         IsLast(h.messages, c), Texts(c, h.messages, h.content, k)
  PROVE  LET g == Show(h, more)
         IN /\ Texts(c, g.messages, g.content, l)
            /\ Conveyed(c, h.messages, k) => Conveyed(c, g.messages, l)
<1> DEFINE g == Show(h, more)
           ms == h.messages
           ns == g.messages
<1>1. /\ g.content = more /\ SameBubbles(ns, ms) /\ Len(ns) = Len(ms)
      /\ SameTexts(ns, ms, 1..Len(ms) - 1)
      /\ IsAssistant(ms) => ns[Len(ms)].text = more
  BY ShowEffect
<1>2. ms \in Seq(Bubble) /\ h.content \in Seq(Piece) /\ IsAssistant(ms)
  BY HookFields DEF IsLast
<1>3. ns[Len(ms)].text = more /\ ns[Len(ms)].text \in {more, <<>>}
  BY <1>1, <1>2
<1>4. IsLast(ms, c) /\ Texts(c, ms, h.content, k)
  OBVIOUS
<1> HIDE DEF g, ns, ms
<1>5. Texts(c, ns, more, l) /\ (Conveyed(c, ms, k) => Conveyed(c, ns, l))
  BY <1>1, <1>2, <1>3, <1>4, WrittenTexts
<1> QED
  BY <1>1, <1>5 DEF g, ns, ms

LEMMA PendingText ==
  ASSUME NEW h \in Hook, NEW c \in Chats, NEW prompt \in BOOLEAN, NEW k \in Nat,
         IsLast(h.messages, c), Texts(c, h.messages, h.content, k)
  PROVE  LET g == MutationPending(h, c, prompt)
         IN /\ Texts(c, g.messages, g.content, k)
            /\ prompt \/ h.content = <<>> => (Conveyed(c, h.messages, k) => Conveyed(c, g.messages, k))
<1> DEFINE g == MutationPending(h, c, prompt)
           ms == h.messages
<1>1. /\ g \in Hook /\ SameBubbles(g.messages, ms) /\ Len(g.messages) = Len(ms) + 1
      /\ SameTexts(g.messages, ms, 1..Len(ms) - 1) /\ EmptyLast(g.messages, c)
      /\ g.content = <<>>
      /\ h.content = <<>> => SameTexts(g.messages, ms, 1..Len(ms))
  BY PendingEffect
<1>2. ms \in Seq(Bubble) /\ h.content \in Seq(Piece) /\ g.messages \in Seq(Bubble)
  BY <1>1, HookFields
<1>3. IsAssistant(ms) /\ ms[Len(ms)].of = c /\ Len(ms) \in Nat \ {0}
  BY <1>2 DEF IsLast, IsAssistant
<1>4. CASE h.content = <<>>
  <2> HIDE DEF g
  <2>1. Texts(c, g.messages, g.content, k) /\ (Conveyed(c, ms, k) => Conveyed(c, g.messages, k))
    BY <1>1, <1>2, <1>4, AddedTexts
  <2> QED
    BY <2>1 DEF g
<1>5. CASE h.content # <<>>
  <2> DEFINE ns == Finalize(h, prompt)
             added == Append(ns, NewBubble("pending", c))
  <2>1. g.messages = added
    <3>1. g = [h EXCEPT !.messages = added, !.content = <<>>]
      <4>1. g = [[h EXCEPT !.messages = ns, !.content = <<>>]
                   EXCEPT !.messages = Append(@, NewBubble("pending", c))]
        BY <1>5 DEF MutationPending, NewBubble
      <4> HIDE DEF ns, g
      <4> QED
        BY <4>1 DEF Hook
    <3> HIDE DEF added, g
    <3> QED
      BY <3>1 DEF Hook
  <2>2. /\ SameBubbles(ns, ms) /\ Len(ns) = Len(ms) /\ SameTexts(ns, ms, 1..Len(ms) - 1)
        /\ IsAssistant(ms) => ns[Len(ms)].text = IF prompt THEN h.content ELSE <<>>
    BY FinalizeEffect
  <2> HIDE DEF ns, g
  <2>3. ns \in Seq(Bubble)
    BY <2>2 DEF SameBubbles
  <2>4. /\ SameBubbles(added, ns) /\ Len(added) = Len(ns) + 1
        /\ SameTexts(added, ns, 1..Len(ns)) /\ EmptyLast(added, c)
    BY <2>3, AppendBubble DEF BubbleKinds
  <2> HIDE DEF added
  <2>5. ns[Len(ms)].text \in {h.content, <<>>} /\ (prompt => ns[Len(ms)].text = h.content)
    BY <1>3, <2>2
  <2>6. Texts(c, ns, h.content, k) /\ (ns[Len(ms)].text = h.content /\ Conveyed(c, ms, k) => Conveyed(c, ns, k))
    BY <1>2, <2>2, <2>5, WrittenTexts
  <2>7. Texts(c, added, <<>>, k) /\ (Conveyed(c, ns, k) => Conveyed(c, added, k))
    BY <1>2, <2>3, <2>4, <2>6, AddedTexts
  <2> QED
    BY <1>1, <1>5, <2>1, <2>5, <2>6, <2>7 DEF g
<1> QED
  BY <1>4, <1>5

LEMMA ReplaceText ==
  ASSUME NEW h \in Hook, NEW c \in Chats, NEW pending \in SUBSET Pending(h), NEW kind \in {"preview", "error"},
         NEW k \in Nat, IsLast(h.messages, c), Texts(c, h.messages, h.content, k)
  PROVE  LET g == Replace(h, c, pending, kind)
         IN /\ Texts(c, g.messages, g.content, k)
            /\ Conveyed(c, h.messages, k) => Conveyed(c, g.messages, k)
<1> DEFINE g == Replace(h, c, pending, kind)
           ms == h.messages
<1>1. /\ g \in Hook /\ g.content = h.content
      /\ SameBubbles(g.messages, ms) /\ SameTexts(g.messages, ms, 1..Len(ms))
      /\ Len(g.messages) = Len(ms) \/ (Len(g.messages) = Len(ms) + 1 /\ EmptyLast(g.messages, c))
  BY ReplaceEffect
<1>2. ms \in Seq(Bubble) /\ h.content \in Seq(Piece) /\ g.messages \in Seq(Bubble)
  BY <1>1, HookFields
<1>3. IsAssistant(ms) /\ ms[Len(ms)].of = c /\ Len(ms) \in Nat \ {0}
  BY <1>2 DEF IsLast, IsAssistant
<1> HIDE DEF g
<1>4. Texts(c, g.messages, g.content, k) /\ (Conveyed(c, ms, k) => Conveyed(c, g.messages, k))
  <2>1. CASE Len(g.messages) = Len(ms) + 1 /\ EmptyLast(g.messages, c)
    BY <1>1, <1>2, <2>1, AddedTexts
  <2>2. CASE Len(g.messages) = Len(ms)
    <3>1. DOMAIN g.messages = DOMAIN ms /\ Len(ms) \in DOMAIN ms
          /\ \A i \in DOMAIN ms : g.messages[i].of = ms[i].of /\ g.messages[i].text = ms[i].text
      BY <1>1, <1>2, <1>3, <2>2 DEF SameBubbles, SameTexts
    <3> HIDE DEF ms
    <3>2. Texts(c, ms, h.content, k)
      BY DEF ms
    <3> QED
      <4> DEFINE ns == g.messages
      <4>1. DOMAIN ns = DOMAIN ms /\ ns[Len(ns)].text = ms[Len(ms)].text
            /\ \A i \in DOMAIN ms : ns[i].of = ms[i].of /\ ns[i].text = ms[i].text
        BY <2>2, <3>1
      <4> HIDE DEF ns
      <4>2. InTurn(c, ns)
        BY <3>2, <4>1 DEF Texts, InTurn
      <4>3. Texts(c, ns, h.content, k)
        BY <3>2, <4>1, <4>2 DEF Texts
      <4>4. Conveyed(c, ms, k) => Conveyed(c, ns, k)
        BY <4>1 DEF Conveyed
      <4> QED
        BY <1>1, <4>3, <4>4 DEF ns, ms
  <2> QED
    BY <1>1, <2>1, <2>2
<1> QED
  BY <1>4 DEF g

LEMMA DoneText ==
  ASSUME NEW h \in Hook, NEW c \in Chats, NEW prompt \in BOOLEAN, NEW k \in Nat,
         IsLast(h.messages, c), Texts(c, h.messages, h.content, k)
  PROVE  LET g == Done(h, prompt)
         IN /\ \A i \in DOMAIN g.messages : g.messages[i].of = c => InOrder(c, g.messages[i].text)
            /\ InTurn(c, g.messages)
            /\ prompt \/ h.content = <<>> => (Conveyed(c, h.messages, k) => Conveyed(c, g.messages, k))
<1> DEFINE g == Done(h, prompt)
           ms == h.messages
<1>1. /\ g \in Hook /\ SameBubbles(g.messages, ms) /\ Len(g.messages) = Len(ms)
      /\ SameTexts(g.messages, ms, 1..Len(ms) - 1)
      /\ IsAssistant(ms) => g.messages[Len(ms)].text = IF prompt THEN h.content ELSE <<>>
  BY DoneEffect
<1>2. ms \in Seq(Bubble) /\ h.content \in Seq(Piece) /\ g.messages \in Seq(Bubble)
  BY <1>1, HookFields
<1>3. IsAssistant(ms) /\ ms[Len(ms)].of = c /\ Len(ms) \in Nat \ {0}
  BY <1>2 DEF IsLast, IsAssistant
<1> HIDE DEF g
<1>4. g.messages[Len(ms)].text \in {h.content, <<>>}
      /\ (prompt \/ h.content = <<>> => g.messages[Len(ms)].text = h.content)
  BY <1>1, <1>3
<1>5. Texts(c, g.messages, h.content, k)
      /\ (g.messages[Len(ms)].text = h.content /\ Conveyed(c, ms, k) => Conveyed(c, g.messages, k))
  BY <1>1, <1>2, <1>4, WrittenTexts
<1> QED
  BY <1>4, <1>5 DEF g, Texts
-----------------------------------------------------------------------------
(* What the window shows of one chat while another is under way.             *)

Seen(c) == \E i \in DOMAIN hook.messages : hook.messages[i].of = c
Alone(c) == \A d \in Chats : Active(d) => d = c

\* The answer is to be written into the last bubble.
Placed(c) ==
  /\ IsLast(hook.messages, c)
  /\ IF c \in hook.listening THEN hook.streaming ELSE hook.loading

Writing(c) ==
  /\ Placed(c) /\ (c \in hook.listening => hook.unsubscribe = c)
  /\ Texts(c, hook.messages, hook.content, spoken[c])
  /\ c \in blanked \/ Conveyed(c, hook.messages, spoken[c])

Whole(c) ==
  /\ \A i \in DOMAIN hook.messages : hook.messages[i].of = c => InOrder(c, hook.messages[i].text)
  /\ InTurn(c, hook.messages)
  /\ c \in blanked \/ Conveyed(c, hook.messages, spoken[c])

\* A chat that is under way has the window to itself, and writes into it or
\* was closed before it began; and a chat that is complete stays so, because
\* only the last bubble is written, which is not its own.
WindowGood(c) ==
  /\ Active(c) /\ c \notin disturbed => Alone(c) /\ ((phase[c] \in Early /\ ~Seen(c)) \/ Writing(c))
  /\ c \in finished /\ c \notin disturbed => Whole(c) /\ \A d \in Chats : Active(d) => Alone(d) /\ Placed(d)

WindowInv == \A c \in Chats : WindowGood(c)

StreamInv == StreamTypeOK /\ UnheardInv /\ EndsInv /\ WindowInv

LEMMA WindowInit == StreamInit => WindowInv
BY DEF StreamInit, WindowInv, WindowGood, Active

LEMMA WindowWhole ==
  ASSUME StreamTypeOK, WindowInv
  PROVE  FinishedIsWhole
<1> SUFFICES ASSUME NEW c \in finished \ disturbed
             PROVE  /\ \A m \in Shown(c) : InOrder(c, m.text)
                    /\ BubblesFollow(c)
                    /\ c \in blanked \/ Complete(c)
  BY DEF FinishedIsWhole
<1>1. Whole(c) /\ hook.messages \in Seq(Bubble)
  BY HookFields DEF StreamTypeOK, WindowInv, WindowGood
<1>2. \A m \in Shown(c) : InOrder(c, m.text)
  BY <1>1 DEF Whole, Shown
<1>3. BubblesFollow(c)
  BY <1>1 DEF Whole, InTurn, BubblesFollow
<1>4. \A i \in DOMAIN hook.messages : hook.messages[i].of = c => hook.messages[i] \in Shown(c)
  BY DEF Shown
<1>5. ASSUME c \notin blanked PROVE Complete(c)
  <2>1. Conveyed(c, hook.messages, spoken[c])
    BY <1>1, <1>5 DEF Whole
  <2>2. \A k \in 1..spoken[c] : \E m \in Shown(c) : \E n \in DOMAIN m.text : m.text[n] = <<c, k>>
    BY <1>4, <2>1 DEF Conveyed
  <2> QED
    BY <2>2 DEF Complete
<1> QED
  BY <1>2, <1>3, <1>5

\* The bubbles of a chat are where they were and say what they said.
SameFor(c, ns, ms) ==
  /\ \A i : i \in DOMAIN ns /\ ns[i].of = c <=> i \in DOMAIN ms /\ ms[i].of = c
  /\ \A i \in DOMAIN ms : ms[i].of = c => ns[i].text = ms[i].text

LEMMA WholeKept ==
  ASSUME NEW c \in Chats, Whole(c), hook.messages \in Seq(Bubble), hook'.messages \in Seq(Bubble),
         SameFor(c, hook'.messages, hook.messages), spoken'[c] = spoken[c], c \in blanked => c \in blanked'
  PROVE  Whole(c)'
<1> DEFINE ms == hook.messages
           ns == hook'.messages
<1>1. /\ \A i : i \in DOMAIN ns /\ ns[i].of = c <=> i \in DOMAIN ms /\ ms[i].of = c
      /\ \A i \in DOMAIN ms : ms[i].of = c => ns[i].text = ms[i].text
  BY DEF SameFor
<1>2. DOMAIN ns = 1..Len(ns) /\ DOMAIN ms = 1..Len(ms)
  OBVIOUS
<1>3. /\ \A i \in DOMAIN ms : ms[i].of = c => InOrder(c, ms[i].text)
      /\ InTurn(c, ms)
      /\ c \in blanked \/ Conveyed(c, ms, spoken[c])
  BY DEF Whole
<1> HIDE DEF ms, ns
<1>4. \A i \in DOMAIN ns : ns[i].of = c => InOrder(c, ns[i].text)
  BY <1>1, <1>3
<1>5. InTurn(c, ns)
  BY <1>1, <1>3 DEF InTurn
<1>6. Conveyed(c, ms, spoken[c]) => Conveyed(c, ns, spoken[c])
  BY <1>1 DEF Conveyed
<1> QED
  BY <1>3, <1>4, <1>5, <1>6 DEF Whole, ns

\* What no step of this group touches.
LEMMA WindowSame ==
  ASSUME WindowInv, UNCHANGED <<stream, spoken, phase, hook, finished, blanked, disturbed>>
  PROVE  WindowInv'
<1>1. \A c \in Chats : Active(c)' <=> Active(c)
  BY DEF Active
<1>2. \A c \in Chats : Alone(c)' <=> Alone(c)
  BY <1>1 DEF Alone
<1>3. \A c \in Chats : (Placed(c)' <=> Placed(c)) /\ (Seen(c)' <=> Seen(c)) /\ (Whole(c)' <=> Whole(c))
  BY DEF Placed, Seen, Whole
<1>4. \A c \in Chats : Writing(c)' <=> Writing(c)
  BY <1>3 DEF Writing
<1> QED
  BY <1>1, <1>2, <1>3, <1>4 DEF WindowInv, WindowGood

\* A window that fails takes back only the bubble of the chat that fails.
LEMMA GivenUpWindow ==
  ASSUME StreamInv, NEW chats \in SUBSET {c \in Chats : phase[c] \in {"posting", "connecting"}},
         chats # {}, Cardinality(chats) \in Nat,
         \A c \in Chats : phase'[c] = IF c \in chats THEN "ended" ELSE phase[c],
         hook' = GiveUp(hook, chats), UNCHANGED <<stream, spoken, finished, blanked, disturbed>>
  PROVE  WindowInv'
<1> SUFFICES ASSUME NEW x \in Chats PROVE WindowGood(x)'
  BY DEF WindowInv
<1>1. hook \in Hook /\ hook.messages \in Seq(Bubble)
  BY HookFields DEF StreamInv, StreamTypeOK
<1>2. PICK c \in chats : TRUE
  OBVIOUS
<1>3. c \in Chats /\ \A d \in chats : Active(d) /\ d \in Chats /\ d \notin hook.listening /\ d \notin finished
  BY DEF StreamInv, Active, UnheardInv, Unheard, EndsInv, EndsOnce, Early
<1>4. hook'.listening = hook.listening
  BY <1>1, GivenUpHook
<1>5. \A d \in Chats : Active(d)' => Active(d) /\ d \notin chats
  BY <1>3, <1>4 DEF Active
<1>6. ASSUME Active(x)', x \notin disturbed' PROVE FALSE
  <2>1. Active(x) /\ x \notin chats /\ x \notin disturbed
    BY <1>5, <1>6
  <2>2. Alone(x)
    BY <2>1 DEF StreamInv, WindowInv, WindowGood
  <2> QED
    BY <1>2, <1>3, <2>1, <2>2 DEF Alone
<1>7. ASSUME x \in finished', x \notin disturbed'
      PROVE  Whole(x)' /\ \A d \in Chats : Active(d)' => Alone(d)' /\ Placed(d)'
  <2>1. Whole(x) /\ \A d \in Chats : Active(d) => Alone(d) /\ Placed(d)
    BY <1>7 DEF StreamInv, WindowInv, WindowGood
  <2>2. chats = {c} /\ Placed(c) /\ x # c
    BY <1>2, <1>3, <1>7, <2>1 DEF Alone
  <2>3. \A d \in Chats : ~Active(d)'
    BY <1>2, <1>3, <1>5, <2>1, <2>2 DEF Alone
  <2>4. hook.messages # <<>> /\ hook.messages[Len(hook.messages)].of = c
    BY <2>2 DEF Placed, IsLast, IsAssistant
  <2>5. Cardinality(chats) = 1
    BY <2>2, FS_Singleton
  <2>6. /\ hook'.messages \in Seq(Bubble) /\ Len(hook'.messages) = Len(hook.messages) - 1
        /\ \A i \in 1..Len(hook'.messages) : hook'.messages[i] = hook.messages[i]
    BY <1>1, <2>4, <2>5, GivenUpHook
  <2>7. SameFor(x, hook'.messages, hook.messages)
    <3> DEFINE ns == hook'.messages
               ms == hook.messages
    <3>1. DOMAIN ns = 1..Len(ms) - 1 /\ DOMAIN ms = 1..Len(ms) /\ ms[Len(ms)].of # x
      BY <1>1, <2>2, <2>4, <2>6
    <3>2. \A i \in 1..Len(ms) - 1 : ns[i] = ms[i] /\ i \in 1..Len(ms)
      BY <1>1, <2>6
    <3>3. \A i \in 1..Len(ms) : i = Len(ms) \/ i \in 1..Len(ms) - 1
      BY <1>1
    <3> HIDE DEF ns, ms
    <3>4. SameFor(x, ns, ms)
      BY <3>1, <3>2, <3>3 DEF SameFor
    <3> QED
      BY <3>4 DEF ns, ms
  <2>8. Whole(x)'
    BY <1>1, <2>1, <2>6, <2>7, WholeKept
  <2> QED
    BY <2>3, <2>8
<1> QED
  BY <1>6, <1>7 DEF WindowGood

LEMMA SameForSame == \A c, ms : SameFor(c, ms, ms)
BY DEF SameFor

\* The chats whose callbacks are registered are no longer early.
LEMMA RegisteredWindow ==
  ASSUME StreamInv, NEW chats \in SUBSET {c \in Chats : phase[c] \in {"posting", "connecting"}}, chats # {},
         \A c \in Chats : phase'[c] = IF c \in chats THEN "listening" ELSE phase[c],
         hook' \in Hook, hook'.messages = hook.messages, hook'.content = hook.content,
         hook'.listening = hook.listening \cup chats,
         hook'.unsubscribe \in chats, hook'.streaming,
         disturbed' = disturbed \cup Mixed(chats), UNCHANGED <<spoken, finished, blanked>>,
         \A c \in Chats : stream'[c] = stream[c] \/ c \in chats
  PROVE  WindowInv'
<1> SUFFICES ASSUME NEW x \in Chats PROVE WindowGood(x)'
  BY DEF WindowInv
<1>1. hook.messages \in Seq(Bubble) /\ hook'.messages \in Seq(Bubble)
  BY HookFields DEF StreamInv, StreamTypeOK
<1>2. PICK c \in chats : TRUE
  OBVIOUS
<1>3. \A d \in chats : d \in Chats /\ Active(d)
  BY DEF Active
<1>4. \A d \in Chats : Active(d)' => Active(d)
  BY <1>3 DEF Active
<1>5. ASSUME NEW d \in Chats, Alone(d), Active(d) PROVE Alone(d)' /\ chats = {d}
  BY <1>2, <1>3, <1>4, <1>5 DEF Alone
<1>6. ASSUME NEW d \in Chats, Alone(d), Active(d), Placed(d) PROVE Placed(d)'
  BY <1>5, <1>6 DEF Placed
<1>7. ASSUME Active(x)', x \notin disturbed' PROVE Alone(x)' /\ Writing(x)'
  <2>1. Active(x) /\ x \notin disturbed /\ x \notin Mixed(chats)
    BY <1>4, <1>7
  <2>2. Alone(x) /\ ((phase[x] \in Early /\ ~Seen(x)) \/ Writing(x))
    BY <2>1 DEF StreamInv, WindowInv, WindowGood
  <2>3. Alone(x)' /\ chats = {x}
    BY <1>5, <2>1, <2>2
  <2>4. Writing(x)
    BY <2>1, <2>2, <2>3 DEF Mixed, Stray, Seen
  <2>5. Placed(x)'
    BY <1>6, <2>1, <2>2, <2>4 DEF Writing
  <2> QED
    BY <2>3, <2>4, <2>5 DEF Writing
<1>8. ASSUME x \in finished', x \notin disturbed'
      PROVE  Whole(x)' /\ \A d \in Chats : Active(d)' => Alone(d)' /\ Placed(d)'
  <2>1. Whole(x) /\ \A d \in Chats : Active(d) => Alone(d) /\ Placed(d)
    BY <1>8 DEF StreamInv, WindowInv, WindowGood
  <2>2. Whole(x)'
    BY <1>1, <2>1, SameForSame, WholeKept
  <2> QED
    BY <1>4, <1>5, <1>6, <2>1, <2>2
<1> QED
  BY <1>7, <1>8 DEF WindowGood

LEMMA ChatStartedWindow ==
  ASSUME StreamInv, NEW c \in Chats, ChatStarted(c)
  PROVE  WindowInv'
<1>1. hook \in Hook /\ hook.messages \in Seq(Bubble)
      /\ phase \in [Chats -> {"none", "posting", "connecting", "ended", "listening"}]
      /\ stream \in [Chats -> Seq(Chunks)]
  BY HookFields DEF StreamInv, StreamTypeOK
<1>2. PICK script \in Scripts : stream' = [stream EXCEPT ![c] = script]
  BY DEF ChatStarted
<1>3. PICK ready \in BOOLEAN :
        /\ phase' = [phase EXCEPT ![c] = IF ready THEN "listening" ELSE "connecting"]
        /\ hook' = [IF ready THEN RegisterCallbacks(hook, <<c>>) ELSE hook EXCEPT !.request = c]
        /\ disturbed' = IF ready THEN disturbed \cup Mixed({c}) ELSE disturbed
  BY DEF ChatStarted
<1>4. phase[c] = "posting" /\ UNCHANGED <<spoken, finished, blanked>>
  BY DEF ChatStarted
<1>6. \A d \in Chats : stream'[d] = stream[d] \/ d = c
  BY <1>1, <1>2
<1>7. CASE ready
  <2> DEFINE g == RegisterCallbacks(hook, <<c>>)
  <2>1. /\ g \in Hook /\ g.messages = hook.messages /\ g.content = hook.content
        /\ g.listening = hook.listening \cup {c}
        /\ g.unsubscribe = c /\ g.streaming
    <3> DEFINE one == <<c>>
    <3>1. one \in Seq(Chats) /\ one # <<>> /\ Len(one) = 1 /\ one[1] = c /\ {one[i] : i \in DOMAIN one} = {c}
      OBVIOUS
    <3>2. g = RegisterCallbacks(hook, one)
      OBVIOUS
    <3> HIDE DEF one, g
    <3> QED
      BY <1>1, <3>1, <3>2, RegisteredHook
  <2>2. hook' = [g EXCEPT !.request = c]
    BY <1>3, <1>7
  <2> HIDE DEF g
  <2>3. /\ hook' \in Hook /\ hook'.messages = hook.messages /\ hook'.content = hook.content
        /\ hook'.listening = hook.listening \cup {c}
        /\ hook'.unsubscribe = c /\ hook'.streaming
    BY <2>1, <2>2 DEF Hook
  <2>4. \A d \in Chats : phase'[d] = IF d \in {c} THEN "listening" ELSE phase[d]
    BY <1>1, <1>3, <1>7
  <2>5. {c} \in SUBSET {d \in Chats : phase[d] \in {"posting", "connecting"}} /\ {c} # {}
    BY <1>4
  <2>6. disturbed' = disturbed \cup Mixed({c})
    BY <1>3, <1>7
  <2>7. \A d \in Chats : stream'[d] = stream[d] \/ d \in {c}
    BY <1>6
  <2>8. hook'.unsubscribe \in {c}
    BY <2>3
  <2> DEFINE chats == {c}
  <2> HIDE DEF chats
  <2> QED
    BY <1>4, <2>3, <2>4, <2>5, <2>6, <2>7, <2>8, RegisteredWindow DEF chats
<1>8. CASE ~ready
  <2>1. hook' = [hook EXCEPT !.request = c] /\ disturbed' = disturbed
    BY <1>3, <1>8
  <2>2. /\ hook'.messages = hook.messages /\ hook'.content = hook.content
        /\ hook'.listening = hook.listening /\ hook'.unsubscribe = hook.unsubscribe
        /\ hook'.streaming = hook.streaming /\ hook'.loading = hook.loading
    BY <1>1, <2>1 DEF Hook
  <2>3. \A d \in Chats : (Active(d)' <=> Active(d)) /\ (phase[d] \in Early => phase'[d] \in Early)
    <3>1. phase'[c] = "connecting" /\ \A d \in Chats : d # c => phase'[d] = phase[d]
      BY <1>1, <1>3, <1>8
    <3> QED
      BY <1>4, <1>6, <2>2, <3>1 DEF Active, Early
  <2>4. \A d \in Chats : (Alone(d)' <=> Alone(d)) /\ (Seen(d)' <=> Seen(d)) /\ (Placed(d)' <=> Placed(d))
    BY <2>2, <2>3 DEF Alone, Seen, Placed
  <2>5. \A d \in Chats : Whole(d)' <=> Whole(d)
    BY <1>4, <2>2 DEF Whole
  <2>6. \A d \in Chats : Writing(d) => Writing(d)'
    BY <1>4, <2>2, <2>4 DEF Writing
  <2> QED
    BY <1>4, <2>1, <2>3, <2>4, <2>5, <2>6 DEF StreamInv, WindowInv, WindowGood
<1> QED
  BY <1>7, <1>8

LEMMA AcceptWindow ==
  ASSUME StreamInv, NEW s \in Sockets, Accept(s)
  PROVE  WindowInv'
<1> DEFINE mine == service.connecting = s
           chats == IF mine THEN WaitingChats ELSE {}
           called == IF mine THEN Among(service.waiting, Chats) ELSE <<>>
<1>1. /\ hook' = RegisterCallbacks(hook, called) /\ phase' = Moved(chats, "listening")
      /\ disturbed' = disturbed \cup Mixed(chats) /\ UNCHANGED <<stream, spoken, finished, blanked>>
  BY DEF Accept
<1>2. called \in Seq(Chats) /\ {called[i] : i \in DOMAIN called} = chats
  <2>1. Among(service.waiting, Chats) \in Seq(Chats)
        /\ {Among(service.waiting, Chats)[i] : i \in DOMAIN Among(service.waiting, Chats)} = WaitingChats
    BY WaitingSequence DEF StreamInv
  <2> QED
    BY <2>1
<1>3. hook \in Hook /\ phase \in [Chats -> {"none", "posting", "connecting", "ended", "listening"}]
  BY DEF StreamInv, StreamTypeOK
<1>4. chats \in SUBSET {c \in Chats : phase[c] \in {"posting", "connecting"}}
  BY DEF StreamInv, UnheardInv, WaitingKnown, WaitingChats
<1> HIDE DEF mine, chats, called
<1>5. CASE called = <<>>
  <2>1. chats = {}
    BY <1>2, <1>5
  <2>2. hook' = hook
    BY <1>1, <1>5 DEF RegisterCallbacks
  <2>3. phase' = phase /\ disturbed' = disturbed
    BY <1>1, <1>3, <2>1 DEF Moved, Mixed
  <2> QED
    BY <1>1, <2>2, <2>3, WindowSame DEF StreamInv
<1>6. CASE called # <<>>
  <2>1. called[Len(called)] \in chats /\ chats # {}
    <3>1. Len(called) \in DOMAIN called
      BY <1>2, <1>6
    <3> QED
      BY <1>2, <3>1
  <2>2. /\ hook' \in Hook /\ hook'.messages = hook.messages /\ hook'.content = hook.content
        /\ hook'.listening = hook.listening \cup chats
        /\ hook'.unsubscribe = called[Len(called)] /\ hook'.streaming
    BY <1>1, <1>2, <1>3, <1>6, RegisteredHook
  <2>3. \A d \in Chats : phase'[d] = IF d \in chats THEN "listening" ELSE phase[d]
    BY <1>1 DEF Moved
  <2>4. \A d \in Chats : stream'[d] = stream[d]
    BY <1>1
  <2> QED
    BY <1>1, <1>4, <2>1, <2>2, <2>3, <2>4, RegisteredWindow
<1> QED
  BY <1>5, <1>6

LEMMA SendMessageWindow ==
  ASSUME StreamInv, NEW c \in Chats, SendMessage(c)
  PROVE  WindowInv'
<1> SUFFICES ASSUME NEW x \in Chats PROVE WindowGood(x)'
  BY DEF WindowInv
<1>1. hook \in Hook /\ hook.messages \in Seq(Bubble)
      /\ phase \in [Chats -> {"none", "posting", "connecting", "ended", "listening"}]
  BY HookFields DEF StreamInv, StreamTypeOK
<1>2. /\ phase[c] = "none" /\ phase' = [phase EXCEPT ![c] = "posting"]
      /\ ~hook.loading /\ ~hook.streaming /\ UNCHANGED <<stream, spoken, finished, blanked>>
      /\ disturbed' = IF \E d \in Chats : Active(d) THEN disturbed \cup {c} \cup {d \in Chats : Active(d)}
                      ELSE disturbed
  BY DEF SendMessage
<1>3. LET g == hook'
          ms == hook.messages
      IN /\ g \in Hook /\ g.listening = hook.listening \ {hook.unsubscribe} /\ g.loading /\ g.content = <<>>
         /\ g.messages \in Seq(Bubble) /\ Len(g.messages) = Len(ms) + 2
         /\ \A i \in 1..Len(ms) : g.messages[i] = ms[i]
         /\ \A i \in Len(ms) + 1 .. Len(ms) + 2 :
              g.messages[i].of = c /\ g.messages[i].text = <<>>
         /\ IsLast(g.messages, c)
  BY <1>1, FreshHookEffect DEF SendMessage
<1>4. \A d \in Chats : ~Placed(d)
  BY <1>2 DEF Placed
<1>5. \A d \in Chats \ {c} : phase'[d] = phase[d] /\ (Active(d)' => Active(d))
  BY <1>1, <1>2, <1>3 DEF Active
<1>6. phase'[c] = "posting" /\ Active(c)'
  BY <1>1, <1>2 DEF Active
<1>7. c \notin hook.listening /\ spoken[c] = 0 /\ stream[c] = <<>> /\ ~Seen(c) /\ c \notin finished
  BY <1>2 DEF StreamInv, UnheardInv, Unheard, EndsInv, EndsOnce, Early, Seen
<1>8. CASE \E d \in Chats : Active(d)
  <2>1. ~(Active(x)' /\ x \notin disturbed')
    BY <1>2, <1>5, <1>8
  <2>2. ~(x \in finished' /\ x \notin disturbed')
    BY <1>2, <1>4, <1>8 DEF StreamInv, WindowInv, WindowGood
  <2> QED
    BY <2>1, <2>2 DEF WindowGood
<1>9. CASE \A d \in Chats : ~Active(d)
  <2>1. \A d \in Chats : Active(d)' => d = c
    BY <1>5, <1>9
  <2>2. Placed(c)' /\ Alone(c)'
    BY <1>3, <1>7, <2>1 DEF Placed, Alone
  <2> DEFINE ns == hook'.messages
             ms == hook.messages
  <2>3. \A i \in DOMAIN ns : \/ i \in DOMAIN ms /\ ns[i] = ms[i]
                             \/ i \notin DOMAIN ms /\ ns[i].of = c /\ ns[i].text = <<>>
    <3>1. DOMAIN ms = 1..Len(ms) /\ DOMAIN ns = 1..Len(ms) + 2 /\ Len(ms) \in Nat
      BY <1>1, <1>3
    <3>2. \A i \in 1..Len(ms) + 2 : i \in 1..Len(ms) \/ (i \notin 1..Len(ms) /\ i \in Len(ms) + 1 .. Len(ms) + 2)
      BY <3>1
    <3> QED
      BY <1>3, <3>1, <3>2
  <2>4. \A i \in DOMAIN ms : i \in DOMAIN ns /\ ns[i] = ms[i]
    BY <1>1, <1>3
  <2>5. \A i \in DOMAIN ns : ns[i].of = c => ns[i].text = <<>>
    BY <1>7, <2>3 DEF Seen
  <2>6. Texts(c, ns, <<>>, 0)
    <3>1. ns[Len(ns)].text = <<>>
      <4>1. Len(ns) \in DOMAIN ns /\ ns[Len(ns)].of = c
        BY <1>3 DEF IsLast, IsAssistant
      <4> QED
        BY <2>5, <4>1
    <3> HIDE DEF ns
    <3> QED
      BY <2>5, <3>1 DEF Texts, InTurn, InOrder, Fits
  <2>7. Writing(c)'
    <3>1. Texts(c, hook'.messages, hook'.content, spoken'[c])
      BY <1>2, <1>3, <1>7, <2>6
    <3>2. Conveyed(c, hook'.messages, spoken'[c])
      BY <1>2, <1>7 DEF Conveyed
    <3>3. c \notin hook'.listening
      BY <1>3, <1>7
    <3> QED
      BY <2>2, <3>1, <3>2, <3>3 DEF Writing
  <2>8. ASSUME x \in finished', x \notin disturbed' PROVE Whole(x)'
    <3>1. x \in finished /\ x \notin disturbed /\ x # c
      BY <1>2, <1>7, <1>9, <2>8
    <3>2. Whole(x)
      BY <3>1 DEF StreamInv, WindowInv, WindowGood
    <3>3. SameFor(x, ns, ms)
      <4> HIDE DEF ns, ms
      <4> QED
        BY <2>3, <2>4, <3>1 DEF SameFor
    <3> QED
      BY <1>1, <1>2, <1>3, <3>2, <3>3, WholeKept
  <2> QED
    BY <2>1, <2>2, <2>7, <2>8 DEF WindowGood
<1> QED
  BY <1>8, <1>9

LEMMA CloseWindowWindow ==
  ASSUME StreamInv, CloseWindow
  PROVE  WindowInv'
<1> SUFFICES ASSUME NEW x \in Chats PROVE WindowGood(x)'
  BY DEF WindowInv
<1>1. /\ hook'.messages = <<>> /\ hook'.listening = hook.listening \ {hook.unsubscribe}
      /\ finished' = {} /\ UNCHANGED <<stream, phase, disturbed>>
  BY DEF CloseWindow
<1>2. \A d \in Chats : Active(d)' => Active(d)
  BY <1>1 DEF Active
<1>3. ASSUME Active(x)', x \notin disturbed' PROVE Alone(x)' /\ phase'[x] \in Early /\ ~Seen(x)'
  <2>1. Active(x) /\ x \notin disturbed
    BY <1>1, <1>2, <1>3
  <2>2. Alone(x) /\ ((phase[x] \in Early /\ ~Seen(x)) \/ Writing(x))
    BY <2>1 DEF StreamInv, WindowInv, WindowGood
  <2>3. phase[x] \in Early
    <3>1. CASE x \in hook.listening
      <4>1. Writing(x) => x \notin hook'.listening
        BY <1>1, <3>1 DEF Writing
      <4> QED
        BY <1>1, <1>3, <2>2, <4>1 DEF Active, Early
    <3>2. CASE x \notin hook.listening
      BY <2>1, <3>2 DEF Active, Early
    <3> QED
      BY <3>1, <3>2
  <2>4. ~Seen(x)'
    BY <1>1 DEF Seen
  <2> QED
    BY <1>1, <1>2, <2>2, <2>3, <2>4 DEF Alone
<1> QED
  BY <1>1, <1>3 DEF WindowGood

LEMMA StopStreamsWindow ==
  ASSUME StreamInv, StopStreams
  PROVE  WindowInv'
<1> SUFFICES ASSUME NEW x \in Chats PROVE WindowGood(x)'
  BY DEF WindowInv
<1>1. (\A c \in Chats : stream'[c] = <<>>) /\ UNCHANGED <<spoken, phase, hook, finished, blanked, disturbed>>
  BY DEF StopStreams
<1>2. \A d \in Chats : Active(d)' => Active(d)
  BY <1>1 DEF Active
<1>3. \A d \in Chats : (Alone(d) => Alone(d)') /\ (Placed(d)' <=> Placed(d)) /\ (Seen(d)' <=> Seen(d))
                       /\ (Whole(d)' <=> Whole(d))
  BY <1>1, <1>2 DEF Alone, Placed, Seen, Whole
<1>4. Writing(x) => Writing(x)'
  BY <1>1, <1>3 DEF Writing
<1> QED
  BY <1>1, <1>2, <1>3, <1>4 DEF StreamInv, WindowInv, WindowGood

\* A message that the window does not get disturbs its chat, if anything of
\* that is still to come into the window.
LEMMA UnreadWindow ==
  ASSUME StreamInv, NEW c \in Chats, c \notin finished',
         \A d \in Chats \ {c} : stream'[d] = stream[d] /\ spoken'[d] = spoken[d],
         stream'[c] # <<>> => stream[c] # <<>>, UNCHANGED <<phase, hook>>,
         finished' \subseteq finished, disturbed \subseteq disturbed', blanked \subseteq blanked',
         c \in disturbed' \/ ~Active(c)
  PROVE  WindowInv'
<1> SUFFICES ASSUME NEW x \in Chats PROVE WindowGood(x)'
  BY DEF WindowInv
<1>1. \A d \in Chats : Active(d)' => Active(d)
  BY DEF Active
<1>2. \A d \in Chats : (Alone(d) => Alone(d)') /\ (Placed(d)' <=> Placed(d)) /\ (Seen(d)' <=> Seen(d))
  BY <1>1 DEF Alone, Placed, Seen
<1>3. ASSUME x # c PROVE (Writing(x) => Writing(x)') /\ (Whole(x) => Whole(x)')
  BY <1>2, <1>3 DEF Writing, Whole
<1>4. Active(x)' /\ x \notin disturbed' => x # c
  BY <1>1
<1> QED
  BY <1>1, <1>2, <1>3, <1>4 DEF StreamInv, WindowInv, WindowGood

\* The message of a chat that the window listens to.
LEMMA HeardWriting ==
  ASSUME StreamInv, NEW c \in Chats, Publish(c), c \in hook.listening,
         Cardinality(Subscribers(c)) = 1, Writing(c)
  PROVE  /\ stream'[c] # <<>> => Writing(c)'
         /\ c \in finished' => Whole(c)'
<1> DEFINE chunk == Head(stream[c])
<1>1. /\ hook \in Hook /\ spoken \in [Chats -> Nat] /\ stream \in [Chats -> Seq(Chunks)] /\ EndsOnce(c)
  BY DEF StreamInv, StreamTypeOK, EndsInv
<1>2. /\ stream[c] # <<>> /\ stream' = [stream EXCEPT ![c] = Tail(@)] /\ UNCHANGED phase
      /\ spoken' = IF chunk = "delta" THEN [spoken EXCEPT ![c] = @ + 1] ELSE spoken
      /\ c \in finished' => c \in finished \/ chunk = "done"
  BY DEF Publish
<1>3. c \notin finished
  BY <1>1, <1>2 DEF EndsOnce
<1>4. chunk \in {"done", "error"} => stream'[c] = <<>>
  BY <1>1, <1>2, ShorterStream DEF StreamInv
<1>5. /\ chunk \in Chunks /\ hook' \in Hook /\ SameListeners(hook', hook)
      /\ chunk \notin {"done", "error"} => hook'.streaming = hook.streaming
      /\ IsLast(hook.messages, c) => IsLast(hook'.messages, c)
      /\ blanked' \in {blanked, blanked \cup {c}}
  BY ReceivedEffect DEF StreamInv
<1>6. PICK prompt \in BOOLEAN :
        /\ hook' = HandleChunk(hook, c, chunk, prompt)
        /\ ~prompt => chunk \in {"done", "mutation_pending"}
        /\ ~prompt /\ Kept => c \in blanked'
  BY ReceivedEffect DEF StreamInv
<1> DEFINE ms == hook.messages
           k == spoken[c]
           ns == hook'.messages
           l == spoken'[c]
<1>7. IsLast(ms, c) /\ Texts(c, ms, hook.content, k) /\ (c \in blanked \/ Conveyed(c, ms, k))
  BY DEF Writing, Placed
<1>8. k \in Nat /\ l = IF chunk = "delta" THEN k + 1 ELSE k
  BY <1>1, <1>2
<1>9. c \notin blanked' => c \notin blanked /\ (prompt \/ ~Kept)
  BY <1>5, <1>6
\* A message that is not the last.
<1>11. ASSUME chunk \notin {"done", "error"}, Texts(c, ns, hook'.content, l),
              c \notin blanked' /\ Conveyed(c, ms, k) => Conveyed(c, ns, l)
       PROVE  Writing(c)'
  <2>1. Placed(c)' /\ hook'.unsubscribe = c
    BY <1>5, <1>7, <1>11 DEF Writing, Placed, SameListeners
  <2> QED
    BY <1>7, <1>9, <1>11, <2>1 DEF Writing
<1>12. CASE chunk = "citations"
  <2>1. hook' = Show(hook, hook.content)
    BY <1>6, <1>12 DEF HandleChunk
  <2>2. hook.content \in Seq(Piece)
    BY <1>1, HookFields
  <2>3. Texts(c, ns, hook'.content, k) /\ (Conveyed(c, ms, k) => Conveyed(c, ns, k))
    <3> HIDE DEF k, ms
    <3>1. \A g : g = Show(hook, hook.content) =>
            Texts(c, g.messages, g.content, k) /\ (Conveyed(c, ms, k) => Conveyed(c, g.messages, k))
      BY <1>1, <1>7, <1>8, <2>2, ShownText DEF k, ms
    <3> QED
      BY <2>1, <3>1
  <2>4. l = k
    BY <1>8, <1>12
  <2> QED
    BY <1>2, <1>3, <1>11, <1>12, <2>3, <2>4
<1>13. CASE chunk = "delta"
  <2> DEFINE more == Append(hook.content, <<c, k + 1>>)
  <2>1. hook' = Show(hook, more)
    BY <1>6, <1>13 DEF HandleChunk, Delta
  <2>2. more \in Seq(Piece)
    BY <1>1, <1>8, HookFields DEF Piece
  <2>3. Texts(c, ns, hook'.content, k + 1) /\ (Conveyed(c, ms, k) => Conveyed(c, ns, k + 1))
    <3>1. more = Append(hook.content, <<c, k + 1>>)
      OBVIOUS
    <3>2. k \in Nat /\ k + 1 \in Nat
      BY <1>8
    <3> HIDE DEF more, k, ms
    <3>3. \A g : g = Show(hook, more) =>
            Texts(c, g.messages, g.content, k + 1) /\ (Conveyed(c, ms, k) => Conveyed(c, g.messages, k + 1))
      BY <1>1, <1>7, <2>2, <3>1, <3>2, ShownText DEF ms
    <3> QED
      BY <2>1, <3>3
  <2>4. l = k + 1
    BY <1>8, <1>13
  <2> QED
    BY <1>2, <1>3, <1>11, <1>13, <2>3, <2>4
<1>14. CASE chunk = "mutation_pending"
  <2>1. hook' = MutationPending(hook, c, prompt)
    BY <1>6, <1>14 DEF HandleChunk
  <2>2. /\ Texts(c, ns, hook'.content, k)
        /\ prompt \/ hook.content = <<>> => (Conveyed(c, ms, k) => Conveyed(c, ns, k))
    BY <1>1, <1>7, <1>8, <2>1, PendingText
  <2>3. c \notin blanked' => prompt \/ hook.content = <<>>
    BY <1>9 DEF Kept
  <2> QED
    BY <1>2, <1>3, <1>8, <1>11, <1>14, <2>2, <2>3
<1>15. CASE chunk \in {"mutation_preview", "mutation_error"}
  <2>1. PICK pending \in SUBSET Pending(hook), kind \in {"preview", "error"} : hook' = Replace(hook, c, pending, kind)
    BY <1>6, <1>15 DEF HandleChunk, MutationPreview, MutationError
  <2>2. Texts(c, ns, hook'.content, k) /\ (Conveyed(c, ms, k) => Conveyed(c, ns, k))
    BY <1>1, <1>7, <1>8, <2>1, ReplaceText
  <2> QED
    BY <1>2, <1>3, <1>8, <1>11, <1>15, <2>2
<1>16. CASE chunk = "done"
  <2>1. hook' = Done(hook, prompt)
    BY <1>6, <1>16 DEF HandleChunk
  <2>2. /\ \A i \in DOMAIN ns : ns[i].of = c => InOrder(c, ns[i].text)
        /\ InTurn(c, ns)
        /\ prompt \/ hook.content = <<>> => (Conveyed(c, ms, k) => Conveyed(c, ns, k))
    BY <1>1, <1>7, <1>8, <2>1, DoneText
  <2>3. c \notin blanked' => prompt \/ hook.content = <<>>
    BY <1>9, <1>16 DEF Kept
  <2>4. Whole(c)'
    BY <1>7, <1>8, <1>9, <1>16, <2>2, <2>3 DEF Whole
  <2> QED
    BY <1>4, <1>16, <2>4
<1>17. CASE chunk = "error"
  BY <1>2, <1>3, <1>4, <1>17
<1> QED
  BY <1>5, <1>12, <1>13, <1>14, <1>15, <1>16, <1>17 DEF Chunks, MutationChunks

LEMMA PublishWindow ==
  ASSUME StreamInv, NEW c \in Chats, Publish(c)
  PROVE  WindowInv'
<1> DEFINE chunk == Head(stream[c])
           n == Cardinality(Subscribers(c))
<1>1. /\ hook \in Hook /\ hook.messages \in Seq(Bubble)
      /\ spoken \in [Chats -> Nat] /\ stream \in [Chats -> Seq(Chunks)] /\ EndsOnce(c)
  BY HookFields DEF StreamInv, StreamTypeOK, EndsInv
<1>2. /\ stream[c] # <<>> /\ stream' = [stream EXCEPT ![c] = Tail(@)] /\ UNCHANGED phase
      /\ spoken' = IF chunk = "delta" THEN [spoken EXCEPT ![c] = @ + 1] ELSE spoken
      /\ finished' = IF chunk = "done" /\ n > 0 /\ c \in hook.listening THEN finished \cup {c} ELSE finished
      /\ disturbed' = IF n = 1 THEN disturbed ELSE disturbed \cup {c}
  BY DEF Publish
<1>3. /\ n \in Nat /\ chunk \in Chunks /\ hook' \in Hook /\ SameListeners(hook', hook)
      /\ n = 0 \/ c \notin hook.listening => hook' = hook
      /\ chunk \notin {"done", "error"} => hook'.streaming = hook.streaming
      /\ IsLast(hook.messages, c) => IsLast(hook'.messages, c) /\ WroteOnly(c, hook'.messages, hook.messages)
      /\ blanked' \in {blanked, blanked \cup {c}}
  BY ReceivedEffect DEF StreamInv
<1>4. c \notin finished /\ \A d \in Chats \ {c} : stream'[d] = stream[d] /\ spoken'[d] = spoken[d]
  BY <1>1, <1>2 DEF EndsOnce
<1>5. CASE n = 0 \/ c \notin hook.listening
  <2>1. hook' = hook /\ finished' = finished
    BY <1>2, <1>3, <1>5
  <2>2. c \in disturbed' \/ ~Active(c)
    <3>1. CASE phase[c] \in Early
      <4>1. Subscribers(c) = {}
        BY <3>1 DEF StreamInv, UnheardInv, Unheard, Subscribers
      <4>2. n = 0
        BY <4>1, FS_EmptySet
      <4> QED
        BY <1>2, <4>2
    <3>2. CASE phase[c] \notin Early /\ c \notin hook.listening
      BY <3>2 DEF Active, Early
    <3>3. CASE n = 0
      BY <1>2, <3>3
    <3> QED
      BY <1>5, <3>1, <3>2, <3>3
  <2>3. disturbed \subseteq disturbed' /\ blanked \subseteq blanked'
    BY <1>2, <1>3
  <2> QED
    BY <1>2, <1>4, <2>1, <2>2, <2>3, UnreadWindow
<1>6. CASE n # 0 /\ c \in hook.listening
  <2> SUFFICES ASSUME NEW x \in Chats PROVE WindowGood(x)'
    BY DEF WindowInv
  <2>1. hook'.messages \in Seq(Bubble) /\ hook'.listening = hook.listening /\ hook'.loading = hook.loading
    BY <1>3, HookFields DEF SameListeners
  <2>2. Active(c) /\ phase[c] \notin Early
    BY <1>2, <1>6 DEF Active, StreamInv, UnheardInv, Unheard
  <2>3. \A d \in Chats : Active(d)' => Active(d)
    BY <1>2, <1>4, <2>1, <2>2 DEF Active
  <2>4. Active(c)' => stream'[c] # <<>> /\ chunk \notin {"done", "error"}
    <3>1. stream'[c] = Tail(stream[c])
      BY <1>1, <1>2
    <3>2. Active(c)' => stream'[c] # <<>>
      BY <1>2, <2>2 DEF Active, Early
    <3>3. chunk \in {"done", "error"} => Tail(stream[c]) = <<>>
      BY <1>1, <1>2, ShorterStream DEF StreamInv
    <3> QED
      BY <3>1, <3>2, <3>3
  <2>5. ASSUME c \notin disturbed'
        PROVE  Alone(c) /\ (stream'[c] # <<>> => Writing(c)') /\ (c \in finished' => Whole(c)')
    <3>1. n = 1 /\ c \notin disturbed
      BY <1>2, <2>5
    <3>2. Alone(c) /\ Writing(c)
      BY <2>2, <3>1 DEF StreamInv, WindowInv, WindowGood
    <3> QED
      BY <1>6, <3>1, <3>2, HeardWriting
  <2>6. ASSUME Active(x)', x \notin disturbed' PROVE Alone(x)' /\ Writing(x)'
    <3>1. Active(x) /\ x \notin disturbed
      BY <1>2, <2>3, <2>6
    <3>2. Alone(x)
      BY <3>1 DEF StreamInv, WindowInv, WindowGood
    <3>3. x = c
      BY <2>2, <3>2 DEF Alone
    <3> QED
      BY <2>3, <2>4, <2>5, <2>6, <3>2, <3>3 DEF Alone
  <2>7. ASSUME x \in finished', x \notin disturbed', x # c
        PROVE  Whole(x)' /\ \A d \in Chats : Active(d)' => Alone(d)' /\ Placed(d)'
    <3>1. x \in finished /\ x \notin disturbed
      BY <1>2, <2>7
    <3>2. Whole(x) /\ Alone(c) /\ Placed(c)
      BY <2>2, <3>1 DEF StreamInv, WindowInv, WindowGood
    <3>3. IsLast(hook'.messages, c) /\ WroteOnly(c, hook'.messages, hook.messages)
      BY <1>3, <3>2 DEF Placed
    <3>4. SameFor(x, hook'.messages, hook.messages)
      <4> DEFINE ns == hook'.messages
                 ms == hook.messages
      <4>1. /\ DOMAIN ms = 1..Len(ms) /\ DOMAIN ns = 1..Len(ns) /\ Len(ns) >= Len(ms)
            /\ Len(ns) \in Nat /\ Len(ms) \in Nat
            /\ \A i \in 1..Len(ms) : ns[i].of = ms[i].of
            /\ \A i \in Len(ms) + 1 .. Len(ns) : ns[i].of = c
            /\ \A i \in 1..Len(ms) : ms[i].of # c => ns[i].text = ms[i].text
        BY <1>1, <2>1, <3>3 DEF WroteOnly, AddedOnly, SameBubbles, SameTexts
      <4> HIDE DEF ns, ms
      <4>2. \A i : i \in 1..Len(ns) => i \in 1..Len(ms) \/ i \in Len(ms) + 1 .. Len(ns)
        BY <4>1
      <4>3. \A i : i \in 1..Len(ms) => i \in 1..Len(ns)
        BY <4>1
      <4>4. SameFor(x, ns, ms)
        BY <2>7, <4>1, <4>2, <4>3 DEF SameFor
      <4> QED
        BY <4>4 DEF ns, ms
    <3>5. Whole(x)'
      <4>1. spoken'[x] = spoken[x] /\ (x \in blanked => x \in blanked')
        BY <1>3, <1>4, <2>7
      <4> QED
        BY <1>1, <2>1, <3>2, <3>4, <4>1, WholeKept
    <3>6. ASSUME NEW d \in Chats, Active(d)' PROVE Alone(d)' /\ Placed(d)'
      <4>1. d = c
        BY <2>3, <3>2, <3>6 DEF Alone
      <4>2. hook'.streaming = hook.streaming
        BY <1>3, <2>4, <3>6, <4>1
      <4> QED
        BY <2>1, <2>3, <3>2, <3>3, <4>1, <4>2 DEF Alone, Placed
    <3> QED
      BY <3>5, <3>6
  <2>8. ASSUME x \in finished', x \notin disturbed', x = c
        PROVE  Whole(x)' /\ \A d \in Chats : ~Active(d)'
    <3>1. Alone(c) /\ Whole(c)'
      BY <2>5, <2>8
    <3>2. chunk = "done"
      BY <1>2, <1>4, <2>8
    <3> QED
      BY <2>3, <2>4, <2>8, <3>1, <3>2 DEF Alone
  <2> QED
    BY <2>6, <2>7, <2>8 DEF WindowGood
<1> QED
  BY <1>5, <1>6

LEMMA LoseMessageWindow ==
  ASSUME StreamInv, NEW c \in Chats, LoseMessage(c)
  PROVE  WindowInv'
<1>1. /\ stream \in [Chats -> Seq(Chunks)] /\ spoken \in [Chats -> Nat] /\ EndsOnce(c)
  BY DEF StreamInv, StreamTypeOK, EndsInv
<1>2. /\ stream[c] # <<>> /\ stream' = [stream EXCEPT ![c] = Tail(@)]
      /\ spoken' = IF Head(stream[c]) = "delta" THEN [spoken EXCEPT ![c] = @ + 1] ELSE spoken
      /\ disturbed' = disturbed \cup {c} /\ UNCHANGED <<phase, hook, finished, blanked>>
  BY DEF LoseMessage
<1>3. c \notin finished'
  BY <1>1, <1>2 DEF EndsOnce
<1>4. \A d \in Chats \ {c} : stream'[d] = stream[d] /\ spoken'[d] = spoken[d]
  BY <1>1, <1>2
<1> QED
  BY <1>2, <1>3, <1>4, UnreadWindow

LEMMA AbandonWindow ==
  ASSUME StreamInv, Abandon, UNCHANGED <<stream, spoken, finished, blanked, disturbed>>
  PROVE  WindowInv'
<1>1. WaitingChats \in SUBSET {c \in Chats : phase[c] \in {"posting", "connecting"}} /\ Cardinality(WaitingChats) \in Nat
  BY WaitingChatsFinite DEF StreamInv, UnheardInv, WaitingKnown, WaitingChats
<1>2. \A c \in Chats : phase'[c] = IF c \in WaitingChats THEN "ended" ELSE phase[c]
  BY DEF Abandon, Moved
<1>3. CASE WaitingChats = {}
  <2>1. hook' = hook
    BY <1>3 DEF Abandon
  <2>2. phase' = phase
    BY <1>3 DEF Abandon, Moved, StreamInv, StreamTypeOK
  <2> QED
    BY <2>1, <2>2, WindowSame DEF StreamInv
<1>4. CASE WaitingChats # {}
  <2>1. hook' = GiveUp(hook, WaitingChats)
    BY <1>4 DEF Abandon
  <2> DEFINE chats == WaitingChats
  <2> HIDE DEF chats
  <2> QED
    BY <1>1, <1>2, <1>4, <2>1, GivenUpWindow DEF chats
<1> QED
  BY <1>3, <1>4

LEMMA WindowKept == StreamInv /\ [StreamNext]_streamVars => WindowInv'
<1> SUFFICES ASSUME StreamInv, [StreamNext]_streamVars PROVE WindowInv'
  OBVIOUS
<1>1. CASE \E c \in Chats : SendMessage(c)
  BY <1>1, SendMessageWindow
<1>2. CASE CloseWindow
  BY <1>2, CloseWindowWindow
<1>3. CASE \E c \in Chats : LoseMessage(c)
  BY <1>3, LoseMessageWindow
<1>4. CASE \E s \in Sockets : Refuse(s) \/ TimeOut(s)
  <2>1. /\ UNCHANGED <<stream, spoken, finished, blanked, disturbed>>
        /\ Abandon \/ UNCHANGED <<phase, hook>>
    BY <1>4 DEF Refuse, TimeOut
  <2> QED
    BY <2>1, AbandonWindow, WindowSame DEF StreamInv
<1>5. CASE \E c \in Chats : ChatRefused(c)
  <2> PICK c \in Chats : ChatRefused(c)
    BY <1>5
  <2>1. /\ phase[c] = "posting" /\ phase' = [phase EXCEPT ![c] = "ended"] /\ hook' = GiveUp(hook, {c})
        /\ UNCHANGED <<stream, spoken, finished, blanked, disturbed>>
    BY DEF ChatRefused
  <2>2. \A d \in Chats : phase'[d] = IF d \in {c} THEN "ended" ELSE phase[d]
    BY <2>1 DEF StreamInv, StreamTypeOK
  <2>3. {c} # {} /\ {c} \in SUBSET {d \in Chats : phase[d] \in {"posting", "connecting"}}
    BY <2>1
  <2>4. Cardinality({c}) \in Nat
    <3>1. Cardinality({c}) = 1
      BY FS_Singleton
    <3> QED
      BY <3>1
  <2> DEFINE chats == {c}
  <2> HIDE DEF chats
  <2> QED
    BY <2>1, <2>2, <2>3, <2>4, GivenUpWindow DEF chats
<1>6. CASE \E c \in Chats : ChatStarted(c) \/ Publish(c)
  BY <1>6, ChatStartedWindow, PublishWindow
<1>7. CASE \E s \in Sockets : Accept(s)
  BY <1>7, AcceptWindow
<1>8. CASE StopStreams
  BY <1>8, StopStreamsWindow
<1>9. CASE \/ \E j \in Jobs : WatchReindex(j)
           \/ \E s \in Sockets : LoseConnection(s) \/ Receive(s)
           \/ Reconnect \/ UNCHANGED streamVars
  <2>1. UNCHANGED <<stream, spoken, phase, hook, finished, blanked, disturbed>>
    BY <1>9 DEF WatchReindex, LoseConnection, Receive, Reconnect, streamVars
  <2> QED
    BY <2>1, WindowSame DEF StreamInv
<1> QED
  BY <1>1, <1>2, <1>3, <1>4, <1>5, <1>6, <1>7, <1>8, <1>9 DEF StreamNext, StreamUser, StreamFault, StreamStep

LEMMA StreamInvInit == StreamInit => StreamInv
BY StreamInitTypes, UnheardInit, EndsInit, WindowInit DEF StreamInv

LEMMA StreamInvKept == StreamInv /\ [StreamNext]_streamVars => StreamInv'
BY StreamTypesKept, UnheardKept, EndsKept, WindowKept DEF StreamInv

\* The websocket service, its sockets, the hook and the answers under way keep
\* their types, whatever arrives, is lost, times out or is closed.
THEOREM StreamTypes == StreamSpec => []StreamTypeOK
<1>1. StreamInv => StreamTypeOK
  BY DEF StreamInv
<1> QED
  BY <1>1, StreamInvInit, StreamInvKept, PTL DEF StreamSpec

\* An answer that the page takes for complete is on the page: in the order of
\* its parts, between the question and whatever comes after, with the text of
\* every message but those that a late update of the page blanked.
THEOREM StreamWhole == StreamSpec => []FinishedIsWhole
<1>1. StreamInv => FinishedIsWhole
  BY WindowWhole DEF StreamInv
<1> QED
  BY <1>1, StreamInvInit, StreamInvKept, PTL DEF StreamSpec
-----------------------------------------------------------------------------
(* The types of the accounts.  What a request has in hand depends on what   *)
(* it does, and the ids of an account's second factors have a bound: a new  *)
(* one is given the next number.                                            *)

Purposeful(q) ==
  /\ q.op \in {"register", "setup"} => q.item \in Emails
  /\ q.op \in {"signin", "delete_passkey"} => q.item \in Credentials
  /\ q.op \in {"use_key", "delete_key"} => q.item \in Keys
  /\ q.op = "callback" => q.item \in Subjects
  /\ q.op = "configure" => q.item \in Providers
  /\ q.op \in {"enrol", "unlink", "mfa_setup", "mfa_verify", "mfa_remove", "mfa_codes"}
       => q.account \in AccountIds

Asked == {q \in Request : Purposeful(q)}
RequestsTyped == requests \in [Requests -> Asked \cup {Fresh, Ended}]

Numbered(methods) == \E n \in Nat : \A m \in methods : m[1] <= n
FactorsTyped == mfa \in [AccountIds -> SecondFactor] /\ \A a \in AccountIds : Numbered(mfa[a].methods)

RowsTyped ==
  /\ DOMAIN accounts \subseteq AccountIds
  /\ \A a \in DOMAIN accounts : accounts[a] \in Account
  /\ passkeys \subseteq Credentials \X AccountIds
  /\ identities \subseteq Subjects \X AccountIds
  /\ keys \subseteq Keys \X AccountIds
  /\ spent \subseteq AccountIds \cup Credentials \cup Keys

SettingsTyped == settings \in [Providers -> Nat] /\ domain \in BOOLEAN

AccountsTyped ==
  /\ RowsTyped /\ RequestsTyped /\ FactorsTyped /\ SettingsTyped
  /\ challenge \in [AccountIds -> Requests \cup {None}]

LEMMA AccountsTypesMeant == AccountsTyped /\ SoundAccounts => AccountsTypeOK
<1> SUFFICES ASSUME AccountsTyped, SoundAccounts PROVE AccountsTypeOK
  OBVIOUS
<1>1. \A r \in Requests : requests[r] \in Request \cup {Fresh, Ended}
  BY DEF AccountsTyped, RequestsTyped, Asked
<1> QED
  BY <1>1 DEF AccountsTyped, RowsTyped, FactorsTyped, SettingsTyped, SoundAccounts, AccountsTypeOK

LEMMA AccountsTypedStart == AccountsInit => AccountsTyped
<1> SUFFICES ASSUME AccountsInit PROVE AccountsTyped
  OBVIOUS
<1>1. RequestsTyped /\ domain \in BOOLEAN /\ challenge \in [AccountIds -> Requests \cup {None}] /\ spent = {}
  BY DEF AccountsInit, RequestsTyped
<1>2. PICK start \in {EmptyPlatform, Enrolled} :
        /\ accounts = start.accounts /\ passkeys = start.passkeys
        /\ identities = start.identities /\ keys = start.keys
        /\ mfa = start.mfa /\ settings = start.settings
  BY DEF AccountsInit
<1>3. CASE start = EmptyPlatform
  <2>1. /\ accounts = [a \in {} |-> None] /\ passkeys = {} /\ identities = {} /\ keys = {}
        /\ mfa = [a \in AccountIds |-> NoFactor] /\ settings = [p \in Providers |-> 0]
    BY <1>2, <1>3 DEF EmptyPlatform
  <2>2. DOMAIN accounts = {}
    BY <2>1
  <2>3. NoFactor \in SecondFactor /\ Numbered(NoFactor.methods)
    BY DEF NoFactor, SecondFactor, Numbered
  <2>4. FactorsTyped
    BY <2>1, <2>3 DEF FactorsTyped
  <2> QED
    BY <1>1, <2>1, <2>2, <2>4 DEF AccountsTyped, RowsTyped, SettingsTyped
<1>4. CASE start = Enrolled
  <2>1. RowsTyped /\ SettingsTyped /\ mfa \in [AccountIds -> SecondFactor]
    BY <1>1, <1>2, <1>4, EnrolledTypesAssumption DEF RowsTyped, SettingsTyped
  <2>2. ASSUME NEW a \in AccountIds PROVE Numbered(mfa[a].methods)
    <3> DEFINE methods == mfa[a].methods
               ids == {m[1] : m \in methods}
    <3>1. methods \in SUBSET (Nat \X Statuses)
      BY <2>1 DEF SecondFactor
    <3>2. ids # {} => \E last \in ids : \A id \in ids : id <= last
      BY <1>2, <1>4, EnrolledTypesAssumption
    <3> HIDE DEF methods
    <3>3. CASE methods = {}
      BY <3>3 DEF Numbered, methods
    <3>4. CASE methods # {}
      <4>1. PICK last \in ids : \A id \in ids : id <= last
        BY <3>2, <3>4
      <4>2. last \in Nat /\ \A m \in methods : m[1] <= last
        BY <3>1, <4>1
      <4> QED
        BY <4>2 DEF Numbered, methods
    <3> QED
      BY <3>3, <3>4
  <2> QED
    BY <1>1, <2>1, <2>2 DEF AccountsTyped, FactorsTyped
<1> QED
  BY <1>2, <1>3, <1>4
-----------------------------------------------------------------------------
\* What the helpers do to the requests.
LEMMA EntersTyped ==
  ASSUME RequestsTyped, NEW r \in Requests, NEW q \in Asked, Enter(r, q)
  PROVE  RequestsTyped'
BY DEF RequestsTyped, Enter

LEMMA EndsTyped == ASSUME RequestsTyped, NEW r \in Requests, End(r) PROVE RequestsTyped'
BY DEF RequestsTyped, End

\* A request that is under way is one that was asked for.
LEMMA UnderWay ==
  ASSUME RequestsTyped, NEW r \in Requests, NEW op, NEW at, Is(r, op, at)
  PROVE  requests[r] \in Request /\ Purposeful(requests[r]) /\ requests[r].op = op
BY DEF RequestsTyped, Asked, Is

LEMMA MovesTyped ==
  ASSUME RequestsTyped, NEW r \in Requests, NEW at \in {"asked", "read", "second", "recorded"},
         NEW a \in AccountIds \cup {None}, NEW seen \in BOOLEAN,
         requests[r] \in Request, Purposeful(requests[r]),
         requests[r].op \in {"enrol", "unlink", "mfa_setup", "mfa_verify", "mfa_remove", "mfa_codes"}
           => a \in AccountIds,
         Move(r, at, a, seen)
  PROVE  RequestsTyped'
<1> DEFINE q == requests[r]
           p == [q EXCEPT !.at = at, !.account = a, !.seen = seen]
<1>1. q \in Request /\ Purposeful(q)
  OBVIOUS
<1>2. requests' = [requests EXCEPT ![r] = p]
  BY DEF RequestsTyped, Move
<1>3. p \in Request /\ p.op = q.op /\ p.item = q.item /\ p.account = a
  <2> HIDE DEF q
  <2> QED
    BY <1>1 DEF Request
<1>4. Purposeful(p)
  BY <1>1, <1>3 DEF Purposeful
<1>5. p \in Asked
  BY <1>3, <1>4 DEF Asked
<1> HIDE DEF p
<1> QED
  BY <1>2, <1>5 DEF RequestsTyped

\* The steps that write no more than their own request.
SameTyped == UNCHANGED <<accounts, passkeys, identities, keys, mfa, settings, domain, spent>>

LEMMA RequestsOnly ==
  ASSUME AccountsTyped, SameTyped, RequestsTyped', challenge' \in [AccountIds -> Requests \cup {None}]
  PROVE  AccountsTyped'
<1>1. RowsTyped' /\ SettingsTyped'
  BY DEF AccountsTyped, SameTyped, RowsTyped, SettingsTyped
<1>2. FactorsTyped'
  BY DEF AccountsTyped, SameTyped, FactorsTyped, Numbered
<1> QED
  BY <1>1, <1>2 DEF AccountsTyped

LEMMA LookingTyped ==
  ASSUME AccountsTyped, NEW r \in Requests,
         \/ \E email \in Emails : Register(r, email) \/ SetupOptions(r, email)
         \/ \E a \in AccountIds :
              \/ EnrolOptions(r, a) \/ SetupMfa(r, a) \/ VerifyMfa(r, a)
              \/ RemoveMfa(r, a) \/ RegenerateBackupCodes(r, a)
              \/ \E p \in Providers : UnlinkOAuthAccount(r, a, p)
         \/ \E x \in Credentials : DeletePasskey(r, x) \/ SignInOptions(r, x)
         \/ \E x \in Keys : AuthenticateApiKey(r, x) \/ DeleteApiKey(r, x)
         \/ \E s \in Subjects : InitOAuth(r, s)
         \/ \E p \in Providers : Configure(r, p)
  PROVE  AccountsTyped'
<1>1. /\ SameTyped
      /\ challenge' \in {challenge} \cup {[challenge EXCEPT ![a] = r] : a \in AccountIds}
      /\ \E q \in Asked : Enter(r, q)
  <2> DEFINE Begun(op, at, a, x, seen) ==
        [op |-> op, at |-> at, account |-> a, item |-> x, seen |-> seen, methods |-> {}]
      Looked(op, a, methods) ==
        [op |-> op, at |-> "read", account |-> a, item |-> None, seen |-> TRUE, methods |-> methods]
  <2>1. ASSUME NEW email \in Emails, Register(r, email) \/ SetupOptions(r, email)
        PROVE  /\ SameTyped /\ challenge' = challenge
               /\ \E q \in Asked : Enter(r, q)
    <3>1. PICK op \in {"register", "setup"}, at \in {"asked", "read"}, seen \in BOOLEAN :
            Begin(r, op, at, None, email, seen)
      BY <2>1 DEF Register, SetupOptions
    <3>2. Begun(op, at, None, email, seen) \in Asked
      BY <3>1 DEF Asked, Request, Purposeful, Ops, Items
    <3> QED
      BY <2>1, <3>1, <3>2 DEF Begin, Register, SetupOptions, SameTyped
  <2>2. ASSUME NEW a \in AccountIds, EnrolOptions(r, a)
        PROVE  /\ SameTyped /\ challenge' = [challenge EXCEPT ![a] = r]
               /\ \E q \in Asked : Enter(r, q)
    <3>1. Begun("enrol", "asked", a, None, FALSE) \in Asked
      BY DEF Asked, Request, Purposeful, Ops
    <3> QED
      BY <2>2, <3>1 DEF Begin, EnrolOptions, SameTyped
  <2>3. ASSUME NEW a \in AccountIds, NEW p \in Providers, UnlinkOAuthAccount(r, a, p)
        PROVE  /\ SameTyped /\ challenge' = challenge
               /\ \E q \in Asked : Enter(r, q)
    <3>1. Begun("unlink", "read", a, p, FALSE) \in Asked
      BY DEF Asked, Request, Purposeful, Ops, Items
    <3> QED
      BY <2>3, <3>1 DEF Begin, UnlinkOAuthAccount, SameTyped
  <2>4. ASSUME NEW a \in AccountIds,
               SetupMfa(r, a) \/ VerifyMfa(r, a) \/ RemoveMfa(r, a) \/ RegenerateBackupCodes(r, a)
        PROVE  /\ SameTyped /\ challenge' = challenge
               /\ \E q \in Asked : Enter(r, q)
    <3>1. PICK op \in {"mfa_setup", "mfa_verify", "mfa_remove", "mfa_codes"}, methods \in SUBSET mfa[a].methods :
            BeginMfa(r, op, a, methods)
      <4>1. \A status : Latest(a, status) \in SUBSET mfa[a].methods
        BY DEF Latest
      <4> QED
        BY <2>4, <4>1 DEF SetupMfa, VerifyMfa, RemoveMfa, RegenerateBackupCodes
    <3>2. methods \in SUBSET (Nat \X Statuses)
      BY DEF AccountsTyped, FactorsTyped, SecondFactor
    <3>3. Looked(op, a, methods) \in Asked
      BY <3>1, <3>2 DEF Asked, Request, Purposeful, Ops
    <3> QED
      BY <2>4, <3>1, <3>3
      DEF BeginMfa, SetupMfa, VerifyMfa, RemoveMfa, RegenerateBackupCodes, MfaUnchanged, SameTyped
  <2>5. ASSUME NEW x \in Credentials, DeletePasskey(r, x) \/ SignInOptions(r, x)
        PROVE  /\ SameTyped /\ challenge' = challenge
               /\ \E q \in Asked : Enter(r, q)
    <3>1. PICK op \in {"delete_passkey", "signin"}, at \in {"asked", "read"} :
            Begin(r, op, at, None, x, FALSE)
      BY <2>5 DEF DeletePasskey, SignInOptions
    <3>2. Begun(op, at, None, x, FALSE) \in Asked
      BY <3>1 DEF Asked, Request, Purposeful, Ops, Items
    <3> QED
      BY <2>5, <3>1, <3>2 DEF Begin, DeletePasskey, SignInOptions, SameTyped
  <2>6. ASSUME NEW x \in Keys, AuthenticateApiKey(r, x) \/ DeleteApiKey(r, x)
        PROVE  /\ SameTyped /\ challenge' = challenge
               /\ \E q \in Asked : Enter(r, q)
    <3>1. PICK op \in {"use_key", "delete_key"}, seen \in BOOLEAN :
            Begin(r, op, "read", None, x, seen)
      BY <2>6 DEF AuthenticateApiKey, DeleteApiKey
    <3>2. Begun(op, "read", None, x, seen) \in Asked
      BY <3>1 DEF Asked, Request, Purposeful, Ops, Items
    <3> QED
      BY <2>6, <3>1, <3>2 DEF Begin, AuthenticateApiKey, DeleteApiKey, SameTyped
  <2>7. ASSUME NEW s \in Subjects, InitOAuth(r, s)
        PROVE  /\ SameTyped /\ challenge' = challenge
               /\ \E q \in Asked : Enter(r, q)
    <3>1. Begun("callback", "asked", None, s, FALSE) \in Asked
      BY DEF Asked, Request, Purposeful, Ops, Items
    <3> QED
      BY <2>7, <3>1 DEF Begin, InitOAuth, SameTyped
  <2>8. ASSUME NEW p \in Providers, Configure(r, p)
        PROVE  /\ SameTyped /\ challenge' = challenge
               /\ \E q \in Asked : Enter(r, q)
    <3>1. (settings[p] > 0) \in BOOLEAN
      BY DEF AccountsTyped, SettingsTyped
    <3> DEFINE seen == settings[p] > 0
    <3>2. Begin(r, "configure", "read", None, p, seen)
      BY <2>8 DEF Configure
    <3> HIDE DEF seen
    <3>3. Begun("configure", "read", None, p, seen) \in Asked
      <4>1. seen \in BOOLEAN
        BY <3>1 DEF seen
      <4> QED
        BY <4>1 DEF Asked, Request, Purposeful, Ops, Items
    <3> QED
      BY <2>8, <3>2, <3>3 DEF Begin, Configure, SameTyped
  <2> QED
    BY <2>1, <2>2, <2>3, <2>4, <2>5, <2>6, <2>7, <2>8
<1>2. RequestsTyped'
  BY <1>1, EntersTyped DEF AccountsTyped
<1>3. challenge' \in [AccountIds -> Requests \cup {None}]
  BY <1>1 DEF AccountsTyped
<1> QED
  BY <1>1, <1>2, <1>3, RequestsOnly

LEMMA SecondLooksTyped ==
  ASSUME AccountsTyped, NEW r \in Requests,
         \/ VerifySetup(r) \/ VerifyEnrol(r) \/ VerifySignIn(r)
         \/ Touch(r) \/ Callback(r) \/ FindLink(r)
  PROVE  AccountsTyped'
<1> DEFINE q == requests[r]
<1>1. q \in Request /\ Purposeful(q)
  BY UnderWay DEF AccountsTyped, VerifySetup, VerifyEnrol, VerifySignIn, Touch, Callback, FindLink
<1>2. SameTyped /\ challenge' \in [AccountIds -> Requests \cup {None}]
  BY DEF AccountsTyped, SameTyped, VerifySetup, VerifyEnrol, VerifySignIn, Touch, Callback, FindLink
<1>3. CASE End(r)
  BY <1>2, <1>3, EndsTyped, RequestsOnly DEF AccountsTyped
<1>4. CASE ~End(r) /\ ~Callback(r)
  <2>1. \E at \in {"read", "second"}, a \in AccountIds \cup {None}, seen \in BOOLEAN :
          /\ Move(r, at, a, seen)
          /\ q.op = "enrol" => a = q.account
          /\ q.op \in {"setup", "enrol", "signin", "use_key", "callback"}
    <3>1. CASE VerifySetup(r) \/ VerifySignIn(r)
      BY <1>4, <3>1 DEF VerifySetup, VerifySignIn, Is
    <3>2. CASE VerifyEnrol(r)
      BY <1>1, <1>4, <3>2 DEF VerifyEnrol, Is, Request
    <3>3. CASE Touch(r)
      BY <1>4, <3>3 DEF Touch, Is
    <3>4. CASE FindLink(r)
      <4>1. (~LinkFree(q.item)) \in BOOLEAN /\ q.account \in AccountIds \cup {None}
        BY <1>1 DEF Request
      <4> QED
        BY <3>4, <4>1 DEF FindLink, Is
    <3> QED
      BY <1>4, <3>1, <3>2, <3>3, <3>4
  <2>2. PICK at \in {"read", "second"}, a \in AccountIds \cup {None}, seen \in BOOLEAN :
          /\ Move(r, at, a, seen)
          /\ q.op = "enrol" => a = q.account
          /\ q.op \in {"setup", "enrol", "signin", "use_key", "callback"}
    BY <2>1
  <2>3. q.op \in {"enrol", "unlink", "mfa_setup", "mfa_verify", "mfa_remove", "mfa_codes"} => a \in AccountIds
    BY <1>1, <2>2 DEF Purposeful
  <2>4. RequestsTyped'
    BY <1>1, <2>2, <2>3, MovesTyped DEF AccountsTyped
  <2> QED
    BY <1>2, <2>4, RequestsOnly
<1>5. CASE ~End(r) /\ Callback(r)
  <2> DEFINE s == q.item
             found == FindUserByOAuth(s) \cup (IF LinkFree(s) THEN With(UserInfo(s)) ELSE {})
             a == IF found = {} THEN None ELSE CHOOSE b \in found : TRUE
  <2>1. Is(r, "callback", "asked") /\ Move(r, "read", a, FALSE)
    BY <1>5 DEF Callback
  <2>2. found \subseteq AccountIds
    BY DEF FindUserByOAuth, Owner, With, Present, AccountsTyped, RowsTyped
  <2> HIDE DEF found
  <2>3. a \in AccountIds \cup {None}
    BY <2>2
  <2>4. q.op = "callback"
    BY <2>1 DEF Is
  <2> HIDE DEF a, q
  <2>5. RequestsTyped'
    BY <1>1, <2>1, <2>3, <2>4, MovesTyped DEF AccountsTyped, q
  <2> QED
    BY <1>2, <2>5, RequestsOnly
<1> QED
  BY <1>3, <1>4, <1>5

\* The steps that write rows.
LEMMA InsertTyped ==
  ASSUME RowsTyped, Room, NEW email \in Emails, NEW password \in BOOLEAN,
         NEW role \in {"owner", "administrator", "contributor"}, Insert(email, password, role)
  PROVE  /\ DOMAIN accounts' \subseteq AccountIds
         /\ \A a \in DOMAIN accounts' : accounts'[a] \in Account
         /\ NewId \in AccountIds
<1> DEFINE row == [email |-> email, password |-> password, role |-> role]
<1>1. row \in Account
  BY DEF Account
<1>2. NewId \in AccountIds
  BY DEF Room, NewId, FreeIds
<1>3. Present \subseteq AccountIds /\ \A a \in Present : accounts[a] \in Account
  BY DEF RowsTyped, Present
<1>4. accounts' = [b \in Present \cup {NewId} |-> IF b = NewId THEN row ELSE accounts[b]]
  BY DEF Insert
<1> HIDE DEF row
<1> QED
  BY <1>1, <1>2, <1>3, <1>4

LEMMA RowsWritten ==
  ASSUME AccountsTyped, RowsTyped', RequestsTyped',
         UNCHANGED <<mfa, settings, domain, challenge>>
  PROVE  AccountsTyped'
<1>1. FactorsTyped' /\ SettingsTyped'
  BY DEF AccountsTyped, FactorsTyped, Numbered, SettingsTyped
<1> QED
  BY <1>1 DEF AccountsTyped

LEMMA WritingTyped ==
  ASSUME AccountsTyped, NEW r \in Requests,
         \/ CommitRegister(r) \/ CommitSetup(r) \/ CommitEnrol(r) \/ CommitDeletePasskey(r)
         \/ CommitUse(r) \/ IssueTokens(r) \/ CommitDeleteApiKey(r) \/ CommitCallback(r) \/ CommitUnlink(r)
  PROVE  AccountsTyped'
<1> DEFINE q == requests[r]
<1>1. q \in Request /\ Purposeful(q) /\ RowsTyped
  BY UnderWay DEF AccountsTyped, CommitRegister, CommitSetup, CommitEnrol, CommitDeletePasskey,
                  CommitUse, IssueTokens, CommitDeleteApiKey, CommitCallback, CommitUnlink
<1>2. /\ UNCHANGED <<mfa, settings, domain, challenge>>
      /\ End(r) \/ (q.op = "signin" /\ Move(r, "recorded", None, TRUE))
  BY DEF CommitRegister, CommitSetup, CommitEnrol, CommitDeletePasskey,
         CommitUse, IssueTokens, CommitDeleteApiKey, CommitCallback, CommitUnlink, Is
<1>11. RequestsTyped'
  BY <1>1, <1>2, EndsTyped, MovesTyped DEF AccountsTyped
<1> SUFFICES RowsTyped'
  BY <1>2, <1>11, RowsWritten
<1>3. CASE CommitRegister(r)
  <2>1. q.item \in Emails
    BY <1>1, <1>3 DEF CommitRegister, Is, Purposeful
  <2>2. UNCHANGED accounts \/ \E role \in {"owner", "contributor"} : Insert(q.item, TRUE, role)
    BY <1>3 DEF CommitRegister
  <2>3. Room /\ UNCHANGED <<passkeys, identities, keys, spent>>
    BY <1>3 DEF CommitRegister
  <2> HIDE DEF q
  <2>4. CASE UNCHANGED accounts
    BY <1>1, <2>3, <2>4 DEF RowsTyped
  <2>5. CASE \E role \in {"owner", "contributor"} : Insert(q.item, TRUE, role)
    <3>1. PICK role \in {"owner", "contributor"} : Insert(q.item, TRUE, role)
      BY <2>5
    <3>2. DOMAIN accounts' \subseteq AccountIds /\ \A a \in DOMAIN accounts' : accounts'[a] \in Account
      BY <1>1, <2>1, <2>3, <3>1, InsertTyped
    <3> QED
      BY <1>1, <2>3, <3>2 DEF RowsTyped
  <2> QED
    BY <2>2, <2>4, <2>5
<1>4. CASE CommitSetup(r)
  <2>1. q.item \in Emails
    BY <1>1, <1>4 DEF CommitSetup, Is, Purposeful
  <2>2. \/ UNCHANGED <<accounts, passkeys>>
        \/ \E x \in Credentials : Insert(q.item, FALSE, "owner") /\ passkeys' = passkeys \cup {<<x, NewId>>}
    BY <1>4 DEF CommitSetup
  <2>3. Room /\ UNCHANGED <<identities, keys, spent>>
    BY <1>4 DEF CommitSetup
  <2> HIDE DEF q
  <2>4. CASE UNCHANGED <<accounts, passkeys>>
    BY <1>1, <2>3, <2>4 DEF RowsTyped
  <2>5. ASSUME NEW x \in Credentials, Insert(q.item, FALSE, "owner"), passkeys' = passkeys \cup {<<x, NewId>>}
        PROVE  RowsTyped'
    <3>1. /\ DOMAIN accounts' \subseteq AccountIds
          /\ \A a \in DOMAIN accounts' : accounts'[a] \in Account
          /\ NewId \in AccountIds
      BY <1>1, <2>1, <2>3, <2>5, InsertTyped
    <3> QED
      BY <1>1, <2>3, <2>5, <3>1 DEF RowsTyped
  <2> QED
    BY <2>2, <2>4, <2>5
<1>5. CASE CommitEnrol(r)
  BY <1>1, <1>5 DEF CommitEnrol, RowsTyped, Present
<1>6. CASE CommitDeletePasskey(r)
  <2>1. q.item \in Credentials
    BY <1>1, <1>6 DEF CommitDeletePasskey, Is, Purposeful
  <2> QED
    BY <1>1, <1>6, <2>1 DEF CommitDeletePasskey, RowsTyped
<1>7. CASE CommitUse(r)
  BY <1>1, <1>7 DEF CommitUse, RowsTyped
<1>12. CASE IssueTokens(r)
  BY <1>1, <1>12 DEF IssueTokens, RowsTyped
<1>8. CASE CommitDeleteApiKey(r)
  <2>1. q.item \in Keys
    BY <1>1, <1>8 DEF CommitDeleteApiKey, Is, Purposeful
  <2> QED
    BY <1>1, <1>8, <2>1 DEF CommitDeleteApiKey, RowsTyped
<1>9. CASE CommitCallback(r)
  <2>1. q.item \in Subjects
    BY <1>1, <1>9 DEF CommitCallback, Is, Purposeful
  <2>2. UserInfo(q.item) \in Emails
    BY <2>1, EmailOfAssumption DEF UserInfo
  <2>3. Room /\ UNCHANGED <<passkeys, keys, spent>>
    BY <1>9 DEF CommitCallback
  <2>4. \/ UNCHANGED <<accounts, identities>>
        \/ /\ Insert(UserInfo(q.item), FALSE, "contributor")
           /\ identities' \in {identities, identities \cup {<<q.item, NewId>>}}
        \/ /\ UNCHANGED accounts
           /\ q.account \in Present
           /\ identities' \in {identities, identities \cup {<<q.item, q.account>>}}
    BY <1>9 DEF CommitCallback
  <2> HIDE DEF q
  <2>5. CASE UNCHANGED <<accounts, identities>>
    BY <1>1, <2>3, <2>5 DEF RowsTyped
  <2>6. CASE /\ Insert(UserInfo(q.item), FALSE, "contributor")
             /\ identities' \in {identities, identities \cup {<<q.item, NewId>>}}
    <3>1. /\ DOMAIN accounts' \subseteq AccountIds
          /\ \A a \in DOMAIN accounts' : accounts'[a] \in Account
          /\ NewId \in AccountIds
      BY <1>1, <2>2, <2>3, <2>6, InsertTyped
    <3> QED
      BY <1>1, <2>1, <2>3, <2>6, <3>1 DEF RowsTyped
  <2>7. CASE /\ UNCHANGED accounts
             /\ q.account \in Present
             /\ identities' \in {identities, identities \cup {<<q.item, q.account>>}}
    BY <1>1, <2>1, <2>3, <2>7 DEF RowsTyped, Present
  <2> QED
    BY <2>4, <2>5, <2>6, <2>7
<1>10. CASE CommitUnlink(r)
  BY <1>1, <1>10 DEF CommitUnlink, RowsTyped
<1> QED
  BY <1>3, <1>4, <1>5, <1>6, <1>7, <1>8, <1>9, <1>10, <1>12

LEMMA SettingsWritten ==
  ASSUME AccountsTyped,
         \/ \E r \in Requests : CommitConfigure(r)
         \/ (\E p \in Providers : DeleteProvider(p)) \/ SetDomain
  PROVE  AccountsTyped'
<1>1. UNCHANGED <<accounts, passkeys, identities, keys, mfa, challenge, spent>>
  BY DEF CommitConfigure, DeleteProvider, SetDomain
<1>2. RowsTyped'
  BY <1>1 DEF AccountsTyped, RowsTyped
<1>3. FactorsTyped'
  BY <1>1 DEF AccountsTyped, FactorsTyped, Numbered
<1>4. RequestsTyped'
  <2>1. UNCHANGED requests \/ \E r \in Requests : End(r)
    BY DEF CommitConfigure, DeleteProvider, SetDomain
  <2>2. CASE UNCHANGED requests
    BY <2>2 DEF AccountsTyped, RequestsTyped
  <2> QED
    BY <2>1, <2>2, EndsTyped DEF AccountsTyped
<1>5. SettingsTyped'
  <2>1. CASE \E r \in Requests : CommitConfigure(r)
    <3> PICK r \in Requests : CommitConfigure(r)
      BY <2>1
    <3> DEFINE p == requests[r].item
    <3>1. settings' \in {settings, [settings EXCEPT ![p] = settings[p] + 1]} /\ domain' = domain
      BY DEF CommitConfigure, SettingAdded
    <3> HIDE DEF p
    <3>2. settings \in [Providers -> Nat]
      BY DEF AccountsTyped, SettingsTyped
    <3>3. CASE p \in Providers
      BY <3>1, <3>2, <3>3 DEF AccountsTyped, SettingsTyped
    <3>4. CASE p \notin Providers
      BY <3>1, <3>2, <3>4 DEF AccountsTyped, SettingsTyped
    <3> QED
      BY <3>3, <3>4
  <2>2. CASE \E p \in Providers : DeleteProvider(p)
    <3>1. PICK p \in Providers : settings' = [settings EXCEPT ![p] = 0] /\ domain' = domain
      BY <2>2 DEF DeleteProvider
    <3> QED
      BY <3>1 DEF AccountsTyped, SettingsTyped
  <2>3. CASE SetDomain
    BY <2>3 DEF AccountsTyped, SettingsTyped, SetDomain
  <2> QED
    BY <2>1, <2>2, <2>3
<1> QED
  BY <1>1, <1>2, <1>3, <1>4, <1>5 DEF AccountsTyped

\* The second factor.  The rows that are taken away and those that get another
\* status keep the bound of the ids; a new row's id is the next number.
LEMMA GreatestId ==
  ASSUME NEW methods \in SUBSET (Nat \X Statuses), Numbered(methods)
  PROVE  /\ Max(Ids(methods) \cup {0}) \in Nat
         /\ \A m \in methods : m[1] <= Max(Ids(methods) \cup {0})
<1> DEFINE ids == Ids(methods) \cup {0}
<1>1. ids \in SUBSET Nat /\ \A m \in methods : m[1] \in ids
  BY DEF Ids
<1>2. PICK last \in Nat : \A m \in methods : m[1] <= last
  BY DEF Numbered
<1>3. \A i \in ids : i <= last
  BY <1>2 DEF Ids
<1> HIDE DEF ids
<1>4. \E i \in ids : \A j \in ids : j <= i
  <2>1. CASE ids \subseteq {0}
    BY <2>1 DEF ids
  <2>2. CASE ~(ids \subseteq {0})
    <3> DEFINE positive == ids \ {0}
    <3>1. positive \in SUBSET (1..last) /\ positive # {}
      BY <1>1, <1>3, <2>2
    <3> HIDE DEF positive
    <3>2. PICK i \in positive : \A j \in positive : j <= i
      BY <3>1, Greatest
    <3>3. i \in ids /\ i \in Nat /\ \A j \in ids : j = 0 \/ j \in positive
      BY <1>1, <3>2 DEF positive
    <3> QED
      BY <3>2, <3>3
  <2> QED
    BY <2>1, <2>2
<1>5. \E i \in ids : \A j \in ids : i >= j
  BY <1>1, <1>4
<1>6. Max(ids) \in ids /\ \A j \in ids : Max(ids) >= j
  BY <1>5 DEF Max
<1> QED
  BY <1>1, <1>6 DEF ids

LEMMA FactorWritten ==
  ASSUME FactorsTyped, NEW a \in AccountIds, NEW factor \in SecondFactor, Numbered(factor.methods),
         mfa' = [mfa EXCEPT ![a] = factor]
  PROVE  FactorsTyped'
<1>1. mfa' \in [AccountIds -> SecondFactor] /\ \A b \in AccountIds : mfa'[b] = IF b = a THEN factor ELSE mfa[b]
  BY DEF FactorsTyped
<1>2. \A b \in AccountIds : Numbered(mfa'[b].methods)
  BY <1>1 DEF FactorsTyped
<1> QED
  BY <1>1, <1>2 DEF FactorsTyped

LEMMA RestateTyped ==
  ASSUME FactorsTyped, NEW a \in AccountIds, NEW methods \in SUBSET (Nat \X Statuses), NEW status \in Statuses,
         Ids(methods) \subseteq Ids(mfa[a].methods)
  PROVE  Restate(a, methods, status) \in SUBSET (Nat \X Statuses) /\ Numbered(Restate(a, methods, status))
<1>1. mfa[a].methods \in SUBSET (Nat \X Statuses)
  BY DEF FactorsTyped, SecondFactor
<1>2. PICK n \in Nat : \A m \in mfa[a].methods : m[1] <= n
  BY DEF FactorsTyped, Numbered
<1>3. \A m \in methods : m[1] \in Nat /\ m[1] <= n
  BY <1>1, <1>2 DEF Ids
<1>4. Restate(a, methods, status) \in SUBSET (Nat \X Statuses)
  BY <1>1 DEF Restate
<1>5. \A m \in Restate(a, methods, status) : m[1] <= n
  BY <1>2, <1>3 DEF Restate
<1> QED
  BY <1>4, <1>5 DEF Numbered

LEMMA FactorsStepTyped ==
  ASSUME AccountsTyped, NEW r \in Requests,
         CommitSetupMfa(r) \/ CommitVerifyMfa(r) \/ CommitRemoveMfa(r) \/ CommitRegenerate(r)
  PROVE  AccountsTyped'
<1> DEFINE a == requests[r].account
           old == mfa[a]
<1>1. requests[r] \in Request /\ a \in AccountIds
  <2>1. requests[r] \in Request /\ Purposeful(requests[r])
        /\ requests[r].op \in {"mfa_setup", "mfa_verify", "mfa_remove", "mfa_codes"}
    BY UnderWay DEF AccountsTyped, CommitSetupMfa, CommitVerifyMfa, CommitRemoveMfa, CommitRegenerate
  <2> QED
    BY <2>1 DEF Purposeful
<1>2. requests[r].methods \in SUBSET (Nat \X Statuses)
  BY <1>1 DEF Request
<1>3. End(r) /\ MfaUnchanged
  BY DEF CommitSetupMfa, CommitVerifyMfa, CommitRemoveMfa, CommitRegenerate
<1>4. FactorsTyped
  BY DEF AccountsTyped
<1>5. mfa \in [AccountIds -> SecondFactor] /\ old \in SecondFactor /\ Numbered(old.methods)
  BY <1>1, <1>4 DEF FactorsTyped
<1>6. old.methods \in SUBSET (Nat \X Statuses)
  BY <1>5 DEF SecondFactor
<1>7. FactorsTyped'
  <2>1. CASE mfa' = mfa
    BY <1>4, <2>1 DEF FactorsTyped, Numbered
  <2>2. CASE CommitSetupMfa(r) /\ mfa' # mfa
    <3> DEFINE deleted == Ids(requests[r].methods)
               top == Max(Ids(old.methods) \cup {0})
               methods == {m \in old.methods : m[1] \notin deleted} \cup {<<1 + top, "pending">>}
    <3>1. top \in Nat /\ \A m \in old.methods : m[1] <= top
      BY <1>5, <1>6, GreatestId
    <3>2. mfa' = [mfa EXCEPT ![a].methods = methods, ![a].codes = TRUE]
      BY <2>2 DEF CommitSetupMfa
    <3> HIDE DEF top, old
    <3>3. methods \in SUBSET (Nat \X Statuses)
      BY <1>6, <3>1 DEF Statuses
    <3>4. 1 + top \in Nat /\ \A m \in methods : m[1] <= 1 + top
      BY <1>6, <3>1
    <3>5. Numbered(methods)
      BY <3>4 DEF Numbered
    <3> DEFINE factor == [old EXCEPT !.methods = methods, !.codes = TRUE]
    <3> HIDE DEF methods
    <3>6. factor \in SecondFactor /\ factor.methods = methods
      BY <1>5, <3>3 DEF SecondFactor
    <3>7. mfa' = [mfa EXCEPT ![a] = factor]
      BY <3>2 DEF old
    <3> HIDE DEF a, factor
    <3> QED
      BY <1>1, <1>4, <3>5, <3>6, <3>7, FactorWritten
  <2>3. CASE CommitVerifyMfa(r) /\ mfa' # mfa
    <3> DEFINE methods == Restate(a, requests[r].methods, "active")
    <3>1. /\ mfa' = [mfa EXCEPT ![a].methods = methods, ![a].enabled = TRUE]
          /\ Ids(requests[r].methods) \subseteq Ids(mfa[a].methods)
      BY <2>3 DEF CommitVerifyMfa, Retained
    <3>2. "active" \in Statuses
      BY DEF Statuses
    <3> HIDE DEF a
    <3>3. methods \in SUBSET (Nat \X Statuses) /\ Numbered(methods)
      BY <1>1, <1>2, <1>4, <3>1, <3>2, RestateTyped
    <3> DEFINE factor == [old EXCEPT !.methods = methods, !.enabled = TRUE]
    <3> HIDE DEF methods
    <3>4. mfa' = [mfa EXCEPT ![a] = factor]
      BY <3>1
    <3> HIDE DEF old
    <3>5. factor \in SecondFactor /\ factor.methods = methods
      BY <1>5, <3>3 DEF SecondFactor
    <3> HIDE DEF factor
    <3> QED
      BY <1>1, <1>4, <3>3, <3>4, <3>5, FactorWritten
  <2>4. CASE CommitRemoveMfa(r) /\ mfa' # mfa
    <3> DEFINE methods == Restate(a, requests[r].methods, "disabled")
    <3>1. /\ mfa' = [mfa EXCEPT ![a].methods = methods, ![a].enabled = FALSE, ![a].codes = FALSE]
          /\ Ids(requests[r].methods) \subseteq Ids(mfa[a].methods)
      BY <2>4 DEF CommitRemoveMfa, Retained
    <3>2. "disabled" \in Statuses
      BY DEF Statuses
    <3> HIDE DEF a
    <3>3. methods \in SUBSET (Nat \X Statuses) /\ Numbered(methods)
      BY <1>1, <1>2, <1>4, <3>1, <3>2, RestateTyped
    <3> DEFINE factor == [old EXCEPT !.methods = methods, !.enabled = FALSE, !.codes = FALSE]
    <3> HIDE DEF methods
    <3>4. mfa' = [mfa EXCEPT ![a] = factor]
      BY <3>1
    <3> HIDE DEF old
    <3>5. factor \in SecondFactor /\ factor.methods = methods
      BY <1>5, <3>3 DEF SecondFactor
    <3> HIDE DEF factor
    <3> QED
      BY <1>1, <1>4, <3>3, <3>4, <3>5, FactorWritten
  <2>5. CASE CommitRegenerate(r) /\ mfa' # mfa
    <3>1. mfa' = [mfa EXCEPT ![a].codes = TRUE]
      BY <2>5 DEF CommitRegenerate
    <3> DEFINE factor == [old EXCEPT !.codes = TRUE]
    <3>2. mfa' = [mfa EXCEPT ![a] = factor]
      BY <3>1
    <3> HIDE DEF a, old
    <3>3. factor \in SecondFactor /\ factor.methods = old.methods
      BY <1>5 DEF SecondFactor
    <3> HIDE DEF factor
    <3> QED
      BY <1>1, <1>4, <1>5, <3>2, <3>3, FactorWritten
  <2> QED
    BY <2>1, <2>2, <2>3, <2>4, <2>5
<1>8. RowsTyped' /\ SettingsTyped' /\ challenge' = challenge
  BY <1>3 DEF MfaUnchanged, AccountsTyped, RowsTyped, SettingsTyped
<1>9. RequestsTyped'
  BY <1>3, EndsTyped DEF AccountsTyped
<1> QED
  BY <1>7, <1>8, <1>9 DEF AccountsTyped

LEMMA CreateKeyTyped ==
  ASSUME AccountsTyped, NEW a \in AccountIds, NEW x \in Keys, CreateApiKey(a, x)
  PROVE  AccountsTyped'
<1>1. RowsTyped'
  BY DEF CreateApiKey, AccountsTyped, RowsTyped
<1>2. RequestsTyped' /\ FactorsTyped' /\ SettingsTyped' /\ challenge' = challenge
  BY DEF CreateApiKey, AccountsTyped, RequestsTyped, FactorsTyped, Numbered, SettingsTyped
<1> QED
  BY <1>1, <1>2 DEF AccountsTyped

LEMMA RemoveTyped ==
  ASSUME AccountsTyped, NEW a \in AccountIds, RemoveAccount(a)
  PROVE  AccountsTyped'
<1>1. /\ DOMAIN accounts' = Present \ {a}
      /\ \A b \in Present \ {a} : accounts'[b] = accounts[b]
  BY DEF RemoveAccount
<1>2. RowsTyped'
  BY <1>1 DEF RemoveAccount, AccountsTyped, RowsTyped, Present
<1>3. RequestsTyped' /\ FactorsTyped' /\ SettingsTyped' /\ challenge' = challenge
  BY DEF RemoveAccount, AccountsTyped, RequestsTyped, FactorsTyped, Numbered, SettingsTyped
<1> QED
  BY <1>2, <1>3 DEF AccountsTyped
-----------------------------------------------------------------------------
LEMMA AccountsTypedKept == AccountsTyped /\ [AccountsNext]_accountVars => AccountsTyped'
<1> SUFFICES ASSUME AccountsTyped, [AccountsNext]_accountVars PROVE AccountsTyped'
  OBVIOUS
<1>1. CASE UNCHANGED accountVars
  <2>1. RequestsTyped' /\ SameTyped /\ challenge' = challenge
    BY <1>1 DEF AccountsTyped, RequestsTyped, SameTyped, accountVars
  <2> QED
    BY <2>1, RequestsOnly DEF AccountsTyped
<1>2. CASE AccountsUser
  BY <1>2, LookingTyped, SettingsWritten, CreateKeyTyped DEF AccountsUser
<1>3. CASE AccountsStep
  BY <1>3, SecondLooksTyped, WritingTyped, SettingsWritten, FactorsStepTyped DEF AccountsStep
<1>4. CASE StopAccounts
  <2>1. SameTyped /\ challenge' = challenge
    BY <1>4 DEF StopAccounts, SameTyped
  <2>2. RequestsTyped'
    BY <1>4 DEF StopAccounts, AccountsTyped, RequestsTyped
  <2> QED
    BY <2>1, <2>2, RequestsOnly DEF AccountsTyped
<1>5. CASE \E a \in AccountIds : RemoveAccount(a)
  BY <1>5, RemoveTyped
<1> QED
  BY <1>1, <1>2, <1>3, <1>4, <1>5 DEF AccountsNext

\* Whatever the requests do to one another, the rows, the settings and what
\* each request has in hand keep their types: no id of a second factor is
\* beyond the numbers, and nothing is inserted that was never asked for.
THEOREM AccountsTypes == AccountsSpec => []AccountsTypeOK
<1>1. AccountsInit => AccountsInv /\ AccountsTyped
  BY AccountsStart, AccountsTypedStart
<1>2. AccountsInv /\ AccountsTyped /\ [AccountsNext]_accountVars => (AccountsInv /\ AccountsTyped)'
  BY AccountsKeep, AccountsTypedKept
<1>3. AccountsInv /\ AccountsTyped => AccountsTypeOK
  BY AccountsTypesMeant DEF AccountsInv
<1> QED
  BY <1>1, <1>2, <1>3, PTL DEF AccountsSpec
-----------------------------------------------------------------------------
(* The parts together.                                                      *)

LEMMA WebStart == Init => ExportsInit /\ StreamInit /\ SessionInit /\ AccountsInit
BY DEF Init

LEMMA WebExports == [Next]_webVars => [ExportsNext]_exportVars
<1> SUFFICES ASSUME [Next]_webVars PROVE [ExportsNext]_exportVars
  OBVIOUS
<1>1. CASE UserNext \/ FaultNext \/ StepNext
  BY <1>1 DEF UserNext, FaultNext, StepNext, OnlyExports, OnlyStream, OnlySession, OnlyAccounts, ExportsNext
<1>2. CASE \E a \in AccountIds : RemoveUser(a)
  BY <1>2 DEF RemoveUser, ExportsNext
<1>3. CASE Restart
  BY <1>3 DEF Restart, ExportsNext
<1>4. CASE ReconnectSocket \/ (\E s \in Sockets : RefuseSocket(s)) \/ UNCHANGED webVars
  BY <1>4 DEF ReconnectSocket, OnlyStream, RefuseSocket, webVars
<1> QED
  BY <1>1, <1>2, <1>3, <1>4 DEF Next

LEMMA WebAccounts == [Next]_webVars => [AccountsNext]_accountVars
<1> SUFFICES ASSUME [Next]_webVars PROVE [AccountsNext]_accountVars
  OBVIOUS
<1>1. CASE UserNext \/ FaultNext \/ StepNext
  BY <1>1 DEF UserNext, FaultNext, StepNext, OnlyExports, OnlyStream, OnlySession, OnlyAccounts, AccountsNext
<1>2. CASE \E a \in AccountIds : RemoveUser(a)
  BY <1>2 DEF RemoveUser, AccountsNext
<1>3. CASE Restart
  BY <1>3 DEF Restart, AccountsNext
<1>4. CASE ReconnectSocket \/ (\E s \in Sockets : RefuseSocket(s)) \/ UNCHANGED webVars
  BY <1>4 DEF ReconnectSocket, OnlyStream, RefuseSocket, webVars
<1> QED
  BY <1>1, <1>2, <1>3, <1>4 DEF Next

LEMMA WebSession == [Next]_webVars => [SessionNext]_sessionVars
<1> SUFFICES ASSUME [Next]_webVars PROVE [SessionNext]_sessionVars
  OBVIOUS
<1>1. CASE UserNext \/ FaultNext \/ StepNext
  BY <1>1 DEF UserNext, FaultNext, StepNext, OnlyExports, OnlyStream, OnlySession, OnlyAccounts, SessionNext
<1>2. CASE \E a \in AccountIds : RemoveUser(a)
  BY <1>2 DEF RemoveUser, SessionNext
<1>3. CASE Restart \/ ReconnectSocket \/ UNCHANGED webVars
  BY <1>3 DEF Restart, ReconnectSocket, OnlyStream, webVars
<1>4. CASE \E s \in Sockets : RefuseSocket(s)
  BY <1>4 DEF RefuseSocket, SessionNext
<1> QED
  BY <1>1, <1>2, <1>3, <1>4 DEF Next

LEMMA WebStream == [Next]_webVars => [StreamNext]_streamVars
<1> SUFFICES ASSUME [Next]_webVars PROVE [StreamNext]_streamVars
  OBVIOUS
<1>1. CASE UserNext \/ FaultNext \/ StepNext
  BY <1>1 DEF UserNext, FaultNext, StepNext, OnlyExports, OnlyStream, OnlySession, OnlyAccounts, StreamNext
<1>2. CASE (\E a \in AccountIds : RemoveUser(a)) \/ UNCHANGED webVars
  BY <1>2 DEF RemoveUser, webVars
<1>3. CASE Restart \/ ReconnectSocket
  BY <1>3 DEF Restart, ReconnectSocket, StreamNext
<1>4. CASE \E s \in Sockets : RefuseSocket(s)
  BY <1>4 DEF RefuseSocket, StreamNext
<1> QED
  BY <1>1, <1>2, <1>3, <1>4 DEF Next

\* The process with its page is nothing but its four parts: whatever one part
\* makes another do is something that the other does by itself.
THEOREM WebIsItsParts == Spec => ExportsSpec /\ StreamSpec /\ SessionSpec /\ AccountsSpec
<1> QED
  BY WebStart, WebExports, WebStream, WebSession, WebAccounts, PTL
  DEF Spec, ExportsSpec, StreamSpec, SessionSpec, AccountsSpec

\* So what was proved of the parts holds of the whole.
THEOREM WebLinksGood == Spec => []LinksAreGood
BY WebIsItsParts, LinksGood

\* Nor does anything the page or its exports do touch the proofs of identity.
THEOREM WebCredentialsSound == Spec => []CredentialsSound
BY WebIsItsParts, CredentialsStaySound

\* A call of the page runs at most once on the server, also when the account
\* is removed, the process is restarted or the websocket renews the tokens.
THEOREM WebCallsOnce == Spec => []CallsRunOnce
BY WebIsItsParts, CallsOnce, PTL

\* Nor does a call stay behind in a queue whose refresh is over, whatever the
\* user, the account and the process go through meanwhile.
THEOREM WebNobodyLeftBehind == Spec => []NobodyLeftBehind
BY WebIsItsParts, CallsNotLeftBehind

\* The answers on the page stay whole whatever the process, the sockets and the
\* page's session go through.
THEOREM WebFinishedIsWhole == Spec => []FinishedIsWhole
BY WebIsItsParts, StreamWhole

\* The bounds of the starts and of the faults are kept.
Bounded == starts \in 0..MaxStarts /\ faults \in 0..MaxFaults

LEMMA WebBounded == Bounded /\ [Next]_webVars => Bounded'
<1> SUFFICES ASSUME Bounded, [Next]_webVars PROVE Bounded'
  OBVIOUS
<1>1. Counted \/ Failing \/ Uncounted
  <2>1. CASE UserNext \/ \E a \in AccountIds : RemoveUser(a)
    BY <2>1 DEF UserNext, RemoveUser
  <2>2. CASE FaultNext \/ Restart \/ \E s \in Sockets : RefuseSocket(s)
    BY <2>2 DEF FaultNext, Restart, RefuseSocket
  <2>3. CASE StepNext \/ ReconnectSocket \/ UNCHANGED webVars
    BY <2>3 DEF StepNext, ReconnectSocket, Uncounted, webVars
  <2> QED
    BY <2>1, <2>2, <2>3 DEF Next
<1>2. CASE Counted
  BY <1>2, BoundsAssumption DEF Bounded, Counted
<1>3. CASE Failing
  BY <1>3, BoundsAssumption DEF Bounded, Failing
<1>4. CASE Uncounted
  BY <1>4 DEF Bounded, Uncounted
<1> QED
  BY <1>1, <1>2, <1>3, <1>4

\* Every variable of the process and of its page keeps its type.
THEOREM WebTypes == Spec => []TypeOK
<1>1. Init => Bounded
  BY BoundsAssumption DEF Init, Bounded
<1>2. Spec => []Bounded
  BY <1>1, WebBounded, PTL DEF Spec
<1>3. SessionSpec => []SessionTypeOK
  BY CallsOnce, PTL
<1>4. ExportsTypeOK /\ StreamTypeOK /\ SessionTypeOK /\ AccountsTypeOK /\ Bounded => TypeOK
  BY DEF TypeOK, Bounded
<1> QED
  BY <1>2, <1>3, <1>4, WebIsItsParts, ExportsTypes, StreamTypes, AccountsTypes, PTL
=============================================================================
