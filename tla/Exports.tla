------------------------------- MODULE Exports -------------------------------
(***************************************************************************)
(* Data exports: an administrator asks for one, a background task in the   *)
(* API process writes the five CSV files and uploads the archive, and the  *)
(* owner downloads it through a presigned link until it expires or is      *)
(* revoked.  The task works on its own session for as long as it runs,     *)
(* while requests revoke the export or its owner's account is deleted.     *)
(* Other users are answered 404 and are no step.                           *)
(***************************************************************************)
CONSTANTS ExportIds, NoRow

VARIABLES
  exports,    \* the row of every export, or NoRow
  tasks,      \* the background task of every export and the row it has in hand
  stored,     \* the exports with an archive in the file storage
  announced,  \* the last message published about an export
  withdrawn,  \* the exports whose revocation has been confirmed to the owner
  links,      \* every download link handed out, and what it was handed out for
  abandoned   \* the exports whose end could not be recorded

exportVars == <<exports, tasks, stored, announced, withdrawn, links, abandoned>>

ExportRow == [status: {"pending", "processing", "completed", "failed"},
              key: BOOLEAN, revoked: BOOLEAN, expired: BOOLEAN]

\* What a task does next.  "fail" records an error; in "broken" the session
\* cannot write any more: its transaction is aborted or its row is gone.
Reading == {"passwords", "configurations", "locations", "documents", "custom_assets"}
TaskStates == {"none", "queued"} \cup Reading \cup {"upload", "complete", "fail", "broken", "ended"}
InProcess == TaskStates \ {"none", "ended"}

ExportsTypeOK ==
  /\ exports \in [ExportIds -> ExportRow \cup {NoRow}]
  /\ tasks \in [ExportIds -> [at: TaskStates, row: ExportRow \cup {NoRow}]]
  /\ stored \subseteq ExportIds
  /\ announced \in [ExportIds -> {"nothing", "progress", "completed", "failed"}]
  /\ withdrawn \subseteq ExportIds
  /\ links \subseteq [id: ExportIds, stored: BOOLEAN, withdrawn: BOOLEAN, expired: BOOLEAN]
  /\ abandoned \subseteq ExportIds

ExportsInit ==
  /\ exports = [e \in ExportIds |-> NoRow]
  /\ tasks = [e \in ExportIds |-> [at |-> "none", row |-> NoRow]]
  /\ stored = {}
  /\ announced = [e \in ExportIds |-> "nothing"]
  /\ withdrawn = {}
  /\ links = {}
  /\ abandoned = {}
-----------------------------------------------------------------------------
(* The row.  The task and the requests update it in turns, each from a      *)
(* session of its own: update_status writes the columns it has changed over *)
(* what others have committed, and reads the row again.                     *)

\* Slip: every column is written as the task read it.
WrittenWhole(e, status, key) ==
  LET read == IF tasks[e].row = NoRow THEN exports[e] ELSE tasks[e].row
  IN [read EXCEPT !.status = status, !.key = key \/ @]

Written(e, status, key) == [exports[e] EXCEPT !.status = status, !.key = key \/ @]

Going(e, at) == tasks' = [tasks EXCEPT ![e].at = at]

\* Updates the row and commits, and the task goes on; a row that is gone
\* leaves a session that can write nothing.
UpdateStatus(e, status, key, next) ==
  IF exports[e] = NoRow
  THEN Going(e, "broken") /\ UNCHANGED exports
  ELSE /\ exports' = [exports EXCEPT ![e] = Written(e, status, key)]
       /\ tasks' = [tasks EXCEPT ![e] = [at |-> next, row |-> exports'[e]]]

Announce(e, message) == announced' = [announced EXCEPT ![e] = message]
-----------------------------------------------------------------------------
(* Requests of the owner. *)

CreateExport(e) ==
  /\ tasks[e].at = "none"
  /\ exports' = [exports EXCEPT ![e] =
       [status |-> "pending", key |-> FALSE, revoked |-> FALSE, expired |-> FALSE]]
  /\ Going(e, "queued")
  /\ UNCHANGED <<stored, announced, withdrawn, links, abandoned>>

\* The link is for what the row says when it is read.
DownloadExport(e) ==
  /\ exports[e] # NoRow
  /\ ~exports[e].revoked /\ ~exports[e].expired
  /\ exports[e].status = "completed" /\ exports[e].key
  /\ links' = links \cup {[id |-> e, stored |-> e \in stored,
                           withdrawn |-> e \in withdrawn, expired |-> exports[e].expired]}
  /\ UNCHANGED <<exports, tasks, stored, announced, withdrawn, abandoned>>

\* The archive stays in the file storage: nothing in the repository removes it.
RevokeExport(e) ==
  /\ exports[e] # NoRow /\ ~exports[e].revoked
  /\ exports' = [exports EXCEPT ![e].revoked = TRUE]
  /\ withdrawn' = withdrawn \cup {e}
  /\ UNCHANGED <<tasks, stored, announced, links, abandoned>>

ExpireExport(e) ==
  /\ exports[e] # NoRow /\ ~exports[e].expired
  /\ exports' = [exports EXCEPT ![e].expired = TRUE]
  /\ UNCHANGED <<tasks, stored, announced, withdrawn, links, abandoned>>

\* The owner's account is deleted and the foreign key takes his exports along.
RemoveExports(owned) ==
  LET gone == {e \in owned : exports[e] # NoRow}
  IN /\ exports' = [e \in ExportIds |-> IF e \in gone THEN NoRow ELSE exports[e]]
     /\ abandoned' = abandoned \cup gone
     /\ UNCHANGED <<tasks, stored, announced, withdrawn, links>>
-----------------------------------------------------------------------------
(* The background task. *)

TakeExport(e) ==
  /\ tasks[e].at = "queued"
  /\ IF exports[e] = NoRow
     THEN Going(e, "ended") /\ UNCHANGED exports
     ELSE UpdateStatus(e, "processing", FALSE, "passwords")
  /\ UNCHANGED <<stored, announced, withdrawn, links, abandoned>>

\* With no organization to export the task fails before the first file.
NothingToExport(e) ==
  /\ tasks[e].at = "passwords"
  /\ Going(e, "fail")
  /\ UNCHANGED <<exports, stored, announced, withdrawn, links, abandoned>>

\* Every file publishes its progress as it goes.
Csv(e, file, next) ==
  /\ tasks[e].at = file
  /\ Going(e, next)
  /\ Announce(e, "progress")
  /\ UNCHANGED <<exports, stored, withdrawn, links, abandoned>>
ExportPasswords(e) == Csv(e, "passwords", "configurations")
ExportConfigurations(e) == Csv(e, "configurations", "locations")
ExportLocations(e) == Csv(e, "locations", "documents")
ExportDocuments(e) == Csv(e, "documents", "custom_assets")
ExportCustomAssets(e) == Csv(e, "custom_assets", "upload")

UploadExport(e) ==
  /\ tasks[e].at = "upload"
  /\ stored' = stored \cup {e}
  /\ Going(e, "complete")
  /\ UNCHANGED <<exports, announced, withdrawn, links, abandoned>>

\* The completion is published after it is committed.
CompleteExport(e) ==
  /\ tasks[e].at = "complete"
  /\ UpdateStatus(e, "completed", TRUE, "ended")
  /\ IF exports[e] = NoRow THEN UNCHANGED announced ELSE Announce(e, "completed")
  /\ UNCHANGED <<stored, withdrawn, links, abandoned>>

\* Slip: the failure is only published.
FailExportUnrecorded(e) ==
  /\ tasks[e].at \in {"fail", "broken"}
  /\ Going(e, "ended")
  /\ Announce(e, "failed")
  /\ UNCHANGED <<exports, stored, withdrawn, links, abandoned>>

\* A failure that cannot be recorded is logged, and published like any other.
FailExport(e) ==
  /\ tasks[e].at \in {"fail", "broken"}
  /\ IF tasks[e].at = "fail" /\ exports[e] # NoRow
     THEN /\ UpdateStatus(e, "failed", FALSE, "ended")
          /\ UNCHANGED abandoned
     ELSE /\ Going(e, "ended")
          /\ abandoned' = abandoned \cup {e}
          /\ UNCHANGED exports
  /\ Announce(e, "failed")
  /\ UNCHANGED <<stored, withdrawn, links>>
-----------------------------------------------------------------------------
(* What can go wrong: an error of the database aborts the transaction that  *)
(* the failure would be recorded in; any other error leaves it usable.      *)

DatabaseFails(e) ==
  /\ tasks[e].at \in {"queued", "complete"} \cup Reading
  /\ Going(e, "broken")
  /\ UNCHANGED <<exports, stored, announced, withdrawn, links, abandoned>>

UploadFails(e) ==
  /\ tasks[e].at = "upload"
  /\ Going(e, "fail")
  /\ UNCHANGED <<exports, stored, announced, withdrawn, links, abandoned>>

\* The process dies with every task in it, and no other ever takes them up.
StopExports ==
  LET running == {e \in ExportIds : tasks[e].at \in InProcess}
  IN /\ tasks' = [e \in ExportIds |-> IF e \in running THEN [tasks[e] EXCEPT !.at = "ended"] ELSE tasks[e]]
     /\ abandoned' = abandoned \cup running
     /\ UNCHANGED <<exports, stored, announced, withdrawn, links>>
-----------------------------------------------------------------------------
ExportsUser == \E e \in ExportIds : CreateExport(e) \/ RevokeExport(e)
ExportsFault == \E e \in ExportIds : DatabaseFails(e) \/ UploadFails(e)
ExportTask(e) ==
  \/ TakeExport(e) \/ NothingToExport(e)
  \/ ExportPasswords(e) \/ ExportConfigurations(e) \/ ExportLocations(e)
  \/ ExportDocuments(e) \/ ExportCustomAssets(e)
  \/ UploadExport(e) \/ CompleteExport(e) \/ FailExport(e)
ExportsStep == \E e \in ExportIds : ExportTask(e) \/ DownloadExport(e) \/ ExpireExport(e)

ExportsNext ==
  \/ ExportsUser \/ ExportsFault \/ ExportsStep \/ StopExports
  \/ \E owned \in SUBSET ExportIds : RemoveExports(owned)
ExportsSpec == ExportsInit /\ [][ExportsNext]_exportVars
-----------------------------------------------------------------------------
\* No link is ever handed out for an archive that is not there, or that its
\* owner had withdrawn while it was still being made, nor is an export
\* announced as complete before it can be downloaded: the completion of the
\* task must not undo a revocation that was committed in the meantime.
LinksAreGood ==
  /\ \A l \in links : l.stored /\ ~l.withdrawn /\ ~l.expired
  /\ \A e \in ExportIds :
       announced[e] = "completed" /\ exports[e] # NoRow =>
         e \in stored /\ exports[e].status = "completed" /\ exports[e].key

\* An export comes to an end that its owner can see, unless the process died
\* under it, the database failed or it was deleted.
ExportsEnd ==
  \A e \in ExportIds :
    (exports[e] # NoRow /\ exports[e].status \in {"pending", "processing"})
      ~> (e \in abandoned \/ (exports[e] # NoRow /\ exports[e].status \in {"completed", "failed"}))
=============================================================================
