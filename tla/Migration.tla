----------------------------- MODULE Migration -----------------------------
(***************************************************************************)
(* `itglue-migrate preview` and `itglue-migrate run`: a plan that says     *)
(* which organizations exist, nine phases that create the rows of the      *)
(* export one call at a time, and a pair of files, the state file and the  *)
(* id map beside it, written after every phase so that an interrupted run  *)
(* can be resumed.  A run is one process and makes one call at a time; it  *)
(* can die at any moment, and what it had in memory is gone.               *)
(***************************************************************************)
EXTENDS ImportServer

VARIABLES
  plan,     \* the plan file: the organizations it calls matched, or NoPlan
  disk,     \* the state file and the id map
  run,      \* the memory of the process
  excuse    \* history: for every row, the times its creation was forgotten

migrationVars == <<server, hidden, faults, jobs, plan, disk, run, excuse>>

Phases == <<"organizations", "locations", "configuration_types", "configurations",
            "custom_asset_types", "custom_assets", "documents", "passwords",
            "relationships">>
Final == Len(Phases) + 1       \* the save after the last phase

NoPlan == [made |-> FALSE, matched |-> {}]
NoState == [done |-> {}, failed |-> {}, stored |-> {}, unstored |-> {}]
NoMap == [i \in Items |-> None]
NoFiles == [state |-> "absent", marks |-> NoState, mapFile |-> "absent", map |-> NoMap]

\* at: between two calls "row"; before the listing of a types phase "list";
\* before the attachments of a row just created "upload"; before the state
\* file and before the id map is written "state" and "map".  scope: the
\* organizations that the run is for, all of them or one.
Idle == [at |-> "idle", dry |-> FALSE, scope |-> {}, phase |-> 0, pos |-> 0, marks |-> NoState,
         map |-> NoMap, named |-> {}, sound |-> TRUE, code |-> "none"]

Running == run.at # "idle"
Row == Rows[Phases[run.phase]][run.pos]
Within(i) ==
  /\ i \in Orgs => i \in run.scope
  /\ i \in Scoped => OrgOf[i] \in run.scope
  /\ i \in Links => OrgOf[OwnerOf[i]] \in run.scope
AtRow ==
  /\ run.at = "row"
  /\ run.phase < Final
  /\ run.pos <= Len(Rows[Phases[run.phase]])
In(phase) ==
  /\ AtRow
  /\ Phases[run.phase] = phase
  /\ Within(Row)

Onward(r) == [r EXCEPT !.at = "row", !.pos = @ + 1]
MarkCompleted(r, i) ==
  [r EXCEPT !.marks.done = @ \cup {i}, !.marks.failed = @ \ {i}]

\* Slip: a failure is printed and not recorded.
MarkFailedNowhere(r, i) == r

MarkFailed(r, i) == [r EXCEPT !.marks.failed = @ \cup {i}]
Add(r, i, uuid) == [r EXCEPT !.map[i] = uuid]
Hit(r, answer) == [r EXCEPT !.sound = @ /\ answer \notin {"refused", "lost"}]

Keep == UNCHANGED <<server, faults>>
Same == UNCHANGED <<hidden, jobs, plan, disk>>

\* The rows of other organizations are left out of every phase.
LeaveOut ==
  /\ AtRow /\ ~Within(Row)
  /\ run' = Onward(run)
  /\ Keep /\ Same /\ UNCHANGED excuse

\* One row of a phase whose rows are completed and failed one by one.  needs
\* are the rows whose uuid it cannot do without, refs the uuids that the call
\* carries: the server knows no placeholder and refuses it.
Skip == /\ Row \in run.marks.done
        /\ run' = Onward(run)
        /\ Keep /\ UNCHANGED excuse
Unmapped(needs) ==
        /\ Row \notin run.marks.done
        /\ \E n \in needs : run.map[n] = None
        /\ run' = Onward(MarkFailed(run, Row))
        /\ Keep /\ UNCHANGED excuse
Ready(needs) ==
        /\ Row \notin run.marks.done
        /\ \A n \in needs : run.map[n] # None

\* Slip: a dry run marks what it would have created.
DryRunMarks(r) ==
        /\ run.dry
        /\ run' = Onward(MarkCompleted(Add(r, Row, Placeholder), Row))
        /\ Keep /\ UNCHANGED excuse

DryRun(r) ==
        /\ run.dry
        /\ run' = Onward(Add(r, Row, Placeholder))
        /\ Keep /\ UNCHANGED excuse

Refused(r) ==
        /\ run' = Onward(MarkFailed(r, Row))
        /\ Keep /\ UNCHANGED excuse
Create(r, refs, row) ==
  /\ ~run.dry
  /\ IF Placeholder \in refs THEN Refused(r)
     ELSE \E answer \in {"created", "conflict", "refused", "lost"} :
       /\ Post(Row, row, answer)
       /\ excuse' = IF answer = "lost" THEN [excuse EXCEPT ![Row] = @ + 1] ELSE excuse
       /\ run' = IF answer = "created"
                 THEN LET kept == MarkCompleted(Add(r, Row, Len(server[Row]) + 1), Row)
                      IN  IF Row \in WithFile THEN [kept EXCEPT !.at = "upload"]
                                              ELSE Onward(kept)
                 ELSE Onward(MarkFailed(Hit(r, answer), Row))
Entity(needs, r, refs, row) ==
  /\ Skip \/ Unmapped(needs) \/ (Ready(needs) /\ (DryRun(r) \/ Create(r, refs, row)))
  /\ Same

MigrateOrganizations ==
  /\ In("organizations")
  /\ Same
  /\ \/ Skip
     \/ /\ Row \notin run.marks.done          \* also in a dry run
        /\ Row \in plan.matched
        /\ run' = Onward(MarkCompleted(Add(run, Row, 1), Row))
        /\ Keep /\ UNCHANGED excuse
     \/ /\ Row \notin run.marks.done
        /\ Row \notin plan.matched
        /\ DryRun(run) \/ Create(run, {}, Copy("run", None, None))

OrgUuid == run.map[OrgOf[Row]]

MigrateLocations ==
  /\ In("locations")
  /\ Entity({OrgOf[Row]}, run, {OrgUuid}, Copy("run", None, None))

\* A configuration whose type has no uuid is created without one.
MigrateConfigurations ==
  /\ In("configurations")
  /\ LET type == run.map[TypeOf[Row]]
     IN  Entity({OrgOf[Row]}, run, {OrgUuid, type}, Copy("run", type, None))

\* A custom asset whose type has no uuid fails.
MigrateCustomAssets ==
  /\ In("custom_assets")
  /\ LET type == run.map[TypeOf[Row]]
     IN  Entity({OrgOf[Row], TypeOf[Row]}, run, {OrgUuid, type}, Copy("run", type, None))

MigratePasswords ==
  /\ In("passwords")
  /\ Entity({OrgOf[Row]}, run, {OrgUuid}, Copy("run", None, None))

\* The types that exist are listed first; when that fails the run goes on as
\* if there were none, and one that the list does not show is created again.
ListTypes ==
  /\ run.at = "list"
  /\ Same /\ UNCHANGED <<server, excuse>>
  /\ \/ /\ \E named \in Listed({t \in Sheets[Phases[run.phase]] : Exists(t)}) :
             run' = [run EXCEPT !.at = "row", !.named = named]
        /\ UNCHANGED faults
     \/ /\ faults < MaxFaults
        /\ faults' = faults + 1
        /\ run' = [run EXCEPT !.at = "row", !.sound = FALSE]

\* A type is neither completed nor failed: it has a uuid or it has none.
MigrateTypes ==
  /\ Same
  /\ \/ /\ Row \in run.named
        /\ run' = Onward(IF run.dry THEN run ELSE Add(run, Row, 1))
        /\ Keep /\ UNCHANGED excuse
     \/ /\ Row \notin run.named
        /\ run.dry
        /\ run' = Onward([Add(run, Row, Placeholder) EXCEPT !.named = @ \cup {Row}])
        /\ Keep /\ UNCHANGED excuse
     \/ /\ Row \notin run.named
        /\ ~run.dry
        /\ \E answer \in {"created", "conflict", "refused", "lost"} :
             /\ Post(Row, Copy("run", None, None), answer)
             /\ run' = IF answer = "created"
                       THEN Onward([Add(run, Row, 1) EXCEPT !.named = @ \cup {Row}])
                       ELSE Onward(Hit(run, answer))
        /\ UNCHANGED excuse

MigrateConfigurationTypes == In("configuration_types") /\ MigrateTypes
MigrateCustomAssetTypes == In("custom_asset_types") /\ MigrateTypes

\* A name is remembered when a document is tried, not when it is completed,
\* and a document completed by an earlier run is not tried.
MigrateDocuments ==
  /\ In("documents")
  /\ LET name  == <<OrgOf[Row], NameOf[Row]>>
         tried == [run EXCEPT !.named = @ \cup {name}]
     IN  \/ Skip /\ Same
         \/ Unmapped({OrgOf[Row]}) /\ Same
         \/ /\ Ready({OrgOf[Row]})
            /\ name \in run.named \/ (Row \in Empty /\ ~run.dry)
            /\ run' = Onward(tried)
            /\ Keep /\ Same /\ UNCHANGED excuse
         \/ /\ Ready({OrgOf[Row]})
            /\ name \notin run.named
            /\ DryRun(tried) \/ (Row \notin Empty /\ Create(tried, {OrgUuid}, Copy("run", None, None)))
            /\ Same

\* Only configurations and custom assets are known as targets; every other
\* resource type fails.  A link that is there already is completed.

\* Slip: configurations are left out of the resource types.
LinkableAssets == KindOf[Row] = "asset"

Linkable == KindOf[Row] \in {"configuration", "asset"}
MigrateRelationships ==
  /\ In("relationships")
  /\ Same /\ UNCHANGED excuse
  /\ LET owner == OwnerOf[Row]
         ends  == {OrgOf[owner], owner} \cup (IF Linkable THEN {TargetOf[Row]} ELSE {})
         row   == LinkCopy("run", run.map[owner], run.map[TargetOf[Row]])
     IN  \/ Row \in run.marks.done /\ run' = Onward(run) /\ Keep
         \/ /\ Row \notin run.marks.done
            /\ ~Linkable \/ \E e \in ends : run.map[e] = None
            /\ run' = Onward(MarkFailed(run, Row))
            /\ Keep
         \/ /\ Row \notin run.marks.done
            /\ Linkable /\ \A e \in ends : run.map[e] # None
            /\ \/ run.dry /\ run' = Onward(run) /\ Keep
               \/ /\ ~run.dry
                  /\ Placeholder \in {run.map[e] : e \in ends}
                  /\ run' = Onward(MarkFailed(run, Row))
                  /\ Keep
               \/ /\ ~run.dry
                  /\ Placeholder \notin {run.map[e] : e \in ends}
                  /\ \E answer \in {"created", "conflict", "refused", "lost"} :
                       /\ Post(Row, row, answer)
                       /\ run' = IF answer \in {"created", "conflict"}
                                 THEN Onward(MarkCompleted(run, Row))
                                 ELSE Onward(MarkFailed(Hit(run, answer), Row))

\* The attachments of a row, right after its creation and at no other time.
UploadEntityAttachments ==
  /\ run.at = "upload"
  /\ Same /\ UNCHANGED excuse
  /\ \/ /\ Row \in run.marks.stored
        /\ run' = Onward(run)
        /\ Keep
     \/ /\ Row \notin run.marks.stored
        /\ \E file \in Files :
             /\ Attach(Row, run.map[Row], file)
             /\ run' = IF file = "stored"
                       THEN Onward([run EXCEPT !.marks.stored = @ \cup {Row},
                                               !.marks.unstored = @ \ {Row}])
                       ELSE Onward([run EXCEPT !.marks.unstored = @ \cup {Row},
                                               !.sound = FALSE])

FinishPhase ==
  /\ run.at = "row"
  /\ run.phase < Final
  /\ run.pos > Len(Rows[Phases[run.phase]])
  /\ run' = [run EXCEPT !.at = "state"]
  /\ Keep /\ Same /\ UNCHANGED excuse

Begin(r, phase) ==
  [r EXCEPT !.phase = phase, !.pos = 1, !.named = {},
            !.at = IF phase = Final THEN "state"
                   ELSE IF ~r.dry /\ Phases[phase] \in {"configuration_types", "custom_asset_types"}
                   THEN "list" ELSE "row"]

\* The state file first, the id map second; each is truncated and rewritten.
SaveState ==
  /\ run.at = "state"
  /\ disk' = [disk EXCEPT !.state = "whole", !.marks = run.marks]
  /\ run' = [run EXCEPT !.at = "map"]
  /\ Keep /\ UNCHANGED <<hidden, jobs, plan, excuse>>

SaveMap ==
  /\ run.at = "map"
  /\ disk' = [disk EXCEPT !.mapFile = "whole", !.map = run.map]
  /\ run' = IF run.phase < Final THEN Begin(run, run.phase + 1)
            ELSE [Idle EXCEPT !.dry = run.dry, !.scope = run.scope, !.sound = run.sound,
                              !.code = IF run.marks.failed = {} THEN "success" ELSE "failures"]
  /\ Keep /\ UNCHANGED <<hidden, jobs, plan, excuse>>

\* The process dies.  A file that was being written is torn, or not yet
\* truncated; the next run cannot read a torn one.
Die ==
  /\ Running
  /\ faults < MaxFaults
  /\ faults' = faults + 1
  /\ disk' \in {disk} \cup
       (CASE run.at = "state" -> {[disk EXCEPT !.state = "torn"]}
          [] run.at = "map" -> {[disk EXCEPT !.mapFile = "torn"]}
          [] OTHER -> {})
  /\ excuse' = [i \in Items |->
       IF i \in run.marks.done \ disk'.marks.done THEN excuse[i] + 1 ELSE excuse[i]]
  /\ run' = [Idle EXCEPT !.dry = run.dry, !.sound = FALSE, !.code = "died"]
  /\ UNCHANGED <<server, hidden, jobs, plan>>

\* An organization of the export is matched by its id or its name among those
\* that the server lists, which are the enabled ones.
Match(matched) == matched \in Listed({o \in Orgs : Enabled(o)})

Preview ==
  /\ jobs < MaxJobs
  /\ jobs' = jobs + 1
  /\ \E matched \in SUBSET Orgs :
       Match(matched) /\ plan' = [made |-> TRUE, matched |-> matched]
  /\ run' = Idle
  /\ UNCHANGED <<server, hidden, faults, disk, excuse>>

Readable == disk.state = "whole" => disk.mapFile # "torn"

\* What a state file restores: the whole of what was saved, both what was
\* completed and what failed.
FromDict == IF disk.state = "whole" THEN disk.marks ELSE NoState
ClearFailures(r) == [r EXCEPT !.marks.failed = {}]

\* Slip: the id map is loaded and the state is not.
LoadMapOnly(dry, scope) ==
  [Idle EXCEPT !.dry = dry, !.scope = scope,
               !.map = IF disk.state = "whole" THEN disk.map ELSE NoMap]

Load(dry, scope) ==
  [Idle EXCEPT !.dry = dry, !.scope = scope, !.marks = FromDict,
               !.map = IF disk.state = "whole" THEN disk.map ELSE NoMap]

Start(dry, clear, scope) ==
  /\ plan.made
  /\ jobs < MaxJobs
  /\ jobs' = jobs + 1
  /\ disk.state # "torn" /\ Readable        \* or the run ends at once
  /\ LET r == Load(dry, scope)
     IN  run' = IF clear /\ r.marks.failed # {}
                THEN [ClearFailures(r) EXCEPT !.at = "state"]
                ELSE Begin(r, 1)
  /\ UNCHANGED <<server, hidden, faults, plan, disk, excuse>>

MigrationInit ==
  /\ plan = NoPlan
  /\ disk = NoFiles
  /\ run = Idle
  /\ excuse = [i \in Items |-> 0]

MigrationStep ==
  \/ MigrateOrganizations \/ MigrateLocations
  \/ ListTypes
  \/ MigrateConfigurationTypes \/ MigrateConfigurations
  \/ MigrateCustomAssetTypes \/ MigrateCustomAssets
  \/ MigrateDocuments \/ MigratePasswords \/ MigrateRelationships
  \/ UploadEntityAttachments
  \/ LeaveOut \/ FinishPhase \/ SaveState \/ SaveMap \/ Die

\* --all, or --org and the name of one.
MigrationStart ==
  Preview \/ \E dry, clear \in BOOLEAN, scope \in {Orgs} \cup {{o} : o \in Orgs} :
               Start(dry, clear, scope)
-----------------------------------------------------------------------------
Marks == [done : SUBSET Items, failed : SUBSET Items,
          stored : SUBSET Items, unstored : SUBSET Items]

\* The files and the memory of a run have the types the loader expects.
MigrationTypeOK ==
  /\ plan \in [made : BOOLEAN, matched : SUBSET Orgs]
  /\ disk.state \in {"absent", "torn", "whole"} /\ disk.marks \in Marks
  /\ disk.mapFile \in {"absent", "torn", "whole"}
  /\ \A i \in Items : disk.map[i] >= Placeholder /\ run.map[i] >= Placeholder
  /\ run.at \in {"idle", "list", "row", "upload", "state", "map"}
  /\ run.dry \in BOOLEAN /\ run.sound \in BOOLEAN /\ run.scope \subseteq Orgs
  /\ run.phase \in 0 .. Final /\ run.pos \in Nat /\ run.marks \in Marks
  /\ run.code \in {"none", "success", "failures", "died"}
  /\ excuse \in [Items -> Nat]

\* What the state file or a running process calls completed is on the server,
\* and what it calls uploaded is in the store: a dry run in between, whose
\* rows get a placeholder, marks nothing that a later run would skip.
CompletedIsThere ==
  \A marks \in {disk.marks, run.marks} :
    /\ \A i \in marks.done : Exists(i)
    /\ \A i \in marks.stored : \E n \in 1..Len(server[i]) : server[i][n].file = "stored"

\* A row is created twice by runs on one state file only if one of them was
\* told that its call failed although it had not, or died before it had
\* saved the phase.
DuplicatesHaveCause ==
  \A i \in Items : Cardinality(Copies(i, "run")) <= 1 + excuse[i]

\* A run that ends with exit code 0 leaves every row of the organizations it
\* was for on the server and in the state file, except types and documents
\* that have no body or share their name.
SuccessIsComplete ==
  run.at = "idle" /\ run.code = "success" /\ ~run.dry =>
    \A i \in Items \ Types : Within(i) =>
      \/ i \in disk.marks.done
      \/ i \in Docs /\ (i \in Empty \/
           \E d \in Docs \ {i} : <<OrgOf[d], NameOf[d]>> = <<OrgOf[i], NameOf[i]>>)

\* After a run in which no call failed, a failure is one that the next run
\* will repeat: an organization that the plan calls new and the server has, a
\* row whose organization or link whose end has no uuid in the id map, a row
\* whose type is one of so many that the list does not show all and has no
\* uuid or, for a configuration, that of a dry run, a resource type the tool
\* does not link, or a mark of an earlier run on a document that is now passed
\* over without a word.  What earlier runs marked of organizations that this
\* one is not for is left as it was.
Unresolved(i) == disk.map[i] \in {None, Placeholder}
FailuresHaveCause ==
  run.at = "idle" /\ run.code = "failures" /\ ~run.dry /\ run.sound =>
    \A i \in disk.marks.failed : Within(i) =>
      \/ i \in Orgs /\ Exists(i) /\ i \notin plan.matched
      \/ i \in Scoped /\ Unresolved(OrgOf[i])
      \/ i \in Assets /\ Unresolved(TypeOf[i]) /\ Crowded(TypeOf[i])
      \/ i \in Configs /\ disk.map[TypeOf[i]] = Placeholder /\ Crowded(TypeOf[i])
      \/ i \in Docs /\ (i \in Empty \/
           \E d \in Docs \ {i} : <<OrgOf[d], NameOf[d]>> = <<OrgOf[i], NameOf[i]>>)
      \/ /\ i \in Links
         /\ \/ KindOf[i] \notin {"configuration", "asset"}
            \/ \E e \in {OrgOf[OwnerOf[i]], OwnerOf[i], TargetOf[i]} : Unresolved(e)
=============================================================================
