-------------------------------- MODULE Sync --------------------------------
(***************************************************************************)
(* `itglue-migrate sync`: it keeps no files.  It fetches what the server   *)
(* has of one organization, compares that with the export, and executes    *)
(* the difference one call at a time, in dependency order, until the next  *)
(* organization is fetched.  The plan is a function of the fetched state,  *)
(* which users go on changing; what the calls themselves create is in an   *)
(* id map of the executor.                                                 *)
(***************************************************************************)
EXTENDS ImportServer, SequencesExt

VARIABLE sync

syncVars == <<server, hidden, faults, jobs, sync>>

\* The order in which the executor goes through a plan.
Steps == <<"organizations", "configuration_types", "configuration_statuses",
           "custom_asset_types", "locations", "configurations", "custom_assets",
           "documents", "passwords", "row_passwords", "cell_writes", "relationships",
           "configuration_updates", "location_updates", "document_updates",
           "password_updates">>

Nothing == [i \in Items |-> None]

\* at: "list" before a list of the organizations is fetched; "fetch" before
\* the state of one is; "row" and "upload" as in a run; "link" after a row
\* password has been created and before its relationship is.
SyncIdle == [at |-> "idle", update |-> FALSE, asked |-> {}, orgs |-> <<>>, found |-> {},
             new |-> {}, known |-> Nothing, edited |-> {}, made |-> Nothing,
             plan |-> <<>>, step |-> 0, todo |-> {},
             before |-> 0, failed |-> FALSE, code |-> "none"]

Syncing == sync.at # "idle"
\* A step goes through its rows in the order of the export.
Before(i, j) ==
  \E phase \in DOMAIN Rows : \E n \in DOMAIN Rows[phase] : \E m \in 1 .. n - 1 :
    Rows[phase][m] = i /\ Rows[phase][n] = j
Item == CHOOSE i \in sync.todo : \A j \in sync.todo \ {i} : Before(i, j)
Doing(step) == sync.at = "row" /\ Steps[sync.step] = step

Failed(s) == [s EXCEPT !.failed = TRUE]
Stop(s, code) == [SyncIdle EXCEPT !.update = s.update, !.asked = s.asked,
                                    !.before = s.before, !.code = code]
Leave == UNCHANGED <<hidden, jobs>>
Still == UNCHANGED <<server, faults>>

\* A list call that fails ends the process.
Abort ==
  /\ faults < MaxFaults
  /\ faults' = faults + 1
  /\ sync' = Stop(sync, "failures")
  /\ UNCHANGED server
-----------------------------------------------------------------------------
(***************************************************************************)
(* The differ makes the plan of an organization once, from the state that  *)
(* was fetched: s.known is the fetched state, for every row the copy that  *)
(* was found, and s.edited the rows whose fields were not as exported.     *)
(***************************************************************************)
RowsOf(o, class) == {i \in class : OrgOf[i] = o}
LinksOf(o) == {l \in Links : OrgOf[OwnerOf[l]] = o}
TypesOf(o, class) ==
  {t \in class : \E r \in Configs \cup Assets :
     OrgOf[r] = o /\ (TypeOf[r] = t \/ (r \in Configs /\ StatusOf[r] = t))}

Missing(s, rows) == {i \in rows : s.known[i] = None}
Changed(s, rows) == {i \in rows : s.known[i] # None /\ i \in s.edited}

\* A document whose name another one of its organization had before it in
\* the export is neither created nor updated.
FirstOfName(rows) == {d \in rows : ~ \E e \in rows : Before(e, d) /\ NameOf[e] = NameOf[d]}

Kinds(p) == {KindOf[l] : l \in {l \in Links : OwnerOf[l] = p}}
Plain(rows) == {p \in rows : Kinds(p) \cap {"cell", "row"} = {}}

DiffOrganizations(orgs, found) == ToSet(orgs) \ found
DiffConfigTypes(o, s) == Missing(s, TypesOf(o, ConfigTypes))
DiffConfigStatuses(o, s) == Missing(s, TypesOf(o, Statuses))
DiffCustomAssetTypes(o, s) == Missing(s, TypesOf(o, AssetTypes))
DiffLocations(o, s) == [create |-> Missing(s, RowsOf(o, Locations)),
                        update |-> Changed(s, RowsOf(o, Locations))]
DiffConfigurations(o, s) == [create |-> Missing(s, RowsOf(o, Configs)),
                             update |-> Changed(s, RowsOf(o, Configs))]

\* Slip: a custom asset is created whether or not it was fetched.
DiffCustomAssetsAll(o, s) == RowsOf(o, Assets)

DiffCustomAssets(o, s) == Missing(s, RowsOf(o, Assets))
DiffDocuments(o, s) == [create |-> Missing(s, FirstOfName(RowsOf(o, Docs))),
                        update |-> Changed(s, FirstOfName(RowsOf(o, Docs)))]

\* A password that has a value in the export is always updated.
DiffPasswords(o, s) ==
  LET all == RowsOf(o, Passwords)
  IN  [create |-> Missing(s, Plain(all)),
       rows   |-> Missing(s, {p \in all : "row" \in Kinds(p)}),
       cells  |-> {l \in LinksOf(o) : KindOf[l] = "cell"},
       update |-> {p \in Plain(all) : s.known[p] # None /\ (p \notin Blank \/ p \in s.edited)}]

\* The kinds of resource that a relationship can be made to.
SyncKinds == {"configuration", "location", "document", "row"}
DiffRelationships(o, s) == Missing(s, {l \in LinksOf(o) : KindOf[l] \in SyncKinds})

PlanOf(o, s, step) ==
  CASE step = "organizations" -> {o} \cap s.new
    [] step = "configuration_types" -> DiffConfigTypes(o, s)
    [] step = "configuration_statuses" -> DiffConfigStatuses(o, s)
    [] step = "custom_asset_types" -> DiffCustomAssetTypes(o, s)
    [] step = "locations" -> DiffLocations(o, s).create
    [] step = "configurations" -> DiffConfigurations(o, s).create
    [] step = "custom_assets" -> DiffCustomAssets(o, s)
    [] step = "documents" -> DiffDocuments(o, s).create
    [] step = "passwords" -> DiffPasswords(o, s).create
    [] step = "row_passwords" -> DiffPasswords(o, s).rows
    [] step = "cell_writes" -> DiffPasswords(o, s).cells
    [] step = "relationships" -> DiffRelationships(o, s)
    [] step = "configuration_updates" -> DiffConfigurations(o, s).update
    [] step = "location_updates" -> DiffLocations(o, s).update
    [] step = "document_updates" -> DiffDocuments(o, s).update
    [] step = "password_updates" -> DiffPasswords(o, s).update

Plan(o, s) == [n \in DOMAIN Steps |-> PlanOf(o, s, Steps[n])]

\* The executor goes on to the next step of its plan that has something to do;
\* the first executor has a plan of organizations only.
Updates == {"configuration_updates", "location_updates", "document_updates", "password_updates"}

\* Slip: the updates are executed without being asked for.
LeftUpdates(s) == {n \in DOMAIN s.plan : n > s.step /\ s.plan[n] # {}}

Left(s) ==
  {n \in DOMAIN s.plan : n > s.step /\ s.plan[n] # {} /\ (Steps[n] \in Updates => s.update)}

Onto(s) ==
  IF s.at = "create" THEN [s EXCEPT !.at = "list"]
  ELSE IF Left(s) = {}
       THEN [s EXCEPT !.at = "fetch", !.orgs = Tail(@), !.made = Nothing, !.plan = <<>>]
       ELSE LET next == Min(Left(s))
            IN  [s EXCEPT !.at = "row", !.step = next, !.todo = s.plan[next]]

\* Slip: the last row of a step does not end it.
DoneOpen(s) == [s EXCEPT !.todo = @ \ {Item}, !.at = "row"]

Done(s) ==
  LET rest == [s EXCEPT !.todo = @ \ {Item}]
  IN  IF rest.todo = {} THEN Onto(rest)
      ELSE IF s.at = "create" THEN rest ELSE [rest EXCEPT !.at = "row"]
-----------------------------------------------------------------------------
(***************************************************************************)
(* The fetcher.                                                            *)
(***************************************************************************)
\* The first list says which organizations are to be created; when there are
\* any, the list is fetched once more after that.
FetchAllOrgs ==
  /\ sync.at = "list"
  /\ Leave
  /\ \/ Abort
     \/ /\ Still
        /\ \E found \in Listed({o \in Orgs : Enabled(o)}) :
           LET new == DiffOrganizations(sync.orgs, found)
           IN  sync' = IF sync.new = {} /\ new # {}
                       THEN [sync EXCEPT !.at = "create", !.found = found,
                                         !.new = new, !.todo = new]
                       ELSE [sync EXCEPT !.at = "fetch", !.found = found]

\* Of a row with several copies any one is found, and one on a list that is
\* too long may not be found at all.
Doubtful(o) ==
  {i \in Types \cup Scoped : /\ i \in Scoped => OrgOf[i] = o
                             /\ Exists(i) /\ (Len(server[i]) > 1 \/ Crowded(i))}
Picks(o) ==
  LET rows     == Doubtful(o)
      missable == {i \in rows : Crowded(i)}
      copies   == UNION {DOMAIN server[i] : i \in rows}
  IN  {pick \in [rows -> {None} \cup copies] : \A i \in rows :
         pick[i] \in DOMAIN server[i] \/ (pick[i] = None /\ i \in missable)}

\* The custom assets are listed by the types that were found; a relationship
\* is found from its password, and not when the list of that password's fails.
Found(pick, i) ==
  IF ~Exists(i) THEN None ELSE IF i \in DOMAIN pick THEN pick[i] ELSE 1
FoundRow(o, pick, i) ==
  IF \/ i \in Scoped /\ OrgOf[i] # o
     \/ i \in Assets /\ Found(pick, TypeOf[i]) = None
  THEN None ELSE Found(pick, i)
FoundLink(o, pick, unlisted, l) ==
  LET src == FoundRow(o, pick, OwnerOf[l])
      dst == FoundRow(o, pick, TargetOf[l])
  IN  IF /\ OwnerOf[l] \notin unlisted /\ src # None
         /\ \E n \in DOMAIN server[l] : server[l][n].src = src /\ server[l][n].dst = dst
      THEN 1 ELSE None
Fetched(o, pick, unlisted) ==
  [i \in Items |-> IF i \in Links THEN FoundLink(o, pick, unlisted, i) ELSE FoundRow(o, pick, i)]

\* An organization that is not found is passed over with a message.
FetchForOrg ==
  /\ sync.at = "fetch"
  /\ sync.orgs # <<>>
  /\ Leave
  /\ LET o == Head(sync.orgs)
     IN  \/ /\ o \notin sync.found
            /\ sync' = [sync EXCEPT !.orgs = Tail(@)]
            /\ Still
         \/ o \in sync.found /\ Abort
         \/ /\ o \in sync.found
            /\ UNCHANGED server
            /\ \E pick \in Picks(o),
                  unlisted \in {{}} \cup {{p} : p \in Passwords} :
                 LET known == Fetched(o, pick, unlisted)
                     seen  == [sync EXCEPT
                       !.known = known, !.step = 0,
                       !.edited = {i \in Scoped :
                         known[i] # None /\ server[i][known[i]].text = "edited"}]
                 IN  /\ \A p \in unlisted : known[p] # None /\ faults < MaxFaults
                     /\ faults' = faults + Cardinality(unlisted)
                     /\ sync' = Onto([seen EXCEPT !.plan = Plan(o, seen)])

SyncEnd ==
  /\ sync.at = "fetch"
  /\ sync.orgs = <<>>
  /\ sync' = Stop(sync, IF sync.failed THEN "failures" ELSE "success")
  /\ Leave /\ Still
-----------------------------------------------------------------------------
(***************************************************************************)
(* The executor.                                                           *)
(***************************************************************************)
Answers == {"created", "conflict", "refused", "lost"}

\* A row is created and its uuid is put into the id map; whatever else the
\* call comes to is counted as a failure.
CreateRow(row) ==
  \E answer \in Answers :
    /\ Post(Item, row, answer)
    /\ LET made == [sync EXCEPT !.made[Item] = Len(server[Item]) + 1]
       IN  sync' = IF answer # "created" THEN Done(Failed(sync))
                   ELSE IF Item \in WithFile THEN [made EXCEPT !.at = "upload"]
                   ELSE Done(made)

PassOver == sync' = Done(sync) /\ Still

\* The first executor, and again the one of the organization itself: there a
\* conflict is the rule.

\* Slip: a conflict is a failure like any other.
ExecuteOrganizationsStrict ==
  /\ sync.at = "create" \/ Doing("organizations")
  /\ Leave
  /\ \E answer \in Answers :
       /\ Post(Item, Copy("sync", None, None), answer)
       /\ sync' = Done(IF answer = "created" THEN sync ELSE Failed(sync))

ExecuteOrganizations ==
  /\ sync.at = "create" \/ Doing("organizations")
  /\ Leave
  /\ \E answer \in Answers :
       /\ Post(Item, Copy("sync", None, None), answer)
       /\ sync' = Done(IF answer \in {"created", "conflict"} THEN sync ELSE Failed(sync))

\* The types and statuses created here are not added to the fetched state, in
\* which the configurations look them up; those of custom assets are.
CreateType(known) ==
  /\ Leave
  /\ \E answer \in Answers :
       /\ Post(Item, Copy("sync", None, None), answer)
       /\ sync' = Done(IF answer # "created" THEN Failed(sync)
                       ELSE [sync EXCEPT !.known = known])
ExecuteConfigTypes == Doing("configuration_types") /\ CreateType(sync.known)
ExecuteConfigStatuses == Doing("configuration_statuses") /\ CreateType(sync.known)

\* Slip: nor are those of custom assets.
ExecuteCustomAssetTypesUnseen ==
  Doing("custom_asset_types") /\ CreateType(sync.known)

ExecuteCustomAssetTypes ==
  Doing("custom_asset_types") /\ CreateType([sync.known EXCEPT ![Item] = 1])

ExecuteLocations ==
  Doing("locations") /\ CreateRow(Copy("sync", None, None)) /\ Leave

ExecuteConfigurations ==
  /\ Doing("configurations")
  /\ CreateRow(Copy("sync", sync.known[TypeOf[Item]], sync.known[StatusOf[Item]]))
  /\ Leave

ExecuteCustomAssets ==
  /\ Doing("custom_assets")
  /\ Leave
  /\ IF sync.known[TypeOf[Item]] = None THEN PassOver
     ELSE CreateRow(Copy("sync", sync.known[TypeOf[Item]], None))

\* A document without a body is created if it has attachments.
ExecuteDocuments ==
  /\ Doing("documents")
  /\ Leave
  /\ IF Item \in Empty \ WithFile THEN PassOver ELSE CreateRow(Copy("sync", None, None))

ExecutePasswords ==
  /\ Doing("passwords")
  /\ Leave
  /\ IF Item \in Blank THEN PassOver ELSE CreateRow(Copy("sync", None, None))

\* A password of a row of a custom asset, and right after it the relationship.
ExecuteRowPasswords ==
  /\ Doing("row_passwords")
  /\ Leave
  /\ \E answer \in Answers :
       /\ Post(Item, Copy("sync", None, None), answer)
       /\ sync' = IF answer = "created"
                  THEN [sync EXCEPT !.made[Item] = Len(server[Item]) + 1, !.at = "link"]
                  ELSE Done(Failed(sync))

\* The uuid of a row: of this execution first, of the fetched state second.
UuidOf(i) == IF sync.made[i] # None THEN sync.made[i] ELSE sync.known[i]

\* Slip: a relationship is created without looking whether its ends are known.
CreateRelationshipBlind(l) ==
  \E answer \in Answers :
    /\ Post(l, LinkCopy("sync", UuidOf(OwnerOf[l]), UuidOf(TargetOf[l])), answer)
    /\ sync' = Done(IF answer \in {"created", "conflict"} THEN sync ELSE Failed(sync))

CreateRelationship(l) ==
  LET src == UuidOf(OwnerOf[l])
      dst == UuidOf(TargetOf[l])
  IN  IF None \in {src, dst} THEN PassOver
      ELSE \E answer \in Answers :
             /\ Post(l, LinkCopy("sync", src, dst), answer)
             /\ sync' = Done(IF answer \in {"created", "conflict"} THEN sync ELSE Failed(sync))

LinkRowPassword ==
  /\ sync.at = "link"
  /\ CreateRelationship(CHOOSE l \in Links : OwnerOf[l] = Item)
  /\ Leave
ExecuteRelationships == Doing("relationships") /\ CreateRelationship(Item) /\ Leave

\* An update of one copy; when it is refused nothing is changed.
Put(i, text) ==
  \/ /\ server' = [server EXCEPT ![i][UuidOf(i)].text = text]
     /\ sync' = Done(sync)
     /\ UNCHANGED faults
  \/ /\ faults < MaxFaults
     /\ faults' = faults + 1
     /\ sync' = Done(Failed(sync))
     /\ server' \in {server, [server EXCEPT ![i][UuidOf(i)].text = text]}

\* The value of a cell password is written into a field of its custom asset if
\* this sync has created that: the type of one that was fetched is looked up
\* under a name that the answers of the server do not have, and it is skipped.
ExecuteCellWrites ==
  /\ Doing("cell_writes")
  /\ Leave
  /\ IF sync.made[TargetOf[Item]] = None THEN PassOver ELSE Put(TargetOf[Item], "cell")

UpdateConfiguration == Doing("configuration_updates") /\ Put(Item, "export") /\ Leave
UpdateLocation == Doing("location_updates") /\ Put(Item, "export") /\ Leave
UpdateDocument == Doing("document_updates") /\ Put(Item, "export") /\ Leave
UpdatePassword == Doing("password_updates") /\ Put(Item, "export") /\ Leave

\* An upload that fails is logged and counted nowhere.
UploadAttachments ==
  /\ sync.at = "upload"
  /\ \E file \in Files : Attach(Item, sync.made[Item], file)
  /\ sync' = Done(sync)
  /\ Leave

Kill ==
  /\ Syncing
  /\ faults < MaxFaults
  /\ faults' = faults + 1
  /\ sync' = Stop(sync, "died")
  /\ UNCHANGED server
  /\ Leave

StartSync(update, orgs) ==
  /\ jobs < MaxJobs
  /\ jobs' = jobs + 1
  /\ sync' = [SyncIdle EXCEPT !.at = "list", !.update = update, !.orgs = orgs,
                            !.asked = ToSet(orgs), !.before = faults]
  /\ UNCHANGED <<server, hidden, faults>>

SyncInit == sync = SyncIdle

SyncStep ==
  \/ FetchAllOrgs \/ FetchForOrg \/ SyncEnd
  \/ ExecuteOrganizations
  \/ ExecuteConfigTypes \/ ExecuteConfigStatuses \/ ExecuteCustomAssetTypes
  \/ ExecuteLocations \/ ExecuteConfigurations \/ ExecuteCustomAssets
  \/ ExecuteDocuments \/ ExecutePasswords
  \/ ExecuteRowPasswords \/ LinkRowPassword
  \/ ExecuteCellWrites \/ ExecuteRelationships
  \/ UpdateConfiguration \/ UpdateLocation \/ UpdateDocument \/ UpdatePassword
  \/ UploadAttachments \/ Kill

SyncStart ==
  \E update \in BOOLEAN :
    \/ StartSync(update, Rows["organizations"])
    \/ \E o \in Orgs : StartSync(update, <<o>>)
-----------------------------------------------------------------------------
\* The memory of a sync has the types that the steps expect.
SyncTypeOK ==
  /\ sync.at \in {"idle", "list", "create", "fetch", "row", "upload", "link"}
  /\ sync.update \in BOOLEAN /\ sync.failed \in BOOLEAN
  /\ sync.asked \subseteq Orgs /\ sync.found \subseteq Orgs /\ sync.new \subseteq Orgs
  /\ ToSet(sync.orgs) \subseteq sync.asked /\ sync.todo \subseteq Items
  /\ \A n \in DOMAIN sync.plan : sync.plan[n] \subseteq Items
  /\ sync.edited \subseteq Scoped
  /\ sync.known \in [Items -> Nat] /\ sync.made \in [Items -> Nat]
  /\ sync.at \in {"create", "row", "upload", "link"} => sync.todo # {}
  /\ sync.code \in {"none", "success", "failures", "died"} /\ sync.before \in Nat

\* A sync creates nothing that the server has, whoever put it there, whatever
\* became of the syncs before and whichever of their answers were lost, unless
\* the list that the row is on is too long for one answer.
SyncCreatesOnce ==
  [][\A i \in Items \ Links :
       Len(server'[i]) > Len(server[i]) /\ sync.at # "idle" => ~Exists(i) \/ Crowded(i)]_<<server, sync>>

\* What a sync passes over without a word: a later document of the same name,
\* a document without body and file, a password without value, and what a
\* cell of a custom asset holds.
PassedOver(i) ==
  \/ i \in Docs /\ \E d \in Docs \ {i} : OrgOf[d] = OrgOf[i] /\ NameOf[d] = NameOf[i]
  \/ i \in Empty \ WithFile
  \/ i \in Passwords /\ "cell" \in Kinds(i)
  \/ i \in Blank /\ Kinds(i) \cap {"row", "cell"} = {}

\* Of an organization a sync leaves on the server every row, and every
\* relationship it can make between rows that are there and that it can see.
Whole(o) ==
  /\ Exists(o)
  /\ \A i \in Scoped : OrgOf[i] = o => Exists(i) \/ PassedOver(i)
  /\ \A l \in Links :
       /\ OrgOf[OwnerOf[l]] = o /\ OrgOf[TargetOf[l]] = o
       /\ Exists(OwnerOf[l]) /\ Exists(TargetOf[l])
       /\ KindOf[l] \in SyncKinds
       => Exists(l) \/ Crowded(OwnerOf[l]) \/ Crowded(TargetOf[l])

\* When a sync ends with exit code 0, every organization it was asked for is
\* whole, but for those that somebody has disabled and for those that are not
\* in a list too short for all: one of these is passed over with a message.
SyncIsComplete ==
  [][Syncing /\ sync'.code = "success" =>
       \A o \in sync.asked \ hidden :
         Whole(o) \/ (o \notin sync.found /\ Exists(o) /\ Crowded(o))]_<<server, hidden, sync>>

\* A sync that meets no failing call ends with exit code 0, whatever runs and
\* syncs left on the server before: a conflict that it runs into is expected,
\* except with a type that the server has and a list of types does not show.
SyncFailuresHaveCause ==
  sync.code = "failures" => sync.before < faults \/ \E t \in Types : Crowded(t)

\* Without --update-existing a sync undoes no edit of a user, except one made
\* in its course in a custom asset that it has created and that has a cell
\* password.
EditsSurvive ==
  [][~sync.update =>
       \A i \in Scoped : \A n \in DOMAIN server[i] :
         server[i][n].text = "edited" /\ server'[i][n].text # "edited" =>
           /\ n = sync.made[i]
           /\ \E l \in Links : TargetOf[l] = i /\ KindOf[l] = "cell"]_<<server, sync>>
=============================================================================
