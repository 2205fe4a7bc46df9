------------------------------ MODULE Catalogue ------------------------------
(***************************************************************************)
(* The documentation itself: organizations, the types shared by all of     *)
(* them, the entities of an organization, relationships, attachments and   *)
(* favorites, with the audit log written beside them and the attachments'  *)
(* objects in the file storage.                                            *)
(*                                                                         *)
(* A request reads and checks first and writes afterwards, in one database *)
(* transaction that is committed when its handler has returned.  In        *)
(* between, other requests commit: what was read may be stale when it is   *)
(* used.  An endpoint is therefore two steps.  The action named after the  *)
(* endpoint is its reading and checking, and ends in the unit of work that *)
(* it is about to flush; Commit flushes and commits it, or the constraints *)
(* of the database refuse it and everything is rolled back.  A request     *)
(* that is answered with a 404, 409 or 422 changes nothing and is no step. *)
(***************************************************************************)
EXTENDS Integers, FiniteSets

CONSTANTS
  Orgs, ConfigTypes, Statuses, AssetTypes,
  Locations, Passwords, Documents, Configs, Assets,
  Links, Attachments, Favorites,          \* uuids, by table
  Names, FieldIds, Users,
  Starts,       \* what the rows can be in the beginning
  Requests,     \* the requests that can be in flight at a time
  Null, Idle,
  MaxRequests,  \* bound: requests that get past their checks
  MaxFaults     \* bound: commits and calls to the file storage that fail

VARIABLES
  rows,      \* the committed rows, by uuid
  used,      \* every uuid that ever named a committed row
  audit,     \* the committed rows of the audit log
  objects,   \* the attachments with an object in the file storage
  work,      \* the unit of work of every request in flight
  handed,    \* the attachments whose upload address a client was given
  uploaded,  \* the attachments a client has ever uploaded
  retyped,   \* every kind that a field of an asset type ever had
  excuse,    \* rows and objects lost or left for a reason given below
  served, faults

vars == <<rows, used, audit, objects, work, handed, uploaded, retyped, excuse, served, faults>>

Entities == Locations \cup Passwords \cup Documents \cup Configs \cup Assets
Ids == Orgs \cup ConfigTypes \cup Statuses \cup AssetTypes \cup Entities
         \cup Links \cup Attachments \cup Favorites
Tables == <<Orgs, ConfigTypes, Statuses, AssetTypes, Locations, Passwords, Documents,
            Configs, Assets, Links, Attachments, Favorites>>

\* No uuid is drawn twice.
ASSUME TablesAssumption ==
  \A t, u \in DOMAIN Tables : t # u => Tables[t] \cap Tables[u] = {}
ASSUME BoundsAssumption ==
  MaxRequests \in Nat /\ MaxFaults \in Nat /\ Null \notin Ids

Present == DOMAIN rows
In(table) == table \cap Present

\* What `changes` says, and the rest of `old`.
Over(changes, old) ==
  [c \in DOMAIN changes \cup DOMAIN old |-> IF c \in DOMAIN changes THEN changes[c] ELSE old[c]]
-----------------------------------------------------------------------------
(* The columns of the tables. *)

\* The fields of an asset type: their ids and whether a field is a secret (a
\* password or a TOTP seed).
Kinds == {"text", "secret"}
FieldSets == UNION {[fs -> Kinds] : fs \in SUBSET FieldIds}

\* A value of a custom asset is "plain", "cipher" or, were a cipher encrypted
\* again, "twice".
Encrypted == [plain |-> "cipher", cipher |-> "twice", twice |-> "twice"]
Values == UNION {[fs -> DOMAIN Encrypted] : fs \in SUBSET FieldIds}

Row(i) ==
  CASE i \in Orgs -> [name : Names, enabled : BOOLEAN]
    [] i \in ConfigTypes \cup Statuses -> [name : Names, active : BOOLEAN]
    [] i \in AssetTypes -> [name : Names, active : BOOLEAN, fields : FieldSets]
    [] i \in Locations \cup Passwords \cup Documents -> [org : Orgs, enabled : BOOLEAN]
    [] i \in Configs -> [org : Orgs, enabled : BOOLEAN,
                         ctype : ConfigTypes \cup {Null}, status : Statuses \cup {Null}]
    [] i \in Assets -> [org : Orgs, enabled : BOOLEAN, type : AssetTypes, values : Values]
    [] i \in Links -> [org : Orgs, source : Entities, target : Entities]
    [] i \in Favorites -> [user : Users, org : Orgs, entity : Entities]
    [] i \in Attachments -> [org : Orgs]
-----------------------------------------------------------------------------
(* What the tables guarantee. *)

\* Foreign keys: deleting an organization or an asset type deletes the rows
\* that refer to it; deleting a type or a status of configurations sets the
\* reference to NULL.  The ends of a relationship and the entities of
\* attachments and favorites are plain columns.
References(row) == {row[c] : c \in DOMAIN row \cap {"org", "type", "ctype", "status"}} \ {Null}
Cascade(i) == {i} \cup {j \in Present : \E c \in DOMAIN rows[j] \cap {"org", "type"} : rows[j][c] = i}

\* Slip: no ON DELETE SET NULL.
WithoutNulling(i) == [j \in Present \ Cascade(i) |-> rows[j]]

Without(i) ==
  [j \in Present \ Cascade(i) |->
    [c \in DOMAIN rows[j] |->
      IF c \in {"ctype", "status"} /\ rows[j][c] = i THEN Null ELSE rows[j][c]]]

\* Unique indexes.
Key(i, row) ==
  CASE i \in Orgs        -> <<"organizations", row.name>>
    [] i \in ConfigTypes -> <<"configuration_types", row.name>>
    [] i \in Statuses    -> <<"configuration_statuses", row.name>>
    [] i \in AssetTypes  -> <<"custom_asset_types", row.name>>
    [] i \in Links       -> <<"relationships", row.source, row.target>>
    [] i \in Favorites   -> <<"user_favorites", row.user, row.org, row.entity>>
    [] OTHER             -> <<"id", i>>
Unique(i, row) == \A j \in Present \ {i} : Key(j, rows[j]) # Key(i, row)

\* The application stores a relationship in one direction, the one that the
\* order of types and uuids chooses.
\* Slip: the ends are stored as they come.
NormalizedNot(x, y) == <<x, y>>

Normalized(x, y) == CHOOSE pair \in {<<x, y>>, <<y, x>>} : TRUE
-----------------------------------------------------------------------------
(* The unit of work of a request: what it inserts, updates or deletes, the  *)
(* audit rows it has added, and for the checks that other requests can make *)
(* stale, what it has read.                                                 *)

Log(action, o, i) == {[action |-> action, org |-> o, id |-> i]}

\* Free uuids are interchangeable: an insert takes any one of its table.
Fresh(table) ==
  LET free == table \ (used \cup handed \cup {work[s].id : s \in {s \in Requests : work[s] # Idle}})
  IN IF free = {} THEN {} ELSE {CHOOSE i \in free : TRUE}

Ready(s) == work[s] = Idle /\ served < MaxRequests
Unit(do, i, row, asked, log, seen) ==
  [do |-> do, id |-> i, row |-> row, asked |-> asked, log |-> log, seen |-> seen]
\* An idle request has none.
ASSUME IdleAssumption == \A i \in Attachments : Idle # Unit("delete", i, <<>>, {}, {}, {})

Begin(s, do, i, row, asked, log, seen) ==
  /\ served' = served + 1
  /\ work' = [work EXCEPT ![s] = Unit(do, i, row, asked, log, seen)]
Reads == UNCHANGED <<rows, used, audit, objects, handed, uploaded, retyped, excuse, faults>>

Insert(s, i, row, log) == Begin(s, "insert", i, row, {}, log, {}) /\ Reads
Delete(s, i, log, seen) == Begin(s, "delete", i, <<>>, {}, log, seen) /\ Reads
View(s, i, log) == Begin(s, "view", i, <<>>, {}, log, {}) /\ Reads

\* Slip: the session writes every column as it has read it.
UpdateWholeRow(s, i, asked, log, seen) ==
  Begin(s, "update", i, Over(asked, rows[i]), DOMAIN asked, log, seen) /\ Reads

\* The session writes the columns whose value differs from the one it read.
Update(s, i, asked, log, seen) ==
  LET changed == {c \in DOMAIN asked : asked[c] # rows[i][c]}
  IN Begin(s, "update", i, [c \in changed |-> asked[c]], DOMAIN asked, log, seen) /\ Reads
-----------------------------------------------------------------------------
(* Organizations. *)

CreateOrganization(s) ==
  Ready(s) /\ \E i \in Fresh(Orgs), n \in Names :
    /\ \A j \in In(Orgs) : rows[j].name # n
    /\ Insert(s, i, [name |-> n, enabled |-> TRUE], Log("create", i, i))

GetOrganization(s) == Ready(s) /\ \E i \in In(Orgs) : View(s, i, Log("view", i, i))

\* No check of the name: the unique index refuses one that is taken.
UpdateOrganization(s) ==
  Ready(s) /\ \E i \in In(Orgs) :
    \E asked \in [{"name"} -> Names] \cup [{"enabled"} -> BOOLEAN] :
      Update(s, i, asked, Log("update", i, i), <<>>)

DeleteOrganization(s) == Ready(s) /\ \E i \in In(Orgs) : Delete(s, i, Log("delete", i, i), {})
-----------------------------------------------------------------------------
(* The types of configurations, their statuses and the custom asset types: *)
(* one shape, no audit.                                                    *)

Referrers(i, column) == {j \in Present : column \in DOMAIN rows[j] /\ rows[j][column] = i}

CreateNamed(s, table, row) ==
  Ready(s) /\ \E i \in Fresh(table) :
    /\ \A j \in In(table) : rows[j].name # row.name
    /\ Insert(s, i, row, {})
SetActive(s, table, active) ==
  Ready(s) /\ \E i \in In(table) : Update(s, i, [active |-> active], {}, <<>>)

\* Slip: the count leaves out the rows that are disabled.
CanDeleteEnabled(i, column) == \A j \in Referrers(i, column) : ~rows[j].enabled

\* Allowed while no row refers to the type, then and there.
CanDelete(i, column) == Referrers(i, column) = {}

DeleteType(s, table, column) ==
  Ready(s) /\ \E i \in In(table) : CanDelete(i, column) /\ Delete(s, i, {}, Referrers(i, column))

CreateConfigurationType(s) ==
  \E n \in Names : CreateNamed(s, ConfigTypes, [name |-> n, active |-> TRUE])
DeactivateConfigurationType(s) == SetActive(s, ConfigTypes, FALSE)
ActivateConfigurationType(s) == SetActive(s, ConfigTypes, TRUE)
DeleteConfigurationType(s) == DeleteType(s, ConfigTypes, "ctype")

CreateConfigurationStatus(s) ==
  \E n \in Names : CreateNamed(s, Statuses, [name |-> n, active |-> TRUE])
DeactivateConfigurationStatus(s) == SetActive(s, Statuses, FALSE)
ActivateConfigurationStatus(s) == SetActive(s, Statuses, TRUE)
DeleteConfigurationStatus(s) == DeleteType(s, Statuses, "status")

CreateCustomAssetType(s) ==
  Ready(s) /\ \E n \in Names, fields \in FieldSets :
    CreateNamed(s, AssetTypes, [name |-> n, active |-> TRUE, fields |-> fields])

\* The fields are replaced as a whole; a new name is looked up first.
UpdateCustomAssetType(s) ==
  Ready(s) /\ \E i \in In(AssetTypes) :
    \/ \E n \in Names :
         /\ n # rows[i].name => \A j \in In(AssetTypes) : rows[j].name # n
         /\ Update(s, i, [name |-> n], {}, <<>>)
    \/ \E fields \in FieldSets : Update(s, i, [fields |-> fields], {}, <<>>)

DeactivateCustomAssetType(s) == SetActive(s, AssetTypes, FALSE)
ActivateCustomAssetType(s) == SetActive(s, AssetTypes, TRUE)
DeleteCustomAssetType(s) == DeleteType(s, AssetTypes, "type")
-----------------------------------------------------------------------------
(* The entities of an organization.  The organization is part of the URL:  *)
(* a row of another organization is not found.                             *)

OfOrg(o, table) == {i \in In(table) : rows[i].org = o}

CreateEntity(s, table, columns) ==
  Ready(s) /\ \E o \in In(Orgs), i \in Fresh(table) :
    Insert(s, i, Over([org |-> o, enabled |-> TRUE], columns), Log("create", o, i))
GetEntity(s, table) ==
  Ready(s) /\ \E o \in In(Orgs) : \E i \in OfOrg(o, table) : View(s, i, Log("view", o, i))
UpdateEntity(s, table, asked) ==
  Ready(s) /\ \E o \in In(Orgs) : \E i \in OfOrg(o, table) :
    Update(s, i, asked, Log("update", o, i), <<>>)
DeleteEntity(s, table) ==
  Ready(s) /\ \E o \in In(Orgs) : \E i \in OfOrg(o, table) : Delete(s, i, Log("delete", o, i), {})

\* One UPDATE over the ids of the request, committed at once, without audit.
BatchToggle(table) ==
  /\ served < MaxRequests
  /\ served' = served + 1
  /\ \E o \in In(Orgs), ids \in SUBSET table, enabled \in BOOLEAN :
       /\ ids # {}
       /\ rows' = [i \in Present |->
            IF i \in ids \cap OfOrg(o, table) THEN [rows[i] EXCEPT !.enabled = enabled] ELSE rows[i]]
  /\ UNCHANGED <<used, audit, objects, work, handed, uploaded, retyped, excuse, faults>>

CreateLocation(s) == CreateEntity(s, Locations, <<>>)
GetLocation(s) == GetEntity(s, Locations)
UpdateLocation(s) == \E b \in BOOLEAN : UpdateEntity(s, Locations, [enabled |-> b])
DeleteLocation(s) == DeleteEntity(s, Locations)
BatchToggleLocations == BatchToggle(Locations)

CreatePassword(s) == CreateEntity(s, Passwords, <<>>)
GetPassword(s) == GetEntity(s, Passwords)
RevealPassword(s) == GetEntity(s, Passwords)
UpdatePassword(s) == \E b \in BOOLEAN : UpdateEntity(s, Passwords, [enabled |-> b])
DeletePassword(s) == DeleteEntity(s, Passwords)
BatchTogglePasswords == BatchToggle(Passwords)

\* Documents and configurations write their audit row before they look for
\* the row that is to be deleted; not finding it is a 404, which rolls the
\* audit row back.
CreateDocument(s) == CreateEntity(s, Documents, <<>>)
GetDocument(s) == GetEntity(s, Documents)
UpdateDocument(s) == \E b \in BOOLEAN : UpdateEntity(s, Documents, [enabled |-> b])

\* Slip: a document that is not found is no error.
DeleteDocumentQuietly(s) ==
  Ready(s) /\ \E o \in In(Orgs), i \in In(Documents) :
    IF i \in OfOrg(o, Documents) THEN Delete(s, i, Log("delete", o, i), {})
                                 ELSE View(s, i, Log("delete", o, i))

DeleteDocument(s) == DeleteEntity(s, Documents)
BatchToggleDocuments == BatchToggle(Documents)

\* Any uuid of a type or a status is accepted that the foreign key accepts.
CreateConfiguration(s) ==
  \E t \in In(ConfigTypes) \cup {Null}, c \in In(Statuses) \cup {Null} :
    CreateEntity(s, Configs, [ctype |-> t, status |-> c])
GetConfiguration(s) == GetEntity(s, Configs)
UpdateConfiguration(s) ==
  \/ \E b \in BOOLEAN : UpdateEntity(s, Configs, [enabled |-> b])
  \/ \E t \in In(ConfigTypes) \cup {Null} : UpdateEntity(s, Configs, [ctype |-> t])
  \/ \E c \in In(Statuses) \cup {Null} : UpdateEntity(s, Configs, [status |-> c])
DeleteConfiguration(s) == DeleteEntity(s, Configs)
BatchToggleConfigurations == BatchToggle(Configs)
-----------------------------------------------------------------------------
(* Custom assets: values by field id, secrets encrypted.                    *)

\* The fields of `fields` that a stored value or the request has.  A value
\* of a field that the type no longer has is dropped.
Known(fields, values) == [f \in DOMAIN values \cap DOMAIN fields |-> values[f]]

\* Slip: the stored values are not decrypted before they are written back.
ValuesIdToKeyRaw(fields, values) == Known(fields, values)

\* A secret that is no cipher cannot be decrypted: the request fails.
ValuesIdToKey(fields, values) ==
  [f \in DOMAIN Known(fields, values) |-> IF fields[f] = "secret" THEN "plain" ELSE values[f]]
Decryptable(fields, values) ==
  \A f \in DOMAIN Known(fields, values) : fields[f] = "secret" => values[f] = "cipher"

ValuesKeyToId(fields, values) ==
  [f \in DOMAIN values |-> IF fields[f] = "secret" THEN Encrypted[values[f]] ELSE values[f]]

CreateCustomAsset(s) ==
  Ready(s) /\ \E t \in In(AssetTypes) : \E data \in SUBSET DOMAIN rows[t].fields :
    CreateEntity(s, Assets, [type |-> t,
      values |-> ValuesKeyToId(rows[t].fields, [f \in data |-> "plain"])])
GetCustomAsset(s) == GetEntity(s, Assets)

\* The values are read, merged with those of the request and written back as
\* a whole.
UpdateValues(s, o, a, data) ==
  LET fields == rows[rows[a].type].fields
      current == ValuesIdToKey(fields, rows[a].values)
  IN /\ Decryptable(fields, rows[a].values)
     /\ Update(s, a,
               [values |-> ValuesKeyToId(fields, Over([f \in data |-> "plain"], current))],
               Log("update", o, a),
               [data |-> data, values |-> Known(fields, rows[a].values)])
UpdateCustomAsset(s) ==
  \/ \E b \in BOOLEAN : UpdateEntity(s, Assets, [enabled |-> b])
  \/ Ready(s) /\ \E o \in In(Orgs) : \E a \in OfOrg(o, Assets) :
       \E data \in SUBSET DOMAIN rows[rows[a].type].fields : UpdateValues(s, o, a, data)
DeleteCustomAsset(s) == DeleteEntity(s, Assets)
BatchToggleCustomAssets == BatchToggle(Assets)
-----------------------------------------------------------------------------
(* Relationships: between two entities of one organization.                 *)

CreateRelationship(s) ==
  Ready(s) /\ \E o \in In(Orgs), i \in Fresh(Links) :
    \E x \in OfOrg(o, Entities) : \E y \in OfOrg(o, Entities) \ {x} :
      LET pair == Normalized(x, y) IN
      /\ \A j \in OfOrg(o, Links) : <<rows[j].source, rows[j].target>> # pair
      /\ Insert(s, i, [org |-> o, source |-> pair[1], target |-> pair[2]], {})
DeleteRelationship(s) ==
  Ready(s) /\ \E o \in In(Orgs) : \E i \in OfOrg(o, Links) : Delete(s, i, {}, {})
-----------------------------------------------------------------------------
(* Attachments: the row first, then the client puts the object at the       *)
(* address it was given, which stays valid for a while whatever becomes of  *)
(* the row.  The address is in the answer, and the answer is sent before    *)
(* the request's transaction commits.                                       *)

CreateAttachment(s) ==
  Ready(s) /\ \E o \in In(Orgs), i \in Fresh(Attachments) : Insert(s, i, [org |-> o], {})
UploadDocumentImage(s) ==
  Ready(s) /\ \E o \in In(Orgs), i \in Fresh(Attachments) : Insert(s, i, [org |-> o], {})

Creating(i) == \E s \in Requests : work[s] # Idle /\ work[s].do = "insert" /\ work[s].id = i
Deleting(i) == \E s \in Requests : work[s] # Idle /\ work[s].do = "delete" /\ work[s].id = i

PutObject(i) ==
  /\ i \in handed \ objects
  /\ served < MaxRequests
  /\ served' = served + 1
  /\ objects' = objects \cup {i}
  /\ uploaded' = uploaded \cup {i}
  /\ excuse' = IF Creating(i) \/ (i \in Present /\ ~Deleting(i)) THEN excuse ELSE excuse \cup {i}
  /\ UNCHANGED <<rows, used, audit, work, handed, retyped, faults>>

\* Slip: the object is left to somebody else.
DeleteAttachmentRow(s) ==
  Ready(s) /\ \E o \in In(Orgs) : \E i \in OfOrg(o, Attachments) : Delete(s, i, {}, {})
\* The object goes within the handler, the row with the commit after it.  A
\* storage that fails is logged and ignored.
DeleteAttachment(s) ==
  Ready(s) /\ \E o \in In(Orgs) : \E i \in OfOrg(o, Attachments) :
    /\ Begin(s, "delete", i, <<>>, {}, {}, {})
    /\ \/ objects' = objects \ {i} /\ UNCHANGED <<excuse, faults>>
       \/ /\ faults < MaxFaults
          /\ faults' = faults + 1
          /\ excuse' = excuse \cup {i}
          /\ UNCHANGED objects
    /\ UNCHANGED <<rows, used, audit, handed, uploaded, retyped>>

-----------------------------------------------------------------------------
(* Favorites of a user.  One that is there already is returned as it is.    *)

AddFavorite(s) ==
  Ready(s) /\ \E u \in Users, o \in In(Orgs), e \in Entities, i \in Fresh(Favorites) :
    LET favorite == [user |-> u, org |-> o, entity |-> e] IN
    /\ \A j \in In(Favorites) : rows[j] # favorite
    /\ Insert(s, i, favorite, {})

\* Looked up among the user's favorites and deleted by its id ...
RemoveFavorite(s) == Ready(s) /\ \E i \in In(Favorites) : Delete(s, i, {}, {})

\* ... or deleted by the entity in one statement.
UnfavoriteEntity ==
  /\ served < MaxRequests
  /\ served' = served + 1
  /\ \E i \in In(Favorites) : rows' = Without(i)
  /\ UNCHANGED <<used, audit, objects, work, handed, uploaded, retyped, excuse, faults>>
-----------------------------------------------------------------------------
(* The end of a request. *)

\* Flush and commit.  An update of a row that is gone fails; a deletion of
\* one that is gone deletes nothing.  An audit row refers to its organization
\* and goes with it.
After(w) ==
  CASE w.do = "insert" -> Over([i \in {w.id} |-> w.row], rows)
    [] w.do = "update" -> [rows EXCEPT ![w.id] = Over(w.row, @)]
    [] w.do = "delete" -> Without(w.id)
    [] w.do = "view"   -> rows
Accepted(w) ==
  /\ w.do = "update" => w.id \in Present
  /\ w.do \in {"insert", "update"} => References(w.row) \subseteq Present
  /\ w.do = "insert" => Unique(w.id, w.row)
  /\ w.do = "update" => Unique(w.id, Over(w.row, rows[w.id]))
  /\ \A a \in w.log : a.org \in Present \cup {w.id}
  /\ w.do = "delete" /\ w.log # {} => \A a \in w.log : a.org \in Present
\* A field that gets another kind; an asset that goes with its type; an
\* attachment whose organization goes while its object stays.
Retyped(w) ==
  IF w.do # "view" /\ "fields" \in DOMAIN w.row
  THEN {<<w.id, f, w.row.fields[f]>> : f \in DOMAIN w.row.fields} ELSE {}
Taken(w) ==
  IF w.do = "delete" /\ w.id \in Present
  THEN (Cascade(w.id) \ {w.id}) \cap (Assets \cup Attachments) ELSE {}

\* The row of an attachment is flushed and the answer with its address goes
\* out; its transaction is still open and holds its organization.
HandOut(s) ==
  /\ work[s] # Idle /\ work[s].do = "insert" /\ work[s].id \in Attachments \ handed
  /\ Accepted(work[s])
  /\ handed' = handed \cup {work[s].id}
  /\ UNCHANGED <<rows, used, audit, objects, work, uploaded, retyped, excuse, served, faults>>
HeldByOthers(s) ==
  \E q \in Requests \ {s} : work[q] # Idle /\ work[q].id \in handed /\ work[q].do = "insert"
                            /\ work[q].row.org = work[s].id

Commit(s) ==
  /\ work[s] # Idle
  /\ work[s].id \in Attachments => work[s].id \in handed
  /\ work[s].do = "delete" => ~HeldByOthers(s)
  /\ Accepted(work[s])
  /\ rows' = After(work[s])
  /\ used' = used \cup DOMAIN rows'
  /\ audit' = {a \in audit \cup work[s].log : a.org \in DOMAIN rows'}
  /\ retyped' = retyped \cup Retyped(work[s])
  /\ excuse' = excuse \cup Taken(work[s])
  /\ work' = [work EXCEPT ![s] = Idle]
  /\ UNCHANGED <<objects, handed, uploaded, served, faults>>

\* The session is rolled back: refused by a constraint, or the commit fails.
\* The object of an attachment does not come back, nor does an address that
\* the client was given.
Rollback(s) ==
  /\ work[s] # Idle
  /\ \/ ~Accepted(work[s]) /\ UNCHANGED faults
     \/ faults < MaxFaults /\ faults' = faults + 1
  /\ excuse' = excuse \cup ({work[s].id} \cap handed)
  /\ work' = [work EXCEPT ![s] = Idle]
  /\ UNCHANGED <<rows, used, audit, objects, handed, uploaded, retyped, served>>
-----------------------------------------------------------------------------
\* A relationship's ends are stored in order and are entities of its organization.
LinkInOrder(r, row) ==
  /\ <<row.source, row.target>> = Normalized(row.source, row.target)
  /\ \A e \in {row.source, row.target} \cap DOMAIN r : r[e].org = row.org

\* Every row has the columns of its table, every foreign key resolves, and the
\* unique indexes are kept.
InOrder(r) ==
  /\ \A i \in DOMAIN r : i \in Ids /\ r[i] \in Row(i) /\ References(r[i]) \subseteq DOMAIN r
  /\ \A i, j \in DOMAIN r : i # j => Key(i, r[i]) # Key(j, r[j])
  /\ \A i \in Links \cap DOMAIN r : LinkInOrder(r, r[i])

\* The catalogue that is taken over is in order, no relationship has lost an
\* end yet, and every value is written as its field asks.
ASSUME StartsAssumption ==
  \A r \in Starts :
    /\ InOrder(r)
    /\ \A i \in Links \cap DOMAIN r : {r[i].source, r[i].target} \subseteq DOMAIN r
    /\ \A a \in Assets \cap DOMAIN r : \A f \in DOMAIN r[a].values :
         /\ f \in DOMAIN r[r[a].type].fields
         /\ r[a].values[f] = IF r[r[a].type].fields[f] = "secret" THEN "cipher" ELSE "plain"

Init ==
  /\ rows \in Starts
  /\ used = Present
  /\ audit = UNION {Log("create", IF i \in Orgs THEN i ELSE rows[i].org, i)
                     : i \in Present \cap (Orgs \cup Entities)}
  /\ objects = Present \cap Attachments
  /\ work = [s \in Requests |-> Idle]
  /\ handed = objects
  /\ uploaded = objects
  /\ retyped = UNION {{<<t, f, rows[t].fields[f]>> : f \in DOMAIN rows[t].fields}
                       : t \in Present \cap AssetTypes}
  /\ excuse = {}
  /\ served = 0
  /\ faults = 0

OrganizationNext(s) ==
  \/ CreateOrganization(s) \/ GetOrganization(s) \/ UpdateOrganization(s) \/ DeleteOrganization(s)
TypeNext(s) ==
  \/ CreateConfigurationType(s) \/ DeactivateConfigurationType(s)
  \/ ActivateConfigurationType(s) \/ DeleteConfigurationType(s)
  \/ CreateConfigurationStatus(s) \/ DeactivateConfigurationStatus(s)
  \/ ActivateConfigurationStatus(s) \/ DeleteConfigurationStatus(s)
  \/ CreateCustomAssetType(s) \/ UpdateCustomAssetType(s) \/ DeactivateCustomAssetType(s)
  \/ ActivateCustomAssetType(s) \/ DeleteCustomAssetType(s)
EntityNext(s) ==
  \/ CreateLocation(s) \/ GetLocation(s) \/ UpdateLocation(s) \/ DeleteLocation(s)
  \/ CreatePassword(s) \/ GetPassword(s) \/ RevealPassword(s) \/ UpdatePassword(s)
  \/ DeletePassword(s)
  \/ CreateDocument(s) \/ GetDocument(s) \/ UpdateDocument(s) \/ DeleteDocument(s)
  \/ CreateConfiguration(s) \/ GetConfiguration(s) \/ UpdateConfiguration(s)
  \/ DeleteConfiguration(s)
  \/ CreateCustomAsset(s) \/ GetCustomAsset(s) \/ UpdateCustomAsset(s) \/ DeleteCustomAsset(s)
OtherNext(s) ==
  \/ CreateRelationship(s) \/ DeleteRelationship(s)
  \/ CreateAttachment(s) \/ UploadDocumentImage(s) \/ DeleteAttachment(s)
  \/ AddFavorite(s) \/ RemoveFavorite(s)
AtOnceNext ==
  \/ BatchToggleLocations \/ BatchTogglePasswords \/ BatchToggleDocuments
  \/ BatchToggleConfigurations \/ BatchToggleCustomAssets
  \/ UnfavoriteEntity \/ \E i \in Attachments : PutObject(i)

Next ==
  \/ \E s \in Requests : OrganizationNext(s) \/ TypeNext(s) \/ EntityNext(s) \/ OtherNext(s)
                         \/ HandOut(s) \/ Commit(s) \/ Rollback(s)
  \/ AtOnceNext

Spec == Init /\ [][Next]_vars
-----------------------------------------------------------------------------
\* Every row has the columns of its table, and every foreign key resolves.
TypeOK ==
  /\ Present \subseteq used /\ used \subseteq Ids
  /\ \A i \in Present : rows[i] \in Row(i) /\ References(rows[i]) \subseteq Present
  /\ \A a \in audit : a.org \in In(Orgs) /\ a.id \in used
  /\ objects \subseteq uploaded /\ uploaded \subseteq handed /\ handed \subseteq Attachments
  /\ \A s \in Requests : work[s] = Idle \/ work[s].id \in Ids
  /\ served \in 0..MaxRequests /\ faults \in 0..MaxFaults

\* Whatever requests race, no two organizations, types or statuses have one
\* name, no two favorites are the same and no two relationships join the same
\* two entities, not even in opposite directions; and the ends of a
\* relationship are entities of its organization for as long as they exist.
NothingTwice ==
  /\ \A i, j \in Present : i # j =>
       /\ \A t \in {Orgs, ConfigTypes, Statuses, AssetTypes} :
            {i, j} \subseteq t => rows[i].name # rows[j].name
       /\ {i, j} \subseteq Links =>
            {rows[i].source, rows[i].target} # {rows[j].source, rows[j].target}
       /\ {i, j} \subseteq Favorites => rows[i] # rows[j]
  /\ \A i \in In(Links) : \A e \in In({rows[i].source, rows[i].target}) :
       rows[e].org = rows[i].org

\* A value of a secret field is encrypted, once, and a value of another field
\* is not, unless the field has been of the other kind: an asset that was
\* written under the old fields keeps its values when they are replaced.
SecretsEncrypted ==
  \A a \in In(Assets) :
    LET fields == rows[rows[a].type].fields IN
    \A f \in DOMAIN Known(fields, rows[a].values) :
      \/ rows[a].values[f] = IF fields[f] = "secret" THEN "cipher" ELSE "plain"
      \/ {<<rows[a].type, f, k>> : k \in Kinds} \subseteq retyped

\* The audit log of an organization is true and complete for its entities: what
\* it calls created was created, what it calls deleted is gone, and what is
\* gone it calls deleted, but for the assets that went with their type.
AuditIsTrue ==
  /\ \A a \in audit : a.action = "delete" => a.id \notin Present
  /\ \A i \in In(Entities) : Log("create", rows[i].org, i) \subseteq audit
  /\ \A a \in audit :
       a.action = "create" /\ a.id \notin Present =>
         Log("delete", a.org, a.id) \subseteq audit \/ a.id \in excuse

\* An attachment that was uploaded has its object, and an object has its row.
\* The exceptions: the row's creation or deletion is under way; the creation
\* failed at its commit, when the client had its address already; the deletion
\* was rolled back or not obeyed by the storage; the upload came too late or
\* the whole organization was deleted.
ObjectsHaveRows ==
  \A i \in uploaded :
    \/ i \in objects <=> i \in Present
    \/ Creating(i) \/ Deleting(i) \/ i \in excuse

Ends(s) == work[s] # Idle /\ work'[s] = Idle

\* What the end of an edit may do to its row.
LeavesOthersAlone(s) ==
  Ends(s) /\ work[s].do = "update" /\ work[s].id \in DOMAIN rows' =>
    LET i == work[s].id IN
    /\ \A c \in DOMAIN rows[i] : rows'[i][c] # rows[i][c] => c \in work[s].asked
    /\ i \in Assets => \A f \in FieldIds :
         LET old == {v \in DOMAIN Encrypted : f \in DOMAIN rows[i].values /\ rows[i].values[f] = v}
             new == {v \in DOMAIN Encrypted : f \in DOMAIN rows'[i].values /\ rows'[i].values[f] = v}
         IN old # new => f \in work[s].seen.data \/ f \notin DOMAIN work[s].seen.values
                           \/ work[s].seen.values[f] \notin old

\* A request that updates a row changes the columns it was asked to change: one
\* that another request has changed in the meantime it leaves alone.  Of the
\* values of a custom asset, which are one column, it writes back what it has
\* read: only a value written in the meantime can be lost.
EditsKeepOthers == [][\A s \in Requests : LeavesOthersAlone(s)]_vars

\* What the end of a deletion of a type may do to the other rows.
SparesReferrers(s) ==
  Ends(s) /\ work[s].do = "delete" /\ work[s].id \in ConfigTypes \cup Statuses \cup AssetTypes =>
    \A i \in Present \ {work[s].id} :
      i \notin DOMAIN rows' \/ rows'[i] # rows[i] =>
        /\ i \notin work[s].seen
        /\ \E c \in {"type", "ctype", "status"} : i \in Referrers(work[s].id, c)

\* Deleting a type touches only rows that refer to it, and of those only ones
\* that came to refer to it after it was found to be free: no asset goes with
\* it, and no configuration loses its type or status, that it could have known of.
DeletionSparesReferrers == [][\A s \in Requests : SparesReferrers(s)]_vars
=============================================================================
