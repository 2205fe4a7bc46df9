------------------------ MODULE CatalogueRaces_proofs ------------------------
(* Proofs about what racing requests do to each other in the catalogue: the  *)
(* audit log, the attachments' objects, secrets, edits and deletions.        *)
EXTENDS Catalogue_proofs

Types == ConfigTypes \cup Statuses \cup AssetTypes

\* Every value is written as its field asks, whenever that was.
Honest(t, values) ==
  \A f \in DOMAIN values : \/ values[f] = "cipher" /\ <<t, f, "secret">> \in retyped
                           \/ values[f] = "plain" /\ <<t, f, "text">> \in retyped

\* What a request in flight has in hand, and what other requests may change
\* of it: nothing.
Logs(w) ==
  /\ \A a \in w.log : /\ a.action = "delete" => w.do = "delete"
                      /\ a.action = "create" => /\ w.do = "insert" /\ a.id \in Orgs \cup Entities
                                                /\ a.id \in Orgs => a.org = a.id
  /\ w.do = "insert" /\ w.id \in Entities => w.log = Log("create", w.row.org, w.id)
  /\ w.do = "delete" /\ w.id \in In(Entities) => w.log = Log("delete", rows[w.id].org, w.id)
Frees(w) == w.do = "delete" /\ w.id \in Types => w.seen = {}
Keeps(w) ==
  w.do = "update" =>
    /\ DOMAIN w.row \subseteq w.asked
    /\ "values" \in DOMAIN w.row =>
         \A f \in DOMAIN w.seen.values \ w.seen.data :
           f \in DOMAIN w.row.values /\ w.row.values[f] = w.seen.values[f]
Encrypts(w) ==
  /\ w.do = "insert" /\ w.id \in Assets => Honest(w.row.type, w.row.values)
  /\ w.do = "update" /\ w.id \in In(Assets) /\ "values" \in DOMAIN w.row =>
       Honest(rows[w.id].type, w.row.values)
Careful(w) == Logs(w) /\ Frees(w) /\ Keeps(w) /\ Encrypts(w)
Removes(w) == w.do = "delete" /\ w.id \in Attachments => w.id \notin objects \/ w.id \in excuse

\* What a request does when it begins.
Began(s, w) ==
  /\ ~Busy(s) /\ work' = [work EXCEPT ![s] = w]
  /\ UNCHANGED <<rows, used, audit, handed, uploaded, retyped>>
  /\ Careful(w) /\ Removes(w)'
  /\ w.do = "insert" => w.id \notin handed
  /\ excuse \subseteq excuse'
  /\ \/ objects' = objects
     \/ w # Idle /\ w.do = "delete" /\ w.id \in Attachments /\ objects' = objects \ {w.id}

LEMMA ViewBegan ==
  ASSUME NEW s, NEW i, NEW action, NEW o, NEW id, action \notin {"create", "delete"},
         Ready(s), View(s, i, Log(action, o, id))
  PROVE  \E w : Began(s, w)
<1> DEFINE log == Log(action, o, id)
           w == [do |-> "view", id |-> i, row |-> <<>>, asked |-> {}, log |-> log, seen |-> {}]
<1>1. \A a \in log : a.action \notin {"create", "delete"}
  BY DEF Log
<1> HIDE DEF log
<1>2. work' = [work EXCEPT ![s] = w] /\ Reads /\ ~Busy(s)
  BY DEF View, Begin, Unit, Ready, Busy, log
<1>3. w.do = "view" /\ w.log = log
  OBVIOUS
<1> HIDE DEF w
<1>4. Careful(w) /\ Removes(w)'
  BY <1>1, <1>3 DEF Careful, Logs, Frees, Keeps, Encrypts, Removes
<1> QED BY <1>2, <1>3, <1>4 DEF Began, Reads

LEMMA DeleteBegan ==
  ASSUME IInv, NEW s, NEW i \in Ids \ Attachments, NEW log, NEW seen, Ready(s), Delete(s, i, log, seen),
         \A a \in log : a.action = "delete",
         i \in Entities => log = Log("delete", rows[i].org, i), i \in Types => seen = {}
  PROVE  \E w : Began(s, w)
<1> DEFINE w == [do |-> "delete", id |-> i, row |-> <<>>, asked |-> {}, log |-> log, seen |-> seen]
<1>1. work' = [work EXCEPT ![s] = w] /\ Reads /\ ~Busy(s)
  BY DEF Delete, Begin, Unit, Ready, Busy
<1>2. w.do = "delete" /\ w.id = i /\ w.log = log /\ w.seen = seen
  OBVIOUS
<1> HIDE DEF w
<1>3. Careful(w) /\ Removes(w)'
  BY <1>2 DEF Careful, Logs, Frees, Keeps, Encrypts, Removes, In
<1> QED BY <1>1, <1>2, <1>3 DEF Began, Reads

LEMMA InsertBegan ==
  ASSUME NEW s, NEW i, NEW row, NEW log, Ready(s), Insert(s, i, row, log), i \notin handed,
         \A a \in log : /\ a.action = "create" /\ a.id \in Orgs \cup Entities
                        /\ a.id \in Orgs => a.org = a.id,
         i \in Entities => log = Log("create", row.org, i),
         i \in Assets => Honest(row.type, row.values)
  PROVE  \E w : Began(s, w)
<1> DEFINE w == [do |-> "insert", id |-> i, row |-> row, asked |-> {}, log |-> log, seen |-> {}]
<1>1. work' = [work EXCEPT ![s] = w] /\ Reads /\ ~Busy(s)
  BY DEF Insert, Begin, Unit, Ready, Busy
<1>2. w.do = "insert" /\ w.id = i /\ w.log = log /\ w.row = row
  OBVIOUS
<1> HIDE DEF w
<1>3. Careful(w) /\ Removes(w)'
  BY <1>2 DEF Careful, Logs, Frees, Keeps, Encrypts, Removes, In
<1> QED BY <1>1, <1>2, <1>3 DEF Began, Reads

LEMMA UpdateBegan ==
  ASSUME NEW s, NEW i, NEW asked, NEW seen, NEW log,
         \A a \in log : a.action \notin {"create", "delete"},
         Ready(s), Update(s, i, asked, log, seen),
         "values" \in DOMAIN asked =>
           /\ \A f \in DOMAIN seen.values \ seen.data :
                f \in DOMAIN asked.values /\ asked.values[f] = seen.values[f]
           /\ i \in In(Assets) => Honest(rows[i].type, asked.values)
  PROVE  \E w : Began(s, w)
<1>1. PICK row : row = [c \in {c \in DOMAIN asked : asked[c] # rows[i][c]} |-> asked[c]]
  OBVIOUS
<1> DEFINE w == [do |-> "update", id |-> i, row |-> row, asked |-> DOMAIN asked, log |-> log, seen |-> seen]
<1>2. work' = [work EXCEPT ![s] = w] /\ Reads /\ ~Busy(s)
  BY <1>1 DEF Update, Begin, Unit, Ready, Busy
<1>3. DOMAIN row \subseteq DOMAIN asked /\ \A c \in DOMAIN row : row[c] = asked[c]
  BY <1>1
<1>4. w.do = "update" /\ w.id = i /\ w.log = log /\ w.row = row /\ w.asked = DOMAIN asked /\ w.seen = seen
  OBVIOUS
<1>5. "values" \in DOMAIN row => "values" \in DOMAIN asked /\ row.values = asked.values
  BY <1>3
<1> HIDE DEF w
<1>7. Logs(w) /\ Frees(w) /\ Removes(w)'
  BY <1>4 DEF Logs, Frees, Removes
<1>8. Keeps(w)
  BY <1>3, <1>4, <1>5 DEF Keeps
<1>9. Encrypts(w)
  BY <1>4, <1>5 DEF Encrypts
<1> QED BY <1>2, <1>4, <1>7, <1>8, <1>9 DEF Began, Reads, Careful
-----------------------------------------------------------------------------
(* Every request begins carefully. *)

\* The kinds that the fields have now have been recorded, and the stored values
\* are written as their fields asked.
Sealed ==
  /\ \A t \in In(AssetTypes) : \A f \in DOMAIN rows[t].fields : <<t, f, rows[t].fields[f]>> \in retyped
  /\ \A a \in In(Assets) : Honest(rows[a].type, rows[a].values)

LEMMA Rowed ==
  ASSUME IInv
  PROVE  /\ \A i \in Present : i \in Ids /\ rows[i] \in Row(i) /\ References(rows[i]) \subseteq Present
         /\ \A t \in In(AssetTypes) : rows[t].fields \in FieldSets
         /\ \A a \in In(Assets) : rows[a].type \in In(AssetTypes) /\ rows[a].values \in Values
<1>1. \A i \in Present : i \in Ids /\ rows[i] \in Row(i) /\ References(rows[i]) \subseteq Present
  BY DEF IInv, Rows, InOrder, Present
<1>2. ASSUME NEW t \in In(AssetTypes) PROVE rows[t].fields \in FieldSets
  <2>1. rows[t] \in [name : Names, active : BOOLEAN, fields : FieldSets]
    BY <1>1, RowOf DEF In
  <2> QED BY <2>1
<1>3. ASSUME NEW a \in In(Assets) PROVE rows[a].type \in In(AssetTypes) /\ rows[a].values \in Values
  <2>1. /\ rows[a] \in [org : Orgs, enabled : BOOLEAN, type : AssetTypes, values : Values]
        /\ DOMAIN rows[a] = {"org", "enabled", "type", "values"}
    BY <1>1, RowOf, RowsAreRecords DEF In
  <2>2. rows[a].type \in AssetTypes /\ rows[a].values \in Values
    BY <2>1
  <2>3. rows[a].type # Null
    BY <2>2, BoundsAssumption DEF Ids
  <2>4. rows[a].type \in References(rows[a])
    BY <2>1, <2>3 DEF References
  <2> QED BY <1>1, <2>2, <2>4 DEF In
<1> QED BY <1>1, <1>2, <1>3

LEMMA FieldKinds ==
  ASSUME NEW fields \in FieldSets, NEW f \in DOMAIN fields
  PROVE  fields[f] \in {"text", "secret"}
BY DEF FieldSets, Kinds

LEMMA CreatedLog ==
  ASSUME NEW o, NEW i \in Entities
  PROVE  \A a \in Log("create", o, i) : /\ a.action = "create" /\ a.id \in Orgs \cup Entities
                                        /\ a.id \in Orgs => a.org = a.id
BY Apart DEF Log

LEMMA OrganizationsBegan ==
  ASSUME IInv, NEW s, OrganizationNext(s) PROVE \E w : Began(s, w)
<1>1. CASE CreateOrganization(s)
  <2>1. PICK i \in Fresh(Orgs), n \in Names :
          Ready(s) /\ Insert(s, i, [name |-> n, enabled |-> TRUE], Log("create", i, i))
    BY <1>1 DEF CreateOrganization
  <2>2. i \in Orgs \ handed /\ i \notin Entities /\ i \notin Assets
    BY Apart DEF Fresh, Entities
  <2>3. \A a \in Log("create", i, i) : a.action = "create" /\ a.id = i /\ a.org = i
    BY DEF Log
  <2> QED BY <2>1, <2>2, <2>3, InsertBegan
<1>2. CASE GetOrganization(s)
  BY <1>2, ViewBegan DEF GetOrganization
<1>3. CASE UpdateOrganization(s)
  <2>1. PICK i \in In(Orgs), asked \in [{"name"} -> Names] \cup [{"enabled"} -> BOOLEAN] :
          Ready(s) /\ Update(s, i, asked, Log("update", i, i), <<>>)
    BY <1>3 DEF UpdateOrganization
  <2>2. "values" \notin DOMAIN asked
    OBVIOUS
  <2>3. \A a \in Log("update", i, i) : a.action \notin {"create", "delete"}
    BY DEF Log
  <2> QED BY <2>1, <2>2, <2>3, UpdateBegan
<1>4. CASE DeleteOrganization(s)
  <2>1. PICK i \in In(Orgs) : Ready(s) /\ Delete(s, i, Log("delete", i, i), {})
    BY <1>4 DEF DeleteOrganization
  <2>2. i \in Ids \ Attachments /\ i \notin Entities
    BY Apart DEF In, Ids
  <2>3. \A a \in Log("delete", i, i) : a.action = "delete"
    BY DEF Log
  <2> QED BY <2>1, <2>2, <2>3, DeleteBegan
<1> QED BY <1>1, <1>2, <1>3, <1>4 DEF OrganizationNext

LEMMA NamedBegan ==
  ASSUME NEW s, NEW table, table \in {ConfigTypes, Statuses, AssetTypes}, NEW row, CreateNamed(s, table, row)
  PROVE  \E w : Began(s, w)
<1>1. PICK i \in Fresh(table) : Ready(s) /\ Insert(s, i, row, {})
  BY DEF CreateNamed
<1>2. i \notin Entities /\ i \notin Assets /\ i \notin handed
  BY Apart DEF Fresh, Entities
<1> QED BY <1>1, <1>2, InsertBegan

LEMMA TypeUpdateBegan ==
  ASSUME NEW s, NEW i, NEW asked, "values" \notin DOMAIN asked, Ready(s), Update(s, i, asked, {}, <<>>)
  PROVE  \E w : Began(s, w)
<1>1. PICK seen : seen = <<>>
  OBVIOUS
<1> QED BY <1>1, UpdateBegan

LEMMA TypeDeleteBegan ==
  ASSUME IInv, NEW s, NEW table, table \in {ConfigTypes, Statuses, AssetTypes},
         NEW column, DeleteType(s, table, column)
  PROVE  \E w : Began(s, w)
<1>1. PICK i \in In(table) : Ready(s) /\ CanDelete(i, column) /\ Delete(s, i, {}, Referrers(i, column))
  BY DEF DeleteType
<1>2. i \in Ids \ Attachments /\ i \notin Entities
  BY Apart DEF In, Ids
<1>3. Delete(s, i, {}, {})
  BY <1>1 DEF CanDelete
<1> QED BY <1>1, <1>2, <1>3, DeleteBegan

LEMMA TypesBegan == ASSUME IInv, NEW s, TypeNext(s) PROVE \E w : Began(s, w)
<1>1. CASE \E table \in {ConfigTypes, Statuses, AssetTypes} : \E row : CreateNamed(s, table, row)
  BY <1>1, NamedBegan
<1>2. CASE \E table \in {ConfigTypes, Statuses, AssetTypes} : \E column : DeleteType(s, table, column)
  BY <1>2, TypeDeleteBegan
<1>3. CASE \E table, active : SetActive(s, table, active)
  <2>1. PICK table, active, i : Ready(s) /\ Update(s, i, [active |-> active], {}, <<>>)
    BY <1>3 DEF SetActive
  <2>2. "values" \notin DOMAIN [active |-> active]
    OBVIOUS
  <2> QED BY <2>1, <2>2, TypeUpdateBegan
<1>4. CASE UpdateCustomAssetType(s)
  <2>1. PICK i : \/ \E n : Ready(s) /\ Update(s, i, [name |-> n], {}, <<>>)
                 \/ \E fs : Ready(s) /\ Update(s, i, [fields |-> fs], {}, <<>>)
    BY <1>4 DEF UpdateCustomAssetType
  <2>2. \A x : "values" \notin DOMAIN [name |-> x] /\ "values" \notin DOMAIN [fields |-> x]
    OBVIOUS
  <2> QED BY <2>1, <2>2, TypeUpdateBegan
<1>5. CreateCustomAssetType(s) => \E row : CreateNamed(s, AssetTypes, row)
  BY DEF CreateCustomAssetType
<1>6. CreateConfigurationType(s) => \E row : CreateNamed(s, ConfigTypes, row)
  BY DEF CreateConfigurationType
<1>7. CreateConfigurationStatus(s) => \E row : CreateNamed(s, Statuses, row)
  BY DEF CreateConfigurationStatus
<1> QED BY <1>1, <1>2, <1>3, <1>4, <1>5, <1>6, <1>7
    DEF TypeNext, DeactivateConfigurationType, ActivateConfigurationType, DeleteConfigurationType,
        DeactivateConfigurationStatus, ActivateConfigurationStatus, DeleteConfigurationStatus,
        DeactivateCustomAssetType, ActivateCustomAssetType, DeleteCustomAssetType

LEMMA CreateEntityBegan ==
  ASSUME NEW s, NEW table, table \subseteq Entities, NEW columns,
         table \cap Assets # {} => /\ {"type", "values"} \subseteq DOMAIN columns
                                   /\ Honest(columns.type, columns.values),
         CreateEntity(s, table, columns)
  PROVE  \E w : Began(s, w)
<1>1. PICK o \in In(Orgs), i \in Fresh(table) :
        Ready(s) /\ Insert(s, i, Over([org |-> o, enabled |-> TRUE], columns), Log("create", o, i))
  BY DEF CreateEntity
<1>2. i \in table /\ i \in Entities /\ i \notin handed
  BY DEF Fresh
<1>3. PICK row : row = Over([org |-> o, enabled |-> TRUE], columns)
  OBVIOUS
<1>4. row.org = o
  BY <1>3 DEF Over
<1>5. i \in Assets => row.type = columns.type /\ row.values = columns.values
  BY <1>2, <1>3 DEF Over
<1> QED BY <1>1, <1>2, <1>3, <1>4, <1>5, CreatedLog, InsertBegan

LEMMA EntityBegan ==
  ASSUME IInv, NEW s, NEW table, table \subseteq Entities,
         GetEntity(s, table) \/ DeleteEntity(s, table)
  PROVE  \E w : Began(s, w)
<1>1. CASE GetEntity(s, table)
  BY <1>1, ViewBegan DEF GetEntity
<1>2. CASE DeleteEntity(s, table)
  <2>1. PICK o \in In(Orgs) : \E i \in OfOrg(o, table) : Ready(s) /\ Delete(s, i, Log("delete", o, i), {})
    BY <1>2 DEF DeleteEntity
  <2>2. PICK i \in OfOrg(o, table) : Ready(s) /\ Delete(s, i, Log("delete", o, i), {})
    BY <2>1
  <2>3. i \in Ids \ Attachments /\ rows[i].org = o
    BY Apart DEF OfOrg, In, Ids
  <2>4. \A a \in Log("delete", o, i) : a.action = "delete"
    BY DEF Log
  <2> QED BY <2>2, <2>3, <2>4, DeleteBegan
<1> QED BY <1>1, <1>2

LEMMA UpdateEntityBegan ==
  ASSUME NEW s, NEW table, NEW asked, "values" \notin DOMAIN asked, UpdateEntity(s, table, asked)
  PROVE  \E w : Began(s, w)
<1>1. PICK o, i : Ready(s) /\ Update(s, i, asked, Log("update", o, i), <<>>)
  BY DEF UpdateEntity
<1>2. PICK seen : seen = <<>>
  OBVIOUS
<1>3. \A a \in Log("update", o, i) : a.action \notin {"create", "delete"}
  BY DEF Log
<1> QED BY <1>1, <1>2, <1>3, UpdateBegan

\* What is written back: the values of the request and, unchanged, the stored
\* ones that the type still has.
LEMMA ValuesMerged ==
  ASSUME NEW fields \in FieldSets, NEW stored \in Values, NEW data \in SUBSET DOMAIN fields, NEW t,
         Decryptable(fields, stored), Honest(t, stored),
         \A f \in DOMAIN fields : <<t, f, fields[f]>> \in retyped,
         NEW new, new = ValuesKeyToId(fields, Over([f \in data |-> "plain"], ValuesIdToKey(fields, stored)))
  PROVE  /\ Honest(t, new)
         /\ \A f \in DOMAIN Known(fields, stored) \ data :
              f \in DOMAIN new /\ new[f] = Known(fields, stored)[f]
<1> DEFINE known == DOMAIN stored \cap DOMAIN fields
           key == ValuesIdToKey(fields, stored)
           merged == Over([f \in data |-> "plain"], key)
<1>1. /\ DOMAIN Known(fields, stored) = known
      /\ \A f \in known : Known(fields, stored)[f] = stored[f]
  BY DEF Known
<1>2. /\ DOMAIN key = known
      /\ \A f \in known : key[f] = IF fields[f] = "secret" THEN "plain" ELSE stored[f]
  BY <1>1 DEF ValuesIdToKey, Known
<1>3. \A f \in known : fields[f] = "secret" => stored[f] = "cipher"
  BY <1>1 DEF Decryptable, Known
<1> HIDE DEF key
<1>4. /\ DOMAIN merged = data \cup known
      /\ \A f \in data : merged[f] = "plain"
      /\ \A f \in known \ data : merged[f] = key[f]
  BY <1>2 DEF Over
<1> HIDE DEF merged
<1>5. /\ DOMAIN new = data \cup known
      /\ \A f \in DOMAIN new : new[f] = IF fields[f] = "secret" THEN Encrypted[merged[f]] ELSE merged[f]
  BY <1>4 DEF ValuesKeyToId, merged, key
<1>6. Encrypted["plain"] = "cipher"
  BY DEF Encrypted
<1>7. \A f \in DOMAIN fields : fields[f] \in {"text", "secret"}
  BY FieldKinds
<1>8. ASSUME NEW f \in DOMAIN new
      PROVE  \/ new[f] = "cipher" /\ <<t, f, "secret">> \in retyped
             \/ new[f] = "plain" /\ <<t, f, "text">> \in retyped
  <2>1. f \in DOMAIN fields /\ <<t, f, fields[f]>> \in retyped
    BY <1>5
  <2>2. CASE fields[f] = "secret"
    BY <1>2, <1>4, <1>5, <1>6, <2>1, <2>2
  <2>3. CASE fields[f] = "text" /\ f \in data
    BY <1>4, <1>5, <2>1, <2>3
  <2>4. CASE fields[f] = "text" /\ f \notin data
    <3>1. new[f] = stored[f] /\ f \in DOMAIN stored
      BY <1>2, <1>4, <1>5, <2>4
    <3> QED BY <3>1 DEF Honest
  <2> QED BY <1>7, <2>1, <2>2, <2>3, <2>4
<1>9. ASSUME NEW f \in known \ data PROVE f \in DOMAIN new /\ new[f] = stored[f]
  BY <1>2, <1>3, <1>4, <1>5, <1>6
<1> QED BY <1>1, <1>8, <1>9 DEF Honest

LEMMA AssetsBegan ==
  ASSUME IInv, Sealed, NEW s, CreateCustomAsset(s) \/ UpdateCustomAsset(s)
  PROVE  \E w : Began(s, w)
<1>1. CASE CreateCustomAsset(s)
  <2>1. PICK t \in In(AssetTypes) : \E data \in SUBSET DOMAIN rows[t].fields :
          CreateEntity(s, Assets, [type |-> t,
            values |-> ValuesKeyToId(rows[t].fields, [f \in data |-> "plain"])])
    BY <1>1 DEF CreateCustomAsset
  <2>2. PICK data \in SUBSET DOMAIN rows[t].fields :
          CreateEntity(s, Assets, [type |-> t,
            values |-> ValuesKeyToId(rows[t].fields, [f \in data |-> "plain"])])
    BY <2>1
  <2> DEFINE new == ValuesKeyToId(rows[t].fields, [f \in data |-> "plain"])
  <2>3. /\ DOMAIN new = data
        /\ \A f \in data : new[f] = IF rows[t].fields[f] = "secret" THEN "cipher" ELSE "plain"
    BY DEF ValuesKeyToId, Encrypted
  <2>4. \A f \in DOMAIN rows[t].fields : /\ rows[t].fields[f] \in {"text", "secret"}
                                         /\ <<t, f, rows[t].fields[f]>> \in retyped
    BY Rowed, FieldKinds DEF Sealed
  <2> HIDE DEF new
  <2>5. Honest(t, new)
    BY <2>3, <2>4 DEF Honest
  <2>6. PICK columns : columns = [type |-> t, values |-> new]
    OBVIOUS
  <2>7. {"type", "values"} \subseteq DOMAIN columns /\ Honest(columns.type, columns.values)
    BY <2>5, <2>6
  <2>8. CreateEntity(s, Assets, columns) /\ Assets \subseteq Entities
    BY <2>2, <2>6 DEF new, Entities
  <2> QED BY <2>7, <2>8, CreateEntityBegan
<1>2. CASE \E b \in BOOLEAN : UpdateEntity(s, Assets, [enabled |-> b])
  <2>1. \A b : "values" \notin DOMAIN [enabled |-> b]
    OBVIOUS
  <2> QED BY <1>2, <2>1, UpdateEntityBegan
<1>3. ASSUME NEW o \in In(Orgs), NEW a \in OfOrg(o, Assets),
             NEW data \in SUBSET DOMAIN rows[rows[a].type].fields, UpdateValues(s, o, a, data), Ready(s)
      PROVE  \E w : Began(s, w)
  <2>1. a \in In(Assets) /\ rows[a].type \in In(AssetTypes) /\ rows[a].values \in Values
    BY Rowed DEF OfOrg, In
  <2>2. PICK fields, stored, t : fields = rows[rows[a].type].fields /\ stored = rows[a].values /\ t = rows[a].type
    OBVIOUS
  <2>3. PICK new : new = ValuesKeyToId(fields, Over([f \in data |-> "plain"], ValuesIdToKey(fields, stored)))
    OBVIOUS
  <2>4. PICK seen : seen = [data |-> data, values |-> Known(fields, stored)]
    OBVIOUS
  <2>5. Decryptable(fields, stored) /\ Update(s, a, [values |-> new], Log("update", o, a), seen)
    BY <1>3, <2>2, <2>3, <2>4 DEF UpdateValues
  <2>6. /\ fields \in FieldSets /\ stored \in Values /\ Honest(t, stored)
        /\ data \in SUBSET DOMAIN fields
        /\ \A f \in DOMAIN fields : <<t, f, fields[f]>> \in retyped
    BY <2>1, <2>2, Rowed DEF Sealed
  <2>7. /\ Honest(t, new)
        /\ \A f \in DOMAIN Known(fields, stored) \ data : f \in DOMAIN new /\ new[f] = Known(fields, stored)[f]
    BY <2>3, <2>5, <2>6, ValuesMerged
  <2>8. PICK asked : asked = [values |-> new]
    OBVIOUS
  <2>9. /\ asked.values = new /\ seen.data = data /\ seen.values = Known(fields, stored)
        /\ Update(s, a, asked, Log("update", o, a), seen)
    BY <2>4, <2>5, <2>8
  <2>10. \A e \in Log("update", o, a) : e.action \notin {"create", "delete"}
    BY DEF Log
  <2> QED BY <1>3, <2>2, <2>7, <2>9, <2>10, UpdateBegan
<1> QED BY <1>1, <1>2, <1>3 DEF UpdateCustomAsset

LEMMA EntitiesBegan ==
  ASSUME IInv, Sealed, NEW s, EntityNext(s) PROVE \E w : Began(s, w)
<1>1. CASE \E table \in {Locations, Passwords, Documents, Configs, Assets} :
             GetEntity(s, table) \/ DeleteEntity(s, table)
  BY <1>1, EntityBegan DEF Entities
<1>2. CASE \E table \in {Locations, Passwords, Documents, Configs} : \E columns : CreateEntity(s, table, columns)
  BY <1>2, EntitiesApart, CreateEntityBegan DEF Entities
<1>3. CASE \E table, b : UpdateEntity(s, table, [enabled |-> b])
  <2>1. \A b : "values" \notin DOMAIN [enabled |-> b]
    OBVIOUS
  <2> QED BY <1>3, <2>1, UpdateEntityBegan
<1>4. CASE UpdateConfiguration(s)
  <2>1. PICK x : \/ UpdateEntity(s, Configs, [enabled |-> x]) \/ UpdateEntity(s, Configs, [ctype |-> x])
                 \/ UpdateEntity(s, Configs, [status |-> x])
    BY <1>4 DEF UpdateConfiguration
  <2>2. /\ "values" \notin DOMAIN [enabled |-> x] /\ "values" \notin DOMAIN [ctype |-> x]
        /\ "values" \notin DOMAIN [status |-> x]
    OBVIOUS
  <2> QED BY <2>1, <2>2, UpdateEntityBegan
<1>5. CASE CreateCustomAsset(s) \/ UpdateCustomAsset(s)
  BY <1>5, AssetsBegan
<1>6. CreateConfiguration(s) => \E columns : CreateEntity(s, Configs, columns)
  BY DEF CreateConfiguration
<1> QED BY <1>1, <1>2, <1>3, <1>4, <1>5, <1>6
    DEF EntityNext, CreateLocation, GetLocation, UpdateLocation, DeleteLocation,
        CreatePassword, GetPassword, RevealPassword, UpdatePassword, DeletePassword,
        CreateDocument, GetDocument, UpdateDocument, DeleteDocument,
        GetConfiguration, DeleteConfiguration, GetCustomAsset, DeleteCustomAsset

LEMMA OthersBegan ==
  ASSUME IInv, NEW s, OtherNext(s) PROVE \E w : Began(s, w)
<1>1. CASE \E i \in (Links \cup Attachments \cup Favorites) \ handed : \E row :
             Ready(s) /\ Insert(s, i, row, {})
  <2>1. PICK i, row : /\ i \in (Links \cup Attachments \cup Favorites) \ handed
                      /\ Ready(s) /\ Insert(s, i, row, {})
    BY <1>1
  <2>2. i \notin Entities /\ i \notin Assets
    BY <2>1, Apart DEF Entities
  <2> QED BY <2>1, <2>2, InsertBegan
<1>2. CASE \E i \in Links \cup Favorites : Ready(s) /\ Delete(s, i, {}, {})
  <2>1. PICK i \in Links \cup Favorites : Ready(s) /\ Delete(s, i, {}, {})
    BY <1>2
  <2>2. i \in Ids \ Attachments /\ i \notin Entities
    BY Apart DEF Ids
  <2> QED BY <2>1, <2>2, DeleteBegan
<1>3. CASE DeleteAttachment(s)
  <2>1. PICK i \in In(Attachments) :
          /\ Ready(s) /\ Begin(s, "delete", i, <<>>, {}, {}, {})
          /\ \/ objects' = objects \ {i} /\ UNCHANGED excuse
             \/ excuse' = excuse \cup {i} /\ UNCHANGED objects
          /\ UNCHANGED <<rows, used, audit, handed, uploaded, retyped>>
    BY <1>3 DEF DeleteAttachment, OfOrg, In
  <2>2. i \in Attachments /\ i \notin Entities /\ i \notin Types
    BY Apart DEF In, Types
  <2> DEFINE w == [do |-> "delete", id |-> i, row |-> <<>>, asked |-> {}, log |-> {}, seen |-> {}]
  <2>3. work' = [work EXCEPT ![s] = w] /\ ~Busy(s)
    BY <2>1 DEF Begin, Unit, Ready, Busy
  <2>4. w.do = "delete" /\ w.id = i /\ w.log = {} /\ w.seen = {}
    OBVIOUS
  <2>6. w # Idle
    BY <2>2, IdleAssumption DEF Unit
  <2> HIDE DEF w
  <2>5. Careful(w) /\ Removes(w)'
    BY <2>1, <2>2, <2>4 DEF Careful, Logs, Frees, Keeps, Encrypts, Removes, In
  <2> QED BY <2>1, <2>2, <2>3, <2>4, <2>5, <2>6 DEF Began
<1>4. CreateRelationship(s) => \E i \in Links \ handed : \E row : Ready(s) /\ Insert(s, i, row, {})
  BY DEF CreateRelationship, Fresh
<1>5. CreateAttachment(s) \/ UploadDocumentImage(s) =>
        \E i \in Attachments \ handed : \E row : Ready(s) /\ Insert(s, i, row, {})
  BY DEF CreateAttachment, UploadDocumentImage, Fresh
<1>6. AddFavorite(s) => \E i \in Favorites \ handed : \E row : Ready(s) /\ Insert(s, i, row, {})
  BY DEF AddFavorite, Fresh
<1>7. DeleteRelationship(s) \/ RemoveFavorite(s) =>
        \E i \in Links \cup Favorites : Ready(s) /\ Delete(s, i, {}, {})
  BY DEF DeleteRelationship, RemoveFavorite, OfOrg, In
<1> QED BY <1>1, <1>2, <1>3, <1>4, <1>5, <1>6, <1>7 DEF OtherNext
-----------------------------------------------------------------------------
(* The inductive invariant. *)

Logged ==
  /\ \A a \in audit : a.action = "delete" => a.id \notin Present
  /\ \A i \in In(Entities) : Log("create", rows[i].org, i) \subseteq audit
  /\ \A a \in audit : a.action = "create" =>
       /\ a.id \in Orgs \cup Entities
       /\ a.id \in Orgs => a.org = a.id
       /\ a.id \in In(Entities) => a.org = rows[a.id].org
       /\ a.id \in Present \/ Log("delete", a.org, a.id) \subseteq audit \/ a.id \in excuse

\* A row that is being created and whose object has been put will find it.
Matched ==
  /\ \A i \in uploaded :
       (i \in objects <=> i \in Present) \/ Creating(i) \/ Deleting(i) \/ i \in excuse
  /\ \A s \in Requests : Busy(s) /\ work[s].do = "insert" /\ work[s].id \in uploaded =>
       work[s].id \in objects

InHand == \A s \in Requests : Busy(s) => Careful(work[s]) /\ Removes(work[s])

JInv == IInv /\ Logged /\ Matched /\ Sealed /\ InHand

LEMMA PropertiesFollow == JInv => AuditIsTrue /\ ObjectsHaveRows /\ SecretsEncrypted
<1> SUFFICES ASSUME JInv PROVE AuditIsTrue /\ ObjectsHaveRows /\ SecretsEncrypted
  OBVIOUS
<1>1. AuditIsTrue
  BY DEF JInv, Logged, AuditIsTrue
<1>2. ObjectsHaveRows
  BY DEF JInv, Matched, ObjectsHaveRows
<1>3. SecretsEncrypted
  <2> SUFFICES ASSUME NEW a \in In(Assets), NEW f \in DOMAIN Known(rows[rows[a].type].fields, rows[a].values)
               PROVE  \/ rows[a].values[f] = IF rows[rows[a].type].fields[f] = "secret" THEN "cipher" ELSE "plain"
                      \/ {<<rows[a].type, f, k>> : k \in Kinds} \subseteq retyped
    BY DEF SecretsEncrypted
  <2>1. PICK t : t = rows[a].type
    OBVIOUS
  <2>2. /\ f \in DOMAIN rows[a].values /\ f \in DOMAIN rows[t].fields
        /\ t \in In(AssetTypes) /\ rows[t].fields \in FieldSets
    BY <2>1, Rowed DEF JInv, Known
  <2>3. /\ rows[t].fields[f] \in {"text", "secret"} /\ <<t, f, rows[t].fields[f]>> \in retyped
        /\ \/ rows[a].values[f] = "cipher" /\ <<t, f, "secret">> \in retyped
           \/ rows[a].values[f] = "plain" /\ <<t, f, "text">> \in retyped
    BY <2>1, <2>2, FieldKinds DEF JInv, Sealed, Honest
  <2> QED BY <2>1, <2>3 DEF Kinds
<1> QED BY <1>1, <1>2, <1>3

LEMMA JInitialState == Init => JInv
<1> SUFFICES ASSUME Init PROVE JInv
  OBVIOUS
<1>1. IInv
  BY InitialState
<1>2. Logged
  BY Apart DEF Init, Logged, Log, In, Present
<1>3. Matched
  BY DEF Init, Matched, Present, Busy
<1>4. \A t \in In(AssetTypes) : \A f \in DOMAIN rows[t].fields : <<t, f, rows[t].fields[f]>> \in retyped
  BY DEF Init, In
<1>5. ASSUME NEW a \in In(Assets), NEW f \in DOMAIN rows[a].values
      PROVE  \/ rows[a].values[f] = "cipher" /\ <<rows[a].type, f, "secret">> \in retyped
             \/ rows[a].values[f] = "plain" /\ <<rows[a].type, f, "text">> \in retyped
  <2>1. PICK t : t = rows[a].type
    OBVIOUS
  <2>2. /\ f \in DOMAIN rows[t].fields
        /\ rows[a].values[f] = IF rows[t].fields[f] = "secret" THEN "cipher" ELSE "plain"
    BY <2>1, StartsAssumption DEF Init, In, Present
  <2>3. t \in In(AssetTypes) /\ rows[t].fields \in FieldSets
    BY <1>1, <2>1, Rowed
  <2>4. rows[t].fields[f] \in {"text", "secret"} /\ <<t, f, rows[t].fields[f]>> \in retyped
    BY <1>4, <2>2, <2>3, FieldKinds
  <2> QED BY <2>1, <2>2, <2>4
<1>6. InHand
  BY DEF Init, InHand, Busy
<1> QED BY <1>1, <1>2, <1>3, <1>4, <1>5, <1>6 DEF JInv, Sealed, Honest
-----------------------------------------------------------------------------
(* What the steps preserve. *)

TypesStay == \A a \in Assets \cap used \cap Present' : a \in Present /\ rows'[a].type = rows[a].type

LEMMA CarefulStays ==
  ASSUME EntitiesStay, TypesStay, retyped \subseteq retyped',
         NEW w, Careful(w), w.do \in {"delete", "update"} => w.id \in used
  PROVE  Careful(w)'
<1>1. \A t, values : Honest(t, values) => Honest(t, values)'
  BY DEF Honest
<1>2. Logs(w)'
  BY DEF EntitiesStay, Careful, Logs, In
<1>3. Frees(w)' /\ Keeps(w)'
  BY DEF Careful, Frees, Keeps
<1>4. Encrypts(w)'
  <2>1. w.do = "insert" /\ w.id \in Assets => Honest(w.row.type, w.row.values)'
    BY <1>1 DEF Careful, Encrypts
  <2>2. ASSUME w.do = "update", w.id \in Assets, w.id \in Present', "values" \in DOMAIN w.row
        PROVE  Honest(rows[w.id].type, w.row.values)'
    <3>1. w.id \in Present /\ rows'[w.id].type = rows[w.id].type
      BY <2>2 DEF TypesStay
    <3>2. Honest(rows[w.id].type, w.row.values)
      BY <2>2, <3>1 DEF Careful, Encrypts, In
    <3> QED BY <3>1, <3>2 DEF Honest
  <2> QED BY <2>1, <2>2 DEF Encrypts, In
<1> QED BY <1>2, <1>3, <1>4 DEF Careful

LEMMA BusyInUsed ==
  ASSUME IInv, NEW s \in Requests, Busy(s)
  PROVE  /\ work[s].do \in {"delete", "update", "view"} => work[s].id \in used
         /\ work[s].do = "insert" => work[s].id \notin used
BY DEF IInv, Works, Prepared, Edit, Insertion

\* The requests that a step does not touch.
LEMMA OthersInHand ==
  ASSUME IInv, InHand, EntitiesStay, TypesStay, retyped \subseteq retyped', excuse \subseteq excuse',
         NEW q \in Requests, Busy(q)', work'[q] = work[q],
         work[q].do = "delete" /\ work[q].id \in Attachments =>
           work[q].id \notin objects' \ objects \/ work[q].id \in excuse'
  PROVE  Careful(work[q])' /\ Removes(work[q])'
<1>1. PICK w : w = work[q]
  OBVIOUS
<1>2. Busy(q) /\ Careful(w) /\ Removes(w)
  BY <1>1 DEF Busy, InHand
<1>3. w.do \in {"delete", "update"} => w.id \in used
  BY <1>1, <1>2, BusyInUsed
<1>4. Careful(w)'
  BY <1>2, <1>3, CarefulStays
<1>5. Removes(w)'
  BY <1>1, <1>2 DEF Removes
<1> QED BY <1>1, <1>4, <1>5

LEMMA BeganStep ==
  ASSUME JInv, IInv', NEW s \in Requests, NEW w, Began(s, w)
  PROVE  JInv'
<1>1. /\ UNCHANGED <<rows, used, audit, handed, uploaded, retyped>> /\ excuse \subseteq excuse'
      /\ DOMAIN work = Requests /\ work'[s] = w /\ \A q \in Requests \ {s} : work'[q] = work[q]
      /\ objects' \subseteq objects
  BY DEF Began, JInv, IInv, Works
<1>2. EntitiesStay /\ TypesStay
  BY <1>1 DEF EntitiesStay, TypesStay, JInv, IInv, Rows, Present
<1>3. Logged'
  BY <1>1 DEF JInv, Logged, In, Present
<1>4. ASSUME NEW i \in uploaded
      PROVE  (i \in objects' <=> i \in Present) \/ Creating(i)' \/ Deleting(i)' \/ i \in excuse'
  <2>1. CASE Creating(i) \/ Deleting(i)
    <3>1. PICK q \in Requests : /\ work[q] # Idle /\ work[q].id = i
                               /\ \/ work[q].do = "insert" /\ Creating(i)
                                  \/ work[q].do = "delete" /\ Deleting(i)
      BY <2>1 DEF Creating, Deleting
    <3>2. work'[q] = work[q]
      BY <1>1, <3>1 DEF Began, Busy
    <3> QED BY <3>1, <3>2 DEF Creating, Deleting
  <2>2. CASE w.do = "delete" /\ w.id = i /\ w # Idle
    BY <1>1, <2>2 DEF Deleting
  <2>3. CASE objects' = objects
    BY <1>1, <2>1, <2>3 DEF JInv, Matched
  <2>4. CASE w.do = "delete" /\ objects' = objects \ {w.id} /\ w.id # i
    BY <1>1, <2>1, <2>4 DEF JInv, Matched
  <2> QED BY <2>1, <2>2, <2>3, <2>4 DEF Began
<1>8. ASSUME NEW q \in Requests, Busy(q)', work'[q].do = "insert", work'[q].id \in uploaded
      PROVE  work'[q].id \in objects'
  <2>1. q # s
    BY <1>1, <1>8 DEF Began, JInv, IInv, Rest
  <2>2. work[q].id \in objects /\ work'[q] = work[q]
    BY <1>1, <1>8, <2>1 DEF JInv, Matched, Busy
  <2>3. Busy(s)' => work[q].id # w.id
    BY <1>1, <1>8, <2>1, <2>2 DEF IInv, Works
  <2> QED BY <1>1, <2>2, <2>3 DEF Began, Busy
<1>5. Matched'
  BY <1>1, <1>4, <1>8 DEF JInv, Matched, Present
<1>6. Sealed'
  BY <1>1 DEF JInv, Sealed, Honest, In, Present
<1>7. ASSUME NEW q \in Requests, Busy(q)' PROVE Careful(work[q])' /\ Removes(work[q])'
  <2>1. CASE q = s
    <3>2. Prepared(w)'
      BY <1>1, <1>7, <2>1 DEF IInv, Works
    <3>3. w.do \in {"delete", "update"} => w.id \in used
      BY <1>1, <3>2 DEF Prepared, Edit
    <3>1. Careful(w)'
      BY <1>1, <1>2, <3>3, CarefulStays DEF Began
    <3> QED BY <1>1, <2>1, <3>1 DEF Began
  <2>2. CASE q # s
    BY <1>1, <1>2, <1>7, <2>2, OthersInHand DEF JInv
  <2> QED BY <2>1, <2>2
<1> QED BY <1>3, <1>5, <1>6, <1>7 DEF JInv, InHand

\* What a commit does to the rows, by the kind of its unit of work.
LEMMA Committed ==
  ASSUME JInv, NEW s \in Requests, Commit(s)
  PROVE  /\ EntitiesStay /\ TypesStay /\ InOrder(rows') /\ Careful(work[s]) /\ Prepared(work[s])
         /\ work[s].do = "view" => rows' = rows
         /\ work[s].do = "insert" =>
              /\ Present' = Present \cup {work[s].id} /\ rows'[work[s].id] = work[s].row
              /\ work[s].id \notin used /\ \A j \in Present : rows'[j] = rows[j]
         /\ work[s].do = "update" =>
              /\ Present' = Present /\ work[s].id \in Present
              /\ rows'[work[s].id] = Over(work[s].row, rows[work[s].id])
              /\ \A j \in Present \ {work[s].id} : rows'[j] = rows[j]
         /\ work[s].do = "delete" =>
              /\ Present' = Present \ Cascade(work[s].id)
              /\ \A j \in Present' : rows'[j] = Nulled(rows[j], work[s].id)
              /\ \A j \in Present' \ Configs : rows'[j] = rows[j]
<1>0. PICK w : w = work[s]
  OBVIOUS
<1>1. /\ Prepared(w) /\ Accepted(w) /\ rows' = After(w) /\ Careful(w)
      /\ EntitiesStay /\ InOrder(rows')
  BY <1>0, CommittedInOrder DEF Commit, JInv, IInv, Works, Busy, InHand
<1>2. CASE w.do = "view"
  BY <1>0, <1>1, <1>2 DEF After, TypesStay, JInv, IInv, Rows, Present
<1>3. CASE w.do = "insert"
  <2>1. PICK r : r = rows' /\ r = Over([i \in {w.id} |-> w.row], rows)
    BY <1>1, <1>3 DEF After
  <2>3. /\ DOMAIN r = Present \cup {w.id} /\ r[w.id] = w.row /\ w.id \notin used
        /\ \A j \in Present : r[j] = rows[j]
    BY <1>1, <1>3, <2>1, InsertedInOrder DEF JInv
  <2>2. /\ Present' = Present \cup {w.id} /\ rows'[w.id] = w.row /\ w.id \notin used
        /\ \A j \in Present : rows'[j] = rows[j]
    BY <2>1, <2>3 DEF Present
  <2> QED BY <1>0, <1>1, <1>3, <2>2 DEF TypesStay
<1>4. CASE w.do = "update"
  <2>1. rows' = [rows EXCEPT ![w.id] = Over(w.row, @)] /\ w.id \in Present
    BY <1>1, <1>4 DEF After, Accepted
  <2>2. /\ Present' = Present /\ rows'[w.id] = Over(w.row, rows[w.id])
        /\ \A j \in Present \ {w.id} : rows'[j] = rows[j]
    BY <2>1 DEF Present
  <2>3. ASSUME w.id \in Assets PROVE rows'[w.id].type = rows[w.id].type
    <3>1. "type" \in DOMAIN rows[w.id]
      BY <2>1, <2>3, Rowed, RowsAreRecords DEF JInv
    <3>2. "type" \notin DOMAIN w.row
      BY <1>1, <1>4 DEF Prepared, Edit, Editable
    <3> QED BY <2>2, <3>1, <3>2 DEF Over
  <2>4. TypesStay
    BY <2>2, <2>3 DEF TypesStay
  <2> QED BY <1>0, <1>1, <1>4, <2>1, <2>2, <2>4
<1>5. CASE w.do = "delete"
  <2>1. rows' = Without(w.id) /\ w.id \in Ids
    BY <1>1, <1>5 DEF After, Prepared
  <2>2. /\ Present' = Present \ Cascade(w.id)
        /\ \A j \in Present' : rows'[j] = Nulled(rows[j], w.id)
        /\ \A j \in Present' \ Configs : rows'[j] = rows[j]
    BY <2>1, WithoutIs, WithoutInOrder DEF JInv, Present
  <2>3. TypesStay
    BY <2>2, EntitiesApart DEF TypesStay
  <2> QED BY <1>0, <1>1, <1>5, <2>2, <2>3
<1> QED BY <1>0, <1>1, <1>2, <1>3, <1>4, <1>5 DEF Prepared

LEMMA CommitLogged == ASSUME JInv, NEW s \in Requests, Commit(s) PROVE Logged'
<1>0. PICK w : w = work[s]
  OBVIOUS
<1>1. /\ audit' = {a \in audit \cup w.log : a.org \in Present'}
      /\ excuse' = excuse \cup Taken(w)
  BY <1>0 DEF Commit, Present
<1>2. /\ EntitiesStay /\ InOrder(rows') /\ Logs(w) /\ Prepared(w)
      /\ w.do # "insert" => Present' \subseteq Present
      /\ w.do = "insert" => Present' = Present \cup {w.id} /\ rows'[w.id] = w.row /\ w.id \notin used
      /\ w.do \in {"view", "update"} => Present' = Present
      /\ w.do = "delete" => Present' = Present \ Cascade(w.id)
  <2>1. /\ EntitiesStay /\ InOrder(rows') /\ Careful(w) /\ Prepared(w)
        /\ w.do = "view" => rows' = rows
        /\ w.do = "insert" => Present' = Present \cup {w.id} /\ rows'[w.id] = w.row /\ w.id \notin used
        /\ w.do = "update" => Present' = Present
        /\ w.do = "delete" => Present' = Present \ Cascade(w.id)
    BY <1>0, Committed
  <2> QED BY <2>1 DEF Careful, Prepared, Present
<1>3. \A a \in audit : a.id \in used /\ a.org \in In(Orgs)
  BY DEF JInv, IInv, Audited
<1>4. Present \subseteq used
  BY DEF JInv, IInv, Rows
<1>5. \A i \in In(Entities)' : rows'[i].org \in Present'
  <2> SUFFICES ASSUME NEW i \in Entities, i \in Present' PROVE rows'[i].org \in Present'
    BY DEF In
  <2>1. rows'[i] \in Row(i) /\ References(rows'[i]) \subseteq Present' /\ i \in Ids
    BY <1>2 DEF InOrder, Present
  <2>2. rows'[i].org \in Orgs /\ "org" \in DOMAIN rows'[i]
    BY <2>1, RowOf, RowsAreRecords DEF Entities
  <2>3. rows'[i].org # Null
    BY <2>2, BoundsAssumption DEF Ids
  <2> QED BY <2>1, <2>2, <2>3 DEF References
<1>6. ASSUME NEW a \in audit', a.action = "delete" PROVE a.id \notin Present'
  <2>1. CASE a \in audit
    BY <1>2, <1>3, <1>6, <2>1 DEF JInv, Logged
  <2>2. CASE a \in w.log
    <3>1. w.do = "delete" /\ a.id = w.id
      BY <1>2, <1>6, <2>2 DEF Logs, Prepared
    <3> QED BY <1>2, <3>1 DEF Cascade
  <2> QED BY <1>1, <2>1, <2>2
<1>7. ASSUME NEW i \in In(Entities)' PROVE Log("create", rows'[i].org, i) \subseteq audit'
  <2>0. i \in Entities /\ i \in Present'
    BY DEF In
  <2>1. CASE i \in Present
    <3>1. rows'[i].org = rows[i].org /\ Log("create", rows[i].org, i) \subseteq audit
      BY <1>2, <1>4, <2>0, <2>1 DEF EntitiesStay, JInv, Logged, In
    <3> QED BY <1>1, <1>5, <3>1 DEF Log
  <2>2. CASE i \notin Present
    <3>1. w.do = "insert" /\ i = w.id /\ rows'[i] = w.row
      BY <1>2, <2>0, <2>2
    <3>2. Log("create", rows'[i].org, i) = w.log
      BY <1>2, <2>0, <3>1 DEF Logs
    <3> QED BY <1>1, <1>5, <3>2 DEF Log
  <2> QED BY <2>1, <2>2
<1>8. ASSUME NEW a \in audit', a.action = "create"
      PROVE  /\ a.id \in Orgs \cup Entities
             /\ a.id \in Orgs => a.org = a.id
             /\ a.id \in In(Entities)' => a.org = rows'[a.id].org
             /\ a.id \in Present' \/ Log("delete", a.org, a.id) \subseteq audit' \/ a.id \in excuse'
  <2>1. CASE a \in w.log
    <3>1. w.do = "insert" /\ a.id = w.id /\ a.id \in Orgs \cup Entities /\ (a.id \in Orgs => a.org = a.id)
      BY <1>2, <1>8, <2>1 DEF Logs, Prepared
    <3>2. a.id \in Entities => a.org = w.row.org
      BY <1>2, <2>1, <3>1 DEF Logs, Log
    <3> QED BY <1>2, <3>1, <3>2 DEF In
  <2>2. CASE a \in audit
    <3>1. /\ a.id \in Orgs \cup Entities
          /\ a.id \in Orgs => a.org = a.id
          /\ a.id \in In(Entities) => a.org = rows[a.id].org
          /\ a.id \in Present \/ Log("delete", a.org, a.id) \subseteq audit \/ a.id \in excuse
      BY <1>8, <2>2 DEF JInv, Logged
    <3>2. a.id \in used /\ a.org \in Present'
      BY <1>1, <1>3, <1>8, <2>2
    <3>3. a.id \in In(Entities)' => a.org = rows'[a.id].org
      BY <1>2, <3>1, <3>2 DEF EntitiesStay, In
    <3>4. CASE a.id \in Present'
      BY <3>1, <3>3, <3>4
    <3>5. CASE a.id \notin Present
      BY <1>1, <3>1, <3>2, <3>3, <3>5 DEF Log
    <3>6. CASE a.id \in Present /\ a.id \notin Present'
      <4>1. w.do = "delete" /\ a.id \in Cascade(w.id)
        BY <1>2, <3>6 DEF Prepared
      <4>2. a.id \in Entities
        <5>1. ASSUME a.id \in Orgs PROVE FALSE
          BY <3>1, <3>2, <3>6, <5>1
        <5> QED BY <3>1, <5>1
      <4>3. a.org = rows[a.id].org
        BY <3>1, <3>6, <4>2 DEF In
      <4>4. CASE a.id = w.id
        <5>1. w.log = Log("delete", a.org, a.id)
          BY <1>2, <3>6, <4>1, <4>2, <4>3, <4>4 DEF Logs, In
        <5> QED BY <1>1, <3>1, <3>2, <3>3, <5>1 DEF Log
      <4>5. CASE a.id # w.id
        <5>1. PICK c \in DOMAIN rows[a.id] \cap {"org", "type"} : rows[a.id][c] = w.id
          BY <4>1, <4>5 DEF Cascade
        <5>2. CASE c = "org"
          <6>1. a.org = w.id
            BY <4>3, <5>1, <5>2
          <6>2. w.id \notin Present'
            BY <1>2, <4>1 DEF Cascade
          <6> QED BY <3>2, <6>1, <6>2
        <5>3. CASE c = "type"
          <6>1. a.id \in Ids /\ rows[a.id] \in Row(a.id)
            BY <3>6, Rowed DEF JInv
          <6>2. a.id \in Assets
            BY <4>2, <5>1, <5>3, <6>1, RowsAreRecords DEF Entities
          <6>3. rows[a.id].type \in Present
            BY <3>6, <6>2, Rowed DEF JInv, In
          <6>4. a.id \in Taken(w)
            BY <3>6, <4>1, <4>5, <5>1, <5>3, <6>2, <6>3 DEF Taken
          <6> QED BY <1>1, <3>1, <3>3, <6>4
        <5> QED BY <5>1, <5>2, <5>3
      <4> QED BY <4>4, <4>5
    <3> QED BY <3>4, <3>5, <3>6
  <2> QED BY <1>1, <2>1, <2>2
<1> QED BY <1>6, <1>7, <1>8 DEF Logged

LEMMA CommitMatched == ASSUME JInv, NEW s \in Requests, Commit(s) PROVE Matched'
<1>1. PICK w : w = work[s]
  OBVIOUS
<1>2. /\ Prepared(w) /\ Removes(w)
      /\ w.do = "view" => rows' = rows
      /\ w.do = "insert" => Present' = Present \cup {w.id} /\ w.id \notin used
      /\ w.do = "update" => Present' = Present
      /\ w.do = "delete" => Present' = Present \ Cascade(w.id)
  BY <1>1, Committed DEF Commit, JInv, InHand, Busy
<1>3. /\ UNCHANGED <<objects, uploaded>> /\ excuse' = excuse \cup Taken(w)
      /\ work'[s] = Idle /\ \A q \in Requests \ {s} : work'[q] = work[q]
  BY <1>1 DEF Commit, JInv, IInv, Works
<1>4. ASSUME NEW i \in uploaded
      PROVE  (i \in objects' <=> i \in Present') \/ Creating(i)' \/ Deleting(i)' \/ i \in excuse'
  <2>1. i \in Attachments
    BY DEF JInv, Matched, IInv, Rest
  <2>2. CASE w.do = "delete" /\ w.id = i
    <3>1. i \notin Present'
      BY <1>2, <2>2 DEF Cascade
    <3>2. i \notin objects \/ i \in excuse
      BY <1>2, <2>1, <2>2 DEF Removes
    <3> QED BY <1>3, <3>1, <3>2
  <2>7. CASE w.do = "insert" /\ w.id = i
    BY <1>1, <1>2, <1>3, <1>4, <2>7 DEF JInv, Matched, Commit, Busy
  <2>3. CASE \E q \in Requests \ {s} : /\ work[q] # Idle /\ work[q].do \in {"insert", "delete"}
                                        /\ work[q].id = i
    BY <1>3, <2>3 DEF Creating, Deleting
  <2>4. CASE i \in excuse
    BY <1>3, <2>4
  <2>5. CASE ~(w.do \in {"insert", "delete"} /\ w.id = i) /\ (i \in objects <=> i \in Present)
    <3>1. ASSUME w.do = "delete", i \in Present, i \in Cascade(w.id) PROVE i \in Taken(w)
      <4>1. PICK c \in DOMAIN rows[i] \cap {"org", "type"} : rows[i][c] = w.id
        BY <2>5, <3>1 DEF Cascade
      <4>2. w.id # Null
        BY <1>2, BoundsAssumption DEF Prepared
      <4>3. w.id \in References(rows[i])
        BY <4>1, <4>2 DEF References
      <4>4. w.id \in Present
        BY <3>1, <4>3, Rowed DEF JInv
      <4> QED BY <2>1, <2>5, <3>1, <4>4 DEF Taken
    <3>2. w.do = "insert" => (i \in Present' <=> i \in Present)
      BY <1>2, <2>5
    <3>3. w.do = "view" \/ w.do = "update" => (i \in Present' <=> i \in Present)
      BY <1>2 DEF Present
    <3>4. w.do = "delete" => (i \in Present' <=> i \in Present) \/ i \in Taken(w)
      BY <1>2, <3>1
    <3>5. w.do \in {"insert", "update", "delete", "view"}
      BY <1>2 DEF Prepared
    <3>6. (i \in Present' <=> i \in Present) \/ i \in Taken(w)
      BY <3>2, <3>3, <3>4, <3>5
    <3> QED BY <1>3, <2>5, <3>6
  <2>6. Creating(i) \/ Deleting(i) =>
          \/ w.do \in {"insert", "delete"} /\ w.id = i
          \/ \E q \in Requests \ {s} : /\ work[q] # Idle /\ work[q].do \in {"insert", "delete"}
                                       /\ work[q].id = i
    BY <1>1 DEF Creating, Deleting
  <2> QED BY <2>2, <2>3, <2>4, <2>5, <2>6, <2>7 DEF JInv, Matched
<1>5. ASSUME NEW q \in Requests, Busy(q)', work'[q].do = "insert", work'[q].id \in uploaded
      PROVE  work'[q].id \in objects
  BY <1>3, <1>5 DEF JInv, Matched, Busy
<1> QED BY <1>3, <1>4, <1>5 DEF JInv, Matched

LEMMA CommitSealed == ASSUME JInv, NEW s \in Requests, Commit(s) PROVE Sealed'
<1>1. PICK w : w = work[s]
  OBVIOUS
<1>2. /\ TypesStay /\ InOrder(rows') /\ Careful(w) /\ Prepared(w)
      /\ w.do = "view" => rows' = rows
      /\ w.do = "insert" => /\ Present' = Present \cup {w.id} /\ rows'[w.id] = w.row /\ w.id \notin used
                            /\ \A j \in Present : rows'[j] = rows[j]
      /\ w.do = "update" => /\ Present' = Present /\ w.id \in Present
                            /\ rows'[w.id] = Over(w.row, rows[w.id])
                            /\ \A j \in Present \ {w.id} : rows'[j] = rows[j]
      /\ w.do = "delete" => /\ Present' = Present \ Cascade(w.id)
                            /\ \A j \in Present' \ Configs : rows'[j] = rows[j]
  BY <1>1, Committed
<1>3. retyped' = retyped \cup Retyped(w)
  BY <1>1 DEF Commit
<1>4. \A t, values : Honest(t, values) => Honest(t, values)'
  BY <1>3 DEF Honest
<1>5. ASSUME NEW i \in Present', i \in AssetTypes \cup Assets
      PROVE  \/ i \in Present /\ rows'[i] = rows[i]
             \/ w.do = "insert" /\ i = w.id /\ rows'[i] = w.row
             \/ w.do = "update" /\ i = w.id /\ i \in Present /\ rows'[i] = Over(w.row, rows[i])
  <2>1. i \notin Configs
    BY <1>5, Apart, EntitiesApart DEF Entities
  <2> QED BY <1>2, <2>1 DEF Prepared, Present
<1>6. ASSUME NEW t \in AssetTypes, t \in Present', NEW f \in DOMAIN rows'[t].fields
      PROVE  <<t, f, rows'[t].fields[f]>> \in retyped'
  <2>1. CASE t \in Present /\ rows'[t].fields = rows[t].fields
    BY <1>3, <1>6, <2>1 DEF JInv, Sealed, In
  <2>2. CASE w.do # "view" /\ t = w.id /\ "fields" \in DOMAIN w.row /\ rows'[t].fields = w.row.fields
    BY <1>3, <1>6, <2>2 DEF Retyped
  <2>3. CASE w.do = "insert" /\ t = w.id /\ rows'[t] = w.row
    <3>1. "fields" \in DOMAIN w.row
      BY <1>2, <2>3, RowsAreRecords DEF Prepared, Insertion
    <3> QED BY <2>2, <2>3, <3>1
  <2>4. CASE w.do = "update" /\ t = w.id /\ t \in Present /\ rows'[t] = Over(w.row, rows[t])
    <3>1. "fields" \in DOMAIN rows[t]
      BY <1>6, <2>4, Rowed, RowsAreRecords DEF JInv
    <3> QED BY <2>1, <2>2, <2>4, <3>1 DEF Over
  <2> QED BY <1>5, <1>6, <2>1, <2>3, <2>4
<1>7. ASSUME NEW a \in Assets, a \in Present' PROVE Honest(rows[a].type, rows[a].values)'
  <2>0. PICK t, values : t = rows'[a].type /\ values = rows'[a].values
    OBVIOUS
  <2>1. Honest(t, values)
    <3>1. CASE a \in Present /\ rows'[a] = rows[a]
      BY <1>7, <2>0, <3>1 DEF JInv, Sealed, In
    <3>2. CASE w.do = "insert" /\ a = w.id /\ rows'[a] = w.row
      BY <1>2, <1>7, <2>0, <3>2 DEF Careful, Encrypts
    <3>3. CASE w.do = "update" /\ a = w.id /\ a \in Present /\ rows'[a] = Over(w.row, rows[a])
      <4>1. t = rows[a].type /\ Honest(rows[a].type, rows[a].values)
        BY <1>2, <1>7, <2>0, <3>3 DEF TypesStay, JInv, IInv, Rows, Sealed, In
      <4>2. "values" \in DOMAIN rows[a]
        BY <1>7, <3>3, Rowed, RowsAreRecords DEF JInv
      <4>3. values = IF "values" \in DOMAIN w.row THEN w.row.values ELSE rows[a].values
        BY <2>0, <3>3, <4>2 DEF Over
      <4> QED BY <1>2, <1>7, <3>3, <4>1, <4>3 DEF Careful, Encrypts, In
    <3> QED BY <1>5, <1>7, <3>1, <3>2, <3>3
  <2> QED BY <1>4, <2>0, <2>1 DEF Honest
<1> QED BY <1>6, <1>7 DEF Sealed, In, Honest

LEMMA CommitKeeps == ASSUME JInv, IInv', NEW s \in Requests, Commit(s) PROVE JInv'
<1>1. EntitiesStay /\ TypesStay
  BY Committed
<1>2. /\ retyped \subseteq retyped' /\ excuse \subseteq excuse' /\ objects' = objects
      /\ work'[s] = Idle /\ \A q \in Requests \ {s} : work'[q] = work[q]
  BY DEF Commit, JInv, IInv, Works
<1>3. ASSUME NEW q \in Requests, Busy(q)' PROVE Careful(work[q])' /\ Removes(work[q])'
  <2>1. work'[q] = work[q]
    BY <1>2, <1>3 DEF Busy
  <2> QED BY <1>1, <1>2, <1>3, <2>1, OthersInHand DEF JInv
<1> QED BY <1>3, CommitLogged, CommitMatched, CommitSealed DEF JInv, InHand
-----------------------------------------------------------------------------
(* The other ends of a request, and what is done at once. *)

\* A step that creates nothing, deletes no entity and changes no column that the
\* invariant speaks of.
Gentle ==
  /\ EntitiesStay /\ In(Orgs)' = In(Orgs) /\ In(Entities)' = In(Entities) /\ Present' \subseteq Present
  /\ \A t \in AssetTypes \cap Present' : rows'[t].fields = rows[t].fields
  /\ \A a \in Assets \cap Present' : rows'[a].type = rows[a].type /\ rows'[a].values = rows[a].values
  /\ UNCHANGED <<used, audit, retyped>> /\ excuse \subseteq excuse'
  /\ \A q \in Requests : Busy(q)' => work'[q] = work[q]

LEMMA GentleStep ==
  ASSUME JInv, IInv', Gentle, Matched',
         \A i \in objects' \ objects : Deleting(i) => i \in excuse'
  PROVE  JInv'
<1>1. Logged'
  <2>1. \A a \in audit : a.action = "delete" => a.id \notin Present'
    BY DEF JInv, Logged, Gentle
  <2>2. ASSUME NEW i \in Entities, i \in Present' PROVE Log("create", rows'[i].org, i) \subseteq audit
    <3>1. i \in In(Entities) /\ i \in used
      BY <2>2 DEF Gentle, In, JInv, IInv, Rows
    <3>2. rows'[i].org = rows[i].org
      BY <2>2, <3>1 DEF Gentle, EntitiesStay
    <3> QED BY <3>1, <3>2 DEF JInv, Logged
  <2>3. ASSUME NEW a \in audit, a.action = "create"
        PROVE  /\ a.id \in Orgs \cup Entities
               /\ a.id \in Orgs => a.org = a.id
               /\ a.id \in Entities /\ a.id \in Present' => a.org = rows'[a.id].org
               /\ a.id \in Present' \/ Log("delete", a.org, a.id) \subseteq audit \/ a.id \in excuse'
    <3>1. /\ a.id \in Orgs \cup Entities
          /\ a.id \in Orgs => a.org = a.id
          /\ a.id \in In(Entities) => a.org = rows[a.id].org
          /\ a.id \in Present \/ Log("delete", a.org, a.id) \subseteq audit \/ a.id \in excuse
      BY <2>3 DEF JInv, Logged
    <3>2. a.id \in Present => a.id \in Present'
      BY <3>1 DEF Gentle, In
    <3>3. ASSUME a.id \in Entities, a.id \in Present' PROVE a.org = rows'[a.id].org
      <4>1. a.id \in used /\ a.id \in In(Entities)
        BY <3>3 DEF Gentle, In, JInv, IInv, Rows
      <4> QED BY <3>1, <3>3, <4>1 DEF Gentle, EntitiesStay
    <3> QED BY <3>1, <3>2, <3>3 DEF Gentle
  <2>4. audit' = audit
    BY DEF Gentle
  <2> QED BY <2>1, <2>2, <2>3, <2>4 DEF Logged, In
<1>2. Sealed'
  <2>1. \A t \in In(AssetTypes)' : rows'[t].fields = rows[t].fields /\ t \in In(AssetTypes)
    BY DEF Gentle, In
  <2>2. \A a \in In(Assets)' : /\ rows'[a].type = rows[a].type /\ rows'[a].values = rows[a].values
                               /\ a \in In(Assets)
    BY DEF Gentle, In
  <2> QED BY <2>1, <2>2 DEF JInv, Sealed, Honest, Gentle
<1>3. TypesStay
  BY DEF Gentle, TypesStay, In
<1>4. ASSUME NEW q \in Requests, Busy(q)' PROVE Careful(work[q])' /\ Removes(work[q])'
  <2>1. work'[q] = work[q]
    BY <1>4 DEF Gentle
  <2>2. work[q].do = "delete" => work[q].id \notin objects' \ objects \/ work[q].id \in excuse'
    BY <1>4, <2>1 DEF Deleting, Busy
  <2> QED BY <1>3, <1>4, <2>1, <2>2, OthersInHand DEF JInv, Gentle
<1> QED BY <1>1, <1>2, <1>4 DEF JInv, InHand

LEMMA SameRows == ASSUME JInv, rows' = rows
  PROVE  /\ EntitiesStay /\ In(Orgs)' = In(Orgs) /\ In(Entities)' = In(Entities) /\ Present' = Present
         /\ \A t \in AssetTypes \cap Present' : rows'[t].fields = rows[t].fields
         /\ \A a \in Assets \cap Present' : rows'[a].type = rows[a].type /\ rows'[a].values = rows[a].values
BY DEF EntitiesStay, In, Present, JInv, IInv, Rows

LEMMA RollbackKeeps == ASSUME JInv, IInv', NEW s \in Requests, Rollback(s) PROVE JInv'
<1>1. /\ UNCHANGED <<rows, used, audit, objects, handed, uploaded, retyped>>
      /\ DOMAIN work = Requests /\ work'[s] = Idle /\ \A q \in Requests \ {s} : work'[q] = work[q]
      /\ excuse' = excuse \cup ({work[s].id} \cap handed)
  BY DEF Rollback, JInv, IInv, Works
<1>2. Gentle
  BY <1>1, SameRows DEF Gentle, Busy
<1>3. ASSUME NEW i \in uploaded
      PROVE  (i \in objects <=> i \in Present) \/ Creating(i)' \/ Deleting(i)' \/ i \in excuse'
  <2>1. i \in handed
    BY DEF JInv, IInv, Rest
  <2>2. ASSUME Creating(i) PROVE Creating(i)' \/ i \in excuse'
    BY <1>1, <2>1, <2>2 DEF Creating
  <2>3. ASSUME Deleting(i) PROVE Deleting(i)' \/ i \in excuse'
    BY <1>1, <2>1, <2>3 DEF Deleting
  <2> QED BY <1>1, <2>2, <2>3 DEF JInv, Matched
<1>5. \A q \in Requests : Busy(q)' => q # s /\ Busy(q)
  BY <1>1 DEF Busy
<1>4. Matched'
  BY <1>1, <1>3, <1>5 DEF JInv, Matched, Present
<1> QED BY <1>1, <1>2, <1>4, GentleStep

LEMMA BatchKeeps ==
  ASSUME JInv, IInv', NEW table, table \subseteq Entities, BatchToggle(table) PROVE JInv'
<1>1. PICK o \in In(Orgs), ids \in SUBSET table, enabled \in BOOLEAN :
        rows' = [i \in Present |->
                  IF i \in ids \cap OfOrg(o, table) THEN [rows[i] EXCEPT !.enabled = enabled] ELSE rows[i]]
  BY DEF BatchToggle
<1>2. /\ Present' = Present
      /\ \A i \in Present : \/ rows'[i] = rows[i]
                            \/ i \in Entities /\ rows'[i] = [rows[i] EXCEPT !.enabled = enabled]
  BY <1>1 DEF Present
<1>3. UNCHANGED <<used, audit, objects, work, handed, uploaded, retyped, excuse>>
  BY DEF BatchToggle
<1>4. ASSUME NEW i \in Present
      PROVE  /\ i \in Entities => rows'[i].org = rows[i].org
             /\ i \in Assets => rows'[i].type = rows[i].type /\ rows'[i].values = rows[i].values
             /\ i \notin Entities => rows'[i] = rows[i]
  <2>1. /\ i \in Entities => "org" \in DOMAIN rows[i]
        /\ i \in Assets => {"type", "values"} \subseteq DOMAIN rows[i]
    BY Rowed, RowsAreRecords DEF JInv, Entities
  <2> QED BY <1>2, <2>1
<1>5. EntitiesStay
  BY <1>2, <1>4 DEF EntitiesStay
<1>6. \A t \in AssetTypes : t \notin Entities
  BY Apart
<1>7. Gentle
  BY <1>2, <1>3, <1>4, <1>5, <1>6 DEF Gentle, In
<1>8. Matched'
  BY <1>2, <1>3 DEF JInv, Matched, Creating, Deleting, Busy
<1> QED BY <1>3, <1>7, <1>8, GentleStep

LEMMA UnfavoriteKeeps == ASSUME JInv, IInv', UnfavoriteEntity PROVE JInv'
<1>1. PICK i \in In(Favorites) : rows' = Without(i)
  BY DEF UnfavoriteEntity
<1>2. i \in Ids /\ i \in Present /\ i \in Favorites
  BY <1>1 DEF In, Ids
<1>3. /\ \A j \in Present' : j \in Present /\ (j \notin Configs => rows'[j] = rows[j])
      /\ \A j \in Entities \cap Present' : rows'[j].org = rows[j].org
  BY <1>1, <1>2, WithoutInOrder DEF JInv, Present
<1>4. ASSUME NEW j \in Present, j \notin Favorites PROVE j \in Present'
  <2>1. ASSUME j \in Cascade(i) PROVE FALSE
    <3>1. PICK c \in DOMAIN rows[j] \cap {"org", "type"} : rows[j][c] = i
      BY <1>2, <1>4, <2>1 DEF Cascade
    <3>2. j \in Ids /\ rows[j] \in Row(j)
      BY Rowed DEF JInv
    <3>3. i \in Orgs \cup ConfigTypes \cup Statuses \cup AssetTypes \cup {Null}
      BY <3>1, <3>2, RefersTo
    <3> QED BY <1>2, <3>3, Apart, BoundsAssumption
  <2> QED BY <1>1, <2>1, WithoutIs DEF Present
<1>5. UNCHANGED <<used, audit, objects, work, handed, uploaded, retyped, excuse>>
  BY DEF UnfavoriteEntity
<1>6. EntitiesStay
  BY <1>3 DEF EntitiesStay
<1>7. In(Orgs)' = In(Orgs) /\ In(Entities)' = In(Entities)
  BY <1>3, <1>4, Apart DEF In
<1>8. \A j \in AssetTypes \cup Assets : j \notin Configs
  BY Apart, EntitiesApart DEF Entities
<1>9. Gentle
  BY <1>3, <1>5, <1>6, <1>7, <1>8 DEF Gentle
<1>10. \A j \in Attachments : j \in Present' <=> j \in Present
  BY <1>3, <1>4, Apart
<1>11. Matched'
  BY <1>5, <1>10 DEF JInv, Matched, Creating, Deleting, Busy, IInv, Rest
<1> QED BY <1>5, <1>9, <1>11, GentleStep

LEMMA PutObjectKeeps == ASSUME JInv, IInv', NEW i \in Attachments, PutObject(i) PROVE JInv'
<1>1. /\ UNCHANGED <<rows, used, audit, work, retyped>>
      /\ objects' = objects \cup {i} /\ uploaded' = uploaded \cup {i}
      /\ excuse' = IF Creating(i) \/ (i \in Present /\ ~Deleting(i)) THEN excuse ELSE excuse \cup {i}
  BY DEF PutObject
<1>2. Gentle
  BY <1>1, SameRows DEF Gentle
<1>3. \A j : (Creating(j)' <=> Creating(j)) /\ (Deleting(j)' <=> Deleting(j))
  BY <1>1 DEF Creating, Deleting
<1>5. \A s \in Requests : Busy(s)' <=> Busy(s)
  BY <1>1 DEF Busy
<1>4. Matched'
  BY <1>1, <1>3, <1>5 DEF JInv, Matched, Present
<1>6. Deleting(i) => i \in excuse'
  <2> SUFFICES ASSUME Deleting(i), Creating(i) PROVE FALSE
    BY <1>1
  <2>1. PICK s \in Requests, q \in Requests :
          /\ Busy(s) /\ work[s].do = "insert" /\ work[s].id = i
          /\ Busy(q) /\ work[q].do = "delete" /\ work[q].id = i
    BY DEF Creating, Deleting, Busy
  <2> QED BY <2>1 DEF JInv, IInv, Works
<1> QED BY <1>1, <1>2, <1>4, <1>6, GentleStep

LEMMA HandOutKeeps == ASSUME JInv, IInv', NEW s \in Requests, HandOut(s) PROVE JInv'
<1>1. UNCHANGED <<rows, used, audit, objects, work, uploaded, retyped, excuse>>
  BY DEF HandOut
<1>2. Gentle
  BY <1>1, SameRows DEF Gentle
<1>3. Matched'
  BY <1>1 DEF JInv, Matched, Creating, Deleting, Busy, Present
<1> QED BY <1>1, <1>2, <1>3, GentleStep

LEMMA JInductiveStep == JInv /\ [Next]_vars => JInv'
<1> SUFFICES ASSUME JInv, [Next]_vars PROVE JInv'
  OBVIOUS
<1>1. IInv'
  BY InductiveStep DEF JInv
<1>2. CASE UNCHANGED vars
  <2>1. Gentle
    BY <1>2, SameRows DEF Gentle, vars
  <2>2. Matched' /\ objects' = objects
    BY <1>2 DEF vars, JInv, Matched, Creating, Deleting, Busy, Present
  <2> QED BY <1>1, <2>1, <2>2, GentleStep
<1>3. ASSUME NEW s \in Requests, OrganizationNext(s) \/ TypeNext(s) \/ EntityNext(s) \/ OtherNext(s)
      PROVE  JInv'
  <2>1. \E w : Began(s, w)
    BY <1>3, OrganizationsBegan, TypesBegan, EntitiesBegan, OthersBegan DEF JInv
  <2> QED BY <1>1, <2>1, BeganStep
<1>4. ASSUME NEW s \in Requests, HandOut(s) \/ Commit(s) \/ Rollback(s) PROVE JInv'
  BY <1>1, <1>4, HandOutKeeps, CommitKeeps, RollbackKeeps
<1>5. CASE \E table \in {Locations, Passwords, Documents, Configs, Assets} : BatchToggle(table)
  BY <1>1, <1>5, BatchKeeps DEF Entities
<1>6. CASE UnfavoriteEntity \/ \E i \in Attachments : PutObject(i)
  BY <1>1, <1>6, UnfavoriteKeeps, PutObjectKeeps
<1> QED BY <1>2, <1>3, <1>4, <1>5, <1>6
    DEF Next, AtOnceNext, BatchToggleLocations, BatchTogglePasswords, BatchToggleDocuments,
        BatchToggleConfigurations, BatchToggleCustomAssets

-----------------------------------------------------------------------------
(* What the end of a request does to the rows of others. *)

LEMMA EndsSo ==
  ASSUME JInv, Next, NEW s \in Requests, Ends(s)
  PROVE  Commit(s) \/ Rollback(s)
<1>1. DOMAIN work = Requests /\ Busy(s) /\ work'[s] = Idle
  BY DEF Ends, JInv, IInv, Works, Busy
<1>2. work' # work
  BY <1>1 DEF Busy
<1>3. ASSUME NEW q \in Requests, OrganizationNext(q) \/ TypeNext(q) \/ EntityNext(q) \/ OtherNext(q)
      PROVE  FALSE
  <2>1. PICK w : Began(q, w)
    BY <1>3, OrganizationsBegan, TypesBegan, EntitiesBegan, OthersBegan DEF JInv
  <2>2. work' = [work EXCEPT ![q] = w] /\ ~Busy(q)
    BY <2>1 DEF Began
  <2> QED BY <1>1, <2>2 DEF Busy
<1>4. ASSUME NEW q \in Requests, Commit(q) \/ Rollback(q) PROVE q = s
  <2>1. work' = [work EXCEPT ![q] = Idle]
    BY <1>4 DEF Commit, Rollback
  <2> QED BY <1>1, <2>1 DEF Busy
<1>5. ~AtOnceNext /\ \A q \in Requests : ~HandOut(q)
  BY <1>2 DEF HandOut, AtOnceNext, BatchToggleLocations, BatchTogglePasswords, BatchToggleDocuments,
              BatchToggleConfigurations, BatchToggleCustomAssets, BatchToggle, UnfavoriteEntity, PutObject
<1> QED BY <1>3, <1>4, <1>5 DEF Next

LEMMA DeletionSpares ==
  ASSUME JInv, NEW s \in Requests, Commit(s) \/ Rollback(s) PROVE SparesReferrers(s)
<1> SUFFICES ASSUME NEW w, w = work[s], w.do = "delete", w.id \in Types,
                    NEW i \in Present \ {w.id}, i \notin Present' \/ rows'[i] # rows[i]
             PROVE  i \notin w.seen /\ \E c \in {"type", "ctype", "status"} : i \in Referrers(w.id, c)
  BY DEF SparesReferrers, Ends, Types, Present
<1>1. Commit(s) /\ Busy(s)
  BY DEF Commit, Rollback, Present, Busy
<1>2. w.seen = {}
  BY <1>1 DEF JInv, InHand, Careful, Frees
<1>3. i \in Ids /\ rows[i] \in Row(i)
  BY Rowed DEF JInv
<1>4. CASE i \notin Present'
  <2>1. Present' = Present \ Cascade(w.id)
    BY <1>1, Committed
  <2>2. PICK c \in DOMAIN rows[i] \cap {"org", "type"} : rows[i][c] = w.id
    BY <1>4, <2>1 DEF Cascade
  <2>3. c # "org"
    <3> SUFFICES ASSUME c = "org" PROVE FALSE
      OBVIOUS
    <3>1. "org" \in DOMAIN rows[i] /\ rows[i].org = w.id
      BY <2>2
    <3>2. rows[i].org \in Orgs
      BY <1>3, <3>1, RowOf, RowsAreRecords DEF Ids, Entities
    <3> QED BY <3>1, <3>2, Apart DEF Types
  <2>4. i \in Referrers(w.id, "type")
    BY <2>2, <2>3 DEF Referrers
  <2> QED BY <1>2, <2>4
<1>5. CASE i \in Present' /\ rows'[i] # rows[i]
  <2>1. rows'[i] = Nulled(rows[i], w.id)
    BY <1>1, <1>5, Committed
  <2>2. PICK c \in DOMAIN rows[i] \cap {"ctype", "status"} : rows[i][c] = w.id
    <3> SUFFICES ASSUME \A c \in DOMAIN rows[i] \cap {"ctype", "status"} : rows[i][c] # w.id
                 PROVE  FALSE
      OBVIOUS
    <3>1. Nulled(rows[i], w.id) = [c \in DOMAIN rows[i] |-> rows[i][c]]
      BY DEF Nulled
    <3> QED BY <1>3, <1>5, <2>1, <3>1, RowsAreRecords
  <2>3. i \in Referrers(w.id, c)
    BY <2>2 DEF Referrers
  <2> QED BY <1>2, <2>2, <2>3
<1> QED BY <1>4, <1>5

LEMMA EditKeeps ==
  ASSUME JInv, NEW s \in Requests, Commit(s) \/ Rollback(s) PROVE LeavesOthersAlone(s)
<1> SUFFICES ASSUME NEW w, w = work[s], w.do = "update", w.id \in Present'
             PROVE  LET i == w.id IN
                    /\ \A c \in DOMAIN rows[i] : rows'[i][c] # rows[i][c] => c \in w.asked
                    /\ i \in Assets => \A f \in FieldIds :
                         LET old == {v \in DOMAIN Encrypted : f \in DOMAIN rows[i].values /\ rows[i].values[f] = v}
                             new == {v \in DOMAIN Encrypted : f \in DOMAIN rows'[i].values /\ rows'[i].values[f] = v}
                         IN old # new => f \in w.seen.data \/ f \notin DOMAIN w.seen.values
                                           \/ w.seen.values[f] \notin old
  BY DEF LeavesOthersAlone, Ends, Present
<1>1. CASE rows' = rows
  BY <1>1
<1>2. CASE Commit(s)
  <2>1. PICK i, before, after : i = w.id /\ before = rows[i] /\ after = rows'[i]
    OBVIOUS
  <2>2. after = Over(w.row, before) /\ i \in Present /\ Keeps(w)
    BY <1>2, <2>1, Committed DEF Careful
  <2>3. \A c \in DOMAIN before : after[c] # before[c] => c \in DOMAIN w.row
    BY <2>2 DEF Over
  <2>4. DOMAIN w.row \subseteq w.asked
    BY <2>2 DEF Keeps
  <2>5. ASSUME i \in Assets, NEW f, f \notin w.seen.data, f \in DOMAIN w.seen.values,
               NEW v, v = w.seen.values[f], f \in DOMAIN before.values, before.values[f] = v
        PROVE  f \in DOMAIN after.values /\ after.values[f] = v
    <3>1. "values" \in DOMAIN before
      BY <2>1, <2>2, <2>5, Rowed, RowsAreRecords DEF JInv
    <3>2. after.values = IF "values" \in DOMAIN w.row THEN w.row.values ELSE before.values
      BY <2>2, <3>1 DEF Over
    <3> QED BY <2>2, <2>5, <3>2 DEF Keeps
  <2> QED BY <2>1, <2>3, <2>4, <2>5
<1> QED BY <1>1, <1>2 DEF Rollback
-----------------------------------------------------------------------------
LEMMA JInvariant == Spec => []JInv
BY JInitialState, JInductiveStep, PTL DEF Spec

\* Whatever requests race, fail and are rolled back, the audit log of an
\* organization is true and complete for its entities.
THEOREM AuditStaysTrue == Spec => []AuditIsTrue
BY JInvariant, PropertiesFollow, PTL

\* Every object that was uploaded has its row and every row its object, but for
\* the cases that are named.
THEOREM ObjectsKeepRows == Spec => []ObjectsHaveRows
BY JInvariant, PropertiesFollow, PTL

\* However often an asset is read, merged and written back while its type is
\* changed, a secret is encrypted exactly once.
THEOREM SecretsStayEncrypted == Spec => []SecretsEncrypted
BY JInvariant, PropertiesFollow, PTL

\* Deleting a type takes or changes no row that its check could have seen.
THEOREM DeletionsSpareReferrers == Spec => DeletionSparesReferrers
<1>1. JInv /\ [Next]_vars => [\A s \in Requests : SparesReferrers(s)]_vars
  BY EndsSo, DeletionSpares DEF SparesReferrers
<1> QED BY <1>1, JInvariant, PTL DEF Spec, DeletionSparesReferrers

\* An edit leaves the columns it was not asked to change, and loses no value
\* of an asset but one written while it was under way.
THEOREM EditsLeaveOthersAlone == Spec => EditsKeepOthers
<1>1. JInv /\ [Next]_vars => [\A s \in Requests : LeavesOthersAlone(s)]_vars
  BY EndsSo, EditKeeps DEF LeavesOthersAlone
<1> QED BY <1>1, JInvariant, PTL DEF Spec, EditsKeepOthers
=============================================================================
