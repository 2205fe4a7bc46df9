-------------------------- MODULE Catalogue_proofs --------------------------
(* Proofs about the catalogue, for any number of rows, names and requests.   *)
EXTENDS Catalogue, TLAPS

-----------------------------------------------------------------------------
(* Tables and rows. *)

LEMMA Apart ==
  /\ \A x \in Orgs : x \notin ConfigTypes \cup Statuses \cup AssetTypes \cup Entities
                           \cup Links \cup Attachments \cup Favorites
  /\ \A x \in ConfigTypes : x \notin Statuses \cup AssetTypes \cup Entities
                           \cup Links \cup Attachments \cup Favorites
  /\ \A x \in Statuses : x \notin AssetTypes \cup Entities \cup Links \cup Attachments \cup Favorites
  /\ \A x \in AssetTypes : x \notin Entities \cup Links \cup Attachments \cup Favorites
  /\ \A x \in Entities : x \notin Links \cup Attachments \cup Favorites
  /\ \A x \in Links : x \notin Attachments \cup Favorites
  /\ \A x \in Attachments : x \notin Favorites
BY TablesAssumption DEF Tables, Entities

LEMMA EntitiesApart ==
  /\ \A x \in Locations \cup Passwords \cup Documents : x \notin Configs \cup Assets
  /\ \A x \in Configs : x \notin Assets
BY TablesAssumption DEF Tables

LEMMA RowOf ==
  ASSUME NEW i \in Ids
  PROVE  /\ i \in Orgs => Row(i) = [name : Names, enabled : BOOLEAN]
         /\ i \in ConfigTypes \cup Statuses => Row(i) = [name : Names, active : BOOLEAN]
         /\ i \in AssetTypes => Row(i) = [name : Names, active : BOOLEAN, fields : FieldSets]
         /\ i \in Locations \cup Passwords \cup Documents => Row(i) = [org : Orgs, enabled : BOOLEAN]
         /\ i \in Configs => Row(i) = [org : Orgs, enabled : BOOLEAN,
                         ctype : ConfigTypes \cup {Null}, status : Statuses \cup {Null}]
         /\ i \in Assets => Row(i) = [org : Orgs, enabled : BOOLEAN, type : AssetTypes, values : Values]
         /\ i \in Links => Row(i) = [org : Orgs, source : Entities, target : Entities]
         /\ i \in Favorites => Row(i) = [user : Users, org : Orgs, entity : Entities]
         /\ i \in Attachments => Row(i) = [org : Orgs]
BY Apart, EntitiesApart DEF Row, Entities

LEMMA KeyOf ==
  ASSUME NEW i \in Ids, NEW row
  PROVE  /\ i \in Orgs        => Key(i, row) = <<"organizations", row.name>>
         /\ i \in ConfigTypes => Key(i, row) = <<"configuration_types", row.name>>
         /\ i \in Statuses    => Key(i, row) = <<"configuration_statuses", row.name>>
         /\ i \in AssetTypes  => Key(i, row) = <<"custom_asset_types", row.name>>
         /\ i \in Links       => Key(i, row) = <<"relationships", row.source, row.target>>
         /\ i \in Favorites   => Key(i, row) = <<"user_favorites", row.user, row.org, row.entity>>
         /\ i \in Entities \cup Attachments => Key(i, row) = <<"id", i>>
BY Apart DEF Key

\* Deleting a row changes no column of the others but "ctype" and "status".
Nulled(row, i) ==
  [c \in DOMAIN row |-> IF c \in {"ctype", "status"} /\ row[c] = i THEN Null ELSE row[c]]

LEMMA RowsAreRecords ==
  ASSUME NEW i \in Ids, NEW row \in Row(i)
  PROVE  /\ row = [c \in DOMAIN row |-> row[c]]
         /\ i \in Orgs => DOMAIN row = {"name", "enabled"}
         /\ i \in ConfigTypes \cup Statuses => DOMAIN row = {"name", "active"}
         /\ i \in AssetTypes => DOMAIN row = {"name", "active", "fields"}
         /\ i \in Locations \cup Passwords \cup Documents => DOMAIN row = {"org", "enabled"}
         /\ i \in Configs => DOMAIN row = {"org", "enabled", "ctype", "status"}
         /\ i \in Assets => DOMAIN row = {"org", "enabled", "type", "values"}
         /\ i \in Links => DOMAIN row = {"org", "source", "target"}
         /\ i \in Favorites => DOMAIN row = {"user", "org", "entity"}
         /\ i \in Attachments => DOMAIN row = {"org"}
<1>1. CASE i \in Orgs
  <2>1. row \in [name : Names, enabled : BOOLEAN]
    BY <1>1, RowOf
  <2> QED BY <1>1, <2>1, Apart DEF Entities
<1>2. CASE i \in ConfigTypes \cup Statuses
  <2>1. row \in [name : Names, active : BOOLEAN]
    BY <1>2, RowOf
  <2> QED BY <1>2, <2>1, Apart DEF Entities
<1>3. CASE i \in AssetTypes
  <2>1. row \in [name : Names, active : BOOLEAN, fields : FieldSets]
    BY <1>3, RowOf
  <2> QED BY <1>3, <2>1, Apart DEF Entities
<1>4. CASE i \in Locations \cup Passwords \cup Documents
  <2>1. row \in [org : Orgs, enabled : BOOLEAN]
    BY <1>4, RowOf
  <2> QED BY <1>4, <2>1, Apart, EntitiesApart DEF Entities
<1>5. CASE i \in Configs
  <2>1. row \in [org : Orgs, enabled : BOOLEAN,
                  ctype : ConfigTypes \cup {Null}, status : Statuses \cup {Null}]
    BY <1>5, RowOf
  <2> QED BY <1>5, <2>1, Apart, EntitiesApart DEF Entities
<1>6. CASE i \in Assets
  <2>1. row \in [org : Orgs, enabled : BOOLEAN, type : AssetTypes, values : Values]
    BY <1>6, RowOf
  <2> QED BY <1>6, <2>1, Apart, EntitiesApart DEF Entities
<1>7. CASE i \in Links
  <2>1. row \in [org : Orgs, source : Entities, target : Entities]
    BY <1>7, RowOf
  <2> QED BY <1>7, <2>1, Apart DEF Entities
<1>8. CASE i \in Favorites
  <2>1. row \in [user : Users, org : Orgs, entity : Entities]
    BY <1>8, RowOf
  <2> QED BY <1>8, <2>1, Apart DEF Entities
<1>9. CASE i \in Attachments
  <2>1. row \in [org : Orgs]
    BY <1>9, RowOf
  <2> QED BY <1>9, <2>1, Apart DEF Entities
<1> QED BY <1>1, <1>2, <1>3, <1>4, <1>5, <1>6, <1>7, <1>8, <1>9 DEF Ids, Entities

LEMMA NulledRow ==
  ASSUME NEW i, NEW j \in Ids, NEW row \in Row(j)
  PROVE  /\ Nulled(row, i) \in Row(j)
         /\ Key(j, Nulled(row, i)) = Key(j, row)
         /\ j \notin Configs => Nulled(row, i) = row
<1>1. CASE j \notin Configs
  <2>1. "ctype" \notin DOMAIN row /\ "status" \notin DOMAIN row
    BY <1>1, RowsAreRecords DEF Ids, Entities
  <2>2. Nulled(row, i) = [c \in DOMAIN row |-> row[c]]
    BY <2>1 DEF Nulled
  <2>3. Nulled(row, i) = row
    BY <2>2, RowsAreRecords
  <2> QED BY <1>1, <2>3
<1>2. CASE j \in Configs
  <2>1. row \in [org : Orgs, enabled : BOOLEAN,
                  ctype : ConfigTypes \cup {Null}, status : Statuses \cup {Null}]
    BY <1>2, RowOf
  <2>5. /\ row.org \in Orgs /\ row.enabled \in BOOLEAN
        /\ row.ctype \in ConfigTypes \cup {Null} /\ row.status \in Statuses \cup {Null}
    BY <2>1
  <2>2. DOMAIN row = {"org", "enabled", "ctype", "status"}
    BY <1>2, RowsAreRecords
  <2>3. Nulled(row, i) = [org |-> row.org, enabled |-> row.enabled,
          ctype |-> IF row.ctype = i THEN Null ELSE row.ctype,
          status |-> IF row.status = i THEN Null ELSE row.status]
    BY <2>2 DEF Nulled
  <2>4. Nulled(row, i) \in [org : Orgs, enabled : BOOLEAN,
                         ctype : ConfigTypes \cup {Null}, status : Statuses \cup {Null}]
    BY <2>3, <2>5
  <2> QED BY <1>2, <2>4, RowOf, KeyOf DEF Entities
<1> QED BY <1>1, <1>2
-----------------------------------------------------------------------------
(* The inductive invariant. *)

\* The ends of a relationship have named rows, so no insert draws them again.
Joins(row) == LinkInOrder(rows, row) /\ {row.source, row.target} \subseteq used

Rows == /\ InOrder(rows)
        /\ \A i \in In(Links) : Joins(rows[i])
        /\ Present \subseteq used /\ used \subseteq Ids

\* What a request has in hand can be flushed whenever the constraints agree.
Insertion(w) == /\ w.id \notin used /\ w.row \in Row(w.id)
                /\ w.id \in Links => Joins(w.row)
Editable == {"name", "enabled", "active", "fields", "ctype", "status", "values"}
Edit(w) == /\ w.id \in used \ (Links \cup Favorites \cup Attachments)
           /\ DOMAIN w.row \subseteq Editable
           /\ \A row \in Row(w.id) : Over(w.row, row) \in Row(w.id)
Prepared(w) == /\ w.id \in Ids /\ w.do \in {"insert", "update", "delete", "view"}
               /\ w.do = "insert" => Insertion(w)
               /\ w.do = "update" => Edit(w)
               /\ w.do \in {"delete", "view"} => w.id \in used
               /\ \A a \in w.log : a.org \in Orgs /\ a.id = w.id
Busy(s) == work[s] # Idle
Works == /\ DOMAIN work = Requests
         /\ \A s \in Requests : Busy(s) => Prepared(work[s])
         /\ \A s, q \in Requests : s # q /\ Busy(s) /\ Busy(q) /\ work[s].do = "insert" =>
              work[s].id # work[q].id

Audited == \A a \in audit : a.org \in In(Orgs) /\ a.id \in used
Rest == /\ objects \subseteq uploaded /\ uploaded \subseteq handed /\ handed \subseteq Attachments
        /\ served \in 0..MaxRequests /\ faults \in 0..MaxFaults

IInv == Rows /\ Works /\ Audited /\ Rest

LEMMA TypesFollow == IInv => TypeOK
BY DEF IInv, Rows, Works, Audited, Rest, TypeOK, InOrder, Prepared, Busy, Present

LEMMA NormalizedSymmetric ==
  ASSUME NEW x, NEW y
  PROVE  /\ Normalized(x, y) = Normalized(y, x)
         /\ Normalized(x, y) \in {<<x, y>>, <<y, x>>}
<1>1. {<<x, y>>, <<y, x>>} = {<<y, x>>, <<x, y>>}
  OBVIOUS
<1> QED BY <1>1 DEF Normalized

LEMMA NothingIsTwice == Rows => NothingTwice
<1> SUFFICES ASSUME Rows PROVE NothingTwice
  OBVIOUS
<1>1. ASSUME NEW i \in Present, NEW j \in Present, i # j
      PROVE  /\ \A t \in {Orgs, ConfigTypes, Statuses, AssetTypes} :
                  {i, j} \subseteq t => rows[i].name # rows[j].name
             /\ {i, j} \subseteq Links =>
                  {rows[i].source, rows[i].target} # {rows[j].source, rows[j].target}
             /\ {i, j} \subseteq Favorites => rows[i] # rows[j]
  <2>1. i \in Ids /\ j \in Ids /\ Key(i, rows[i]) # Key(j, rows[j])
    BY <1>1 DEF Rows, InOrder, Present
  <2>2. ASSUME NEW t \in {Orgs, ConfigTypes, Statuses, AssetTypes}, i \in t, j \in t
        PROVE  rows[i].name # rows[j].name
    <3>1. PICK tag : \A k \in t : \A row : Key(k, row) = <<tag, row.name>>
      <4>1. \A k \in Orgs : \A row : Key(k, row) = <<"organizations", row.name>>
        BY KeyOf DEF Ids
      <4>2. \A k \in ConfigTypes : \A row : Key(k, row) = <<"configuration_types", row.name>>
        BY KeyOf DEF Ids
      <4>3. \A k \in Statuses : \A row : Key(k, row) = <<"configuration_statuses", row.name>>
        BY KeyOf DEF Ids
      <4>4. \A k \in AssetTypes : \A row : Key(k, row) = <<"custom_asset_types", row.name>>
        BY KeyOf DEF Ids
      <4> QED BY <2>2, <4>1, <4>2, <4>3, <4>4
    <3>2. /\ Key(i, rows[i]) = <<tag, rows[i].name>>
          /\ Key(j, rows[j]) = <<tag, rows[j].name>>
      BY <2>2, <3>1
    <3> QED BY <2>1, <3>2
  <2>3. ASSUME i \in Links, j \in Links,
               {rows[i].source, rows[i].target} = {rows[j].source, rows[j].target}
        PROVE  FALSE
    <3>1. /\ <<rows[i].source, rows[i].target>> = Normalized(rows[i].source, rows[i].target)
          /\ <<rows[j].source, rows[j].target>> = Normalized(rows[j].source, rows[j].target)
      BY <1>1, <2>3 DEF Rows, Joins, LinkInOrder, In
    <3>2. \/ rows[i].source = rows[j].source /\ rows[i].target = rows[j].target
          \/ rows[i].source = rows[j].target /\ rows[i].target = rows[j].source
      BY <2>3
    <3>3. Normalized(rows[i].source, rows[i].target) = Normalized(rows[j].source, rows[j].target)
      BY <3>2, NormalizedSymmetric
    <3>4. <<rows[i].source, rows[i].target>> = <<rows[j].source, rows[j].target>>
      BY <3>1, <3>3
    <3>5. /\ Key(i, rows[i]) = <<"relationships", rows[i].source, rows[i].target>>
          /\ Key(j, rows[j]) = <<"relationships", rows[j].source, rows[j].target>>
      BY <2>1, <2>3, KeyOf
    <3> QED BY <2>1, <3>4, <3>5
  <2>4. ASSUME i \in Favorites, j \in Favorites
        PROVE  rows[i] # rows[j]
    <3>1. /\ Key(i, rows[i]) = <<"user_favorites", rows[i].user, rows[i].org, rows[i].entity>>
          /\ Key(j, rows[j]) = <<"user_favorites", rows[j].user, rows[j].org, rows[j].entity>>
      BY <2>1, <2>4, KeyOf
    <3> QED BY <2>1, <3>1
  <2> QED BY <2>2, <2>3, <2>4
<1>2. ASSUME NEW i \in In(Links), NEW e \in In({rows[i].source, rows[i].target})
      PROVE  rows[e].org = rows[i].org
  BY <1>2 DEF Rows, Joins, LinkInOrder, In, Present
<1> QED BY <1>1, <1>2 DEF NothingTwice

LEMMA InitialState == Init => IInv
<1> SUFFICES ASSUME Init PROVE IInv
  OBVIOUS
<1>1. InOrder(rows) /\ \A i \in Links \cap Present : {rows[i].source, rows[i].target} \subseteq Present
  BY StartsAssumption DEF Init, Present
<1>2. Rows
  BY <1>1 DEF Init, Rows, Joins, InOrder, In, Present
<1>3. Works
  BY DEF Init, Works, Busy
<1>4. \A i \in Present \cap Entities : rows[i].org \in In(Orgs)
  <2> SUFFICES ASSUME NEW i \in Present, i \in Entities PROVE rows[i].org \in In(Orgs)
    OBVIOUS
  <2>1. rows[i] \in Row(i) /\ References(rows[i]) \subseteq Present /\ i \in Ids
    BY <1>1 DEF InOrder, Present
  <2>2. rows[i].org \in Orgs /\ "org" \in DOMAIN rows[i]
    BY <2>1, RowOf, RowsAreRecords DEF Entities
  <2>3. rows[i].org # Null
    BY <2>2, BoundsAssumption DEF Ids
  <2> QED BY <2>1, <2>2, <2>3 DEF References, In
<1>5. Audited
  BY <1>4 DEF Init, Audited, Log, In
<1>6. Rest
  BY BoundsAssumption DEF Init, Rest
<1> QED BY <1>2, <1>3, <1>5, <1>6 DEF IInv
-----------------------------------------------------------------------------
(* A request begins: its unit of work is the only one that changes. *)

LEMMA Begins ==
  ASSUME IInv, NEW s \in Requests, NEW do, NEW i, NEW row, NEW asked, NEW log, NEW seen,
         Ready(s), Begin(s, do, i, row, asked, log, seen), UNCHANGED <<rows, used, audit>>,
         Prepared([do |-> do, id |-> i, row |-> row, asked |-> asked, log |-> log, seen |-> seen]),
         do = "insert" => \A q \in Requests : Busy(q) => work[q].id # i,
         objects' \subseteq uploaded, uploaded' = uploaded, handed' = handed, faults' \in 0..MaxFaults
  PROVE  IInv'
<1> DEFINE w == [do |-> do, id |-> i, row |-> row, asked |-> asked, log |-> log, seen |-> seen]
<1>1. Rows' /\ Audited'
  BY DEF IInv, Rows, InOrder, Joins, LinkInOrder, References, In, Present, Audited
<1>2. Rest'
  BY BoundsAssumption DEF IInv, Rest, Ready, Begin, Unit
<1>3. /\ DOMAIN work' = Requests /\ work'[s] = w
      /\ \A q \in Requests \ {s} : work'[q] = work[q]
  BY DEF IInv, Works, Begin, Unit
<1>4. \A v : Prepared(v)' <=> Prepared(v)
  BY DEF Prepared, Insertion, Edit, Joins, LinkInOrder
<1>5. \A q \in Requests : Busy(q)' => Prepared(work'[q])
  BY <1>3 DEF IInv, Works, Busy
<1>6. \A q, p \in Requests : q # p /\ Busy(q)' /\ Busy(p)' /\ work'[q].do = "insert" =>
        work'[q].id # work'[p].id
  <2> SUFFICES ASSUME NEW q \in Requests, NEW p \in Requests, q # p, Busy(q)', Busy(p)',
                      work'[q].do = "insert"
               PROVE  work'[q].id # work'[p].id
    OBVIOUS
  <2>1. CASE q # s /\ p # s
    BY <1>3, <2>1 DEF IInv, Works, Busy
  <2>2. CASE q = s
    BY <1>3, <2>2 DEF Busy
  <2>3. CASE p = s
    <3>1. Busy(q) /\ work[q].do = "insert" /\ work'[q] = work[q] /\ Prepared(work[q])
      BY <1>3, <2>3 DEF IInv, Works, Busy
    <3>2. work[q].id \notin used
      BY <3>1 DEF Prepared, Insertion
    <3>3. i \in used \/ do = "insert"
      BY DEF Prepared, Edit
    <3> QED BY <1>3, <2>3, <3>1, <3>2, <3>3
  <2> QED BY <2>1, <2>2, <2>3
<1>7. Works'
  BY <1>3, <1>4, <1>5, <1>6 DEF Works
<1> QED BY <1>1, <1>2, <1>7 DEF IInv

LEMMA Inserts ==
  ASSUME IInv, NEW s \in Requests, NEW table, table \subseteq Ids, NEW i \in Fresh(table),
         NEW row, NEW log, Ready(s), Insert(s, i, row, log), row \in Row(i),
         i \in Links => Joins(row), \A a \in log : a.org \in Orgs /\ a.id = i
  PROVE  IInv'
<1> DEFINE w == [do |-> "insert", id |-> i, row |-> row, asked |-> {}, log |-> log, seen |-> {}]
<1>1. i \in table \ (used \cup handed \cup {work[q].id : q \in {q \in Requests : work[q] # Idle}})
  BY DEF Fresh
<1>2. Prepared(w)
  BY <1>1 DEF Prepared, Insertion
<1> QED BY <1>1, <1>2, Begins DEF Insert, Reads, Busy, IInv, Rest

LEMMA DeletesOrViews ==
  ASSUME IInv, NEW s \in Requests, NEW i \in Present, NEW log, NEW seen, Ready(s),
         Delete(s, i, log, seen) \/ View(s, i, log), \A a \in log : a.org \in Orgs /\ a.id = i
  PROVE  IInv'
<1>1. i \in used /\ i \in Ids
  BY DEF IInv, Rows
<1> DEFINE none == <<>>
           empty == {}
<1>2. CASE Delete(s, i, log, seen)
  <2>1. Prepared([do |-> "delete", id |-> i, row |-> none, asked |-> empty, log |-> log, seen |-> seen])
    BY <1>1 DEF Prepared
  <2>2. Begin(s, "delete", i, none, empty, log, seen) /\ Reads
    BY <1>2 DEF Delete
  <2>3. UNCHANGED <<rows, used, audit>>
    BY <2>2 DEF Reads
  <2>4. objects' \subseteq uploaded /\ uploaded' = uploaded /\ handed' = handed /\ faults' \in 0..MaxFaults
    BY <2>2 DEF Reads, IInv, Rest
  <2> HIDE DEF none, empty
  <2> QED BY <2>1, <2>2, <2>3, <2>4, Begins
<1>3. CASE View(s, i, log)
  <2>1. Prepared([do |-> "view", id |-> i, row |-> none, asked |-> empty, log |-> log, seen |-> empty])
    BY <1>1 DEF Prepared
  <2>2. Begin(s, "view", i, none, empty, log, empty) /\ Reads
    BY <1>3 DEF View
  <2>3. UNCHANGED <<rows, used, audit>>
    BY <2>2 DEF Reads
  <2>4. objects' \subseteq uploaded /\ uploaded' = uploaded /\ handed' = handed /\ faults' \in 0..MaxFaults
    BY <2>2 DEF Reads, IInv, Rest
  <2> HIDE DEF none, empty
  <2> QED BY <2>1, <2>2, <2>3, <2>4, Begins
<1> QED BY <1>2, <1>3

\* The columns that a request may change, and what it may set them to.
Column(c) ==
  CASE c = "name" -> Names
    [] c \in {"enabled", "active"} -> BOOLEAN
    [] c = "fields" -> FieldSets
    [] c = "ctype" -> ConfigTypes \cup {Null}
    [] c = "status" -> Statuses \cup {Null}
    [] c = "values" -> Values
Fits(f) == DOMAIN f \subseteq Editable /\ \A c \in DOMAIN f : f[c] \in Column(c)

LEMMA ColumnIs ==
  /\ Column("name") = Names /\ Column("enabled") = BOOLEAN /\ Column("active") = BOOLEAN
  /\ Column("fields") = FieldSets /\ Column("ctype") = ConfigTypes \cup {Null}
  /\ Column("status") = Statuses \cup {Null} /\ Column("values") = Values
BY DEF Column

LEMMA OverRow ==
  ASSUME NEW i \in Ids, NEW row \in Row(i), NEW f, Fits(f), DOMAIN f \subseteq DOMAIN row
  PROVE  Over(f, row) \in Row(i)
<1> DEFINE new == Over(f, row)
<1>1. /\ DOMAIN new = DOMAIN row /\ new = [c \in DOMAIN new |-> new[c]]
      /\ \A c \in DOMAIN row : new[c] = IF c \in DOMAIN f THEN f[c] ELSE row[c]
  BY DEF Over
<1> HIDE DEF new
<1>2. \A c \in DOMAIN f : c \in Editable /\ f[c] \in Column(c)
  BY DEF Fits
<1>3. "org" \notin DOMAIN f /\ "source" \notin DOMAIN f /\ "target" \notin DOMAIN f
      /\ "user" \notin DOMAIN f /\ "entity" \notin DOMAIN f /\ "type" \notin DOMAIN f
  BY <1>2 DEF Editable
<1>4. CASE i \in Orgs
  <2>1. row \in [name : Names, enabled : BOOLEAN] /\ DOMAIN row = {"name", "enabled"}
    BY <1>4, RowOf, RowsAreRecords
  <2>2. new.name \in Names /\ new.enabled \in BOOLEAN
    BY <1>1, <1>2, <2>1, ColumnIs
  <2>3. new \in [name : Names, enabled : BOOLEAN]
    BY <1>1, <2>1, <2>2
  <2> QED BY <1>4, <2>3, RowOf DEF new
<1>5. CASE i \in ConfigTypes \cup Statuses
  <2>1. row \in [name : Names, active : BOOLEAN] /\ DOMAIN row = {"name", "active"}
    BY <1>5, RowOf, RowsAreRecords
  <2>2. new.name \in Names /\ new.active \in BOOLEAN
    BY <1>1, <1>2, <2>1, ColumnIs
  <2>3. new \in [name : Names, active : BOOLEAN]
    BY <1>1, <2>1, <2>2
  <2> QED BY <1>5, <2>3, RowOf DEF new
<1>6. CASE i \in AssetTypes
  <2>1. /\ row \in [name : Names, active : BOOLEAN, fields : FieldSets]
        /\ DOMAIN row = {"name", "active", "fields"}
    BY <1>6, RowOf, RowsAreRecords
  <2>2. new.name \in Names /\ new.active \in BOOLEAN /\ new.fields \in FieldSets
    BY <1>1, <1>2, <2>1, ColumnIs
  <2>3. new \in [name : Names, active : BOOLEAN, fields : FieldSets]
    BY <1>1, <2>1, <2>2
  <2> QED BY <1>6, <2>3, RowOf DEF new
<1>7. CASE i \in Locations \cup Passwords \cup Documents
  <2>1. row \in [org : Orgs, enabled : BOOLEAN] /\ DOMAIN row = {"org", "enabled"}
    BY <1>7, RowOf, RowsAreRecords
  <2>2. new.org \in Orgs /\ new.enabled \in BOOLEAN
    BY <1>1, <1>2, <1>3, <2>1, ColumnIs
  <2>3. new \in [org : Orgs, enabled : BOOLEAN]
    BY <1>1, <2>1, <2>2
  <2> QED BY <1>7, <2>3, RowOf DEF new
<1>8. CASE i \in Configs
  <2>1. /\ row \in [org : Orgs, enabled : BOOLEAN,
                    ctype : ConfigTypes \cup {Null}, status : Statuses \cup {Null}]
        /\ DOMAIN row = {"org", "enabled", "ctype", "status"}
    BY <1>8, RowOf, RowsAreRecords
  <2>2. /\ new.org \in Orgs /\ new.enabled \in BOOLEAN
        /\ new.ctype \in ConfigTypes \cup {Null} /\ new.status \in Statuses \cup {Null}
    BY <1>1, <1>2, <1>3, <2>1, ColumnIs
  <2>3. new \in [org : Orgs, enabled : BOOLEAN,
                 ctype : ConfigTypes \cup {Null}, status : Statuses \cup {Null}]
    BY <1>1, <2>1, <2>2
  <2> QED BY <1>8, <2>3, RowOf DEF new
<1>9. CASE i \in Assets
  <2>1. /\ row \in [org : Orgs, enabled : BOOLEAN, type : AssetTypes, values : Values]
        /\ DOMAIN row = {"org", "enabled", "type", "values"}
    BY <1>9, RowOf, RowsAreRecords
  <2>2. new.org \in Orgs /\ new.enabled \in BOOLEAN /\ new.type \in AssetTypes /\ new.values \in Values
    BY <1>1, <1>2, <1>3, <2>1, ColumnIs
  <2>3. new \in [org : Orgs, enabled : BOOLEAN, type : AssetTypes, values : Values]
    BY <1>1, <2>1, <2>2
  <2> QED BY <1>9, <2>3, RowOf DEF new
<1>10. CASE i \in Links \cup Favorites \cup Attachments
  <2>3. DOMAIN row \in {{"org", "source", "target"}, {"user", "org", "entity"}, {"org"}}
    BY <1>10, RowsAreRecords
  <2>1. DOMAIN f = {}
    BY <1>3, <2>3
  <2>2. new = [c \in DOMAIN row |-> row[c]]
    BY <1>1, <2>1
  <2> QED BY <2>2, RowsAreRecords DEF new
<1> QED BY <1>4, <1>5, <1>6, <1>7, <1>8, <1>9, <1>10 DEF Ids, Entities

\* An update is good for every row of its table when its columns are.
LEMMA Updates ==
  ASSUME IInv, NEW s \in Requests, NEW i \in Present \ (Links \cup Favorites \cup Attachments),
         NEW asked, NEW log, NEW seen, Ready(s), Update(s, i, asked, log, seen),
         Fits(asked), \A row \in Row(i) : DOMAIN asked \subseteq DOMAIN row,
         \A a \in log : a.org \in Orgs /\ a.id = i
  PROVE  IInv'
<1> DEFINE changed == {c \in DOMAIN asked : asked[c] # rows[i][c]}
           row == [c \in changed |-> asked[c]]
           w == [do |-> "update", id |-> i, row |-> row,
                 asked |-> DOMAIN asked, log |-> log, seen |-> seen]
<1>1. Begin(s, "update", i, row, DOMAIN asked, log, seen) /\ Reads
  BY DEF Update
<1>2. i \in used /\ i \in Ids
  BY DEF IInv, Rows
<1>3. DOMAIN row \subseteq DOMAIN asked /\ \A c \in DOMAIN row : row[c] = asked[c]
  OBVIOUS
<1> HIDE DEF row
<1>4. Fits(row) /\ DOMAIN row \subseteq Editable
  BY <1>3 DEF Fits
<1>5. \A old \in Row(i) : Over(row, old) \in Row(i)
  BY <1>2, <1>3, <1>4, OverRow
<1>6. Edit(w)
  BY <1>2, <1>4, <1>5 DEF Edit
<1>7. Prepared(w)
  BY <1>2, <1>6 DEF Prepared
<1> QED BY <1>1, <1>7, Begins DEF Reads, IInv, Rest
-----------------------------------------------------------------------------
(* What a change of the rows leaves in order. *)

\* No entity moves to another organization, and none comes back.
EntitiesStay == \A e \in Entities \cap used \cap Present' : e \in Present /\ rows'[e].org = rows[e].org

LEMMA JoinsStay ==
  ASSUME IInv, EntitiesStay, used' = used \cup Present',
         NEW row, Joins(row), {row.source, row.target} \subseteq Entities
  PROVE  Joins(row)'
BY DEF EntitiesStay, Joins, LinkInOrder, Present

LEMMA LinkEnds ==
  ASSUME NEW i \in Links, NEW row \in Row(i)
  PROVE  {row.source, row.target} \subseteq Entities
<1>1. row \in [org : Orgs, source : Entities, target : Entities]
  BY RowOf DEF Ids
<1> QED BY <1>1

LEMMA PreparedStays ==
  ASSUME IInv, EntitiesStay, used' = used \cup Present', NEW w, Prepared(w),
         w.do = "insert" => w.id \notin Present'
  PROVE  Prepared(w)'
<1>1. CASE w.do = "insert"
  <2>1. w.id \in Links => Joins(w.row)'
    BY <1>1, JoinsStay, LinkEnds DEF Prepared, Insertion
  <2> QED BY <1>1, <2>1 DEF Prepared, Insertion
<1>2. CASE w.do # "insert"
  BY <1>2 DEF Prepared, Edit
<1> QED BY <1>1, <1>2

LEMMA Changes ==
  ASSUME IInv, EntitiesStay, InOrder(rows'), used' = used \cup Present',
         \A i \in Links \cap Present' :
           (i \in Present /\ rows'[i] = rows[i]) \/ {rows'[i].source, rows'[i].target} \subseteq used
  PROVE  Rows'
<1>1. \A i \in In(Links)' : Joins(rows[i])'
  BY DEF InOrder, Joins, In, Present, IInv, Rows
<1>2. Present' \subseteq Ids
  BY DEF InOrder, Present
<1> QED BY <1>1, <1>2 DEF IInv, Rows

\* The rows that a deletion leaves are in order.
LEMMA RefersTo ==
  ASSUME NEW j \in Ids, NEW row \in Row(j), NEW c \in DOMAIN row \cap {"org", "type", "ctype", "status"}
  PROVE  row[c] \in Orgs \cup ConfigTypes \cup Statuses \cup AssetTypes \cup {Null}
<1>1. CASE c = "org"
  <2>1. row.org \in Orgs
    BY <1>1, RowOf, RowsAreRecords DEF Ids, Entities
  <2> QED BY <1>1, <2>1
<1>2. CASE c = "type"
  <2>1. j \in Assets
    BY <1>2, RowsAreRecords DEF Ids, Entities
  <2>3. row \in [org : Orgs, enabled : BOOLEAN, type : AssetTypes, values : Values]
    BY <2>1, RowOf
  <2>2. row.type \in AssetTypes
    BY <2>3
  <2> QED BY <1>2, <2>2
<1>3. CASE c \in {"ctype", "status"}
  <2>1. j \in Configs
    BY <1>3, RowsAreRecords DEF Ids, Entities
  <2>3. row \in [org : Orgs, enabled : BOOLEAN,
                  ctype : ConfigTypes \cup {Null}, status : Statuses \cup {Null}]
    BY <2>1, RowOf
  <2>2. row.ctype \in ConfigTypes \cup {Null} /\ row.status \in Statuses \cup {Null}
    BY <2>3
  <2> QED BY <1>3, <2>2
<1> QED BY <1>1, <1>2, <1>3

LEMMA WithoutIs ==
  ASSUME NEW i
  PROVE  /\ DOMAIN Without(i) = Present \ Cascade(i)
         /\ \A j \in Present \ Cascade(i) : Without(i)[j] = Nulled(rows[j], i)
BY DEF Without, Nulled

LEMMA WithoutInOrder ==
  ASSUME IInv, NEW i \in Ids
  PROVE  /\ InOrder(Without(i))
         /\ \A j \in DOMAIN Without(i) : j \in Present /\ (j \notin Configs => Without(i)[j] = rows[j])
         /\ \A j \in Entities \cap DOMAIN Without(i) : Without(i)[j].org = rows[j].org
<1> DEFINE r == Without(i)
<1>1. /\ DOMAIN r = Present \ Cascade(i)
      /\ \A j \in DOMAIN r : r[j] = Nulled(rows[j], i)
  BY WithoutIs
<1> HIDE DEF r
<1>2. \A j \in Present : j \in Ids /\ rows[j] \in Row(j) /\ References(rows[j]) \subseteq Present
  BY DEF IInv, Rows, InOrder, Present
<1>3. \A j \in DOMAIN r : /\ j \in Present /\ r[j] \in Row(j) /\ Key(j, r[j]) = Key(j, rows[j])
                          /\ j \notin Configs => r[j] = rows[j]
  BY <1>1, <1>2, NulledRow
<1>4. ASSUME NEW j \in DOMAIN r PROVE References(r[j]) \subseteq DOMAIN r
  <2>1. SUFFICES ASSUME NEW c \in DOMAIN r[j] \cap {"org", "type", "ctype", "status"}, r[j][c] # Null
                 PROVE  r[j][c] \in DOMAIN r
    BY DEF References
  <2>2. /\ c \in DOMAIN rows[j] /\ j \in Present /\ j \notin Cascade(i)
        /\ r[j][c] = rows[j][c] /\ rows[j][c] # i
    BY <1>1, <2>1 DEF Nulled, Cascade
  <2>3. rows[j][c] \in References(rows[j])
    BY <2>1, <2>2 DEF References
  <2>4. PICK x : x = rows[j][c]
    OBVIOUS
  <2>5. x \in Present /\ x \in Orgs \cup ConfigTypes \cup Statuses \cup AssetTypes
    BY <1>2, <2>1, <2>2, <2>3, <2>4, RefersTo
  <2>6. "org" \notin DOMAIN rows[x] /\ "type" \notin DOMAIN rows[x]
    BY <1>2, <2>5, RowsAreRecords
  <2> QED BY <1>1, <2>2, <2>4, <2>5, <2>6 DEF Cascade
<1>5. ASSUME NEW j \in Entities \cap DOMAIN r PROVE r[j].org = rows[j].org
  BY <1>1, <1>2, <1>5, RowsAreRecords DEF Nulled, Entities
<1>6. ASSUME NEW j \in Links \cap DOMAIN r PROVE LinkInOrder(r, r[j])
  <2>1. j \in Present /\ r[j] = rows[j] /\ LinkInOrder(rows, rows[j])
    BY <1>3, <1>6, Apart DEF Entities, IInv, Rows, InOrder, Present
  <2>2. {rows[j].source, rows[j].target} \subseteq Entities
    BY <1>2, <2>1, LinkEnds
  <2> QED BY <1>3, <1>5, <2>1, <2>2 DEF LinkInOrder, Present
<1>7. \A j, k \in DOMAIN r : j # k => Key(j, r[j]) # Key(k, r[k])
  BY <1>3 DEF IInv, Rows, InOrder, Present
<1>8. InOrder(r)
  BY <1>2, <1>3, <1>4, <1>6, <1>7 DEF InOrder
<1> QED BY <1>3, <1>5, <1>8 DEF r

LEMMA InsertedInOrder ==
  ASSUME IInv, NEW w, Prepared(w), w.do = "insert", Accepted(w),
         NEW r, r = Over([i \in {w.id} |-> w.row], rows)
  PROVE  /\ InOrder(r) /\ DOMAIN r = Present \cup {w.id} /\ r[w.id] = w.row /\ w.id \notin used
         /\ \A j \in Present : r[j] = rows[j] /\ j # w.id
<1>1. /\ w.id \notin used /\ w.id \in Ids /\ w.row \in Row(w.id) /\ (w.id \in Links => Joins(w.row))
      /\ References(w.row) \subseteq Present /\ Unique(w.id, w.row)
  BY DEF Prepared, Insertion, Accepted
<1>2. /\ DOMAIN r = Present \cup {w.id} /\ r[w.id] = w.row
      /\ \A j \in Present : r[j] = rows[j] /\ j # w.id /\ j \in used
  BY <1>1 DEF Over, Present, IInv, Rows
<1>3. \A i \in DOMAIN r : i \in Ids /\ r[i] \in Row(i) /\ References(r[i]) \subseteq DOMAIN r
  BY <1>1, <1>2 DEF IInv, Rows, InOrder, Present
<1>4. \A i, j \in DOMAIN r : i # j => Key(i, r[i]) # Key(j, r[j])
  BY <1>1, <1>2 DEF IInv, Rows, InOrder, Unique, Present
<1>5. ASSUME NEW i \in Links \cap DOMAIN r PROVE LinkInOrder(r, r[i])
  <2>1. Joins(r[i])
    BY <1>1, <1>2 DEF IInv, Rows, In
  <2> QED BY <1>1, <1>2, <2>1 DEF Joins, LinkInOrder, Present
<1> QED BY <1>1, <1>2, <1>3, <1>4, <1>5 DEF InOrder

LEMMA UpdatedInOrder ==
  ASSUME IInv, NEW w, Prepared(w), w.do = "update", Accepted(w),
         NEW r, r = [rows EXCEPT ![w.id] = Over(w.row, @)]
  PROVE  /\ InOrder(r) /\ DOMAIN r = Present
         /\ \A j \in Present : j # w.id => r[j] = rows[j]
         /\ \A j \in Entities \cap Present : r[j].org = rows[j].org
         /\ w.id \notin Links
<1>1. /\ w.id \in Present /\ w.id \notin Links /\ w.id \in Ids /\ "org" \notin DOMAIN w.row
      /\ \A row \in Row(w.id) : Over(w.row, row) \in Row(w.id)
      /\ References(w.row) \subseteq Present /\ Unique(w.id, Over(w.row, rows[w.id]))
  BY DEF Prepared, Edit, Editable, Accepted
<1>2. /\ DOMAIN r = Present /\ r[w.id] = Over(w.row, rows[w.id])
      /\ \A j \in Present : j # w.id => r[j] = rows[j]
  BY <1>1 DEF Present
<1>3. \A j \in Present : j \in Ids /\ rows[j] \in Row(j) /\ References(rows[j]) \subseteq Present
  BY DEF IInv, Rows, InOrder, Present
<1>4. References(Over(w.row, rows[w.id])) \subseteq Present
  <2>1. SUFFICES ASSUME NEW c \in DOMAIN Over(w.row, rows[w.id]) \cap {"org", "type", "ctype", "status"},
                        Over(w.row, rows[w.id])[c] # Null
                 PROVE  Over(w.row, rows[w.id])[c] \in Present
    BY DEF References
  <2>2. CASE c \in DOMAIN w.row
    <3>1. Over(w.row, rows[w.id])[c] = w.row[c]
      BY <2>2 DEF Over
    <3>2. w.row[c] \in References(w.row)
      BY <2>1, <2>2, <3>1 DEF References
    <3> QED BY <1>1, <3>1, <3>2
  <2>3. CASE c \notin DOMAIN w.row
    <3>1. c \in DOMAIN rows[w.id] /\ Over(w.row, rows[w.id])[c] = rows[w.id][c]
      BY <2>3 DEF Over
    <3>2. rows[w.id][c] \in References(rows[w.id])
      BY <2>1, <3>1 DEF References
    <3> QED BY <1>1, <1>3, <3>1, <3>2
  <2> QED BY <2>2, <2>3
<1>5. \A i \in DOMAIN r : i \in Ids /\ r[i] \in Row(i) /\ References(r[i]) \subseteq DOMAIN r
  BY <1>1, <1>2, <1>3, <1>4
<1>6. \A i, j \in DOMAIN r : i # j => Key(i, r[i]) # Key(j, r[j])
  BY <1>1, <1>2 DEF IInv, Rows, InOrder, Unique, Present
<1>7. ASSUME NEW j \in Entities \cap Present PROVE r[j].org = rows[j].org
  <2>1. CASE j = w.id
    <3>1. "org" \in DOMAIN rows[j]
      BY <1>3, RowsAreRecords DEF Entities
    <3> QED BY <1>1, <1>2, <2>1, <3>1 DEF Over
  <2> QED BY <1>2, <2>1
<1>8. ASSUME NEW i \in Links \cap DOMAIN r PROVE LinkInOrder(r, r[i])
  <2>1. r[i] = rows[i] /\ i \in Present /\ LinkInOrder(rows, rows[i])
    BY <1>1, <1>2 DEF IInv, Rows, InOrder, Present
  <2>2. {rows[i].source, rows[i].target} \subseteq Entities
    BY <1>3, <2>1, LinkEnds
  <2> QED BY <1>2, <1>7, <2>1, <2>2 DEF LinkInOrder, Present
<1> QED BY <1>1, <1>2, <1>5, <1>6, <1>7, <1>8 DEF InOrder
-----------------------------------------------------------------------------
(* The end of a request. *)

\* What a commit does to the rows.
LEMMA CommittedInOrder ==
  ASSUME IInv, NEW s \in Requests, Commit(s)
  PROVE  /\ InOrder(rows') /\ EntitiesStay
         /\ Present' \subseteq Present \cup {work[s].id}
         /\ work[s].do = "insert" => work[s].id \in Present'
         /\ work[s].do # "insert" => Present' \subseteq Present
         /\ \A i \in Links \cap Present' :
              (i \in Present /\ rows'[i] = rows[i]) \/ {rows'[i].source, rows'[i].target} \subseteq used
<1> DEFINE w == work[s]
<1>1. Prepared(w) /\ Accepted(w) /\ rows' = After(w)
  BY DEF Commit, IInv, Works, Busy
<1>2. CASE w.do = "view"
  <2>1. rows' = rows
    BY <1>1, <1>2 DEF After
  <2> QED BY <1>2, <2>1 DEF EntitiesStay, IInv, Rows, Present
<1>3. CASE w.do = "delete"
  <2>1. rows' = Without(w.id) /\ w.id \in Ids
    BY <1>1, <1>3 DEF After, Prepared
  <2>2. /\ InOrder(rows') /\ \A j \in Present' : j \in Present /\ (j \notin Configs => rows'[j] = rows[j])
        /\ \A j \in Entities \cap Present' : rows'[j].org = rows[j].org
    BY <2>1, WithoutInOrder DEF Present
  <2> QED BY <1>3, <2>2, Apart DEF EntitiesStay, Entities
<1>4. CASE w.do = "insert"
  <2>1. rows' = Over([i \in {w.id} |-> w.row], rows)
    BY <1>1, <1>4 DEF After
  <2>2. /\ InOrder(rows') /\ Present' = Present \cup {w.id} /\ rows'[w.id] = w.row /\ w.id \notin used
        /\ \A j \in Present : rows'[j] = rows[j] /\ j # w.id
    BY <1>1, <1>4, <2>1, InsertedInOrder DEF Present
  <2>3. w.id \in Links => {w.row.source, w.row.target} \subseteq used
    BY <1>1, <1>4 DEF Prepared, Insertion, Joins
  <2> QED BY <1>4, <2>2, <2>3 DEF EntitiesStay
<1>5. CASE w.do = "update"
  <2>1. rows' = [rows EXCEPT ![w.id] = Over(w.row, @)]
    BY <1>1, <1>5 DEF After
  <2>2. /\ InOrder(rows') /\ Present' = Present
        /\ \A j \in Present : j # w.id => rows'[j] = rows[j]
        /\ \A j \in Entities \cap Present : rows'[j].org = rows[j].org
        /\ w.id \notin Links
    BY <1>1, <1>5, <2>1, UpdatedInOrder DEF Present
  <2> QED BY <1>5, <2>2 DEF EntitiesStay
<1> QED BY <1>1, <1>2, <1>3, <1>4, <1>5 DEF Prepared

LEMMA CommitStep == ASSUME IInv, NEW s \in Requests, Commit(s) PROVE IInv'
<1>1. /\ InOrder(rows') /\ EntitiesStay
      /\ Present' \subseteq Present \cup {work[s].id}
      /\ work[s].do = "insert" => work[s].id \in Present'
      /\ work[s].do # "insert" => Present' \subseteq Present
      /\ \A i \in Links \cap Present' :
           (i \in Present /\ rows'[i] = rows[i]) \/ {rows'[i].source, rows'[i].target} \subseteq used
  BY CommittedInOrder
<1>2. /\ used' = used \cup Present'
      /\ audit' = {a \in audit \cup work[s].log : a.org \in Present'}
      /\ Busy(s) /\ Prepared(work[s])
  BY DEF Commit, Busy, IInv, Works, Present
<1>3. Rows'
  BY <1>1, <1>2, Changes
<1>4. /\ DOMAIN work' = Requests /\ ~Busy(s)'
      /\ \A q \in Requests \ {s} : work'[q] = work[q]
  BY DEF Commit, Busy, IInv, Works
<1>5. ASSUME NEW q \in Requests, Busy(q)' PROVE Prepared(work[q])'
  <2>1. q # s /\ work'[q] = work[q] /\ Busy(q) /\ Prepared(work[q])
    BY <1>4, <1>5 DEF Busy, IInv, Works
  <2>2. work[q].do = "insert" => work[q].id \notin Present'
    <3>1. SUFFICES ASSUME work[q].do = "insert" PROVE work[q].id \notin Present'
      OBVIOUS
    <3>2. work[q].id \notin used /\ work[q].id # work[s].id
      BY <1>2, <2>1, <3>1 DEF Prepared, Insertion, IInv, Works
    <3> QED BY <1>1, <3>2 DEF IInv, Rows
  <2>3. PICK w : w = work[q]
    OBVIOUS
  <2>4. Prepared(w)'
    BY <1>1, <1>2, <2>1, <2>2, <2>3, PreparedStays
  <2> QED BY <2>1, <2>3, <2>4
<1>6. Works'
  BY <1>4, <1>5 DEF Works, Busy, IInv
<1>7. ASSUME NEW a \in audit' PROVE a.org \in In(Orgs)' /\ a.id \in used'
  <2>1. a.org \in Orgs /\ a.org \in Present'
    BY <1>2, <1>7 DEF IInv, Audited, In, Prepared
  <2>2. CASE a \in audit
    BY <1>2, <2>1, <2>2 DEF IInv, Audited, In
  <2>3. CASE a \in work[s].log
    BY <1>1, <1>2, <2>1, <2>3 DEF Prepared, Edit, In
  <2> QED BY <1>2, <1>7, <2>2, <2>3
<1>8. Audited' /\ Rest'
  BY <1>7 DEF Audited, Rest, IInv, Commit
<1> QED BY <1>3, <1>6, <1>8 DEF IInv

LEMMA RollbackStep == ASSUME IInv, NEW s \in Requests, Rollback(s) PROVE IInv'
<1>1. /\ UNCHANGED <<rows, used, audit, objects, handed, uploaded, served>>
      /\ DOMAIN work' = Requests /\ ~Busy(s)'
      /\ \A q \in Requests \ {s} : work'[q] = work[q]
  BY DEF Rollback, Busy, IInv, Works
<1>2. Rows' /\ Audited'
  BY <1>1 DEF IInv, Rows, InOrder, Joins, LinkInOrder, References, In, Present, Audited
<1>3. Rest'
  BY BoundsAssumption DEF IInv, Rest, Rollback
<1>4. \A w : Prepared(w)' <=> Prepared(w)
  BY <1>1 DEF Prepared, Insertion, Edit, Joins, LinkInOrder
<1>5. \A q \in Requests : Busy(q)' => q # s /\ work'[q] = work[q] /\ Busy(q)
  BY <1>1 DEF Busy
<1>6. \A q \in Requests : Busy(q)' => Prepared(work[q])'
  BY <1>4, <1>5 DEF IInv, Works
<1>7. Works'
  BY <1>1, <1>5, <1>6 DEF IInv, Works
<1> QED BY <1>2, <1>3, <1>7 DEF IInv
-----------------------------------------------------------------------------
(* What is committed at once. *)

LEMMA AtOnce ==
  ASSUME IInv, InOrder(rows'), EntitiesStay, Present' \subseteq Present,
         \A i \in Links \cap Present' : rows'[i] = rows[i],
         In(Orgs)' = In(Orgs), UNCHANGED <<used, audit, work>>, Rest'
  PROVE  IInv'
<1>1. used' = used \cup Present'
  BY DEF IInv, Rows
<1>2. Rows'
  BY <1>1, Changes
<1>3. Audited'
  BY DEF IInv, Audited
<1>4. ASSUME NEW q \in Requests, Busy(q) PROVE Prepared(work[q])'
  <2>1. Prepared(work[q])
    BY <1>4 DEF IInv, Works
  <2>2. work[q].do = "insert" => work[q].id \notin Present'
    BY <2>1 DEF Prepared, Insertion, IInv, Rows
  <2>3. PICK w : w = work[q]
    OBVIOUS
  <2>4. Prepared(w)'
    BY <1>1, <2>1, <2>2, <2>3, PreparedStays
  <2> QED BY <2>3, <2>4
<1>5. Works'
  BY <1>4 DEF Works, Busy, IInv
<1> QED BY <1>2, <1>3, <1>5 DEF IInv

LEMMA EnabledRow ==
  ASSUME NEW j \in Entities, NEW row \in Row(j), NEW b \in BOOLEAN
  PROVE  /\ [row EXCEPT !.enabled = b] \in Row(j)
         /\ [row EXCEPT !.enabled = b].org = row.org
         /\ References([row EXCEPT !.enabled = b]) = References(row)
         /\ \A r : Key(j, r) = <<"id", j>>
<1>1. j \in Ids
  BY DEF Ids
<1>2. row = [c \in DOMAIN row |-> row[c]] /\ "enabled" \in DOMAIN row /\ "org" \in DOMAIN row
  BY <1>1, RowsAreRecords DEF Entities
<1> DEFINE f == [c \in {"enabled"} |-> b]
           new == [row EXCEPT !.enabled = b]
<1>3. Fits(f) /\ DOMAIN f \subseteq DOMAIN row
  BY <1>2, ColumnIs DEF Fits, Editable
<1>4. Over(f, row) \in Row(j)
  BY <1>1, <1>3, OverRow
<1>5. new = Over(f, row)
  BY <1>2 DEF Over
<1>6. /\ new.org = row.org /\ DOMAIN new = DOMAIN row
      /\ \A c \in DOMAIN row \cap {"org", "type", "ctype", "status"} : new[c] = row[c]
  BY <1>2
<1>7. References(new) = References(row)
  BY <1>6 DEF References
<1> QED BY <1>1, <1>4, <1>5, <1>6, <1>7, KeyOf

LEMMA BatchStep ==
  ASSUME IInv, NEW table, table \subseteq Entities, BatchToggle(table) PROVE IInv'
<1>1. PICK o \in In(Orgs), ids \in SUBSET table, enabled \in BOOLEAN :
        rows' = [i \in Present |->
                  IF i \in ids \cap OfOrg(o, table) THEN [rows[i] EXCEPT !.enabled = enabled] ELSE rows[i]]
  BY DEF BatchToggle
<1>2. \A i \in Present : i \in Ids /\ rows[i] \in Row(i) /\ References(rows[i]) \subseteq Present
  BY DEF IInv, Rows, InOrder, Present
<1>3. /\ Present' = Present
      /\ \A i \in Present :
           \/ rows'[i] = rows[i]
           \/ i \in Entities /\ rows'[i] = [rows[i] EXCEPT !.enabled = enabled]
  BY <1>1 DEF Present
<1>4. \A i \in Present : /\ rows'[i] \in Row(i) /\ References(rows'[i]) = References(rows[i])
                         /\ Key(i, rows'[i]) = Key(i, rows[i])
                         /\ i \in Entities => rows'[i].org = rows[i].org
                         /\ i \notin Entities => rows'[i] = rows[i]
  <2> SUFFICES ASSUME NEW i \in Present
               PROVE  /\ rows'[i] \in Row(i) /\ References(rows'[i]) = References(rows[i])
                      /\ Key(i, rows'[i]) = Key(i, rows[i])
                      /\ i \in Entities => rows'[i].org = rows[i].org
                      /\ i \notin Entities => rows'[i] = rows[i]
    OBVIOUS
  <2>1. CASE rows'[i] = rows[i]
    BY <1>2, <2>1
  <2>2. CASE i \in Entities /\ rows'[i] = [rows[i] EXCEPT !.enabled = enabled]
    BY <1>2, <2>2, EnabledRow
  <2> QED BY <1>3, <2>1, <2>2
<1>5. ASSUME NEW i \in Links \cap Present PROVE rows'[i] = rows[i] /\ LinkInOrder(rows', rows[i])
  <2>1. rows'[i] = rows[i] /\ LinkInOrder(rows, rows[i])
    BY <1>4, <1>5, Apart DEF IInv, Rows, InOrder, Present
  <2>2. {rows[i].source, rows[i].target} \subseteq Entities
    BY <1>2, <1>5, LinkEnds
  <2> QED BY <1>3, <1>4, <2>1, <2>2 DEF LinkInOrder, Present
<1>6. InOrder(rows')
  BY <1>2, <1>3, <1>4, <1>5 DEF InOrder, IInv, Rows, Present
<1>7. EntitiesStay
  BY <1>3, <1>4 DEF EntitiesStay
<1>8. Rest' /\ UNCHANGED <<used, audit, work>>
  BY BoundsAssumption DEF BatchToggle, IInv, Rest
<1> QED BY <1>3, <1>5, <1>6, <1>7, <1>8, AtOnce DEF In

LEMMA UnfavoriteStep == ASSUME IInv, UnfavoriteEntity PROVE IInv'
<1>1. PICK i \in In(Favorites) : rows' = Without(i)
  BY DEF UnfavoriteEntity
<1>2. i \in Ids /\ i \in Present
  BY <1>1 DEF In, Ids
<1>3. /\ InOrder(rows') /\ \A j \in Present' : j \in Present /\ (j \notin Configs => rows'[j] = rows[j])
      /\ \A j \in Entities \cap Present' : rows'[j].org = rows[j].org
  BY <1>1, <1>2, WithoutInOrder DEF Present
<1>4. In(Orgs)' = In(Orgs)
  <2>1. \A j \in In(Orgs) : j \notin Cascade(i)
    BY <1>1, Apart, RowsAreRecords DEF In, Cascade, IInv, Rows, InOrder, Present
  <2> QED BY <1>1, <2>1, <1>3, WithoutIs DEF In, Present
<1>5. Rest' /\ UNCHANGED <<used, audit, work>>
  BY BoundsAssumption DEF UnfavoriteEntity, IInv, Rest
<1>6. EntitiesStay
  BY <1>3 DEF EntitiesStay
<1>7. \A j \in Links \cap Present' : rows'[j] = rows[j]
  BY <1>3, Apart DEF Entities
<1> QED BY <1>3, <1>4, <1>5, <1>6, <1>7, AtOnce

LEMMA HandOutStep == ASSUME IInv, NEW s \in Requests, HandOut(s) PROVE IInv'
<1>1. UNCHANGED <<rows, used, audit, work>>
  BY DEF HandOut
<1>2. Rest'
  BY DEF HandOut, IInv, Rest
<1>3. EntitiesStay /\ InOrder(rows') /\ Present' = Present /\ In(Orgs)' = In(Orgs)
  BY <1>1 DEF EntitiesStay, IInv, Rows, In, Present
<1> QED BY <1>1, <1>2, <1>3, AtOnce

LEMMA PutObjectStep == ASSUME IInv, NEW i \in Attachments, PutObject(i) PROVE IInv'
<1>1. UNCHANGED <<rows, used, audit, work>>
  BY DEF PutObject
<1>2. Rest'
  BY BoundsAssumption DEF PutObject, IInv, Rest
<1>3. EntitiesStay /\ InOrder(rows') /\ Present' = Present /\ In(Orgs)' = In(Orgs)
  BY <1>1 DEF EntitiesStay, IInv, Rows, In, Present
<1> QED BY <1>1, <1>2, <1>3, AtOnce

-----------------------------------------------------------------------------
(* The endpoints. *)

LEMMA OwnedLog ==
  ASSUME NEW o \in Orgs, NEW i, NEW action
  PROVE  \A a \in Log(action, o, i) : a.org \in Orgs /\ a.id = i
BY DEF Log

LEMMA OrganizationSteps == ASSUME IInv, NEW s \in Requests, OrganizationNext(s) PROVE IInv'
<1>1. CASE CreateOrganization(s)
  <2>1. PICK i \in Fresh(Orgs), n \in Names :
          Ready(s) /\ Insert(s, i, [name |-> n, enabled |-> TRUE], Log("create", i, i))
    BY <1>1 DEF CreateOrganization
  <2>2. i \in Orgs
    BY DEF Fresh
  <2>3. i \in Ids /\ i \notin Links /\ [name |-> n, enabled |-> TRUE] \in Row(i)
    BY <2>2, RowOf, Apart DEF Ids
  <2>4. Orgs \subseteq Ids /\ \A a \in Log("create", i, i) : a.org \in Orgs /\ a.id = i
    BY <2>2, OwnedLog DEF Ids
  <2> QED BY <2>1, <2>3, <2>4, Inserts
<1>2. CASE GetOrganization(s) \/ DeleteOrganization(s)
  BY <1>2, OwnedLog, DeletesOrViews DEF GetOrganization, DeleteOrganization, In
<1>3. CASE UpdateOrganization(s)
  <2>1. PICK i \in In(Orgs), asked \in [{"name"} -> Names] \cup [{"enabled"} -> BOOLEAN] :
          Ready(s) /\ Update(s, i, asked, Log("update", i, i), <<>>)
    BY <1>3 DEF UpdateOrganization
  <2>2. i \in Present /\ i \in Orgs /\ i \in Ids /\ i \notin Links \cup Favorites \cup Attachments
    BY Apart DEF In, Ids
  <2>3. Fits(asked) /\ DOMAIN asked \subseteq {"name", "enabled"}
    BY ColumnIs DEF Fits, Editable
  <2>4. \A row \in Row(i) : DOMAIN asked \subseteq DOMAIN row
    BY <2>2, <2>3, RowsAreRecords
  <2>5. \A a \in Log("update", i, i) : a.org \in Orgs /\ a.id = i
    BY <2>2, OwnedLog
  <2> QED BY <2>1, <2>2, <2>3, <2>4, <2>5, Updates
<1> QED BY <1>1, <1>2, <1>3 DEF OrganizationNext

\* What the types have in common.
LEMMA CreateNamedStep ==
  ASSUME IInv, NEW s \in Requests, NEW table, table \in {ConfigTypes, Statuses, AssetTypes},
         NEW row, \A i \in table : row \in Row(i), CreateNamed(s, table, row)
  PROVE  IInv'
<1>1. PICK i \in Fresh(table) : Ready(s) /\ Insert(s, i, row, {})
  BY DEF CreateNamed
<1>2. i \in table /\ table \subseteq Ids
  BY DEF Fresh, Ids
<1>3. i \notin Links
  BY <1>2, Apart
<1> QED BY <1>1, <1>2, <1>3, Inserts

LEMMA UpdateTypeStep ==
  ASSUME IInv, NEW s \in Requests, NEW table, table \in {ConfigTypes, Statuses, AssetTypes},
         NEW i \in In(table), NEW asked, Fits(asked), Ready(s),
         \A row \in Row(i) : DOMAIN asked \subseteq DOMAIN row, Update(s, i, asked, {}, <<>>)
  PROVE  IInv'
<1>1. i \in Present /\ i \notin Links \cup Favorites \cup Attachments
  BY Apart DEF In
<1> QED BY <1>1, Updates

LEMMA SetActiveStep ==
  ASSUME IInv, NEW s \in Requests, NEW table, table \in {ConfigTypes, Statuses, AssetTypes},
         NEW active \in BOOLEAN, SetActive(s, table, active)
  PROVE  IInv'
<1>1. PICK i \in In(table) : Ready(s) /\ Update(s, i, [active |-> active], {}, <<>>)
  BY DEF SetActive
<1>2. Fits([active |-> active]) /\ DOMAIN [active |-> active] = {"active"}
  BY ColumnIs DEF Fits, Editable
<1>3. \A row \in Row(i) : "active" \in DOMAIN row
  BY RowsAreRecords DEF In, Ids
<1> QED BY <1>1, <1>2, <1>3, UpdateTypeStep

LEMMA DeleteTypeStep ==
  ASSUME IInv, NEW s \in Requests, NEW table, NEW column, DeleteType(s, table, column)
  PROVE  IInv'
BY DeletesOrViews DEF DeleteType, In

LEMMA TypeSteps == ASSUME IInv, NEW s \in Requests, TypeNext(s) PROVE IInv'
<1>1. CASE CreateConfigurationType(s) \/ CreateConfigurationStatus(s)
  <2>1. \A n \in Names : \A i \in ConfigTypes \cup Statuses : [name |-> n, active |-> TRUE] \in Row(i)
    BY RowOf DEF Ids
  <2> QED BY <1>1, <2>1, CreateNamedStep DEF CreateConfigurationType, CreateConfigurationStatus
<1>2. CASE CreateCustomAssetType(s)
  <2>1. PICK n \in Names, fields \in FieldSets :
          CreateNamed(s, AssetTypes, [name |-> n, active |-> TRUE, fields |-> fields])
    BY <1>2 DEF CreateCustomAssetType
  <2>2. \A i \in AssetTypes : [name |-> n, active |-> TRUE, fields |-> fields] \in Row(i)
    BY RowOf DEF Ids
  <2> QED BY <2>1, <2>2, CreateNamedStep
<1>3. CASE \E table \in {ConfigTypes, Statuses, AssetTypes}, active \in BOOLEAN : SetActive(s, table, active)
  BY <1>3, SetActiveStep
<1>4. CASE \E table, column : DeleteType(s, table, column)
  BY <1>4, DeleteTypeStep
<1>5. CASE UpdateCustomAssetType(s)
  <2>1. PICK i \in In(AssetTypes) : \/ \E n \in Names : Ready(s) /\ Update(s, i, [name |-> n], {}, <<>>)
                                    \/ \E fs \in FieldSets : Ready(s) /\ Update(s, i, [fields |-> fs], {}, <<>>)
    BY <1>5 DEF UpdateCustomAssetType
  <2>2. \A row \in Row(i) : DOMAIN row = {"name", "active", "fields"}
    BY RowsAreRecords DEF In, Ids
  <2>3. ASSUME NEW n \in Names, Ready(s), Update(s, i, [name |-> n], {}, <<>>) PROVE IInv'
    <3>1. Fits([name |-> n]) /\ DOMAIN [name |-> n] = {"name"}
      BY ColumnIs DEF Fits, Editable
    <3> QED BY <2>2, <2>3, <3>1, UpdateTypeStep
  <2>4. ASSUME NEW fs \in FieldSets, Ready(s), Update(s, i, [fields |-> fs], {}, <<>>) PROVE IInv'
    <3>1. Fits([fields |-> fs]) /\ DOMAIN [fields |-> fs] = {"fields"}
      BY ColumnIs DEF Fits, Editable
    <3> QED BY <2>2, <2>4, <3>1, UpdateTypeStep
  <2> QED BY <2>1, <2>3, <2>4
<1> QED BY <1>1, <1>2, <1>3, <1>4, <1>5
    DEF TypeNext, DeactivateConfigurationType, ActivateConfigurationType, DeleteConfigurationType,
        DeactivateConfigurationStatus, ActivateConfigurationStatus, DeleteConfigurationStatus,
        DeactivateCustomAssetType, ActivateCustomAssetType, DeleteCustomAssetType

\* What the entities have in common.
LEMMA CreateEntityStep ==
  ASSUME IInv, NEW s \in Requests, NEW table, table \subseteq Entities, NEW columns,
         \A o \in Orgs : \A i \in table : Over([org |-> o, enabled |-> TRUE], columns) \in Row(i),
         CreateEntity(s, table, columns)
  PROVE  IInv'
<1>1. PICK o \in In(Orgs), i \in Fresh(table) :
        Ready(s) /\ Insert(s, i, Over([org |-> o, enabled |-> TRUE], columns), Log("create", o, i))
  BY DEF CreateEntity
<1>2. i \in table /\ table \subseteq Ids /\ i \notin Links /\ o \in Orgs
  BY Apart DEF Fresh, Ids, In
<1>3. \A a \in Log("create", o, i) : a.org \in Orgs /\ a.id = i
  BY <1>2, OwnedLog
<1>4. PICK row : row = Over([org |-> o, enabled |-> TRUE], columns)
  OBVIOUS
<1> QED BY <1>1, <1>2, <1>3, <1>4, Inserts

LEMMA GetOrDeleteEntityStep ==
  ASSUME IInv, NEW s \in Requests, NEW table, GetEntity(s, table) \/ DeleteEntity(s, table)
  PROVE  IInv'
<1>1. PICK o \in In(Orgs) : \E i \in OfOrg(o, table) :
        /\ Ready(s)
        /\ View(s, i, Log("view", o, i)) \/ Delete(s, i, Log("delete", o, i), {})
  BY DEF GetEntity, DeleteEntity
<1>6. PICK i \in OfOrg(o, table) :
        /\ Ready(s)
        /\ View(s, i, Log("view", o, i)) \/ Delete(s, i, Log("delete", o, i), {})
  BY <1>1
<1>2. i \in Present /\ o \in Orgs
  BY DEF OfOrg, In
<1>3. \A action : \A a \in Log(action, o, i) : a.org \in Orgs /\ a.id = i
  BY <1>2, OwnedLog
<1>4. CASE View(s, i, Log("view", o, i))
  BY <1>6, <1>2, <1>3, <1>4, DeletesOrViews
<1>5. CASE Delete(s, i, Log("delete", o, i), {})
  BY <1>6, <1>2, <1>3, <1>5, DeletesOrViews
<1> QED BY <1>6, <1>4, <1>5

LEMMA UpdateEntityStep ==
  ASSUME IInv, NEW s \in Requests, NEW table, table \subseteq Entities, NEW asked, Fits(asked),
         \A i \in table : \A row \in Row(i) : DOMAIN asked \subseteq DOMAIN row,
         UpdateEntity(s, table, asked)
  PROVE  IInv'
<1>5. PICK o \in In(Orgs) : \E i \in OfOrg(o, table) :
        Ready(s) /\ Update(s, i, asked, Log("update", o, i), <<>>)
  BY DEF UpdateEntity
<1>1. PICK i \in OfOrg(o, table) : Ready(s) /\ Update(s, i, asked, Log("update", o, i), <<>>)
  BY <1>5
<1>2. i \in Present \ (Links \cup Favorites \cup Attachments) /\ i \in table /\ o \in Orgs
  BY Apart DEF OfOrg, In
<1>3. \A a \in Log("update", o, i) : a.org \in Orgs /\ a.id = i
  BY <1>2, OwnedLog
<1>4. PICK seen : seen = <<>>
  OBVIOUS
<1> QED BY <1>1, <1>2, <1>3, <1>4, Updates

LEMMA ToggleStep ==
  ASSUME IInv, NEW s \in Requests, NEW table, table \subseteq Entities, NEW b \in BOOLEAN,
         UpdateEntity(s, table, [enabled |-> b])
  PROVE  IInv'
<1>1. Fits([enabled |-> b]) /\ DOMAIN [enabled |-> b] = {"enabled"}
  BY ColumnIs DEF Fits, Editable
<1>2. \A i \in table : \A row \in Row(i) : "enabled" \in DOMAIN row
  BY RowsAreRecords DEF Entities, Ids
<1> QED BY <1>1, <1>2, UpdateEntityStep

LEMMA PlainSteps ==
  ASSUME IInv, NEW s \in Requests, NEW table \in {Locations, Passwords, Documents},
         \/ CreateEntity(s, table, <<>>)
         \/ \E b \in BOOLEAN : UpdateEntity(s, table, [enabled |-> b])
  PROVE  IInv'
<1>1. table \subseteq Entities /\ table \subseteq Locations \cup Passwords \cup Documents
  BY DEF Entities
<1>2. \A o \in Orgs : Over([org |-> o, enabled |-> TRUE], <<>>) = [org |-> o, enabled |-> TRUE]
  BY DEF Over
<1>3. \A o \in Orgs : \A i \in table : [org |-> o, enabled |-> TRUE] \in Row(i)
  BY <1>1, RowOf DEF Entities, Ids
<1>4. CASE CreateEntity(s, table, <<>>)
  BY <1>1, <1>2, <1>3, <1>4, CreateEntityStep
<1>5. CASE \E b \in BOOLEAN : UpdateEntity(s, table, [enabled |-> b])
  BY <1>1, <1>5, ToggleStep
<1> QED BY <1>4, <1>5

LEMMA ConfigurationSteps ==
  ASSUME IInv, NEW s \in Requests, CreateConfiguration(s) \/ UpdateConfiguration(s)
  PROVE  IInv'
<1>1. Configs \subseteq Entities
  BY DEF Entities
<1>2. \A i \in Configs : i \in Ids
  BY DEF Entities, Ids
<1>3. CASE CreateConfiguration(s)
  <2>1. PICK t \in ConfigTypes \cup {Null}, c \in Statuses \cup {Null} :
          CreateEntity(s, Configs, [ctype |-> t, status |-> c])
    BY <1>3 DEF CreateConfiguration, In
  <2>2. ASSUME NEW o \in Orgs, NEW i \in Configs
        PROVE  Over([org |-> o, enabled |-> TRUE], [ctype |-> t, status |-> c]) \in Row(i)
    <3> DEFINE new == Over([org |-> o, enabled |-> TRUE], [ctype |-> t, status |-> c])
    <3>1. /\ DOMAIN new = {"org", "enabled", "ctype", "status"} /\ new = [d \in DOMAIN new |-> new[d]]
          /\ new.org = o /\ new.enabled = TRUE /\ new.ctype = t /\ new.status = c
      BY DEF Over
    <3> HIDE DEF new
    <3>2. new \in [org : Orgs, enabled : BOOLEAN,
                   ctype : ConfigTypes \cup {Null}, status : Statuses \cup {Null}]
      BY <2>1, <3>1
    <3> QED BY <1>2, <3>2, RowOf DEF new
  <2> QED BY <1>1, <2>1, <2>2, CreateEntityStep
<1>4. CASE UpdateConfiguration(s)
  <2>1. \A i \in Configs : \A row \in Row(i) : DOMAIN row = {"org", "enabled", "ctype", "status"}
    BY <1>2, RowsAreRecords
  <2>2. CASE \E b \in BOOLEAN : UpdateEntity(s, Configs, [enabled |-> b])
    BY <1>1, <2>2, ToggleStep
  <2>3. CASE \E t \in In(ConfigTypes) \cup {Null} : UpdateEntity(s, Configs, [ctype |-> t])
    <3>1. PICK t \in ConfigTypes \cup {Null} : UpdateEntity(s, Configs, [ctype |-> t])
      BY <2>3 DEF In
    <3>2. Fits([ctype |-> t]) /\ DOMAIN [ctype |-> t] = {"ctype"}
      BY ColumnIs DEF Fits, Editable
    <3> QED BY <1>1, <2>1, <3>1, <3>2, UpdateEntityStep
  <2>4. CASE \E c \in In(Statuses) \cup {Null} : UpdateEntity(s, Configs, [status |-> c])
    <3>1. PICK c \in Statuses \cup {Null} : UpdateEntity(s, Configs, [status |-> c])
      BY <2>4 DEF In
    <3>2. Fits([status |-> c]) /\ DOMAIN [status |-> c] = {"status"}
      BY ColumnIs DEF Fits, Editable
    <3> QED BY <1>1, <2>1, <3>1, <3>2, UpdateEntityStep
  <2> QED BY <1>4, <2>2, <2>3, <2>4 DEF UpdateConfiguration
<1> QED BY <1>3, <1>4

\* The values of a custom asset.
LEMMA FieldsAndValues ==
  /\ \A fields \in FieldSets : DOMAIN fields \subseteq FieldIds
  /\ \A values : values \in Values <=>
       /\ values = [f \in DOMAIN values |-> values[f]] /\ DOMAIN values \subseteq FieldIds
       /\ \A f \in DOMAIN values : values[f] \in {"plain", "cipher", "twice"}
<1>1. DOMAIN Encrypted = {"plain", "cipher", "twice"}
  BY DEF Encrypted
<1> QED BY <1>1 DEF FieldSets, Values

LEMMA ValuesWritten ==
  ASSUME NEW fields, NEW values \in Values
  PROVE  ValuesKeyToId(fields, values) \in Values
<1>1. /\ DOMAIN values \subseteq FieldIds
      /\ \A f \in DOMAIN values : values[f] \in {"plain", "cipher", "twice"}
  BY FieldsAndValues
<1>2. \A v \in {"plain", "cipher", "twice"} : Encrypted[v] \in {"plain", "cipher", "twice"}
  BY DEF Encrypted
<1> DEFINE new == ValuesKeyToId(fields, values)
<1>3. /\ new = [f \in DOMAIN new |-> new[f]] /\ DOMAIN new = DOMAIN values
      /\ \A f \in DOMAIN new : new[f] = IF fields[f] = "secret" THEN Encrypted[values[f]] ELSE values[f]
  BY DEF ValuesKeyToId
<1> HIDE DEF new
<1>4. new \in Values
  BY <1>1, <1>2, <1>3, FieldsAndValues
<1> QED BY <1>4 DEF new

LEMMA AssetSteps ==
  ASSUME IInv, NEW s \in Requests, CreateCustomAsset(s) \/ UpdateCustomAsset(s)
  PROVE  IInv'
<1>1. Assets \subseteq Entities /\ \A i \in Assets : i \in Ids
  BY DEF Entities, Ids
<1>2. \A i \in Present : i \in Ids /\ rows[i] \in Row(i) /\ References(rows[i]) \subseteq Present
  BY DEF IInv, Rows, InOrder, Present
<1>3. \A t \in In(AssetTypes) : rows[t].fields \in FieldSets
  <2> SUFFICES ASSUME NEW t \in In(AssetTypes) PROVE rows[t].fields \in FieldSets
    OBVIOUS
  <2>1. rows[t] \in [name : Names, active : BOOLEAN, fields : FieldSets]
    BY <1>2, RowOf DEF In
  <2> QED BY <2>1
<1>4. ASSUME NEW t \in In(AssetTypes), NEW data \in SUBSET DOMAIN rows[t].fields
      PROVE  [f \in data |-> "plain"] \in Values
  BY <1>3, <1>4, FieldsAndValues
<1>5. CASE CreateCustomAsset(s)
  <2>1. PICK t \in In(AssetTypes) : \E data \in SUBSET DOMAIN rows[t].fields :
          CreateEntity(s, Assets, [type |-> t,
            values |-> ValuesKeyToId(rows[t].fields, [f \in data |-> "plain"])])
    BY <1>5 DEF CreateCustomAsset
  <2>2. PICK values \in Values : CreateEntity(s, Assets, [type |-> t, values |-> values])
    BY <1>4, <2>1, ValuesWritten
  <2>3. ASSUME NEW o \in Orgs, NEW i \in Assets
        PROVE  Over([org |-> o, enabled |-> TRUE], [type |-> t, values |-> values]) \in Row(i)
    <3> DEFINE new == Over([org |-> o, enabled |-> TRUE], [type |-> t, values |-> values])
    <3>1. /\ DOMAIN new = {"org", "enabled", "type", "values"} /\ new = [c \in DOMAIN new |-> new[c]]
          /\ new.org = o /\ new.enabled = TRUE /\ new.type = t /\ new.values = values
      BY DEF Over
    <3> HIDE DEF new
    <3>2. t \in AssetTypes
      BY DEF In
    <3>3. new \in [org : Orgs, enabled : BOOLEAN, type : AssetTypes, values : Values]
      BY <3>1, <3>2
    <3> QED BY <1>1, <3>3, RowOf DEF new
  <2> QED BY <1>1, <2>2, <2>3, CreateEntityStep
<1>6. CASE \E b \in BOOLEAN : UpdateEntity(s, Assets, [enabled |-> b])
  BY <1>1, <1>6, ToggleStep
<1>7. ASSUME NEW o \in In(Orgs), NEW a \in OfOrg(o, Assets),
             NEW data \in SUBSET DOMAIN rows[rows[a].type].fields, UpdateValues(s, o, a, data), Ready(s)
      PROVE  IInv'
  <2> DEFINE fields == rows[rows[a].type].fields
             stored == ValuesIdToKey(fields, rows[a].values)
             merged == Over([f \in data |-> "plain"], stored)
             seen == [data |-> data, values |-> Known(fields, rows[a].values)]
  <2>1. a \in Assets /\ a \in Present /\ o \in Orgs
    BY DEF OfOrg, In
  <2>2. /\ rows[a] \in [org : Orgs, enabled : BOOLEAN, type : AssetTypes, values : Values]
        /\ DOMAIN rows[a] = {"org", "enabled", "type", "values"}
    BY <1>2, <2>1, RowOf, RowsAreRecords
  <2>3. rows[a].type \in In(AssetTypes) /\ rows[a].values \in Values
    <3>1. rows[a].type \in AssetTypes /\ rows[a].values \in Values
      BY <2>2
    <3>2. rows[a].type # Null
      BY <3>1, BoundsAssumption DEF Ids
    <3>3. rows[a].type \in References(rows[a])
      BY <2>2, <3>2 DEF References
    <3> QED BY <1>2, <2>1, <3>1, <3>3 DEF In
  <2>4. stored \in Values
    <3>1. /\ DOMAIN rows[a].values \subseteq FieldIds
          /\ \A f \in DOMAIN rows[a].values : rows[a].values[f] \in {"plain", "cipher", "twice"}
      BY <2>3, FieldsAndValues
    <3>2. /\ stored = [f \in DOMAIN stored |-> stored[f]]
          /\ DOMAIN stored = DOMAIN rows[a].values \cap DOMAIN fields
          /\ \A f \in DOMAIN stored : stored[f] \in {"plain", rows[a].values[f]}
      BY DEF ValuesIdToKey, Known
    <3> HIDE DEF stored
    <3> QED BY <3>1, <3>2, FieldsAndValues
  <2>5. merged \in Values
    <3>1. data \subseteq FieldIds
      BY <1>3, <2>3, FieldsAndValues
    <3>2. /\ DOMAIN stored \subseteq FieldIds
          /\ \A f \in DOMAIN stored : stored[f] \in {"plain", "cipher", "twice"}
      BY <2>4, FieldsAndValues
    <3> HIDE DEF stored
    <3>3. /\ merged = [f \in DOMAIN merged |-> merged[f]] /\ DOMAIN merged = data \cup DOMAIN stored
          /\ \A f \in DOMAIN merged : merged[f] = "plain" \/ (f \in DOMAIN stored /\ merged[f] = stored[f])
      BY DEF Over
    <3> HIDE DEF merged
    <3> QED BY <3>1, <3>2, <3>3, FieldsAndValues
  <2>6. PICK new \in Values : Update(s, a, [values |-> new], Log("update", o, a), seen)
    <3>1. Update(s, a, [values |-> ValuesKeyToId(fields, merged)], Log("update", o, a), seen)
      BY <1>7 DEF UpdateValues
    <3> HIDE DEF merged, seen, fields
    <3> QED BY <2>5, <3>1, ValuesWritten
  <2>7. Fits([values |-> new]) /\ DOMAIN [values |-> new] = {"values"}
    BY ColumnIs DEF Fits, Editable
  <2>8. \A row \in Row(a) : "values" \in DOMAIN row
    BY <1>1, <2>1, RowsAreRecords
  <2>9. a \in Present \ (Links \cup Favorites \cup Attachments)
    BY <1>1, <2>1, Apart
  <2>10. \A e \in Log("update", o, a) : e.org \in Orgs /\ e.id = a
    BY <2>1, OwnedLog
  <2> HIDE DEF seen
  <2> QED BY <1>7, <2>6, <2>7, <2>8, <2>9, <2>10, Updates
<1> QED BY <1>5, <1>6, <1>7 DEF UpdateCustomAsset

LEMMA EntitySteps == ASSUME IInv, NEW s \in Requests, EntityNext(s) PROVE IInv'
<1>1. CASE \E table : GetEntity(s, table) \/ DeleteEntity(s, table)
  BY <1>1, GetOrDeleteEntityStep
<1>2. CASE \E table \in {Locations, Passwords, Documents} :
             \/ CreateEntity(s, table, <<>>)
             \/ \E b \in BOOLEAN : UpdateEntity(s, table, [enabled |-> b])
  BY <1>2, PlainSteps
<1>3. CASE CreateConfiguration(s) \/ UpdateConfiguration(s)
  BY <1>3, ConfigurationSteps
<1>4. CASE CreateCustomAsset(s) \/ UpdateCustomAsset(s)
  BY <1>4, AssetSteps
<1> QED BY <1>1, <1>2, <1>3, <1>4
    DEF EntityNext, CreateLocation, GetLocation, UpdateLocation, DeleteLocation,
        CreatePassword, GetPassword, RevealPassword, UpdatePassword, DeletePassword,
        CreateDocument, GetDocument, UpdateDocument, DeleteDocument,
        GetConfiguration, DeleteConfiguration, GetCustomAsset, DeleteCustomAsset

LEMMA OtherSteps == ASSUME IInv, NEW s \in Requests, OtherNext(s) PROVE IInv'
<1>1. \A i \in Links : i \in Ids /\ Row(i) = [org : Orgs, source : Entities, target : Entities]
  BY RowOf DEF Ids
<1>2. CASE CreateRelationship(s)
  <2>1. PICK o \in In(Orgs) : \E i \in Fresh(Links) :
          \E x \in OfOrg(o, Entities) : \E y \in OfOrg(o, Entities) \ {x} :
            LET pair == Normalized(x, y) IN
            Ready(s) /\ Insert(s, i, [org |-> o, source |-> pair[1], target |-> pair[2]], {})
    BY <1>2 DEF CreateRelationship
  <2>2. PICK i \in Fresh(Links), x \in OfOrg(o, Entities), y \in OfOrg(o, Entities) :
            LET pair == Normalized(x, y) IN
            Ready(s) /\ Insert(s, i, [org |-> o, source |-> pair[1], target |-> pair[2]], {})
    BY <2>1
  <2>3. PICK v, w : Normalized(x, y) = <<v, w>> /\ <<v, w>> \in {<<x, y>>, <<y, x>>}
    BY NormalizedSymmetric
  <2>4. v \in OfOrg(o, Entities) /\ w \in OfOrg(o, Entities) /\ Normalized(v, w) = <<v, w>>
    BY <2>3, NormalizedSymmetric
  <2> DEFINE row == [org |-> o, source |-> v, target |-> w]
  <2>5. Ready(s) /\ Insert(s, i, row, {})
    BY <2>2, <2>3
  <2>6. i \in Links /\ row \in Row(i) /\ Links \subseteq Ids
    BY <1>1, <2>4 DEF Fresh, OfOrg, In
  <2>7. Joins(row)
    BY <2>4 DEF Joins, LinkInOrder, OfOrg, In, IInv, Rows
  <2> HIDE DEF row
  <2> QED BY <2>5, <2>6, <2>7, Inserts
<1>3. CASE DeleteRelationship(s)
  BY <1>3, DeletesOrViews DEF DeleteRelationship, OfOrg, In
<1>4. CASE CreateAttachment(s) \/ UploadDocumentImage(s)
  <2>1. PICK o \in In(Orgs), i \in Fresh(Attachments) : Ready(s) /\ Insert(s, i, [org |-> o], {})
    BY <1>4 DEF CreateAttachment, UploadDocumentImage
  <2>2. i \in Attachments /\ i \in Ids /\ Attachments \subseteq Ids /\ i \notin Links
    BY Apart DEF Fresh, Ids
  <2>3. [org |-> o] \in Row(i)
    BY <2>2, RowOf DEF In
  <2> QED BY <2>1, <2>2, <2>3, Inserts
<1>5. CASE DeleteAttachment(s)
  <2> DEFINE none == <<>>
  <2>1. PICK i \in In(Attachments) : Ready(s) /\ Begin(s, "delete", i, none, {}, {}, {})
    BY <1>5 DEF DeleteAttachment, OfOrg, In
  <2>2. /\ UNCHANGED <<rows, used, audit, handed, uploaded>> /\ objects' \subseteq uploaded
        /\ faults' \in 0..MaxFaults
    BY <1>5, BoundsAssumption DEF DeleteAttachment, IInv, Rest
  <2>3. Prepared([do |-> "delete", id |-> i, row |-> none, asked |-> {}, log |-> {}, seen |-> {}])
    BY DEF Prepared, In, IInv, Rows
  <2> HIDE DEF none
  <2> QED BY <2>1, <2>2, <2>3, Begins
<1>6. CASE AddFavorite(s)
  <2>1. PICK u \in Users, o \in In(Orgs), e \in Entities, i \in Fresh(Favorites) :
          Ready(s) /\ Insert(s, i, [user |-> u, org |-> o, entity |-> e], {})
    BY <1>6 DEF AddFavorite
  <2>2. i \in Favorites /\ i \in Ids /\ Favorites \subseteq Ids /\ i \notin Links
    BY Apart DEF Fresh, Ids
  <2>3. [user |-> u, org |-> o, entity |-> e] \in Row(i)
    BY <2>2, RowOf DEF In
  <2> QED BY <2>1, <2>2, <2>3, Inserts
<1>7. CASE RemoveFavorite(s)
  BY <1>7, DeletesOrViews DEF RemoveFavorite, In
<1> QED BY <1>2, <1>3, <1>4, <1>5, <1>6, <1>7 DEF OtherNext

LEMMA AtOnceSteps == ASSUME IInv, AtOnceNext PROVE IInv'
<1>1. CASE \E table \in {Locations, Passwords, Documents, Configs, Assets} : BatchToggle(table)
  BY <1>1, BatchStep DEF Entities
<1> QED BY <1>1, UnfavoriteStep, PutObjectStep
    DEF AtOnceNext, BatchToggleLocations, BatchTogglePasswords, BatchToggleDocuments,
        BatchToggleConfigurations, BatchToggleCustomAssets
-----------------------------------------------------------------------------
LEMMA InductiveStep == IInv /\ [Next]_vars => IInv'
<1> SUFFICES ASSUME IInv, [Next]_vars PROVE IInv'
  OBVIOUS
<1>1. CASE UNCHANGED vars
  BY <1>1, AtOnce DEF vars, EntitiesStay, IInv, Rows, Rest, In, Present
<1>2. ASSUME NEW s \in Requests,
             OrganizationNext(s) \/ TypeNext(s) \/ EntityNext(s) \/ OtherNext(s) \/ HandOut(s)
               \/ Commit(s) \/ Rollback(s)
      PROVE  IInv'
  BY <1>2, OrganizationSteps, TypeSteps, EntitySteps, OtherSteps, HandOutStep, CommitStep, RollbackStep
<1> QED BY <1>1, <1>2, AtOnceSteps DEF Next

\* Every row has the columns of its table, every foreign key resolves, and what
\* is audited belongs to an organization that exists.
THEOREM TypeCorrect == Spec => []TypeOK
<1>1. Spec => []IInv
  BY InitialState, InductiveStep, PTL DEF Spec
<1> QED BY <1>1, TypesFollow, PTL

\* Whatever requests race, nothing is in the catalogue twice: not a name, not a
\* favorite, not a relationship in either direction; and a relationship joins
\* entities of its own organization for as long as they exist.
THEOREM NothingIsEverTwice == Spec => []NothingTwice
<1>1. Spec => []IInv
  BY InitialState, InductiveStep, PTL DEF Spec
<1>2. IInv => NothingTwice
  BY NothingIsTwice DEF IInv
<1> QED BY <1>1, <1>2, PTL
=============================================================================
