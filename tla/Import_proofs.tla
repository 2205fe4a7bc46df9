---------------------------- MODULE Import_proofs ----------------------------
(* Proofs of the properties of the two importing tools, for any export, any  *)
(* number of tools started one after the other and any number of failures.   *)
EXTENDS Import, FiniteSetTheorems, NaturalsInduction, WellFoundedInduction, TLAPS

-----------------------------------------------------------------------------
(***************************************************************************)
(* The server.                                                             *)
(***************************************************************************)
CopyT == [by : Tools, type : Nat, status : Nat, file : Files, text : Texts]
LinkT == [by : Tools, src : Nat, dst : Nat]

ServerTyped ==
  /\ server = [i \in Items |-> server[i]]
  /\ \A i \in Items \ Links : server[i] \in Seq(CopyT)
  /\ \A l \in Links : server[l] \in Seq(LinkT)
  /\ faults \in Nat /\ jobs \in 0 .. MaxJobs

\* Organizations and types are unique.
OnlyOne == \A i \in Orgs \cup Types : Len(server[i]) <= 1

\* What the fields of a copy refer to is there.
Resolves(i, row) ==
  /\ i \in Configs => /\ row.type \in {None} \cup DOMAIN server[TypeOf[i]]
                      /\ row.status \in {None} \cup DOMAIN server[StatusOf[i]]
  /\ i \in Assets => row.type \in DOMAIN server[TypeOf[i]]
  /\ i \in Links => row.src \in DOMAIN server[OwnerOf[i]] /\ row.dst \in DOMAIN server[TargetOf[i]]

ServerInv ==
  /\ ServerTyped
  /\ OnlyOne
  /\ \A i \in Items : \A n \in DOMAIN server[i] : Resolves(i, server[i][n])
-----------------------------------------------------------------------------
(***************************************************************************)
(* The run.  What a step of it means for the next one lies in the memory   *)
(* of the process, in the two files, and in what is on the server.         *)
(***************************************************************************)
Uuids == Nat \cup {Placeholder}
Names == Types \cup {<<OrgOf[d], NameOf[d]>> : d \in Docs}

MarksT == [done : SUBSET (Items \ Types), failed : SUBSET (Items \ Types),
           stored : SUBSET (Orgs \cup Scoped), unstored : SUBSET Items]
FileT == {"absent", "torn", "whole"}
DiskT == [state : FileT, marks : MarksT, mapFile : FileT, map : [Items -> Uuids]]
RunT == [at : {"idle", "list", "row", "upload", "state", "map"}, dry : BOOLEAN,
         scope : SUBSET Orgs, phase : 0 .. Final, pos : Nat, marks : MarksT, map : [Items -> Uuids],
         named : SUBSET Names, sound : BOOLEAN,
         code : {"none", "success", "failures", "died"}]

Sheet(p) == Rows[Phases[p]]

RunTyped ==
  /\ plan \in [made : BOOLEAN, matched : SUBSET Orgs]
  /\ disk \in DiskT /\ run \in RunT /\ excuse \in [Items -> Nat]
  /\ run.at \in {"list", "row", "upload"} => run.phase \in 1 .. 9 /\ run.pos \in Nat \ {0}
  /\ run.at = "list" => Phases[run.phase] \in {"configuration_types", "custom_asset_types"}
  /\ run.at = "upload" => run.pos <= Len(Sheet(run.phase)) /\ Row \in Orgs \cup Scoped
  /\ run.at \in {"state", "map"} /\ run.phase \in 1 .. 9 => run.pos > Len(Sheet(run.phase))
  /\ run.at = "idle" => run.marks = NoState /\ run.map = NoMap

\* What the tool believes is there is there.
Sound(marks, map) ==
  /\ \A i \in marks.done : Exists(i)
  /\ \A i \in marks.stored : \E n \in 1 .. Len(server[i]) : server[i][n].file = "stored"
  /\ \A i \in Items : map[i] \in {None, Placeholder} \cup DOMAIN server[i]

Believed ==
  /\ Sound(disk.marks, disk.map) /\ Sound(run.marks, run.map)
  /\ \A o \in plan.matched : Exists(o)
  /\ run.at = "upload" =>
       /\ Row \in run.marks.done /\ Row \notin run.marks.failed
       /\ run.map[Row] \in DOMAIN server[Row] /\ server[Row][run.map[Row]].file # "stored"

\* The files follow the memory: the state file first, the id map second.
Saved ==
  /\ disk.state = "absent" => disk.marks = NoState
  /\ run.at = "map" => disk.marks = run.marks /\ disk.state = "whole"
  /\ run.at # "idle" => disk.marks.done \subseteq run.marks.done
  /\ \A e \in Scoped : /\ run.map[e] \notin {None, Placeholder} => e \in run.marks.done
                       /\ disk.map[e] \notin {None, Placeholder} => e \in disk.marks.done
  /\ run.at # "idle" /\ run.phase = 9 =>
       \A e \in Scoped : /\ run.map[e] = disk.map[e]
                         /\ e \in run.marks.done <=> e \in disk.marks.done

\* A row is created again only after it was forgotten, and a link never: its
\* ends keep their uuids, so the server refuses it.
Completed == IF run.at = "idle" THEN disk.marks.done ELSE run.marks.done
Knows(e, uuid) ==
  /\ e \in disk.marks.done /\ disk.map[e] = uuid
  /\ run.at # "idle" => e \in run.marks.done /\ run.map[e] = uuid
Counted ==
  /\ \A i \in Scoped : Cardinality(Copies(i, "run")) <= excuse[i] + IF i \in Completed THEN 1 ELSE 0
  /\ \A l \in Links : \A n \in Copies(l, "run") :
       /\ Knows(OwnerOf[l], server[l][n].src) /\ Knows(TargetOf[l], server[l][n].dst)
       /\ \A m \in Copies(l, "run") : m = n

\* The rows that the run has behind it.
Passed(i) ==
  \E p \in 1 .. 9 : \E n \in DOMAIN Sheet(p) :
    Sheet(p)[n] = i /\ (p < run.phase \/ (p = run.phase /\ n < run.pos))

Twin(i) == \E d \in Docs \ {i} : <<OrgOf[d], NameOf[d]>> = <<OrgOf[i], NameOf[i]>>
Unsaid(i) == i \in Docs /\ (i \in Empty \/ Twin(i))
Ends(l) == {OrgOf[OwnerOf[l]], OwnerOf[l], TargetOf[l]}
Lacks(map, e) == map[e] \in {None, Placeholder}
Cause(i, map) ==
  \/ i \in Orgs /\ Exists(i) /\ i \notin plan.matched
  \/ i \in Scoped /\ Lacks(map, OrgOf[i])
  \/ i \in Assets /\ Lacks(map, TypeOf[i]) /\ Crowded(TypeOf[i])
  \/ i \in Configs /\ map[TypeOf[i]] = Placeholder /\ Crowded(TypeOf[i])
  \/ Unsaid(i)
  \/ i \in Links /\ (KindOf[i] \notin {"configuration", "asset"} \/ \E e \in Ends(i) : Lacks(map, e))

Behind ==
  run.at # "idle" /\ ~run.dry =>
    /\ \A i \in Items \ Types : Passed(i) /\ Within(i) =>
         /\ i \in run.marks.done \cup run.marks.failed \/ Unsaid(i)
         /\ run.sound /\ i \in run.marks.failed => Cause(i, run.map)
    /\ \A t \in ConfigTypes \cup AssetTypes : Passed(t) /\ run.sound =>
         ~Lacks(run.map, t) \/ Crowded(t)
    /\ run.at = "row" /\ run.phase \in {3, 5} /\ run.sound =>
         \A t \in Sheets[Phases[run.phase]] : Exists(t) => t \in run.named \/ Crowded(t)
    /\ run.at \in {"list", "row"} /\ run.phase \in {3, 5} =>
         \A t \in run.named : t \in Types /\ Exists(t)
    /\ run.at \in {"row", "upload"} /\ run.phase = 7 =>
         \A name \in run.named : \E d \in Docs :
           /\ name = <<OrgOf[d], NameOf[d]>>
           /\ Passed(d) \/ (run.at = "upload" /\ d = Row)

Exclusive == \A i \in Items : i \notin run.marks.done \cap run.marks.failed
                              /\ i \notin disk.marks.done \cap disk.marks.failed

Ended ==
  run.at = "idle" /\ ~run.dry =>
    /\ run.code = "success" =>
         \A i \in Items \ Types : Within(i) => i \in disk.marks.done \/ Unsaid(i)
    /\ run.code = "failures" /\ run.sound =>
         \A i \in disk.marks.failed : Within(i) => Cause(i, disk.map)

RunInv == RunTyped /\ Believed /\ Saved /\ Counted /\ Behind /\ Exclusive /\ Ended
-----------------------------------------------------------------------------
(***************************************************************************)
(* The sync.  Of the organization that it has fetched, a plan of 16 steps; *)
(* what is ahead of it in a step.                                          *)
(***************************************************************************)
SyncT == [at : {"idle", "list", "create", "fetch", "row", "upload", "link"},
          update : BOOLEAN, asked : SUBSET Orgs, orgs : Seq(Orgs), found : SUBSET Orgs,
          new : SUBSET Orgs, known : [Items -> Nat], edited : SUBSET Scoped,
          made : [Items -> Nat], plan : {<<>>} \cup [1 .. 16 -> SUBSET Items],
          step : 0 .. 16, todo : SUBSET Items, before : Nat, failed : BOOLEAN,
          code : {"none", "success", "failures", "died"}]

Working == sync.at \in {"row", "upload", "link"}
Present == Head(sync.orgs)

\* What a step of a plan for an organization can have in it.
RowPasswords(o) == {p \in RowsOf(o, Passwords) : "row" \in Kinds(p)}
Cells == {l \in Links : KindOf[l] = "cell"}
Shape(o) ==
  <<{o}, ConfigTypes, Statuses, AssetTypes, RowsOf(o, Locations), RowsOf(o, Configs),
    RowsOf(o, Assets), RowsOf(o, Docs), Plain(RowsOf(o, Passwords)), RowPasswords(o),
    Cells, LinksOf(o), Configs, Locations, Docs, Passwords>>

\* There are more types of a kind than a list of them shows.
Crowding == \E t \in Types : Crowded(t)

SyncTyped ==
  /\ sync \in SyncT
  /\ \A n \in DOMAIN sync.orgs : sync.orgs[n] \in sync.asked
  /\ \A m, n \in DOMAIN sync.orgs : sync.orgs[m] = sync.orgs[n] => m = n
  /\ sync.at # "idle" => jobs >= 1 /\ sync.before <= faults /\ sync.code = "none"
  /\ sync.at = "create" => sync.todo # {} /\ sync.todo \subseteq Orgs
  /\ Working => /\ sync.orgs # <<>> /\ sync.plan \in [1 .. 16 -> SUBSET Items]
                /\ \A n \in 1 .. 16 : sync.plan[n] \subseteq Shape(Present)[n]
                /\ sync.step \in 1 .. 16 /\ sync.todo # {}
                /\ sync.todo \subseteq sync.plan[sync.step]
                /\ sync.step > 12 => sync.update
  /\ sync.at = "upload" => sync.step \in 5 .. 9
  /\ sync.at = "link" => sync.step = 10
  /\ sync.failed \/ sync.code = "failures" => sync.before < faults \/ Crowding
  /\ sync.at \in {"idle", "list", "create"} => sync.known = Nothing /\ sync.made = Nothing
  /\ sync.at \in {"list", "create"} =>
       \A o \in sync.asked : \E n \in DOMAIN sync.orgs : sync.orgs[n] = o
  /\ sync.at = "idle" => sync.found = {}

Ahead(n) ==
  IF n = sync.step THEN IF sync.at = "row" THEN sync.todo ELSE sync.todo \ {Item}
  ELSE IF n > sync.step THEN sync.plan[n] ELSE {}

\* What is to be created is not on the server, or its list is too long; or it
\* is a custom asset that was not listed because its type was not found.
Missable(i) ==
  \/ ~Exists(i)
  \/ Crowded(i)
  \/ i \in Assets /\ sync.known[TypeOf[i]] = None /\ Exists(TypeOf[i])

Known ==
  /\ \A i \in Items : sync.known[i] \in {None} \cup DOMAIN server[i]
  /\ \A i \in Items : sync.made[i] \in {None} \cup DOMAIN server[i]
  /\ sync.at = "upload" => sync.made[Item] # None /\ server[Item][sync.made[Item]].file # "stored"
  /\ \A o \in sync.found : Exists(o)
  /\ Working => \A n \in 2 .. 10 : \A i \in Ahead(n) : Missable(i)

Linked(o, l) == /\ OrgOf[OwnerOf[l]] = o /\ OrgOf[TargetOf[l]] = o
                /\ KindOf[l] \in SyncKinds

\* An organization that the list was too short for.
Unlisted(o) == o \notin sync.found /\ Exists(o) /\ Crowded(o)

Complete ==
  sync.at # "idle" /\ ~sync.failed =>
    /\ sync.at = "list" /\ sync.new # {} => \A o \in sync.asked : Exists(o)
    /\ sync.at = "create" => \A o \in sync.asked : Exists(o) \/ o \in sync.todo
    /\ sync.at \notin {"list", "create"} =>
         /\ \A o \in sync.asked : o \in sync.found \/ o \in hidden \/ Unlisted(o)
         /\ \A o \in sync.asked :
              \/ \E n \in DOMAIN sync.orgs : sync.orgs[n] = o
              \/ o \in hidden \/ Whole(o) \/ Unlisted(o)
    /\ Working =>
         /\ Exists(Present)
         /\ \A i \in Scoped : OrgOf[i] = Present =>
              /\ Exists(i) \/ PassedOver(i) \/ \E n \in 5 .. 10 : i \in Ahead(n)
              /\ UuidOf(i) # None \/ Missable(i)
         /\ \A a \in Assets : OrgOf[a] = Present => sync.known[TypeOf[a]] # None \/ TypeOf[a] \in Ahead(4)
         /\ \A l \in Links : Linked(Present, l) =>
              \/ Exists(l) \/ l \in Ahead(12)
              \/ sync.step >= 12 /\ None \in {UuidOf(OwnerOf[l]), UuidOf(TargetOf[l])}

SyncInv == SyncTyped /\ Known /\ Complete

Alone == run.at = "idle" \/ sync.at = "idle"

ImportInv == ServerInv /\ RunInv /\ SyncInv /\ Alone
-----------------------------------------------------------------------------
(***************************************************************************)
(* The export.                                                             *)
(***************************************************************************)
LEMMA SheetNames ==
  /\ DOMAIN Sheets = {"organizations", "configuration_types", "configuration_statuses",
                      "custom_asset_types", "locations", "configurations", "custom_assets",
                      "documents", "passwords", "relationships"}
  /\ Sheets["organizations"] = Orgs /\ Sheets["configuration_types"] = ConfigTypes
  /\ Sheets["configuration_statuses"] = Statuses /\ Sheets["custom_asset_types"] = AssetTypes
  /\ Sheets["locations"] = Locations /\ Sheets["configurations"] = Configs
  /\ Sheets["custom_assets"] = Assets /\ Sheets["documents"] = Docs
  /\ Sheets["passwords"] = Passwords /\ Sheets["relationships"] = Links
BY DEF Sheets

LEMMA Apart ==
  /\ Orgs \cap Types = {} /\ Orgs \cap Scoped = {} /\ Orgs \cap Links = {}
  /\ Types \cap Scoped = {} /\ Types \cap Links = {} /\ Scoped \cap Links = {}
<1>1. \A s, t \in DOMAIN Sheets : s # t => Sheets[s] \cap Sheets[t] = {}
  BY ExportAssumption
<1>2. /\ Orgs \cap ConfigTypes = {} /\ Orgs \cap Statuses = {} /\ Orgs \cap AssetTypes = {}
      /\ Orgs \cap Locations = {} /\ Orgs \cap Configs = {} /\ Orgs \cap Assets = {}
      /\ Orgs \cap Docs = {} /\ Orgs \cap Passwords = {} /\ Orgs \cap Links = {}
  BY <1>1, SheetNames
<1>3. /\ ConfigTypes \cap Locations = {} /\ ConfigTypes \cap Configs = {}
      /\ ConfigTypes \cap Assets = {} /\ ConfigTypes \cap Docs = {}
      /\ ConfigTypes \cap Passwords = {} /\ ConfigTypes \cap Links = {}
  BY <1>1, SheetNames
<1>4. /\ Statuses \cap Locations = {} /\ Statuses \cap Configs = {}
      /\ Statuses \cap Assets = {} /\ Statuses \cap Docs = {}
      /\ Statuses \cap Passwords = {} /\ Statuses \cap Links = {}
  BY <1>1, SheetNames
<1>5. /\ AssetTypes \cap Locations = {} /\ AssetTypes \cap Configs = {}
      /\ AssetTypes \cap Assets = {} /\ AssetTypes \cap Docs = {}
      /\ AssetTypes \cap Passwords = {} /\ AssetTypes \cap Links = {}
  BY <1>1, SheetNames
<1>6. /\ Links \cap Locations = {} /\ Links \cap Configs = {} /\ Links \cap Assets = {}
      /\ Links \cap Docs = {} /\ Links \cap Passwords = {}
  BY <1>1, SheetNames
<1> QED
  BY <1>2, <1>3, <1>4, <1>5, <1>6 DEF Types, Scoped

\* The rows of one organization are in five sheets.
LEMMA RowsApart ==
  /\ Locations \cap Configs = {} /\ Locations \cap Assets = {} /\ Locations \cap Docs = {}
  /\ Locations \cap Passwords = {} /\ Configs \cap Assets = {} /\ Configs \cap Docs = {}
  /\ Configs \cap Passwords = {} /\ Assets \cap Docs = {} /\ Assets \cap Passwords = {}
  /\ Docs \cap Passwords = {}
  /\ ConfigTypes \cap Statuses = {} /\ ConfigTypes \cap AssetTypes = {}
  /\ Statuses \cap AssetTypes = {}
<1>1. \A s, t \in DOMAIN Sheets : s # t => Sheets[s] \cap Sheets[t] = {}
  BY ExportAssumption
<1> QED
  BY <1>1, SheetNames

LEMMA Named ==
  /\ \A i \in Scoped : OrgOf[i] \in Orgs
  /\ \A c \in Configs : TypeOf[c] \in ConfigTypes /\ StatusOf[c] \in Statuses
  /\ \A a \in Assets : TypeOf[a] \in AssetTypes
  /\ \A l \in Links : OwnerOf[l] \in Passwords /\ TargetOf[l] \in Scoped
  /\ \A l \in Links : OwnerOf[l] \in Scoped
BY ExportAssumption DEF Scoped
-----------------------------------------------------------------------------
(***************************************************************************)
(* What the server does.                                                   *)
(***************************************************************************)
\* What was there stays as it was, but for texts and files; a file stays.
Kept(i, n) ==
  LET old == server[i][n]
      new == server'[i][n]
  IN  /\ new.by = old.by
      /\ i \in Links => new = old
      /\ i \notin Links => /\ new.type = old.type /\ new.status = old.status
                           /\ old.file = "stored" => new.file = "stored"
Lasting ==
  /\ ServerTyped'
  /\ \A i \in Items : /\ Len(server[i]) <= Len(server'[i])
                      /\ \A n \in 1 .. Len(server[i]) : Kept(i, n)

\* Nothing is created.
Settled == Lasting /\ \A i \in Items : Len(server'[i]) = Len(server[i])

\* One row is created.
Gains(i, row) ==
  /\ Lasting
  /\ i \in Items /\ server'[i] = Append(server[i], row)
  /\ Len(server'[i]) = Len(server[i]) + 1 /\ server'[i][Len(server[i]) + 1] = row
  /\ \A n \in 1 .. Len(server[i]) : server'[i][n] = server[i][n]
  /\ \A j \in Items \ {i} : server'[j] = server[j]

RowT(i) == IF i \in Links THEN LinkT ELSE CopyT

LEMMA ItemSeqs ==
  ASSUME ServerTyped, NEW i \in Items
  PROVE  server[i] \in Seq(RowT(i)) /\ Len(server[i]) \in Nat
<1>1. server[i] \in Seq(RowT(i))
  BY DEF ServerTyped, RowT
<1> QED
  BY <1>1

LEMMA PostDone ==
  ASSUME ServerTyped, NEW i \in Items, NEW row \in RowT(i), NEW answer, Post(i, row, answer),
         UNCHANGED jobs
  PROVE  /\ faults' \in Nat /\ faults' >= faults
         /\ answer \in {"created", "conflict", "refused", "lost"}
         /\ answer = "conflict" <=> Taken(i, row)
         /\ answer \in {"refused", "lost"} <=> faults' > faults
         /\ answer \in {"created", "lost"} => Gains(i, row)
         /\ answer \in {"conflict", "refused"} => UNCHANGED server
<1>1. /\ faults' \in Nat /\ faults' >= faults
      /\ answer \in {"created", "conflict", "refused", "lost"}
      /\ answer = "conflict" <=> Taken(i, row)
      /\ answer \in {"refused", "lost"} <=> faults' > faults
  BY DEF Post, ServerTyped
<1>2. answer \in {"conflict", "refused"} => UNCHANGED server
  BY DEF Post
<1>3. ASSUME answer \in {"created", "lost"} PROVE Gains(i, row)
  <2>1. server' = [server EXCEPT ![i] = Append(@, row)]
    BY <1>3 DEF Post
  <2>2. server[i] \in Seq(RowT(i))
    BY ItemSeqs
  <2>3. /\ server'[i] = Append(server[i], row) /\ server'[i] \in Seq(RowT(i))
        /\ \A j \in Items \ {i} : server'[j] = server[j]
    BY <2>1, <2>2 DEF ServerTyped
  <2>4. /\ Len(server'[i]) = Len(server[i]) + 1 /\ server'[i][Len(server[i]) + 1] = row
        /\ \A n \in 1 .. Len(server[i]) : server'[i][n] = server[i][n]
    BY <2>2, <2>3
  <2>5. ServerTyped'
    <3>1. server' = [j \in Items |-> server'[j]]
      BY <2>1 DEF ServerTyped
    <3>2. \A j \in Items \ Links : server'[j] \in Seq(CopyT)
      BY <2>3 DEF ServerTyped, RowT
    <3>3. \A l \in Links : server'[l] \in Seq(LinkT)
      BY <2>3 DEF ServerTyped, RowT, Items
    <3> QED
      BY <1>1, <3>1, <3>2, <3>3 DEF ServerTyped
  <2>6. Lasting
    BY <2>3, <2>4, <2>5, ItemSeqs DEF Lasting, Kept
  <2> QED
    BY <2>3, <2>4, <2>6 DEF Gains
<1> QED
  BY <1>1, <1>2, <1>3

\* One copy changes, in a field that nothing depends on.
Alike(new, old) ==
  /\ new \in CopyT
  /\ new.by = old.by /\ new.type = old.type /\ new.status = old.status
  /\ old.file = "stored" => new.file = "stored"

LEMMA RowChanged ==
  ASSUME ServerTyped, NEW i \in Items \ Links, NEW t, server' = [server EXCEPT ![i] = t],
         DOMAIN t = DOMAIN server[i], t = [n \in DOMAIN t |-> t[n]],
         \A n \in DOMAIN server[i] : Alike(t[n], server[i][n]),
         jobs' \in 0 .. MaxJobs, faults' \in Nat
  PROVE  Settled
<1>1. server[i] \in Seq(CopyT) /\ Len(server[i]) \in Nat /\ DOMAIN server[i] = 1 .. Len(server[i])
  BY ItemSeqs DEF RowT
<1>2. t \in Seq(CopyT) /\ Len(t) = Len(server[i])
  BY <1>1 DEF Alike
<1>3. /\ server' = [j \in Items |-> server'[j]]
      /\ server'[i] = t /\ \A j \in Items \ {i} : server'[j] = server[j]
  BY DEF ServerTyped
<1>4. ServerTyped'
  BY <1>2, <1>3 DEF ServerTyped, Items
<1>5. \A j \in Items : Len(server'[j]) = Len(server[j]) /\ Len(server[j]) \in Nat
  BY <1>2, <1>3, ItemSeqs
<1>6. \A j \in Items : \A n \in 1 .. Len(server[j]) : Kept(j, n)
  BY <1>1, <1>3 DEF Kept, Alike
<1> QED
  BY <1>4, <1>5, <1>6 DEF Settled, Lasting

LEMMA TextChanged ==
  ASSUME ServerTyped, NEW i \in Items \ Links, NEW u, NEW text \in Texts,
         server' = [server EXCEPT ![i][u].text = text], jobs' \in 0 .. MaxJobs, faults' \in Nat
  PROVE  Settled
<1> DEFINE t == [server[i] EXCEPT ![u].text = text]
<1>1. server[i] \in Seq(CopyT)
  BY ItemSeqs DEF RowT
<1>2. DOMAIN t = DOMAIN server[i] /\ t = [n \in DOMAIN t |-> t[n]]
  BY <1>1
<1>3. \A n \in DOMAIN server[i] : n # u => t[n] = server[i][n]
  BY <1>1
<1>4. u \in DOMAIN server[i] => t[u] = [server[i][u] EXCEPT !.text = text]
  BY <1>1
<1>5. \A n \in DOMAIN server[i] : server[i][n] \in CopyT
  BY <1>1
<1>6. \A c \in CopyT : Alike([c EXCEPT !.text = text], c) /\ Alike(c, c)
  BY DEF CopyT, Alike
<1>7. \A n \in DOMAIN server[i] : Alike(t[n], server[i][n])
  BY <1>3, <1>4, <1>5, <1>6
<1>8. server' = [server EXCEPT ![i] = t]
  OBVIOUS
<1> HIDE DEF t
<1> QED
  BY <1>2, <1>7, <1>8, RowChanged

LEMMA FileChanged ==
  ASSUME ServerTyped, NEW i \in Items \ Links, NEW u, NEW file \in Files,
         server' = [server EXCEPT ![i][u].file = file], jobs' \in 0 .. MaxJobs, faults' \in Nat,
         u \in DOMAIN server[i] => server[i][u].file # "stored"
  PROVE  Settled
<1> DEFINE t == [server[i] EXCEPT ![u].file = file]
<1>1. server[i] \in Seq(CopyT)
  BY ItemSeqs DEF RowT
<1>2. DOMAIN t = DOMAIN server[i] /\ t = [n \in DOMAIN t |-> t[n]]
  BY <1>1
<1>3. \A n \in DOMAIN server[i] : n # u => t[n] = server[i][n]
  BY <1>1
<1>4. u \in DOMAIN server[i] => t[u] = [server[i][u] EXCEPT !.file = file]
  BY <1>1
<1>5. \A n \in DOMAIN server[i] : server[i][n] \in CopyT
  BY <1>1
<1>6. \A c \in CopyT : /\ c.file # "stored" => Alike([c EXCEPT !.file = file], c)
                       /\ Alike(c, c)
  BY DEF CopyT, Alike
<1>7. \A n \in DOMAIN server[i] : Alike(t[n], server[i][n])
  BY <1>3, <1>4, <1>5, <1>6
<1>8. server' = [server EXCEPT ![i] = t]
  OBVIOUS
<1> HIDE DEF t
<1> QED
  BY <1>2, <1>7, <1>8, RowChanged

LEMMA NothingCreated ==
  ASSUME ServerTyped, UNCHANGED server, jobs' \in 0 .. MaxJobs, faults' \in Nat
  PROVE  Settled
<1>1. ServerTyped'
  BY DEF ServerTyped
<1> QED
  BY <1>1, ItemSeqs DEF Settled, Lasting, Kept

LEMMA Lasts ==
  ASSUME ServerTyped, Lasting
  PROVE  /\ \A i \in Items : Exists(i) => Exists(i)'
         /\ \A i \in Items : DOMAIN server[i] \subseteq DOMAIN server'[i]
         /\ \A i \in Items : DOMAIN server[i] = 1 .. Len(server[i]) /\ Len(server[i]) \in Nat
         /\ \A i \in Items : DOMAIN server'[i] = 1 .. Len(server'[i]) /\ Len(server'[i]) \in Nat
         /\ \A i \in Orgs \cup Scoped :
              (\E n \in 1 .. Len(server[i]) : server[i][n].file = "stored")
              => \E n \in 1 .. Len(server'[i]) : server'[i][n].file = "stored"
<1>1. \A i \in Items : /\ Len(server[i]) \in Nat /\ DOMAIN server[i] = 1 .. Len(server[i])
                       /\ server[i] # <<>> <=> Len(server[i]) > 0
  BY ItemSeqs
<1>2. \A i \in Items : /\ Len(server'[i]) \in Nat /\ DOMAIN server'[i] = 1 .. Len(server'[i])
                       /\ server'[i] # <<>> <=> Len(server'[i]) > 0
  <2> SUFFICES ASSUME NEW i \in Items
               PROVE  /\ Len(server'[i]) \in Nat /\ DOMAIN server'[i] = 1 .. Len(server'[i])
                      /\ server'[i] # <<>> <=> Len(server'[i]) > 0
    OBVIOUS
  <2>1. server'[i] \in Seq(RowT(i))
    BY DEF Lasting, ServerTyped, RowT
  <2> QED
    BY <2>1
<1>3. \A i \in Orgs \cup Scoped : i \in Items /\ i \notin Links
  BY Apart DEF Items
<1> QED
  BY <1>1, <1>2, <1>3 DEF Lasting, Exists, Kept

\* A list that was too long for one answer is too long ever after.
LEMMA ItemSheetName ==
  ASSUME NEW i \in Items
  PROVE  SheetName(i) \in DOMAIN Sheets /\ i \in Sheets[SheetName(i)]
<1>1. \E s \in DOMAIN Sheets : i \in Sheets[s]
  BY SheetNames DEF Items, Types, Scoped
<1> QED
  BY <1>1 DEF SheetName

LEMMA SheetsFinite ==
  ASSUME NEW s \in DOMAIN Sheets
  PROVE  IsFiniteSet(Sheets[s])
<1>1. /\ Rows[s] \in Seq(Sheets[s])
      /\ \A i \in Sheets[s] : \E n \in DOMAIN Rows[s] : Rows[s][n] = i
  BY ExportAssumption
<1>2. /\ Len(Rows[s]) \in Nat /\ DOMAIN Rows[s] = 1 .. Len(Rows[s])
      /\ Rows[s] \in [1 .. Len(Rows[s]) -> Sheets[s]]
  BY <1>1
<1>3. IsFiniteSet(1 .. Len(Rows[s]))
  BY <1>2, FS_Interval
<1>4. Rows[s] \in Surjection(1 .. Len(Rows[s]), Sheets[s])
  BY <1>1, <1>2 DEF Surjection
<1> QED
  BY <1>3, <1>4, FS_Surjection

Shelf(held, i) == UNION {{j} \X DOMAIN held[j] : j \in Neighbours(i)}

LEMMA ShelfFinite ==
  ASSUME NEW i \in Items, NEW held, \A j \in Items : IsFiniteSet(DOMAIN held[j])
  PROVE  IsFiniteSet(Shelf(held, i)) /\ Neighbours(i) \subseteq Items
<1>1. SheetName(i) \in DOMAIN Sheets
  BY ItemSheetName
<1>2. Sheets[SheetName(i)] \subseteq Items
  BY <1>1, SheetNames DEF Items, Types, Scoped
<1>3. Neighbours(i) \subseteq Sheets[SheetName(i)] /\ Neighbours(i) \subseteq Items
  BY <1>2 DEF Neighbours
<1>4. IsFiniteSet(Neighbours(i))
  BY <1>1, <1>3, SheetsFinite, FS_Subset
<1> DEFINE Held == [j \in Neighbours(i) |-> {j} \X DOMAIN held[j]]
           All == {{j} \X DOMAIN held[j] : j \in Neighbours(i)}
<1>5. Held \in Surjection(Neighbours(i), All)
  BY DEF Surjection
<1>6. IsFiniteSet(All)
  BY <1>4, <1>5, FS_Surjection
<1>7. ASSUME NEW T \in All PROVE IsFiniteSet(T)
  <2>1. PICK j \in Neighbours(i) : T = {j} \X DOMAIN held[j]
    BY <1>7
  <2>2. IsFiniteSet(DOMAIN held[j])
    BY <1>3
  <2>3. IsFiniteSet({j})
    BY FS_Singleton
  <2> QED
    BY <2>1, <2>2, <2>3, FS_Product
<1>8. IsFiniteSet(UNION All)
  BY <1>6, <1>7, FS_UNION
<1> QED
  BY <1>3, <1>8 DEF Shelf

LEMMA CrowdedGrows ==
  ASSUME ServerTyped, ServerTyped', \A j \in Items : DOMAIN server[j] \subseteq DOMAIN server'[j]
  PROVE  \A i \in Items : Crowded(i) => Crowded(i)'
<1> SUFFICES ASSUME NEW i \in Items, Crowded(i) PROVE Crowded(i)'
  OBVIOUS
<1>1. \A j \in Items : /\ DOMAIN server[j] = 1 .. Len(server[j]) /\ Len(server[j]) \in Nat
                       /\ DOMAIN server'[j] = 1 .. Len(server'[j]) /\ Len(server'[j]) \in Nat
                       /\ DOMAIN server[j] \subseteq DOMAIN server'[j]
  <2>1. \A j \in Items : DOMAIN server[j] = 1 .. Len(server[j]) /\ Len(server[j]) \in Nat
    BY ItemSeqs
  <2>2. \A j \in Items : server'[j] \in Seq(RowT(j))
    BY DEF ServerTyped, RowT
  <2> QED
    BY <2>1, <2>2
<1>2. \A j \in Items : IsFiniteSet(DOMAIN server[j]) /\ IsFiniteSet(DOMAIN server'[j])
  <2> SUFFICES ASSUME NEW j \in Items
               PROVE  IsFiniteSet(DOMAIN server[j]) /\ IsFiniteSet(DOMAIN server'[j])
    OBVIOUS
  <2>1. IsFiniteSet(1 .. Len(server[j])) /\ IsFiniteSet(1 .. Len(server'[j]))
    BY <1>1, FS_Interval
  <2> QED
    BY <1>1, <2>1
<1>3. /\ IsFiniteSet(Shelf(server, i)) /\ IsFiniteSet(Shelf(server', i))
      /\ Neighbours(i) \subseteq Items
  BY <1>2, ShelfFinite
<1>4. Shelf(server, i) \subseteq Shelf(server', i)
  BY <1>1, <1>3 DEF Shelf
<1>5. /\ Cardinality(Shelf(server, i)) <= Cardinality(Shelf(server', i))
      /\ Cardinality(Shelf(server, i)) \in Nat /\ Cardinality(Shelf(server', i)) \in Nat
  BY <1>3, <1>4, FS_Subset, FS_CardinalityType
<1>6. Places[SheetName(i)] \in Nat
  BY ItemSheetName, PlacesAssumption
<1>7. Cardinality(Shelf(server, i)) > Places[SheetName(i)]
  BY DEF Crowded, Shelf
<1>8. Cardinality(Shelf(server', i)) > Places[SheetName(i)]
  BY <1>5, <1>6, <1>7
<1> QED
  BY <1>8 DEF Crowded, Shelf

LEMMA CrowdedStays ==
  ASSUME ServerTyped, Lasting
  PROVE  \A i \in Items : Crowded(i) => Crowded(i)'
<1>1. ServerTyped' /\ \A j \in Items : DOMAIN server[j] \subseteq DOMAIN server'[j]
  BY Lasts DEF Lasting
<1> QED
  BY <1>1, CrowdedGrows

LEMMA CrowdingStays ==
  ASSUME ServerTyped, Lasting, Crowding
  PROVE  Crowding'
<1>1. \A t \in Types : t \in Items
  BY DEF Items
<1>2. \E t \in Types : Crowded(t)'
  BY <1>1, CrowdedStays DEF Crowding
<1> QED
  BY <1>2 DEF Crowding, Types

LEMMA CrowdedAsBefore ==
  ASSUME UNCHANGED server
  PROVE  \A i : Crowded(i)' <=> Crowded(i)
BY DEF Crowded, Neighbours, SheetName, Sheets, Scoped

\* What a list does not show is on a list that is too long.
LEMMA ListedRest ==
  ASSUME NEW rows, NEW shown \in Listed(rows)
  PROVE  /\ shown \subseteq rows
         /\ \A i \in rows : i \in shown \/ Crowded(i)
BY DEF Listed

LEMMA OnlyOrgsAndTypes == \A i \in Orgs \cup Types : i \in Items /\ i \notin Links /\ i \notin Scoped
BY Apart DEF Items

LEMMA SettledKeeps ==
  ASSUME ServerInv, Settled
  PROVE  ServerInv' /\ \A i \in Items : Exists(i)' <=> Exists(i)
<1>1. /\ \A i \in Items : DOMAIN server'[i] = DOMAIN server[i]
      /\ \A i \in Items : DOMAIN server[i] = 1 .. Len(server[i])
  BY Lasts DEF ServerInv, Settled
<1>2. OnlyOne'
  BY OnlyOrgsAndTypes DEF ServerInv, OnlyOne, Settled
<1>3. ASSUME NEW i \in Items, NEW n \in DOMAIN server'[i]
      PROVE  Resolves(i, server[i][n])'
  <2>1. n \in 1 .. Len(server[i]) /\ Kept(i, n) /\ Resolves(i, server[i][n])
    BY <1>1, <1>3 DEF ServerInv, Settled, Lasting
  <2>2. i \in Configs => /\ i \notin Links
                         /\ DOMAIN server'[TypeOf[i]] = DOMAIN server[TypeOf[i]]
                         /\ DOMAIN server'[StatusOf[i]] = DOMAIN server[StatusOf[i]]
    BY <1>1, Named, Apart DEF Items, Scoped, Types
  <2>3. i \in Assets => i \notin Links /\ DOMAIN server'[TypeOf[i]] = DOMAIN server[TypeOf[i]]
    BY <1>1, Named, Apart DEF Items, Scoped, Types
  <2>4. i \in Links => /\ DOMAIN server'[OwnerOf[i]] = DOMAIN server[OwnerOf[i]]
                       /\ DOMAIN server'[TargetOf[i]] = DOMAIN server[TargetOf[i]]
    BY <1>1, Named DEF Items
  <2> QED
    BY <2>1, <2>2, <2>3, <2>4 DEF Resolves, Kept
<1>4. \A i \in Items : Exists(i)' <=> Exists(i)
  BY <1>1 DEF Exists, ServerInv, ServerTyped, Settled, Lasting
<1> QED
  BY <1>2, <1>3, <1>4 DEF ServerInv, Settled, Lasting

LEMMA GainsKeeps ==
  ASSUME ServerInv, NEW i, NEW row, Gains(i, row), Resolves(i, row),
         i \in Orgs \cup Types => ~Exists(i)
  PROVE  /\ ServerInv' /\ Exists(i)' /\ \A j \in Items \ {i} : Exists(j)' <=> Exists(j)
         /\ DOMAIN server'[i] = 1 .. Len(server[i]) + 1
         /\ ~Exists(i) => Len(server[i]) = 0
<1>1. /\ \A j \in Items : DOMAIN server[j] \subseteq DOMAIN server'[j]
      /\ \A j \in Items : DOMAIN server[j] = 1 .. Len(server[j]) /\ Len(server[j]) \in Nat
      /\ DOMAIN server'[i] = 1 .. Len(server[i]) + 1
  BY Lasts DEF ServerInv, Gains
<1>2. ~Exists(i) => Len(server[i]) = 0
  BY ItemSeqs DEF Exists, Gains, ServerInv
<1>3. OnlyOne'
  BY <1>2, OnlyOrgsAndTypes DEF ServerInv, OnlyOne, Gains
<1>4. ASSUME NEW j \in Items, NEW n \in DOMAIN server'[j]
      PROVE  Resolves(j, server[j][n])'
  <2>1. Resolves(j, server'[j][n])
    BY <1>1, <1>4 DEF ServerInv, Gains
  <2>2. j \in Configs => TypeOf[j] \in Items /\ StatusOf[j] \in Items
    BY Named DEF Items, Types
  <2>3. j \in Assets => TypeOf[j] \in Items
    BY Named DEF Items, Types
  <2>4. j \in Links => OwnerOf[j] \in Items /\ TargetOf[j] \in Items
    BY Named DEF Items
  <2> QED
    BY <1>1, <2>1, <2>2, <2>3, <2>4 DEF Resolves
<1>5. Exists(i)' /\ \A j \in Items \ {i} : Exists(j)' <=> Exists(j)
  <2>1. server'[i] # <<>>
    BY <1>1, ItemSeqs DEF Gains, ServerInv
  <2> QED
    BY <2>1 DEF Exists, Gains
<1> QED
  BY <1>1, <1>2, <1>3, <1>4, <1>5 DEF ServerInv, Gains, Lasting

LEMMA SameCopies ==
  ASSUME ServerTyped, Settled
  PROVE  /\ \A i \in Items : \A by : Copies(i, by)' = Copies(i, by)
         /\ \A l \in Links : \A n \in Copies(l, "run") : server'[l][n] = server[l][n]
         /\ \A i \in Items : DOMAIN server'[i] = DOMAIN server[i]
         /\ \A i \in Items : Exists(i)' <=> Exists(i)
<1>1. /\ \A i \in Items : DOMAIN server[i] = 1 .. Len(server[i]) /\ Len(server[i]) \in Nat
      /\ \A i \in Items : DOMAIN server'[i] = 1 .. Len(server'[i]) /\ Len(server'[i]) = Len(server[i])
  BY Lasts DEF Settled
<1>2. \A i \in Items : \A by : Copies(i, by)' = Copies(i, by)
  BY <1>1 DEF Copies, Settled, Lasting, Kept
<1>3. \A l \in Links : \A n \in Copies(l, "run") : server'[l][n] = server[l][n]
  BY <1>1 DEF Copies, Settled, Lasting, Kept, Items
<1>4. \A i \in Items : Exists(i)' <=> Exists(i)
  <2> SUFFICES ASSUME NEW i \in Items PROVE Exists(i)' <=> Exists(i)
    OBVIOUS
  <2>1. server[i] # <<>> <=> Len(server[i]) # 0
    BY ItemSeqs
  <2>2. server'[i] \in Seq(RowT(i))
    BY DEF Settled, Lasting, ServerTyped, RowT
  <2>3. server'[i] # <<>> <=> Len(server'[i]) # 0
    BY <2>2
  <2> QED
    BY <1>1, <2>1, <2>3 DEF Exists
<1> QED
  BY <1>1, <1>2, <1>3, <1>4
-----------------------------------------------------------------------------
(***************************************************************************)
(* The rows of a run.                                                      *)
(***************************************************************************)
LEMMA PhaseNames ==
  /\ Phases[1] = "organizations" /\ Phases[2] = "locations"
  /\ Phases[3] = "configuration_types" /\ Phases[4] = "configurations"
  /\ Phases[5] = "custom_asset_types" /\ Phases[6] = "custom_assets"
  /\ Phases[7] = "documents" /\ Phases[8] = "passwords" /\ Phases[9] = "relationships"
  /\ Final = 10
BY DEF Phases, Final

LEMMA SheetOf ==
  ASSUME NEW p \in 1 .. 9
  PROVE  /\ Phases[p] \in DOMAIN Sheets
         /\ Sheet(p) \in Seq(Sheets[Phases[p]]) /\ Len(Sheet(p)) \in Nat
         /\ DOMAIN Sheet(p) = 1 .. Len(Sheet(p))
         /\ \A n \in DOMAIN Sheet(p) : Sheet(p)[n] \in Sheets[Phases[p]]
         /\ \A m, n \in DOMAIN Sheet(p) : Sheet(p)[m] = Sheet(p)[n] => m = n
<1>1. p = 1 \/ p = 2 \/ p = 3 \/ p = 4 \/ p = 5 \/ p = 6 \/ p = 7 \/ p = 8 \/ p = 9
  OBVIOUS
<1>2. Phases[p] \in DOMAIN Sheets
  BY <1>1, PhaseNames, SheetNames
<1>3. /\ Sheet(p) \in Seq(Sheets[Phases[p]])
      /\ \A m, n \in DOMAIN Sheet(p) : Sheet(p)[m] = Sheet(p)[n] => m = n
  BY <1>2, ExportAssumption DEF Sheet
<1> QED
  BY <1>2, <1>3

\* A row is in one sheet, and the sheets of a run hold all but the statuses.
LEMMA OnePhase ==
  ASSUME NEW p \in 1 .. 9, NEW q \in 1 .. 9, NEW m \in DOMAIN Sheet(p), NEW n \in DOMAIN Sheet(q),
         Sheet(p)[m] = Sheet(q)[n]
  PROVE  p = q /\ m = n
<1>1. \A a, b \in 1 .. 9 : Phases[a] = Phases[b] => a = b
  <2>1. \A a \in 1 .. 9 : a = 1 \/ a = 2 \/ a = 3 \/ a = 4 \/ a = 5 \/ a = 6 \/ a = 7 \/ a = 8 \/ a = 9
    OBVIOUS
  <2> QED
    BY <2>1, PhaseNames
<1>2. Sheets[Phases[p]] \cap Sheets[Phases[q]] # {}
  BY SheetOf
<1>3. Phases[p] = Phases[q]
  BY <1>2, SheetOf, ExportAssumption
<1> QED
  BY <1>1, <1>3, SheetOf

LEMMA EveryRow ==
  ASSUME NEW i \in Items \ Statuses
  PROVE  \E p \in 1 .. 9 : \E n \in DOMAIN Sheet(p) : Sheet(p)[n] = i
<1>1. \A s \in DOMAIN Sheets : i \in Sheets[s] => \E n \in DOMAIN Rows[s] : Rows[s][n] = i
  BY ExportAssumption
<1>2. \/ i \in Sheets[Phases[1]] \/ i \in Sheets[Phases[2]] \/ i \in Sheets[Phases[3]]
      \/ i \in Sheets[Phases[4]] \/ i \in Sheets[Phases[5]] \/ i \in Sheets[Phases[6]]
      \/ i \in Sheets[Phases[7]] \/ i \in Sheets[Phases[8]] \/ i \in Sheets[Phases[9]]
  BY PhaseNames, SheetNames DEF Items, Types, Scoped
<1>3. PICK p \in 1 .. 9 : i \in Sheets[Phases[p]]
  BY <1>2
<1> QED
  BY <1>1, <1>3, SheetOf DEF Sheet

\* What the phase says of the row.
RowAt(p, i) ==
  /\ p = 1 => i \in Orgs
  /\ p = 2 => i \in Locations
  /\ p = 3 => i \in ConfigTypes
  /\ p = 4 => i \in Configs
  /\ p = 5 => i \in AssetTypes
  /\ p = 6 => i \in Assets
  /\ p = 7 => i \in Docs
  /\ p = 8 => i \in Passwords
  /\ p = 9 => i \in Links

LEMMA RowPhase ==
  ASSUME NEW p \in 1 .. 9, NEW i \in Sheets[Phases[p]]
  PROVE  RowAt(p, i) /\ i \in Items
<1>1. p = 1 \/ p = 2 \/ p = 3 \/ p = 4 \/ p = 5 \/ p = 6 \/ p = 7 \/ p = 8 \/ p = 9
  OBVIOUS
<1>2. RowAt(p, i)
  BY <1>1, PhaseNames, SheetNames DEF RowAt
<1> QED
  BY <1>1, <1>2 DEF RowAt, Items, Types, Scoped

\* And what the row says of the phase.
LEMMA PhaseRow ==
  ASSUME NEW p \in 1 .. 9, NEW i, RowAt(p, i)
  PROVE  /\ i \in Orgs <=> p = 1
         /\ i \in Scoped <=> p \in {2, 4, 6, 7, 8}
         /\ i \in Types <=> p \in {3, 5}
         /\ i \in Links <=> p = 9
<1>1. p = 1 \/ p = 2 \/ p = 3 \/ p = 4 \/ p = 5 \/ p = 6 \/ p = 7 \/ p = 8 \/ p = 9
  OBVIOUS
<1>2. /\ p = 1 => i \in Orgs
      /\ p = 2 => i \in Locations
      /\ p = 3 => i \in ConfigTypes
      /\ p = 4 => i \in Configs
      /\ p = 5 => i \in AssetTypes
      /\ p = 6 => i \in Assets
      /\ p = 7 => i \in Docs
      /\ p = 8 => i \in Passwords
      /\ p = 9 => i \in Links
  BY DEF RowAt
<1>3. /\ p \in {2, 4, 6, 7, 8} => i \in Scoped
      /\ p \in {3, 5} => i \in Types
  BY <1>2 DEF Scoped, Types
<1> QED
  BY <1>1, <1>2, <1>3, Apart

LEMMA PassedAt ==
  ASSUME NEW i, Passed(i), run \in RunT
  PROVE  \E p \in 1 .. 9 : RowAt(p, i) /\ i \in Items /\ p <= run.phase
<1>1. PICK p \in 1 .. 9 : \E n \in DOMAIN Sheet(p) :
        Sheet(p)[n] = i /\ (p < run.phase \/ (p = run.phase /\ n < run.pos))
  BY DEF Passed
<1>2. PICK n \in DOMAIN Sheet(p) :
        Sheet(p)[n] = i /\ (p < run.phase \/ (p = run.phase /\ n < run.pos))
  BY <1>1
<1>3. i \in Sheets[Phases[p]]
  BY <1>2, SheetOf
<1>4. RowAt(p, i) /\ i \in Items
  BY <1>3, RowPhase
<1>5. run.phase \in 0 .. 10
  BY PhaseNames DEF RunT
<1> QED
  BY <1>2, <1>4, <1>5

\* The row in hand is not one of those behind.
LEMMA RowFacts ==
  ASSUME RunTyped, run.at \in {"row", "upload"}, run.phase < Final,
         run.pos <= Len(Rows[Phases[run.phase]])
  PROVE  /\ run.phase \in 1 .. 9 /\ run.pos \in DOMAIN Sheet(run.phase) /\ run.pos \in Nat
         /\ Row = Sheet(run.phase)[run.pos] /\ Row \in Items
         /\ Row \in Sheets[Phases[run.phase]] /\ RowAt(run.phase, Row)
         /\ ~Passed(Row)
<1>1. /\ run.phase \in 1 .. 9 /\ run.pos \in DOMAIN Sheet(run.phase) /\ run.pos \in Nat
      /\ Row = Sheet(run.phase)[run.pos]
  <2>1. run.phase \in 1 .. 9 /\ run.pos \in Nat \ {0}
    BY DEF RunTyped
  <2>2. Rows[Phases[run.phase]] = Sheet(run.phase) /\ Row = Sheet(run.phase)[run.pos]
    BY DEF Row, Sheet
  <2>3. DOMAIN Sheet(run.phase) = 1 .. Len(Sheet(run.phase)) /\ Len(Sheet(run.phase)) \in Nat
    BY <2>1, SheetOf
  <2> QED
    BY <2>1, <2>2, <2>3
<1>2. Row \in Sheets[Phases[run.phase]] /\ RowAt(run.phase, Row) /\ Row \in Items
  BY <1>1, SheetOf, RowPhase
<1>3. ASSUME Passed(Row) PROVE FALSE
  <2>1. PICK p \in 1 .. 9 : \E n \in DOMAIN Sheet(p) :
          Sheet(p)[n] = Row /\ (p < run.phase \/ (p = run.phase /\ n < run.pos))
    BY <1>3 DEF Passed
  <2>2. PICK n \in DOMAIN Sheet(p) :
          Sheet(p)[n] = Row /\ (p < run.phase \/ (p = run.phase /\ n < run.pos))
    BY <2>1
  <2>3. p = run.phase /\ n = run.pos
    BY <1>1, <2>2, OnePhase
  <2>4. n < run.pos
    BY <1>1, <2>2, <2>3
  <2> QED
    BY <1>1, <2>3, <2>4
<1> QED
  BY <1>1, <1>2, <1>3

\* When the run goes on to the next row, that one is behind it too.
LEMMA PassedOn ==
  ASSUME RunTyped, run.at \in {"row", "upload"}, run.phase < Final,
         run.pos <= Len(Rows[Phases[run.phase]]),
         run'.phase = run.phase, run'.pos = run.pos + 1
  PROVE  \A i : Passed(i)' <=> Passed(i) \/ i = Row
<1>1. /\ run.phase \in 1 .. 9 /\ run.pos \in DOMAIN Sheet(run.phase) /\ run.pos \in Nat
      /\ Row = Sheet(run.phase)[run.pos]
  BY RowFacts
<1>2. \A p \in 1 .. 9 : \A n \in DOMAIN Sheet(p) : n \in Nat
  <2> SUFFICES ASSUME NEW p \in 1 .. 9, NEW n \in DOMAIN Sheet(p) PROVE n \in Nat
    OBVIOUS
  <2>1. DOMAIN Sheet(p) = 1 .. Len(Sheet(p)) /\ Len(Sheet(p)) \in Nat
    BY SheetOf
  <2> QED
    BY <2>1
<1>3. \A p \in 1 .. 9 : \A n \in DOMAIN Sheet(p) :
        p = run.phase /\ n < run.pos + 1 <=> p = run.phase /\ (n < run.pos \/ n = run.pos)
  BY <1>1, <1>2
<1> SUFFICES ASSUME NEW i PROVE Passed(i)' <=> Passed(i) \/ i = Row
  OBVIOUS
<1> DEFINE Was(p, n) == p < run.phase \/ (p = run.phase /\ n < run.pos)
           Is(p, n) == p < run'.phase \/ (p = run'.phase /\ n < run'.pos)
<1>4. \A p \in 1 .. 9 : \A n \in DOMAIN Sheet(p) :
        Is(p, n) <=> Was(p, n) \/ (p = run.phase /\ n = run.pos)
  BY <1>1, <1>3
<1>5. Passed(i) <=> \E p \in 1 .. 9 : \E n \in DOMAIN Sheet(p) : Sheet(p)[n] = i /\ Was(p, n)
  BY DEF Passed
<1>6. Passed(i)' <=> \E p \in 1 .. 9 : \E n \in DOMAIN Sheet(p) : Sheet(p)[n] = i /\ Is(p, n)
  BY DEF Passed, Sheet
<1> QED
  BY <1>1, <1>4, <1>5, <1>6
-----------------------------------------------------------------------------
(***************************************************************************)
(* The memory of a run, field by field.                                    *)
(***************************************************************************)
Fields(r, done, failed, map, names, at, pos) ==
  /\ r \in RunT
  /\ r.dry = run.dry /\ r.phase = run.phase /\ r.code = run.code /\ r.scope = run.scope
  /\ r.marks.done = done /\ r.marks.failed = failed
  /\ r.marks.stored = run.marks.stored
  /\ r.map = map /\ r.named = names /\ (r.sound => run.sound) /\ r.at = at /\ r.pos = pos

LEMMA FieldsRun ==
  ASSUME run \in RunT
  PROVE  Fields(run, run.marks.done, run.marks.failed, run.map, run.named, run.at, run.pos)
BY DEF Fields

LEMMA FieldsAdd ==
  ASSUME NEW r, NEW done, NEW failed, NEW map, NEW names, NEW at, NEW pos,
         Fields(r, done, failed, map, names, at, pos),
         NEW i \in Items, NEW u \in Uuids
  PROVE  Fields(Add(r, i, u), done, failed, [map EXCEPT ![i] = u], names, at, pos)
BY DEF Fields, Add, RunT

LEMMA FieldsFailed ==
  ASSUME NEW r, NEW done, NEW failed, NEW map, NEW names, NEW at, NEW pos,
         Fields(r, done, failed, map, names, at, pos),
         NEW i \in Items \ Types
  PROVE  Fields(MarkFailed(r, i), done, failed \cup {i}, map, names, at, pos)
BY DEF Fields, MarkFailed, RunT, MarksT

LEMMA FieldsCompleted ==
  ASSUME NEW r, NEW done, NEW failed, NEW map, NEW names, NEW at, NEW pos,
         Fields(r, done, failed, map, names, at, pos),
         NEW i \in Items \ Types
  PROVE  Fields(MarkCompleted(r, i), done \cup {i}, failed \ {i}, map, names, at, pos)
BY DEF Fields, MarkCompleted, RunT, MarksT

LEMMA FieldsHit ==
  ASSUME NEW r, NEW done, NEW failed, NEW map, NEW names, NEW at, NEW pos,
         Fields(r, done, failed, map, names, at, pos), NEW answer
  PROVE  /\ Fields(Hit(r, answer), done, failed, map, names, at, pos)
         /\ Hit(r, answer).sound => answer \notin {"refused", "lost"}
<1> DEFINE good == r.sound /\ answer \notin {"refused", "lost"}
<1>1. good \in BOOLEAN
  BY DEF Fields, RunT
<1>2. Hit(r, answer) = [r EXCEPT !.sound = good]
  BY DEF Hit
<1>3. good => r.sound /\ answer \notin {"refused", "lost"}
  OBVIOUS
<1> HIDE DEF good
<1>4. Hit(r, answer) \in RunT /\ Hit(r, answer).sound = good
  BY <1>1, <1>2 DEF Fields, RunT
<1>5. LET h == Hit(r, answer)
      IN  /\ h.dry = r.dry /\ h.phase = r.phase /\ h.code = r.code /\ h.marks = r.marks
          /\ h.scope = r.scope
          /\ h.map = r.map /\ h.named = r.named /\ h.at = r.at /\ h.pos = r.pos
  BY <1>2 DEF Fields, RunT
<1>6. Hit(r, answer).sound => r.sound /\ answer \notin {"refused", "lost"}
  BY <1>3, <1>4
<1>7. Fields(Hit(r, answer), done, failed, map, names, at, pos)
  BY <1>4, <1>5, <1>6 DEF Fields
<1> QED
  BY <1>6, <1>7

\* Whether the run is still sound is written in one place.
LEMMA SoundOf ==
  ASSUME NEW r \in RunT, NEW i \in Items \ Types
  PROVE  MarkFailed(r, i).sound = r.sound /\ Onward(r).sound = r.sound
BY DEF MarkFailed, Onward, RunT

LEMMA FieldsNamed ==
  ASSUME NEW r, NEW done, NEW failed, NEW map, NEW names, NEW at, NEW pos,
         Fields(r, done, failed, map, names, at, pos), NEW more \in SUBSET Names
  PROVE  Fields([r EXCEPT !.named = @ \cup more], done, failed, map, names \cup more, at, pos)
BY DEF Fields, RunT

LEMMA FieldsOnward ==
  ASSUME NEW r, NEW done, NEW failed, NEW map, NEW names, NEW at, NEW pos,
         Fields(r, done, failed, map, names, at, pos)
  PROVE  Fields(Onward(r), done, failed, map, names, "row", pos + 1)
<1>1. r \in RunT /\ r.pos = pos /\ pos \in Nat
  BY DEF Fields, RunT
<1> DEFINE next == pos + 1
<1>a. next \in Nat /\ Onward(r) = [r EXCEPT !.at = "row", !.pos = next]
  BY <1>1 DEF Onward
<1> HIDE DEF next
<1>2. Onward(r) \in RunT /\ Onward(r).pos = next /\ Onward(r).at = "row"
  BY <1>1, <1>a DEF RunT
<1>3. LET o == Onward(r)
      IN  /\ o.dry = r.dry /\ o.phase = r.phase /\ o.code = r.code /\ o.marks = r.marks
          /\ o.scope = r.scope
          /\ o.map = r.map /\ o.named = r.named /\ o.sound = r.sound
  BY <1>1 DEF Onward, RunT
<1>4. Fields(Onward(r), done, failed, map, names, "row", next)
  BY <1>2, <1>3 DEF Fields
<1> QED
  BY <1>4 DEF next

LEMMA FieldsUpload ==
  ASSUME NEW r, NEW done, NEW failed, NEW map, NEW names, NEW at, NEW pos,
         Fields(r, done, failed, map, names, at, pos)
  PROVE  Fields([r EXCEPT !.at = "upload"], done, failed, map, names, "upload", pos)
BY DEF Fields, RunT
-----------------------------------------------------------------------------
(***************************************************************************)
(* The row in hand is dealt with.  Whatever the way, the run leaves        *)
(* everything else alone (Beside), and of the row it is settled what the   *)
(* invariant says of those behind (Settles).                               *)
(***************************************************************************)
Beside ==
  /\ AtRow
  /\ UNCHANGED <<hidden, jobs, plan, disk>>
  /\ Lasting /\ excuse' \in [Items -> Nat]
  /\ run' \in RunT /\ run'.dry = run.dry /\ run'.phase = run.phase /\ run'.code = run.code
  /\ run'.scope = run.scope
  /\ run'.marks.stored = run.marks.stored /\ (run'.sound => run.sound)
  /\ \A j \in Items \ {Row} :
       /\ server'[j] = server[j] /\ excuse'[j] = excuse[j]
       /\ run'.map[j] = run.map[j]
       /\ j \in run'.marks.done <=> j \in run.marks.done
       /\ j \in run'.marks.failed <=> j \in run.marks.failed

Settles(i) ==
  /\ i \in run.marks.done => i \in run'.marks.done /\ run'.map[i] = run.map[i]
  /\ i \in run'.marks.done => server'[i] # <<>> /\ i \notin run'.marks.failed
  /\ run'.map[i] \in {None, Placeholder} \cup DOMAIN server'[i]
  /\ i \in Scoped =>
       /\ run'.map[i] \notin {None, Placeholder} => i \in run'.marks.done
       /\ Cardinality(Copies(i, "run")') <= excuse'[i] + IF i \in run'.marks.done THEN 1 ELSE 0
  /\ i \in Links => \A n \in Copies(i, "run")' :
       /\ Knows(OwnerOf[i], server'[i][n].src) /\ Knows(TargetOf[i], server'[i][n].dst)
       /\ \A m \in Copies(i, "run")' : m = n
  /\ ~run.dry =>
       /\ i \notin Types /\ Within(i) => i \in run'.marks.done \cup run'.marks.failed \/ Unsaid(i)
       /\ i \notin Types /\ Within(i) /\ run'.sound /\ i \in run'.marks.failed => Cause(i, run.map)'
       /\ i \in ConfigTypes \cup AssetTypes /\ run'.sound =>
            run'.map[i] \notin {None, Placeholder} \/ Crowded(i)'
       /\ run.phase \in {3, 5} /\ run'.sound =>
            \A t \in Sheets[Phases[run.phase]] : server'[t] # <<>> => t \in run'.named \/ Crowded(t)'
       /\ run.phase \in {3, 5} =>
            \A t \in run'.named : t \in run.named \/ (t = i /\ t \in Types /\ server'[t] # <<>>)
       /\ run.phase = 7 =>
            \A name \in run'.named : name \in run.named \/ name = <<OrgOf[i], NameOf[i]>>

Moves(i) ==
  \/ run'.at = "row" /\ run'.pos = run.pos + 1
  \/ /\ run'.at = "upload" /\ run'.pos = run.pos
     /\ i \in Orgs \cup Scoped /\ i \in run'.marks.done
     /\ run'.map[i] \in DOMAIN server'[i] /\ server'[i][run'.map[i]].file # "stored"

Turn == Beside /\ \A i \in {Row} : Settles(i) /\ Moves(i)

\* Which rows the run has behind it after a turn.
LEMMA TurnPasses ==
  ASSUME RunInv, Turn
  PROVE  /\ run.phase \in 1 .. 9 /\ Row \in Items /\ RowAt(run.phase, Row) /\ ~Passed(Row)
         /\ run'.at = "row" => \A i : Passed(i)' <=> Passed(i) \/ i = Row
         /\ run'.at = "upload" => Row' = Row /\ \A i : Passed(i)' <=> Passed(i)
         /\ run'.at \in {"row", "upload"}
<1>1. AtRow /\ RunTyped
  BY DEF Turn, Beside, RunInv
<1>2. /\ run.phase \in 1 .. 9 /\ Row \in Items /\ RowAt(run.phase, Row) /\ ~Passed(Row)
  BY <1>1, RowFacts DEF AtRow
<1>3. ASSUME run'.at = "row" PROVE \A i : Passed(i)' <=> Passed(i) \/ i = Row
  <2>1. run'.phase = run.phase /\ run'.pos = run.pos + 1
    BY <1>3 DEF Turn, Moves, Beside
  <2> QED
    BY <1>1, <2>1, PassedOn DEF AtRow
<1>4. ASSUME run'.at = "upload" PROVE Row' = Row /\ \A i : Passed(i)' <=> Passed(i)
  <2>1. run'.phase = run.phase /\ run'.pos = run.pos
    BY <1>4 DEF Turn, Moves, Beside
  <2>2. Row' = Row
    BY <2>1 DEF Row
  <2>3. \A i : Passed(i)' <=> Passed(i)
    BY <2>1 DEF Passed, Sheet
  <2> QED
    BY <2>2, <2>3
<1> QED
  BY <1>2, <1>3, <1>4 DEF Turn, Moves

LEMMA TurnTyped ==
  ASSUME RunInv, Turn
  PROVE  RunTyped'
<1>1. /\ run.phase \in 1 .. 9 /\ run.pos \in DOMAIN Sheet(run.phase) /\ run.pos \in Nat
      /\ DOMAIN Sheet(run.phase) = 1 .. Len(Sheet(run.phase)) /\ Len(Sheet(run.phase)) \in Nat
  <2>1. AtRow /\ RunTyped
    BY DEF Turn, Beside, RunInv
  <2>2. run.phase \in 1 .. 9 /\ run.pos \in DOMAIN Sheet(run.phase) /\ run.pos \in Nat
    BY <2>1, RowFacts DEF AtRow
  <2> QED
    BY <2>2, SheetOf
<1>2. run'.at \in {"row", "upload"} /\ run'.phase = run.phase
  BY TurnPasses DEF Turn, Beside
<1>3. run'.pos \in Nat \ {0}
  BY <1>1 DEF Turn, Moves
<1>4. run'.at = "upload" => run'.pos <= Len(Sheet(run.phase)) /\ Row' \in Orgs \cup Scoped
  BY <1>1, TurnPasses DEF Turn, Moves
<1>5. /\ plan' \in [made : BOOLEAN, matched : SUBSET Orgs]
      /\ disk' \in DiskT /\ run' \in RunT /\ excuse' \in [Items -> Nat]
  BY DEF Turn, Beside, RunInv, RunTyped
<1> QED
  BY <1>1, <1>2, <1>3, <1>4, <1>5 DEF RunTyped, Sheet

LEMMA TurnBelieved ==
  ASSUME RunInv, ServerTyped, Turn
  PROVE  Believed'
<1>1. /\ \A i \in Items : server[i] # <<>> => server'[i] # <<>>
      /\ \A i \in Items : DOMAIN server[i] \subseteq DOMAIN server'[i]
      /\ \A i \in Orgs \cup Scoped :
           (\E n \in 1 .. Len(server[i]) : server[i][n].file = "stored")
           => \E n \in 1 .. Len(server'[i]) : server'[i][n].file = "stored"
  BY Lasts DEF Turn, Beside, Exists
<1>2. /\ disk' = disk /\ plan' = plan /\ run'.marks.stored = run.marks.stored
      /\ disk.marks.done \subseteq Items /\ disk.marks.stored \subseteq Orgs \cup Scoped
      /\ run.marks.done \subseteq Items /\ run.marks.stored \subseteq Orgs \cup Scoped
      /\ plan.matched \subseteq Items /\ run'.marks.done \subseteq Items
  BY DEF Turn, Beside, RunInv, RunTyped, DiskT, RunT, MarksT, Items
<1>3. Sound(disk.marks, disk.map)'
  BY <1>1, <1>2 DEF RunInv, Believed, Sound, Exists
<1>4. Sound(run.marks, run.map)'
  <2>1. \A i \in run'.marks.done : server'[i] # <<>>
    BY <1>1, <1>2 DEF RunInv, Believed, Sound, Exists, Turn, Beside, Settles
  <2>2. \A i \in Items : run'.map[i] \in {None, Placeholder} \cup DOMAIN server'[i]
    BY <1>1, <1>2 DEF RunInv, Believed, Sound, Turn, Beside, Settles
  <2>3. \A i \in run'.marks.stored : \E n \in 1 .. Len(server'[i]) : server'[i][n].file = "stored"
    BY <1>1, <1>2 DEF RunInv, Believed, Sound
  <2> QED
    BY <2>1, <2>2, <2>3 DEF Sound, Exists
<1>5. \A o \in plan'.matched : server'[o] # <<>>
  BY <1>1, <1>2 DEF RunInv, Believed, Exists
<1>6. run'.at = "upload" =>
        /\ Row' \in run'.marks.done /\ Row' \notin run'.marks.failed
        /\ run'.map[Row'] \in DOMAIN server'[Row'] /\ server'[Row'][run'.map[Row']].file # "stored"
  BY TurnPasses DEF Turn, Moves, Settles
<1> QED
  BY <1>3, <1>4, <1>5, <1>6 DEF Believed, Exists

LEMMA TurnSaved ==
  ASSUME RunInv, Turn
  PROVE  Saved' /\ Exclusive'
<1>1. /\ disk' = disk /\ run'.at \in {"row", "upload"} /\ run.at = "row" /\ run'.phase = run.phase
  BY TurnPasses DEF Turn, Beside, AtRow
<1>2. /\ run.marks.done \subseteq run'.marks.done
      /\ \A i \in Items : i \in run.marks.done => run'.map[i] = run.map[i]
  BY DEF Turn, Beside, Settles, RunInv, RunTyped, RunT, MarksT
<1>3. \A e \in Scoped : run'.map[e] \notin {None, Placeholder} => e \in run'.marks.done
  BY DEF Turn, Beside, Settles, RunInv, Saved, Items
<1>4. run.phase = 9 => \A e \in Scoped : /\ run'.map[e] = run.map[e]
                                         /\ e \in run'.marks.done <=> e \in run.marks.done
  <2>1. run.phase = 9 => Row \in Links
    BY TurnPasses DEF RowAt
  <2> QED
    BY <2>1, Apart DEF Turn, Beside, Items
<1>5. Saved'
  BY <1>1, <1>2, <1>3, <1>4 DEF Saved, RunInv
<1>6. Exclusive'
  BY <1>1 DEF Exclusive, RunInv, Turn, Beside, Settles
<1> QED
  BY <1>5, <1>6

LEMMA TurnCounted ==
  ASSUME RunInv, Turn
  PROVE  Counted'
<1>1. /\ disk' = disk /\ run'.at # "idle" /\ run.at # "idle"
  BY TurnPasses DEF Turn, Beside, AtRow
<1>2. Completed = run.marks.done /\ Completed' = run'.marks.done
  BY <1>1 DEF Completed
<1>3. ASSUME NEW i \in Scoped
      PROVE  Cardinality(Copies(i, "run")') <= excuse'[i] + IF i \in run'.marks.done THEN 1 ELSE 0
  <2>1. CASE i = Row
    BY <2>1 DEF Turn, Settles
  <2>2. CASE i # Row
    <3>1. /\ server'[i] = server[i] /\ excuse'[i] = excuse[i]
          /\ i \in run'.marks.done <=> i \in run.marks.done
      BY <2>2 DEF Turn, Beside, Items
    <3>2. Copies(i, "run")' = Copies(i, "run")
      BY <3>1 DEF Copies
    <3> QED
      BY <1>2, <3>1, <3>2 DEF RunInv, Counted
  <2> QED
    BY <2>1, <2>2
<1>4. ASSUME NEW l \in Links, NEW n \in Copies(l, "run")'
      PROVE  /\ Knows(OwnerOf[l], server[l][n].src)' /\ Knows(TargetOf[l], server[l][n].dst)'
             /\ \A m \in Copies(l, "run")' : m = n
  <2>0. ASSUME NEW e \in Scoped, NEW uuid, Knows(e, uuid) PROVE Knows(e, uuid)'
    <3>1. e \in Items
      BY DEF Items
    <3> QED
      BY <1>1, <2>0, <3>1 DEF Knows, Turn, Beside, Settles
  <2>1. CASE l = Row
    <3>1. /\ Knows(OwnerOf[l], server'[l][n].src) /\ Knows(TargetOf[l], server'[l][n].dst)
          /\ \A m \in Copies(l, "run")' : m = n
      BY <1>4, <2>1 DEF Turn, Settles
    <3> QED
      BY <2>0, <3>1, Named
  <2>2. CASE l # Row
    <3>1. server'[l] = server[l]
      BY <2>2 DEF Turn, Beside, Items
    <3>2. Copies(l, "run")' = Copies(l, "run")
      BY <3>1 DEF Copies
    <3>3. /\ Knows(OwnerOf[l], server[l][n].src) /\ Knows(TargetOf[l], server[l][n].dst)
          /\ \A m \in Copies(l, "run") : m = n
      BY <1>4, <3>2 DEF RunInv, Counted
    <3> QED
      BY <2>0, <3>1, <3>2, <3>3, Named
  <2> QED
    BY <2>1, <2>2
<1> QED
  BY <1>2, <1>3, <1>4 DEF Counted, Completed

\* What made a row fail lies behind it, and so it stays.
LEMMA CauseStays ==
  ASSUME RunInv, ServerTyped, Turn, NEW i \in Items \ Types, Passed(i), Cause(i, run.map)
  PROVE  Cause(i, run.map)'
<1>1. PICK p \in 1 .. 9 : RowAt(p, i) /\ p <= run.phase
  BY PassedAt DEF RunInv, RunTyped
<1>0. Beside /\ Lasting /\ plan' = plan
  BY DEF Turn, Beside
<1>2. run.phase \in 1 .. 9 /\ Row \in Items /\ RowAt(run.phase, Row)
  BY TurnPasses
<1>3. i \in Orgs /\ Exists(i) /\ i \notin plan.matched => Cause(i, run.map)'
  <2>1. i \in Items
    OBVIOUS
  <2> QED
    BY <1>0, <2>1, Lasts DEF Cause
<1>4. ASSUME i \in Scoped, Lacks(run.map, OrgOf[i]) PROVE Cause(i, run.map)'
  <2>1. OrgOf[i] # Row
    BY <1>1, <1>2, <1>4, Named, PhaseRow
  <2>2. run'.map[OrgOf[i]] = run.map[OrgOf[i]]
    BY <1>4, <2>1, Named DEF Turn, Beside, Items
  <2> QED
    BY <1>4, <2>2 DEF Cause, Lacks
<1>5. Unsaid(i) => Cause(i, run.map)'
  BY DEF Cause, Unsaid, Twin
<1>8. ASSUME i \in Assets \cup Configs, Crowded(TypeOf[i]),
             Lacks(run.map, TypeOf[i]) /\ (i \in Configs => run.map[TypeOf[i]] = Placeholder)
      PROVE  Cause(i, run.map)'
  <2>1. /\ TypeOf[i] \in Types /\ TypeOf[i] \in Items /\ i \in Scoped
        /\ i \in Assets => TypeOf[i] \in AssetTypes
        /\ i \in Configs => TypeOf[i] \in ConfigTypes
    BY <1>8, Named DEF Items, Types, Scoped
  <2>2. TypeOf[i] # Row
    <3> SUFFICES ASSUME Row = TypeOf[i] PROVE FALSE
      OBVIOUS
    <3>1. run.phase \in {3, 5} /\ p \in {2, 4, 6, 7, 8}
      BY <1>1, <1>2, <2>1, PhaseRow
    <3>2. p = 2 \/ (p = 4 /\ run.phase = 5)
      BY <1>1, <3>1
    <3> QED
      BY <1>1, <1>2, <1>8, <2>1, <3>2, RowsApart DEF RowAt
  <2>3. run'.map[TypeOf[i]] = run.map[TypeOf[i]]
    BY <2>1, <2>2 DEF Turn, Beside
  <2>4. Crowded(TypeOf[i])'
    BY <1>0, <1>8, <2>1, CrowdedStays
  <2> QED
    BY <1>8, <2>3, <2>4 DEF Cause, Lacks
<1>6. ASSUME i \in Links, NEW e \in Ends(i), Lacks(run.map, e) PROVE Cause(i, run.map)'
  <2>1. run.phase = 9 /\ Row \in Links
    BY <1>1, <1>2, <1>6, PhaseRow
  <2>2. e \in Items /\ e \notin Links
    BY <1>6, Named, Apart DEF Ends, Items
  <2>3. run'.map[e] = run.map[e]
    BY <2>1, <2>2 DEF Turn, Beside
  <2> QED
    BY <1>6, <2>3 DEF Cause, Lacks, Ends
<1>7. i \in Links /\ KindOf[i] \notin {"configuration", "asset"} => Cause(i, run.map)'
  BY DEF Cause
<1>9. \/ i \in Orgs /\ Exists(i) /\ i \notin plan.matched
      \/ i \in Scoped /\ Lacks(run.map, OrgOf[i])
      \/ /\ i \in Assets \cup Configs /\ Crowded(TypeOf[i])
         /\ Lacks(run.map, TypeOf[i]) /\ (i \in Configs => run.map[TypeOf[i]] = Placeholder)
      \/ Unsaid(i)
      \/ i \in Links /\ (KindOf[i] \notin {"configuration", "asset"} \/ \E e \in Ends(i) : Lacks(run.map, e))
  BY RowsApart DEF Cause, Lacks
<1> QED
  BY <1>3, <1>4, <1>5, <1>6, <1>7, <1>8, <1>9

LEMMA WithinStays ==
  ASSUME run'.scope = run.scope
  PROVE  \A i : Within(i)' <=> Within(i)
BY DEF Within, Scoped

LEMMA TurnBehind ==
  ASSUME RunInv, ServerTyped, Turn
  PROVE  Behind'
<1> SUFFICES ASSUME run.at = "row", ~run.dry, run'.dry = run.dry, run'.phase = run.phase,
                    run'.at \in {"row", "upload"}
             PROVE  Behind'
  BY TurnPasses DEF Turn, Beside, AtRow, Behind
<1>0. /\ Row \in Items /\ ~Passed(Row) /\ RowAt(run.phase, Row) /\ run.phase \in 1 .. 9
      /\ run'.at = "row" => \A i : Passed(i)' <=> Passed(i) \/ i = Row
      /\ run'.at = "upload" => Row' = Row /\ \A i : Passed(i)' <=> Passed(i)
  BY TurnPasses
<1>1. /\ \A i \in Items \ Types : Passed(i) /\ Within(i) =>
           /\ i \in run.marks.done \cup run.marks.failed \/ Unsaid(i)
           /\ run.sound /\ i \in run.marks.failed => Cause(i, run.map)
      /\ \A t \in ConfigTypes \cup AssetTypes : Passed(t) /\ run.sound =>
           ~Lacks(run.map, t) \/ Crowded(t)
      /\ run.phase = 7 =>
           \A name \in run.named : \E d \in Docs : name = <<OrgOf[d], NameOf[d]>> /\ Passed(d)
  BY DEF RunInv, Behind
<1>2. \A i : Passed(i)' => Passed(i) \/ i = Row
  BY <1>0
<1>w. \A i : Within(i)' <=> Within(i)
  BY WithinStays DEF Turn, Beside
<1>3. \A i \in Items \ Types :
        Passed(i)' /\ Within(i) => i \in run'.marks.done \cup run'.marks.failed \/ Unsaid(i)
  BY <1>0, <1>1, <1>2 DEF Turn, Beside, Settles
<1>4. ASSUME NEW i \in Items \ Types, Passed(i)', Within(i), run'.sound, i \in run'.marks.failed
      PROVE  Cause(i, run.map)'
  <2>1. CASE i = Row
    BY <1>4, <2>1 DEF Turn, Settles
  <2>2. CASE i # Row
    <3>1. Passed(i) /\ run.sound /\ i \in run.marks.failed
      BY <1>2, <1>4, <2>2 DEF Turn, Beside
    <3> QED
      BY <1>1, <1>4, <3>1, CauseStays
  <2> QED
    BY <2>1, <2>2
<1>5. ASSUME NEW t \in ConfigTypes \cup AssetTypes, Passed(t)', run'.sound
      PROVE  run'.map[t] \notin {None, Placeholder} \/ Crowded(t)'
  <2>1. CASE t = Row
    BY <1>5, <2>1 DEF Turn, Settles
  <2>2. CASE t # Row
    <3>1. t \in Items
      BY DEF Items, Types
    <3>2. Passed(t) /\ run.sound /\ run'.map[t] = run.map[t]
      BY <1>2, <1>5, <2>2, <3>1 DEF Turn, Beside
    <3>3. Crowded(t) => Crowded(t)'
      BY <3>1, CrowdedStays DEF Turn, Beside
    <3> QED
      BY <1>1, <3>2, <3>3 DEF Lacks
  <2> QED
    BY <2>1, <2>2
<1>6. run.phase \in {3, 5} /\ run'.sound =>
        \A t \in Sheets[Phases[run.phase]] : server'[t] # <<>> => t \in run'.named \/ Crowded(t)'
  BY DEF Turn, Settles
<1>8. ASSUME run.phase \in {3, 5} PROVE \A t \in run'.named : t \in Types /\ server'[t] # <<>>
  <2>1. \A t \in run.named : t \in Types /\ server[t] # <<>>
    BY <1>8 DEF RunInv, Behind, Exists
  <2>2. \A t \in Types : server[t] # <<>> => server'[t] # <<>>
    BY Lasts, OnlyOrgsAndTypes DEF Turn, Beside, Exists
  <2>3. \A t \in run'.named : t \in run.named \/ (t \in Types /\ server'[t] # <<>>)
    BY <1>8 DEF Turn, Settles
  <2> QED
    BY <2>1, <2>2, <2>3
<1>7. ASSUME run.phase = 7, NEW name \in run'.named
      PROVE  \E d \in Docs : name = <<OrgOf[d], NameOf[d]>> /\ (Passed(d)' \/ (run'.at = "upload" /\ d = Row'))
  <2>1. CASE name \in run.named
    BY <1>0, <1>1, <1>7, <2>1
  <2>2. CASE name = <<OrgOf[Row], NameOf[Row]>>
    <3>1. Row \in Docs
      BY <1>0, <1>7 DEF RowAt
    <3> QED
      BY <1>0, <2>2, <3>1
  <2> QED
    BY <1>7, <2>1, <2>2 DEF Turn, Settles
<1>9. /\ run.phase \in {3, 5} /\ run'.sound =>
            \A t \in Sheets[Phases[run.phase]] : Exists(t)' => t \in run'.named \/ Crowded(t)'
      /\ \A t \in ConfigTypes \cup AssetTypes : Passed(t)' /\ run'.sound =>
            ~Lacks(run.map, t)' \/ Crowded(t)'
  BY <1>5, <1>6 DEF Lacks, Exists
<1>10. \A i \in Items \ Types : Passed(i)' /\ Within(i)' =>
           /\ i \in run'.marks.done \cup run'.marks.failed \/ Unsaid(i)
           /\ run'.sound /\ i \in run'.marks.failed => Cause(i, run.map)'
  BY <1>3, <1>4, <1>w
<1> QED
  BY <1>7, <1>8, <1>9, <1>10 DEF Behind, Exists, Sheets

LEMMA TurnKeeps ==
  ASSUME RunInv, ServerInv, Turn
  PROVE  RunInv'
<1>1. Ended'
  BY TurnPasses DEF Ended
<1> QED
  BY <1>1, TurnTyped, TurnBelieved, TurnSaved, TurnCounted, TurnBehind DEF RunInv, ServerInv
-----------------------------------------------------------------------------
(***************************************************************************)
(* How many copies a run has made of a row.                                *)
(***************************************************************************)
LEMMA CopiesFinite ==
  ASSUME ServerTyped, NEW i \in Items, NEW by
  PROVE  IsFiniteSet(Copies(i, by)) /\ Cardinality(Copies(i, by)) \in Nat
<1>1. Len(server[i]) \in Nat
  BY ItemSeqs
<1>2. IsFiniteSet(1 .. Len(server[i]))
  BY <1>1, FS_Interval
<1>3. Copies(i, by) \subseteq 1 .. Len(server[i])
  BY DEF Copies
<1> QED
  BY <1>2, <1>3, FS_Subset, FS_CardinalityType

LEMMA OneMore ==
  ASSUME ServerTyped, NEW i \in Items, NEW row, Gains(i, row), row.by = "run"
  PROVE  /\ Copies(i, "run")' = Copies(i, "run") \cup {Len(server[i]) + 1}
         /\ Cardinality(Copies(i, "run")') = Cardinality(Copies(i, "run")) + 1
<1>1. Len(server[i]) \in Nat
  BY ItemSeqs
<1>2. Copies(i, "run")' = Copies(i, "run") \cup {Len(server[i]) + 1}
  BY <1>1 DEF Copies, Gains
<1>3. Len(server[i]) + 1 \notin Copies(i, "run")
  BY <1>1 DEF Copies
<1> QED
  BY <1>2, <1>3, CopiesFinite, FS_AddElement

LEMMA NoMore ==
  ASSUME NEW i, NEW by, server'[i] = server[i]
  PROVE  Copies(i, by)' = Copies(i, by)
BY DEF Copies
-----------------------------------------------------------------------------
(***************************************************************************)
(* The ways to deal with a row.                                            *)
(***************************************************************************)
TypePhase == run.phase \in {3, 5}
NameOfRow(i) == <<OrgOf[i], NameOf[i]>>

\* Nothing is created, and at most a failure is noted.
Noted(i, failed, names) ==
  /\ UNCHANGED <<server, excuse>> /\ ServerTyped'
  /\ i \notin Types
  /\ failed = run.marks.failed \/ (failed = run.marks.failed \cup {i} /\ i \notin run.marks.done)
  /\ ~run.dry =>
       /\ Within(i) => /\ i \in run.marks.done \cup failed \/ Unsaid(i)
                       /\ run'.sound /\ i \in failed => Cause(i, run.map)
       /\ run.phase = 7 => names \subseteq run.named \cup {NameOfRow(i)}

LEMMA NotedTurns ==
  ASSUME RunInv, ServerInv, AtRow, UNCHANGED <<hidden, jobs, plan, disk>>, NEW failed, NEW names,
         Fields(run', run.marks.done, failed, run.map, names, "row", run.pos + 1),
         \A i \in {Row} : Noted(i, failed, names)
  PROVE  Turn
<1>1. PICK i : i = Row /\ Noted(i, failed, names)
  OBVIOUS
<1>2. /\ i \in Items /\ RowAt(run.phase, i) /\ run.phase \in 1 .. 9
  BY <1>1, RowFacts DEF RunInv, AtRow
<1>3. ~TypePhase
  BY <1>1, <1>2, PhaseRow DEF Noted, TypePhase
<1>4. Lasting
  BY <1>1, NothingCreated DEF Noted, ServerInv, Settled, ServerTyped
<1>5. Beside
  BY <1>1, <1>4 DEF Beside, Noted, Fields, RunInv, RunTyped
<1>6. Copies(i, "run")' = Copies(i, "run") /\ (Cause(i, run.map) => Cause(i, run.map)')
  BY <1>1, CrowdedAsBefore DEF Noted, Copies, Cause, Fields, Exists, Unsaid, Twin, Lacks, Ends
<1>7. /\ i \in run.marks.done => server[i] # <<>>
      /\ run.map[i] \in {None, Placeholder} \cup DOMAIN server[i]
      /\ i \in Scoped /\ run.map[i] \notin {None, Placeholder} => i \in run.marks.done
      /\ i \notin run.marks.done \cap run.marks.failed
  BY <1>2 DEF RunInv, Believed, Sound, Saved, Exclusive, Exists
<1>8. i \in Scoped => Cardinality(Copies(i, "run")) <= excuse[i] + IF i \in run.marks.done THEN 1 ELSE 0
  BY DEF RunInv, Counted, Completed, AtRow
<1>9. i \in Links => \A n \in Copies(i, "run") :
       /\ Knows(OwnerOf[i], server[i][n].src) /\ Knows(TargetOf[i], server[i][n].dst)
       /\ \A m \in Copies(i, "run") : m = n
  BY DEF RunInv, Counted
<1>10. Settles(i)
  BY <1>1, <1>2, <1>3, <1>6, <1>7, <1>8, <1>9, RowsApart, Apart
     DEF Settles, Noted, Fields, TypePhase, NameOfRow, Types
<1>11. Moves(i)
  BY DEF Moves, Fields
<1> QED
  BY <1>1, <1>5, <1>10, <1>11 DEF Turn

\* A dry run creates nothing and completes nothing.
LEMMA DryTurns ==
  ASSUME RunInv, ServerInv, AtRow, UNCHANGED <<hidden, jobs, plan, disk, server, faults, excuse>>,
         run.dry, NEW map, NEW names,
         Fields(run', run.marks.done, run.marks.failed, map, names, "row", run.pos + 1),
         \A i \in {Row} : \/ map = run.map
                          \/ map = [run.map EXCEPT ![i] = Placeholder] /\ i \notin run.marks.done
  PROVE  Turn
<1>1. PICK i : /\ i = Row
               /\ \/ map = run.map
                  \/ map = [run.map EXCEPT ![i] = Placeholder] /\ i \notin run.marks.done
  OBVIOUS
<1>2. i \in Items
  BY <1>1, RowFacts DEF RunInv, AtRow
<1>3. Lasting
  BY NothingCreated DEF ServerInv, Settled, ServerTyped
<1>4. run.map \in [Items -> Uuids]
  BY DEF RunInv, RunTyped, RunT
<1>5. /\ \A j \in Items \ {i} : map[j] = run.map[j]
      /\ map[i] = run.map[i] \/ (map[i] = Placeholder /\ i \notin run.marks.done)
  BY <1>1, <1>2, <1>4
<1>6. Beside
  BY <1>1, <1>3, <1>5 DEF Beside, Fields, RunInv, RunTyped
<1>7. Copies(i, "run")' = Copies(i, "run")
  BY DEF Copies
<1>8. /\ i \in run.marks.done => server[i] # <<>>
      /\ run.map[i] \in {None, Placeholder} \cup DOMAIN server[i]
      /\ i \in Scoped /\ run.map[i] \notin {None, Placeholder} => i \in run.marks.done
      /\ i \notin run.marks.done \cap run.marks.failed
  BY <1>2 DEF RunInv, Believed, Sound, Saved, Exclusive, Exists
<1>9. i \in Scoped => Cardinality(Copies(i, "run")) <= excuse[i] + IF i \in run.marks.done THEN 1 ELSE 0
  BY DEF RunInv, Counted, Completed, AtRow
<1>10. i \in Links => \A n \in Copies(i, "run") :
       /\ Knows(OwnerOf[i], server[i][n].src) /\ Knows(TargetOf[i], server[i][n].dst)
       /\ \A m \in Copies(i, "run") : m = n
  BY DEF RunInv, Counted
<1>11. Settles(i)
  BY <1>5, <1>7, <1>8, <1>9, <1>10 DEF Settles, Fields
<1>12. Moves(i)
  BY DEF Moves, Fields
<1> QED
  BY <1>1, <1>6, <1>11, <1>12 DEF Turn

\* The plan knows the organization.
LEMMA MatchedTurns ==
  ASSUME RunInv, ServerInv, AtRow, UNCHANGED <<hidden, jobs, plan, disk, server, faults, excuse>>,
         run.phase = 1, Row \in plan.matched, Row \notin run.marks.done,
         \A i \in {Row} : Fields(run', run.marks.done \cup {i}, run.marks.failed \ {i},
                                 [run.map EXCEPT ![i] = 1], run.named, "row", run.pos + 1)
  PROVE  Turn
<1>1. PICK i : /\ i = Row
               /\ Fields(run', run.marks.done \cup {i}, run.marks.failed \ {i},
                         [run.map EXCEPT ![i] = 1], run.named, "row", run.pos + 1)
  OBVIOUS
<1>2. i \in Items /\ i \in Orgs /\ i \notin Scoped /\ i \notin Links /\ i \notin Types
  BY <1>1, RowFacts, Apart DEF RunInv, AtRow, RowAt
<1>3. Lasting
  BY NothingCreated DEF ServerInv, Settled, ServerTyped
<1>4. /\ run.map \in [Items -> Uuids] /\ run.marks.done \subseteq Items
      /\ run.marks.failed \subseteq Items
  BY DEF RunInv, RunTyped, RunT, MarksT
<1>5. server[i] # <<>> /\ 1 \in DOMAIN server[i]
  <2>1. server[i] # <<>>
    BY <1>1 DEF RunInv, Believed, Exists
  <2> QED
    BY <1>2, <2>1, ItemSeqs DEF ServerInv
<1>6. Beside
  BY <1>1, <1>2, <1>3, <1>4 DEF Beside, Fields, RunInv, RunTyped
<1>7. Settles(i)
  BY <1>1, <1>2, <1>4, <1>5, Apart DEF Settles, Fields, Types
<1>8. Moves(i)
  BY <1>1 DEF Moves, Fields
<1> QED
  BY <1>1, <1>6, <1>7, <1>8 DEF Turn

\* A row is created and its uuid is known.
LEMMA CreatedTurns ==
  ASSUME RunInv, ServerInv, AtRow, UNCHANGED <<hidden, jobs, plan, disk, excuse>>, ~run.dry,
         NEW row, row.by = "run", row.file = "none", NEW names, NEW at, NEW pos,
         Row \in Orgs \cup Scoped, Row \notin run.marks.done,
         \A i \in {Row} :
           /\ Gains(i, row)
           /\ Fields(run', run.marks.done \cup {i}, run.marks.failed \ {i},
                     [run.map EXCEPT ![i] = Len(server[i]) + 1], names, at, pos)
           /\ run.phase = 7 => names \subseteq run.named \cup {NameOfRow(i)},
         \/ at = "row" /\ pos = run.pos + 1
         \/ at = "upload" /\ pos = run.pos
  PROVE  Turn
<1>1. PICK i : /\ i = Row /\ Gains(i, row)
               /\ Fields(run', run.marks.done \cup {i}, run.marks.failed \ {i},
                         [run.map EXCEPT ![i] = Len(server[i]) + 1], names, at, pos)
               /\ run.phase = 7 => names \subseteq run.named \cup {NameOfRow(i)}
  OBVIOUS
<1>2. /\ i \in Items /\ i \in Orgs \cup Scoped /\ i \notin Links /\ i \notin Types
      /\ i \notin ConfigTypes \cup AssetTypes
      /\ RowAt(run.phase, i) /\ run.phase \in 1 .. 9
  BY <1>1, RowFacts, Apart DEF RunInv, AtRow, Types
<1>3. ~TypePhase
  BY <1>2, PhaseRow DEF TypePhase
<1>4. /\ run.map \in [Items -> Uuids] /\ run.marks.done \subseteq Items
      /\ run.marks.failed \subseteq Items
  BY DEF RunInv, RunTyped, RunT, MarksT
<1>5. Beside
  BY <1>1, <1>2, <1>4 DEF Beside, Fields, RunInv, RunTyped, Gains
<1>6. Len(server[i]) \in Nat /\ DOMAIN server'[i] = 1 .. Len(server[i]) + 1
  BY <1>1, <1>2, ItemSeqs, Lasts DEF ServerInv, Gains
<1>7. /\ server'[i] # <<>> /\ Len(server[i]) + 1 \in DOMAIN server'[i]
      /\ server'[i][Len(server[i]) + 1] = row
      /\ run'.map[i] = Len(server[i]) + 1
  BY <1>1, <1>2, <1>4, <1>6 DEF Gains, Fields
<1>8. i \in Scoped => Cardinality(Copies(i, "run")') <= excuse[i] + 1
  <2>1. /\ Cardinality(Copies(i, "run")') = Cardinality(Copies(i, "run")) + 1
        /\ Cardinality(Copies(i, "run")) \in Nat
    BY <1>1, <1>2, OneMore, CopiesFinite DEF ServerInv
  <2>2. i \in Scoped => Cardinality(Copies(i, "run")) <= excuse[i] + 0 /\ excuse[i] \in Nat
    BY <1>1, <1>2 DEF RunInv, Counted, Completed, AtRow, RunTyped
  <2> QED
    BY <2>1, <2>2
<1>9. Settles(i)
  BY <1>1, <1>2, <1>3, <1>7, <1>8 DEF Settles, Fields, TypePhase, NameOfRow
<1>10. Moves(i)
  BY <1>1, <1>2, <1>7 DEF Moves, Fields
<1> QED
  BY <1>1, <1>5, <1>9, <1>10 DEF Turn

\* A row is created and nobody knows: it may be created again.
LEMMA LostTurns ==
  ASSUME RunInv, ServerInv, AtRow, UNCHANGED <<hidden, jobs, plan, disk>>, ~run.dry,
         NEW row, row.by = "run", NEW names,
         Row \in Orgs \cup Scoped, Row \notin run.marks.done, ~run'.sound,
         \A i \in {Row} :
           /\ Gains(i, row) /\ excuse' = [excuse EXCEPT ![i] = @ + 1]
           /\ Fields(run', run.marks.done, run.marks.failed \cup {i},
                     run.map, names, "row", run.pos + 1)
           /\ run.phase = 7 => names \subseteq run.named \cup {NameOfRow(i)}
  PROVE  Turn
<1>1. PICK i : /\ i = Row /\ Gains(i, row) /\ excuse' = [excuse EXCEPT ![i] = @ + 1]
               /\ Fields(run', run.marks.done, run.marks.failed \cup {i},
                         run.map, names, "row", run.pos + 1)
               /\ run.phase = 7 => names \subseteq run.named \cup {NameOfRow(i)}
  OBVIOUS
<1>2. /\ i \in Items /\ i \in Orgs \cup Scoped /\ i \notin Links /\ i \notin Types
      /\ i \notin ConfigTypes \cup AssetTypes
      /\ RowAt(run.phase, i) /\ run.phase \in 1 .. 9
  BY <1>1, RowFacts, Apart DEF RunInv, AtRow, Types
<1>3. ~TypePhase
  BY <1>2, PhaseRow DEF TypePhase
<1>4. excuse \in [Items -> Nat] /\ excuse' \in [Items -> Nat] /\ excuse'[i] = excuse[i] + 1
      /\ \A j \in Items \ {i} : excuse'[j] = excuse[j]
  BY <1>1, <1>2 DEF RunInv, RunTyped
<1>5. Beside
  BY <1>1, <1>2, <1>4 DEF Beside, Fields, RunInv, RunTyped, Gains
<1>6. DOMAIN server[i] \subseteq DOMAIN server'[i]
  BY <1>1, <1>2, Lasts DEF ServerInv, Gains
<1>7. /\ run.map[i] \in {None, Placeholder} \cup DOMAIN server[i]
      /\ i \in Scoped /\ run.map[i] \notin {None, Placeholder} => i \in run.marks.done
      /\ i \notin run.marks.done
  BY <1>1, <1>2 DEF RunInv, Believed, Sound, Saved
<1>8. i \in Scoped => Cardinality(Copies(i, "run")') <= excuse'[i] + 0
  <2>1. /\ Cardinality(Copies(i, "run")') = Cardinality(Copies(i, "run")) + 1
        /\ Cardinality(Copies(i, "run")) \in Nat
    BY <1>1, <1>2, OneMore, CopiesFinite DEF ServerInv
  <2>2. i \in Scoped => Cardinality(Copies(i, "run")) <= excuse[i] + 0 /\ excuse[i] \in Nat
    BY <1>1, <1>2, <1>7 DEF RunInv, Counted, Completed, AtRow, RunTyped
  <2> QED
    BY <1>4, <2>1, <2>2
<1>9. Settles(i)
  BY <1>1, <1>2, <1>3, <1>6, <1>7, <1>8 DEF Settles, Fields, TypePhase, NameOfRow
<1>10. Moves(i)
  BY <1>1 DEF Moves, Fields
<1> QED
  BY <1>1, <1>5, <1>9, <1>10 DEF Turn

\* A type gets its uuid, or the run is not sound.
LEMMA TypeTurns ==
  ASSUME RunInv, ServerInv, AtRow, UNCHANGED <<hidden, jobs, plan, disk, excuse>>, ~run.dry,
         NEW map, NEW names, Lasting,
         Fields(run', run.marks.done, run.marks.failed, map, names, "row", run.pos + 1),
         \A i \in {Row} :
           /\ i \in ConfigTypes \cup AssetTypes
           /\ \A j \in Items \ {i} : server'[j] = server[j] /\ map[j] = run.map[j]
           /\ map[i] \in {None, Placeholder} \cup DOMAIN server'[i]
           /\ run'.sound => /\ map[i] \notin {None, Placeholder} \/ Crowded(i)'
                            /\ \A t \in Sheets[Phases[run.phase]] :
                                 server'[t] # <<>> => t \in names \/ Crowded(t)'
           /\ names = run.named \/ (names = run.named \cup {i} /\ server'[i] # <<>>)
  PROVE  Turn
<1>1. PICK i : /\ i = Row /\ i \in ConfigTypes \cup AssetTypes
               /\ \A j \in Items \ {i} : server'[j] = server[j] /\ map[j] = run.map[j]
               /\ map[i] \in {None, Placeholder} \cup DOMAIN server'[i]
               /\ run'.sound => /\ map[i] \notin {None, Placeholder} \/ Crowded(i)'
                                /\ \A t \in Sheets[Phases[run.phase]] :
                                     server'[t] # <<>> => t \in names \/ Crowded(t)'
               /\ names = run.named \/ (names = run.named \cup {i} /\ server'[i] # <<>>)
  OBVIOUS
<1>2. /\ i \in Items /\ i \in Types /\ i \notin Scoped /\ i \notin Links
      /\ RowAt(run.phase, i) /\ run.phase \in 1 .. 9
  BY <1>1, RowFacts, Apart DEF RunInv, AtRow, Types
<1>3. TypePhase
  BY <1>2, PhaseRow DEF TypePhase
<1>4. Beside
  BY <1>1 DEF Beside, Fields, RunInv, RunTyped
<1>5. i \notin run.marks.done
  BY <1>2 DEF RunInv, RunTyped, RunT, MarksT
<1>6. Settles(i)
  BY <1>1, <1>2, <1>3, <1>5 DEF Settles, Fields, TypePhase
<1>7. Moves(i)
  BY DEF Moves, Fields
<1> QED
  BY <1>1, <1>4, <1>6, <1>7 DEF Turn

\* The fields of a type just dealt with.
LEMMA RunTypes ==
  ASSUME RunInv, ServerInv, AtRow, MigrateTypes, Row \in ConfigTypes \cup AssetTypes
  PROVE  Turn /\ ServerInv'
<1>1. PICK i : i = Row
  OBVIOUS
<1>2. /\ i \in Items /\ i \in Types /\ i \notin Scoped /\ i \notin Links /\ i \in Names
      /\ run \in RunT /\ i \notin run.marks.done
      /\ RowAt(run.phase, i) /\ run.phase \in 1 .. 9
  BY <1>1, RowFacts, Apart DEF RunInv, AtRow, Types, RunTyped, RunT, MarksT, Names
<1>3. TypePhase
  BY <1>2, PhaseRow DEF TypePhase
<1>4. UNCHANGED <<hidden, jobs, plan, disk, excuse>>
  BY DEF MigrateTypes, Same
<1>5. Placeholder \in Uuids /\ 1 \in Uuids /\ {i} \in SUBSET Names
  BY <1>2 DEF Uuids
<1>6. run.map \in [Items -> Uuids]
  BY <1>2 DEF RunT
<1>7. Fields(run, run.marks.done, run.marks.failed, run.map, run.named, "row", run.pos)
  BY <1>2, FieldsRun DEF AtRow
<1>8. ASSUME UNCHANGED <<server, faults>> PROVE ServerInv' /\ Lasting
  BY <1>4, <1>8, NothingCreated, SettledKeeps DEF ServerInv, Settled, ServerTyped
<1>s. ASSUME run.sound, ~run.dry, Lasting
      PROVE  /\ \A t \in Sheets[Phases[run.phase]] : Exists(t) => t \in run.named \/ Crowded(t)'
             /\ Sheets[Phases[run.phase]] \subseteq Types /\ i \in Sheets[Phases[run.phase]]
  <2>1. \A t \in Sheets[Phases[run.phase]] : Exists(t) => t \in run.named \/ Crowded(t)
    BY <1>3, <1>s DEF RunInv, Behind, AtRow, TypePhase
  <2>2. Sheets[Phases[run.phase]] \subseteq Types /\ Sheets[Phases[run.phase]] \subseteq Items
    BY <1>3, PhaseNames, SheetNames DEF TypePhase, Types, Items
  <2>3. i \in Sheets[Phases[run.phase]]
    BY <1>1, RowFacts DEF RunInv, AtRow
  <2>4. \A t \in Sheets[Phases[run.phase]] : Crowded(t) => Crowded(t)'
    BY <1>s, <2>2, CrowdedStays DEF ServerInv
  <2> QED
    BY <2>1, <2>2, <2>3, <2>4
<1>9. CASE i \in run.named /\ run' = Onward(IF run.dry THEN run ELSE Add(run, i, 1)) /\ Keep
  <2>1. CASE run.dry
    <3>1. Fields(run', run.marks.done, run.marks.failed, run.map, run.named, "row", run.pos + 1)
      BY <1>7, <1>9, <2>1, FieldsOnward
    <3> QED
      BY <1>4, <1>8, <1>9, <2>1, <3>1, DryTurns DEF Keep
  <2>2. CASE ~run.dry
    <3>1. Fields(Add(run, i, 1), run.marks.done, run.marks.failed,
                 [run.map EXCEPT ![i] = 1], run.named, "row", run.pos)
      BY <1>2, <1>5, <1>7, FieldsAdd
    <3>2. Fields(run', run.marks.done, run.marks.failed,
                 [run.map EXCEPT ![i] = 1], run.named, "row", run.pos + 1)
      BY <1>9, <2>2, <3>1, FieldsOnward
    <3>3. server[i] # <<>> /\ server[i] \in Seq(RowT(i))
      BY <1>2, <1>3, <1>9, <2>2, ItemSeqs
         DEF RunInv, Behind, AtRow, TypePhase, Exists, ServerInv
    <3>4. 1 \in DOMAIN server[i]
      BY <3>3
    <3>5. run.sound => \A t \in Sheets[Phases[run.phase]] :
                          server[t] # <<>> => t \in run.named \/ Crowded(t)'
      BY <1>8, <1>9, <1>s, <2>2 DEF Keep, Exists
    <3>6. run'.sound => run.sound
      BY <3>2 DEF Fields
    <3> QED
      BY <1>1, <1>2, <1>4, <1>6, <1>8, <1>9, <2>2, <3>2, <3>4, <3>5, <3>6, TypeTurns DEF Keep, None, Placeholder
  <2> QED
    BY <2>1, <2>2
<1>10. CASE /\ i \notin run.named /\ run.dry /\ Keep
            /\ run' = Onward([Add(run, i, Placeholder) EXCEPT !.named = @ \cup {i}])
  <2>1. Fields(Add(run, i, Placeholder), run.marks.done, run.marks.failed,
               [run.map EXCEPT ![i] = Placeholder], run.named, "row", run.pos)
    BY <1>2, <1>5, <1>7, FieldsAdd
  <2>2. Fields([Add(run, i, Placeholder) EXCEPT !.named = @ \cup {i}],
               run.marks.done, run.marks.failed,
               [run.map EXCEPT ![i] = Placeholder], run.named \cup {i}, "row", run.pos)
    BY <1>5, <2>1, FieldsNamed
  <2>3. Fields(run', run.marks.done, run.marks.failed,
               [run.map EXCEPT ![i] = Placeholder], run.named \cup {i}, "row", run.pos + 1)
    BY <1>10, <2>2, FieldsOnward
  <2> QED
    BY <1>1, <1>2, <1>4, <1>8, <1>10, <2>3, DryTurns DEF Keep
<1>11. CASE /\ i \notin run.named /\ ~run.dry
            /\ \E answer \in {"created", "conflict", "refused", "lost"} :
                 /\ Post(i, Copy("run", None, None), answer)
                 /\ run' = IF answer = "created"
                           THEN Onward([Add(run, i, 1) EXCEPT !.named = @ \cup {i}])
                           ELSE Onward(Hit(run, answer))
  <2> DEFINE row == Copy("run", None, None)
  <2>1. PICK answer \in {"created", "conflict", "refused", "lost"} :
           /\ Post(i, row, answer)
           /\ run' = IF answer = "created"
                     THEN Onward([Add(run, i, 1) EXCEPT !.named = @ \cup {i}])
                     ELSE Onward(Hit(run, answer))
    BY <1>11
  <2>2. row \in RowT(i)
    BY <1>2 DEF Copy, RowT, CopyT, Tools, Files, Texts, None
  <2> HIDE DEF row
  <2>3. /\ answer = "conflict" <=> Taken(i, row)
        /\ answer \in {"created", "lost"} => Gains(i, row)
        /\ answer \in {"conflict", "refused"} => UNCHANGED server
        /\ faults' \in Nat
    BY <1>2, <1>4, <2>1, <2>2, PostDone DEF ServerInv
  <2>4. Taken(i, row) <=> Exists(i)
    BY <1>2 DEF Taken
  <2>5. Resolves(i, row)
    BY <1>2 DEF Resolves, Scoped
  <2>6. ServerInv' /\ Lasting
    <3>1. CASE answer \in {"conflict", "refused"}
      BY <1>4, <2>3, <3>1, NothingCreated, SettledKeeps DEF ServerInv, Settled, ServerTyped
    <3>2. CASE answer \in {"created", "lost"}
      BY <2>3, <2>4, <2>5, <3>2, GainsKeeps DEF Gains
    <3> QED
      BY <3>1, <3>2
  <2>7. \A j \in Items \ {i} : server'[j] = server[j]
    BY <2>3 DEF Gains
  <2>8. CASE answer = "created"
    <3>1. Fields(Add(run, i, 1), run.marks.done, run.marks.failed,
                 [run.map EXCEPT ![i] = 1], run.named, "row", run.pos)
      BY <1>2, <1>5, <1>7, FieldsAdd
    <3>2. Fields([Add(run, i, 1) EXCEPT !.named = @ \cup {i}], run.marks.done, run.marks.failed,
                 [run.map EXCEPT ![i] = 1], run.named \cup {i}, "row", run.pos)
      BY <1>5, <3>1, FieldsNamed
    <3>3. Fields(run', run.marks.done, run.marks.failed,
                 [run.map EXCEPT ![i] = 1], run.named \cup {i}, "row", run.pos + 1)
      BY <2>1, <2>8, <3>2, FieldsOnward
    <3>4. Exists(i)' /\ 1 \in DOMAIN server'[i]
      BY <2>3, <2>4, <2>5, <2>8, GainsKeeps
    <3>5. run.sound => \A t \in Sheets[Phases[run.phase]] :
                          t \in Types /\ (server[t] # <<>> => t \in run.named \/ Crowded(t)')
      BY <1>11, <1>s, <2>6 DEF Exists
    <3>6. run'.sound => run.sound
      BY <3>3 DEF Fields
    <3>7. run'.sound => \A t \in Sheets[Phases[run.phase]] :
                           server'[t] # <<>> => t \in run.named \cup {i} \/ Crowded(t)'
      BY <2>7, <3>5, <3>6, OnlyOrgsAndTypes
    <3> DEFINE map == [run.map EXCEPT ![i] = 1]
    <3>8. map[i] = 1 /\ \A j \in Items \ {i} : map[j] = run.map[j]
      BY <1>2, <1>6
    <3>9. Fields(run', run.marks.done, run.marks.failed, map, run.named \cup {i}, "row", run.pos + 1)
      BY <3>3
    <3> HIDE DEF map
    <3>10. ~run.dry /\ server'[i] # <<>>
      BY <1>11, <3>4 DEF Exists
    <3>11. map[i] \in DOMAIN server'[i] /\ map[i] \notin {None, Placeholder}
      BY <3>4, <3>8 DEF None, Placeholder
    <3>12. Turn
      BY <1>1, <1>4, <2>6, <2>7, <3>7, <3>8, <3>9, <3>10, <3>11, TypeTurns
    <3> QED
      BY <2>6, <3>12
  <2>9. CASE answer # "created"
    <3>1. /\ Fields(Hit(run, answer), run.marks.done, run.marks.failed, run.map, run.named, "row", run.pos)
          /\ Hit(run, answer).sound => answer \notin {"refused", "lost"}
      BY <1>7, FieldsHit
    <3>2. Fields(run', run.marks.done, run.marks.failed, run.map, run.named, "row", run.pos + 1)
      BY <2>1, <2>9, <3>1, FieldsOnward
    <3>3. run'.sound = Hit(run, answer).sound
      BY <2>1, <2>9, <3>1 DEF Onward, Fields, RunT
    <3>4. ASSUME run'.sound
          PROVE  /\ Crowded(i)'
                 /\ \A t \in Sheets[Phases[run.phase]] :
                      server'[t] # <<>> => t \in run.named \/ Crowded(t)'
      <4>1. answer = "conflict" /\ run.sound /\ server' = server
        BY <2>3, <2>9, <3>1, <3>2, <3>3, <3>4 DEF Fields
      <4> QED
        BY <1>11, <1>s, <2>3, <2>4, <2>6, <4>1 DEF Exists
    <3>5. run.map[i] \in {None, Placeholder} \cup DOMAIN server'[i]
      BY <1>2, <2>6, Lasts DEF ServerInv, RunInv, Believed, Sound
    <3> QED
      BY <1>1, <1>2, <1>4, <1>11, <2>6, <2>7, <3>2, <3>4, <3>5, TypeTurns
  <2> QED
    BY <2>6, <2>8, <2>9
<1> QED
  BY <1>1, <1>9, <1>10, <1>11 DEF MigrateTypes

\* A link is created, found or refused.
LEMMA LinkTurns ==
  ASSUME RunInv, ServerInv, AtRow, UNCHANGED <<hidden, jobs, plan, disk, excuse>>, ~run.dry,
         NEW done, NEW failed, Lasting,
         Fields(run', done, failed, run.map, run.named, "row", run.pos + 1),
         \A i \in {Row} :
           /\ i \in Links
           /\ \A j \in Items \ {i} : server'[j] = server[j]
           /\ \/ /\ done = run.marks.done \cup {i} /\ failed = run.marks.failed \ {i}
                 /\ server'[i] # <<>>
              \/ /\ done = run.marks.done /\ failed = run.marks.failed \cup {i}
                 /\ i \notin run.marks.done /\ ~run'.sound
           /\ \A n \in Copies(i, "run")' :
                /\ Knows(OwnerOf[i], server'[i][n].src) /\ Knows(TargetOf[i], server'[i][n].dst)
                /\ \A m \in Copies(i, "run")' : m = n
  PROVE  Turn
<1>1. PICK i : /\ i = Row /\ i \in Links
               /\ \A j \in Items \ {i} : server'[j] = server[j]
               /\ \/ /\ done = run.marks.done \cup {i} /\ failed = run.marks.failed \ {i}
                     /\ server'[i] # <<>>
                  \/ /\ done = run.marks.done /\ failed = run.marks.failed \cup {i}
                     /\ i \notin run.marks.done /\ ~run'.sound
               /\ \A n \in Copies(i, "run")' :
                    /\ Knows(OwnerOf[i], server'[i][n].src) /\ Knows(TargetOf[i], server'[i][n].dst)
                    /\ \A m \in Copies(i, "run")' : m = n
  OBVIOUS
<1>2. /\ i \in Items /\ i \notin Types /\ i \notin Scoped
      /\ RowAt(run.phase, i) /\ run.phase \in 1 .. 9
  BY <1>1, RowFacts, Apart DEF RunInv, AtRow, Types
<1>3. run.phase = 9 /\ i \notin ConfigTypes \cup AssetTypes
  BY <1>1, <1>2, PhaseRow DEF Types
<1>4. Beside
  BY <1>1 DEF Beside, Fields, RunInv, RunTyped
<1>5. run.map[i] \in {None, Placeholder} \cup DOMAIN server'[i]
  BY <1>2, Lasts DEF ServerInv, RunInv, Believed, Sound
<1>6. Settles(i)
  BY <1>1, <1>2, <1>3, <1>5 DEF Settles, Fields
<1>7. Moves(i)
  BY DEF Moves, Fields
<1> QED
  BY <1>1, <1>4, <1>6, <1>7 DEF Turn

\* The ends of a link that is tried are known, and no run has made it before.
LEMMA KnownEnds ==
  ASSUME RunInv, run.at # "idle", run.phase = 9, NEW e \in Scoped, run.map[e] \notin {None, Placeholder}
  PROVE  Knows(e, run.map[e])
BY DEF RunInv, Saved, Knows

LEMMA LinkOnce ==
  ASSUME RunInv, ServerInv, AtRow, NEW i \in Links, run.phase = 9,
         run.map[OwnerOf[i]] \notin {None, Placeholder}, run.map[TargetOf[i]] \notin {None, Placeholder},
         ~Taken(i, LinkCopy("run", run.map[OwnerOf[i]], run.map[TargetOf[i]]))
  PROVE  Copies(i, "run") = {}
<1> SUFFICES ASSUME NEW n \in Copies(i, "run") PROVE FALSE
  OBVIOUS
<1>1. Knows(OwnerOf[i], server[i][n].src) /\ Knows(TargetOf[i], server[i][n].dst)
  BY DEF RunInv, Counted
<1>2. run.map[OwnerOf[i]] = server[i][n].src /\ run.map[TargetOf[i]] = server[i][n].dst
  BY <1>1 DEF Knows, AtRow
<1>3. n \in 1 .. Len(server[i])
  BY DEF Copies
<1> QED
  BY <1>2, <1>3 DEF Taken, LinkCopy

LEMMA RunLinks ==
  ASSUME RunInv, ServerInv, MigrateRelationships
  PROVE  Turn /\ ServerInv'
<1>0. AtRow /\ Phases[run.phase] = "relationships"
  BY DEF MigrateRelationships, In, AtRow
<1>1. PICK i : i = Row
  OBVIOUS
<1>2. /\ i \in Items /\ run.phase \in 1 .. 9 /\ RowAt(run.phase, i) /\ i \in Sheets[Phases[run.phase]]
  BY <1>0, <1>1, RowFacts DEF RunInv, AtRow
<1>3. /\ i \in Links /\ i \notin Types /\ i \notin Scoped /\ run.phase = 9
      /\ run \in RunT /\ i \in Items \ Types
  BY <1>0, <1>2, SheetNames, Apart, PhaseRow DEF RunInv, RunTyped
<1>4. UNCHANGED <<hidden, jobs, plan, disk, excuse>>
  BY DEF MigrateRelationships, Same
<1>5. Fields(run, run.marks.done, run.marks.failed, run.map, run.named, "row", run.pos)
  BY <1>0, <1>3, FieldsRun DEF AtRow
<1>6. ASSUME UNCHANGED <<server, faults>> PROVE ServerInv' /\ Lasting /\ ServerTyped'
  BY <1>4, <1>6, NothingCreated, SettledKeeps DEF ServerInv, Settled, ServerTyped
<1>7. OwnerOf[i] \in Scoped /\ TargetOf[i] \in Scoped
  BY <1>3, Named
<1> DEFINE ends == {OrgOf[OwnerOf[i]], OwnerOf[i]}
                     \cup (IF KindOf[i] \in {"configuration", "asset"} THEN {TargetOf[i]} ELSE {})
           row == LinkCopy("run", run.map[OwnerOf[i]], run.map[TargetOf[i]])
<1>8. ends \subseteq Ends(i)
  BY DEF Ends
<1>9. CASE i \in run.marks.done /\ run' = Onward(run) /\ Keep
  <2>1. Fields(run', run.marks.done, run.marks.failed, run.map, run.named, "row", run.pos + 1)
    BY <1>5, <1>9, FieldsOnward
  <2>2. i \notin run.marks.failed
    BY <1>2, <1>9 DEF RunInv, Exclusive
  <2>3. Noted(i, run.marks.failed, run.named)
    BY <1>3, <1>4, <1>6, <1>9, <2>2 DEF Noted, Keep
  <2> QED
    BY <1>0, <1>1, <1>4, <1>6, <1>9, <2>1, <2>3, NotedTurns DEF Keep
<1>10. ASSUME i \notin run.marks.done, Cause(i, run.map), Keep,
              run' = Onward(MarkFailed(run, i))
       PROVE  Turn /\ ServerInv'
  <2>1. Fields(MarkFailed(run, i), run.marks.done, run.marks.failed \cup {i}, run.map, run.named, "row", run.pos)
    BY <1>3, <1>5, FieldsFailed
  <2>2. Fields(run', run.marks.done, run.marks.failed \cup {i}, run.map, run.named, "row", run.pos + 1)
    BY <1>10, <2>1, FieldsOnward
  <2>3. Noted(i, run.marks.failed \cup {i}, run.named)
    BY <1>3, <1>4, <1>6, <1>10 DEF Noted, Keep
  <2> QED
    BY <1>0, <1>1, <1>4, <1>6, <1>10, <2>2, <2>3, NotedTurns DEF Keep
<1>11. CASE /\ i \notin run.marks.done /\ Keep
            /\ ~(KindOf[i] \in {"configuration", "asset"}) \/ \E e \in ends : run.map[e] = None
            /\ run' = Onward(MarkFailed(run, i))
  <2>1. Cause(i, run.map)
    BY <1>3, <1>8, <1>11 DEF Cause, Lacks
  <2> QED
    BY <1>10, <1>11, <2>1
<1>12. CASE run.dry /\ run' = Onward(run) /\ Keep
  <2>1. Fields(run', run.marks.done, run.marks.failed, run.map, run.named, "row", run.pos + 1)
    BY <1>5, <1>12, FieldsOnward
  <2> QED
    BY <1>0, <1>1, <1>4, <1>6, <1>12, <2>1, DryTurns DEF Keep
<1>13. CASE /\ i \notin run.marks.done /\ Keep /\ ~run.dry
            /\ Placeholder \in {run.map[e] : e \in ends}
            /\ run' = Onward(MarkFailed(run, i))
  <2>1. Cause(i, run.map)
    BY <1>3, <1>8, <1>13 DEF Cause, Lacks
  <2> QED
    BY <1>10, <1>13, <2>1
<1>14. CASE /\ i \notin run.marks.done /\ ~run.dry
            /\ KindOf[i] \in {"configuration", "asset"} /\ \A e \in ends : run.map[e] # None
            /\ Placeholder \notin {run.map[e] : e \in ends}
            /\ \E answer \in {"created", "conflict", "refused", "lost"} :
                 /\ Post(i, row, answer)
                 /\ run' = IF answer \in {"created", "conflict"}
                           THEN Onward(MarkCompleted(run, i))
                           ELSE Onward(MarkFailed(Hit(run, answer), i))
  <2>1. PICK answer \in {"created", "conflict", "refused", "lost"} :
           /\ Post(i, row, answer)
           /\ run' = IF answer \in {"created", "conflict"}
                     THEN Onward(MarkCompleted(run, i))
                     ELSE Onward(MarkFailed(Hit(run, answer), i))
    BY <1>14
  <2>2. /\ run.map[OwnerOf[i]] \notin {None, Placeholder}
        /\ run.map[TargetOf[i]] \notin {None, Placeholder}
    BY <1>14
  <2>3. /\ run.map[OwnerOf[i]] \in DOMAIN server[OwnerOf[i]]
        /\ run.map[TargetOf[i]] \in DOMAIN server[TargetOf[i]]
        /\ OwnerOf[i] \in Items /\ TargetOf[i] \in Items
    BY <1>7, <2>2 DEF RunInv, Believed, Sound, Items
  <2>4. run.map[OwnerOf[i]] \in Nat /\ run.map[TargetOf[i]] \in Nat
    BY <2>3, ItemSeqs DEF ServerInv
  <2>5. row \in RowT(i) /\ row.by = "run" /\ Resolves(i, row)
        /\ row.src = run.map[OwnerOf[i]] /\ row.dst = run.map[TargetOf[i]]
    <3>1. row \in LinkT /\ row.by = "run" /\ row.src = run.map[OwnerOf[i]] /\ row.dst = run.map[TargetOf[i]]
      BY <2>4 DEF LinkCopy, LinkT, Tools
    <3>2. i \notin Configs /\ i \notin Assets
      BY <1>3 DEF Scoped
    <3> QED
      BY <1>3, <2>3, <3>1, <3>2 DEF RowT, Resolves
  <2>6. /\ answer = "conflict" <=> Taken(i, row)
        /\ answer \in {"created", "lost"} => Gains(i, row)
        /\ answer \in {"conflict", "refused"} => UNCHANGED server
        /\ faults' \in Nat
    BY <1>2, <1>4, <2>1, <2>5, PostDone DEF ServerInv
  <2>7. ASSUME ~Taken(i, row) PROVE Copies(i, "run") = {}
    BY <1>0, <1>3, <2>2, <2>7, LinkOnce
  <2>8. ServerInv' /\ Lasting
    <3>1. CASE answer \in {"conflict", "refused"}
      BY <1>4, <2>6, <3>1, NothingCreated, SettledKeeps DEF ServerInv, Settled, ServerTyped
    <3>2. CASE answer \in {"created", "lost"}
      BY <1>3, <2>5, <2>6, <3>2, Apart, GainsKeeps DEF Gains
    <3> QED
      BY <3>1, <3>2
  <2>9. \A j \in Items \ {i} : server'[j] = server[j]
    BY <2>6 DEF Gains
  <2>10. /\ Knows(OwnerOf[i], row.src) /\ Knows(TargetOf[i], row.dst)
    BY <1>0, <1>3, <1>7, <2>2, <2>5, KnownEnds DEF AtRow
  <2>11. \A n \in Copies(i, "run")' :
           /\ Knows(OwnerOf[i], server'[i][n].src) /\ Knows(TargetOf[i], server'[i][n].dst)
           /\ \A m \in Copies(i, "run")' : m = n
    <3>1. CASE answer \in {"conflict", "refused"}
      <4>1. server'[i] = server[i]
        BY <2>6, <3>1
      <4>2. Copies(i, "run")' = Copies(i, "run")
        BY <4>1, NoMore
      <4> QED
        BY <1>3, <4>1, <4>2 DEF RunInv, Counted
    <3>2. CASE answer \in {"created", "lost"}
      <4>1. Gains(i, row) /\ Copies(i, "run") = {}
        BY <2>6, <2>7, <3>2
      <4>2. Copies(i, "run")' = {Len(server[i]) + 1}
        BY <1>2, <2>5, <4>1, OneMore DEF ServerInv
      <4>3. server'[i][Len(server[i]) + 1] = row
        BY <4>1 DEF Gains
      <4> QED
        BY <2>10, <4>2, <4>3
    <3> QED
      BY <3>1, <3>2
  <2>12. CASE answer \in {"created", "conflict"}
    <3>1. Fields(MarkCompleted(run, i), run.marks.done \cup {i}, run.marks.failed \ {i}, run.map, run.named, "row", run.pos)
      BY <1>3, <1>5, FieldsCompleted
    <3>2. Fields(run', run.marks.done \cup {i}, run.marks.failed \ {i}, run.map, run.named, "row", run.pos + 1)
      BY <2>1, <2>12, <3>1, FieldsOnward
    <3>3. server'[i] # <<>>
      <4>1. CASE answer = "created"
        BY <1>3, <2>5, <2>6, <4>1, Apart, GainsKeeps DEF Exists
      <4>2. CASE answer = "conflict"
        <5>1. \E n \in 1 .. Len(server[i]) : server[i][n].src = row.src
          BY <1>3, <2>6, <4>2, Apart DEF Taken
        <5>2. server[i] # <<>>
          BY <1>2, <5>1, ItemSeqs DEF ServerInv
        <5> QED
          BY <2>6, <4>2, <5>2
      <4> QED
        BY <2>12, <4>1, <4>2
    <3> HIDE DEF row
    <3> QED
      BY <1>0, <1>1, <1>3, <1>4, <1>14, <2>8, <2>9, <2>11, <3>2, <3>3, LinkTurns
  <2>13. CASE answer \in {"refused", "lost"}
    <3>1. /\ Fields(Hit(run, answer), run.marks.done, run.marks.failed, run.map, run.named, "row", run.pos)
          /\ ~Hit(run, answer).sound
      BY <1>5, <2>13, FieldsHit
    <3>2. Fields(MarkFailed(Hit(run, answer), i), run.marks.done, run.marks.failed \cup {i}, run.map, run.named, "row", run.pos)
      BY <1>3, <3>1, FieldsFailed
    <3>3. Fields(run', run.marks.done, run.marks.failed \cup {i}, run.map, run.named, "row", run.pos + 1)
      BY <2>1, <2>13, <3>2, FieldsOnward
    <3>4. ~run'.sound
      <4>1. run' = Onward(MarkFailed(Hit(run, answer), i))
        BY <2>1, <2>13
      <4> QED
        BY <1>3, <3>1, <3>2, <4>1, SoundOf DEF Fields
    <3> HIDE DEF row
    <3> QED
      BY <1>0, <1>1, <1>3, <1>4, <1>14, <2>8, <2>9, <2>11, <3>3, <3>4, LinkTurns
  <2> QED
    BY <2>12, <2>13
<1> QED
  BY <1>1, <1>9, <1>11, <1>12, <1>13, <1>14 DEF MigrateRelationships, Linkable

\* What one creating call does to a row: whichever way it ends, the row is
\* settled.  The call carries no placeholder, and what it carries is there.
Carries(i, refs, row) ==
  Placeholder \notin refs =>
    row \in CopyT /\ row.by = "run" /\ row.file = "none" /\ Resolves(i, row)

LEMMA RunCreates ==
  ASSUME RunInv, ServerInv, AtRow, Same, NEW r, NEW refs, NEW row, NEW names,
         Fields(r, run.marks.done, run.marks.failed, run.map, names, "row", run.pos),
         Create(r, refs, row), Row \in Orgs \cup Scoped, Row \notin run.marks.done,
         Row \in Orgs => Row \notin plan.matched,
         \A i \in {Row} :
           /\ run.phase = 7 => names \subseteq run.named \cup {NameOfRow(i)}
           /\ Carries(i, refs, row)
           /\ Placeholder \in refs /\ run.sound => Cause(i, run.map)
  PROVE  Turn /\ ServerInv'
<1>1. PICK i : /\ i = Row
               /\ run.phase = 7 => names \subseteq run.named \cup {NameOfRow(i)}
               /\ Carries(i, refs, row)
               /\ Placeholder \in refs /\ run.sound => Cause(i, run.map)
  OBVIOUS
<1>2. /\ i \in Items /\ i \in Orgs \cup Scoped /\ i \notin Links /\ i \notin Types
      /\ i \in Items \ Types /\ run \in RunT
  BY <1>1, RowFacts, Apart DEF RunInv, AtRow, RunTyped
<1>3. UNCHANGED <<hidden, jobs, plan, disk>>
  BY DEF Same
<1>4. ~run.dry
  BY DEF Create
<1>5. r.sound => run.sound
  BY DEF Fields
<1>6. ASSUME UNCHANGED <<server, faults>> PROVE ServerInv' /\ Lasting /\ ServerTyped'
  BY <1>3, <1>6, NothingCreated, SettledKeeps DEF ServerInv, Settled, ServerTyped
<1>7. CASE /\ Placeholder \in refs
           /\ run' = Onward(MarkFailed(r, i)) /\ Keep /\ UNCHANGED excuse
  <2>1. Fields(MarkFailed(r, i), run.marks.done, run.marks.failed \cup {i}, run.map, names, "row", run.pos)
    BY <1>2, FieldsFailed
  <2>2. Fields(run', run.marks.done, run.marks.failed \cup {i}, run.map, names, "row", run.pos + 1)
    BY <1>7, <2>1, FieldsOnward
  <2>3. run'.sound => run.sound
    BY <2>2 DEF Fields
  <2>4. Noted(i, run.marks.failed \cup {i}, names)
    BY <1>1, <1>2, <1>6, <1>7, <2>3 DEF Noted, Keep
  <2> QED
    BY <1>1, <1>3, <1>6, <1>7, <2>2, <2>4, NotedTurns DEF Keep
<1>8. CASE /\ Placeholder \notin refs
           /\ \E answer \in {"created", "conflict", "refused", "lost"} :
                /\ Post(i, row, answer)
                /\ excuse' = IF answer = "lost" THEN [excuse EXCEPT ![i] = @ + 1] ELSE excuse
                /\ run' = IF answer = "created"
                          THEN LET kept == MarkCompleted(Add(r, i, Len(server[i]) + 1), i)
                               IN  IF i \in WithFile THEN [kept EXCEPT !.at = "upload"]
                                                     ELSE Onward(kept)
                          ELSE Onward(MarkFailed(Hit(r, answer), i))
  <2>1. PICK answer \in {"created", "conflict", "refused", "lost"} :
                /\ Post(i, row, answer)
                /\ excuse' = IF answer = "lost" THEN [excuse EXCEPT ![i] = @ + 1] ELSE excuse
                /\ run' = IF answer = "created"
                          THEN LET kept == MarkCompleted(Add(r, i, Len(server[i]) + 1), i)
                               IN  IF i \in WithFile THEN [kept EXCEPT !.at = "upload"]
                                                     ELSE Onward(kept)
                          ELSE Onward(MarkFailed(Hit(r, answer), i))
    BY <1>8
  <2>2. row \in RowT(i) /\ row.by = "run" /\ row.file = "none" /\ Resolves(i, row)
    BY <1>1, <1>2, <1>8 DEF Carries, RowT
  <2>3. /\ answer = "conflict" <=> Taken(i, row)
        /\ answer \in {"created", "lost"} => Gains(i, row)
        /\ answer \in {"conflict", "refused"} => UNCHANGED server
        /\ faults' \in Nat
    BY <1>2, <1>3, <2>1, <2>2, PostDone DEF ServerInv
  <2>4. i \in Orgs \cup Types => (Taken(i, row) <=> Exists(i))
    BY <1>2 DEF Taken
  <2>5. ServerInv' /\ Lasting
    <3>1. CASE answer \in {"conflict", "refused"}
      BY <1>3, <2>3, <3>1, NothingCreated, SettledKeeps DEF ServerInv, Settled, ServerTyped
    <3>2. CASE answer \in {"created", "lost"}
      BY <2>2, <2>3, <2>4, <3>2, GainsKeeps DEF Gains
    <3> QED
      BY <3>1, <3>2
  <2>6. CASE answer = "created"
    <3> DEFINE kept == MarkCompleted(Add(r, i, Len(server[i]) + 1), i)
               map == [run.map EXCEPT ![i] = Len(server[i]) + 1]
    <3>1. Len(server[i]) + 1 \in Uuids
      BY <1>2, ItemSeqs DEF Uuids, ServerInv
    <3>2. Fields(Add(r, i, Len(server[i]) + 1), run.marks.done, run.marks.failed, map, names, "row", run.pos)
      BY <1>2, <3>1, FieldsAdd
    <3>3. Fields(kept, run.marks.done \cup {i}, run.marks.failed \ {i}, map, names, "row", run.pos)
      BY <1>2, <3>2, FieldsCompleted
    <3>4. run' = IF i \in WithFile THEN [kept EXCEPT !.at = "upload"] ELSE Onward(kept)
      BY <2>1, <2>6
    <3>5. excuse' = excuse /\ Gains(i, row)
      BY <2>1, <2>3, <2>6
    <3> HIDE DEF kept
    <3>6. CASE i \in WithFile
      <4>1. Fields(run', run.marks.done \cup {i}, run.marks.failed \ {i}, map, names, "upload", run.pos)
        BY <3>3, <3>4, <3>6, FieldsUpload
      <4>2. \A j \in {Row} :
               /\ Gains(j, row)
               /\ Fields(run', run.marks.done \cup {j}, run.marks.failed \ {j},
                         [run.map EXCEPT ![j] = Len(server[j]) + 1], names, "upload", run.pos)
               /\ run.phase = 7 => names \subseteq run.named \cup {NameOfRow(j)}
        BY <1>1, <3>5, <4>1
      <4>3. Row \in Orgs \cup Scoped /\ Row \notin run.marks.done
        OBVIOUS
      <4>4. Turn
        BY <1>3, <1>4, <2>2, <3>5, <4>2, <4>3, CreatedTurns
      <4> QED
        BY <2>5, <4>4
    <3>7. CASE i \notin WithFile
      <4>1. Fields(run', run.marks.done \cup {i}, run.marks.failed \ {i}, map, names, "row", run.pos + 1)
        BY <3>3, <3>4, <3>7, FieldsOnward
      <4>2. \A j \in {Row} :
               /\ Gains(j, row)
               /\ Fields(run', run.marks.done \cup {j}, run.marks.failed \ {j},
                         [run.map EXCEPT ![j] = Len(server[j]) + 1], names, "row", run.pos + 1)
               /\ run.phase = 7 => names \subseteq run.named \cup {NameOfRow(j)}
        BY <1>1, <3>5, <4>1
      <4>3. Row \in Orgs \cup Scoped /\ Row \notin run.marks.done
        OBVIOUS
      <4>4. Turn
        BY <1>3, <1>4, <2>2, <3>5, <4>2, <4>3, CreatedTurns
      <4> QED
        BY <2>5, <4>4
    <3> QED
      BY <3>6, <3>7
  <2>7. CASE answer # "created"
    <3>1. run' = Onward(MarkFailed(Hit(r, answer), i))
      BY <2>1, <2>7
    <3>2. /\ Fields(Hit(r, answer), run.marks.done, run.marks.failed, run.map, names, "row", run.pos)
          /\ Hit(r, answer).sound => answer \notin {"refused", "lost"}
      BY FieldsHit
    <3>3. Fields(MarkFailed(Hit(r, answer), i), run.marks.done, run.marks.failed \cup {i}, run.map, names, "row", run.pos)
      BY <1>2, <3>2, FieldsFailed
    <3>4. Fields(run', run.marks.done, run.marks.failed \cup {i}, run.map, names, "row", run.pos + 1)
      BY <3>1, <3>3, FieldsOnward
    <3>5. run'.sound => answer = "conflict"
      BY <1>2, <2>7, <3>1, <3>2, <3>3, SoundOf DEF Fields
    <3>6. CASE answer = "lost"
      <4>1. ~run'.sound /\ Gains(i, row) /\ excuse' = [excuse EXCEPT ![i] = @ + 1]
        BY <2>1, <2>3, <3>5, <3>6
      <4> QED
        BY <1>1, <1>2, <1>3, <1>4, <2>2, <2>5, <3>4, <4>1, LostTurns
    <3>7. CASE answer \in {"conflict", "refused"}
      <4>1. server' = server /\ excuse' = excuse /\ ServerTyped'
        BY <2>1, <2>3, <2>5, <3>7 DEF ServerInv
      <4>2. answer = "conflict" => Cause(i, run.map)
        BY <1>1, <1>2, <2>3 DEF Taken, Cause
      <4>3. Noted(i, run.marks.failed \cup {i}, names)
        BY <1>1, <1>2, <3>5, <4>1, <4>2 DEF Noted
      <4> QED
        BY <1>1, <1>3, <2>5, <3>4, <4>3, NotedTurns
    <3> QED
      BY <2>7, <3>6, <3>7
  <2> QED
    BY <2>6, <2>7
<1> QED
  BY <1>1, <1>7, <1>8 DEF Create, Refused
-----------------------------------------------------------------------------
(***************************************************************************)
(* The phases.                                                             *)
(***************************************************************************)
LEMMA RunSkips ==
  ASSUME RunInv, ServerInv, AtRow, Same, Skip, Row \notin Types
  PROVE  Turn /\ ServerInv'
<1>1. PICK i : i = Row
  OBVIOUS
<1>2. i \in Items /\ run \in RunT
  BY <1>1, RowFacts DEF RunInv, AtRow, RunTyped
<1>3. UNCHANGED <<hidden, jobs, plan, disk, server, faults, excuse>> /\ i \in run.marks.done
  BY <1>1 DEF Same, Skip, Keep
<1>4. ServerInv' /\ ServerTyped'
  BY <1>3, NothingCreated, SettledKeeps DEF ServerInv, Settled, ServerTyped
<1>5. Fields(run, run.marks.done, run.marks.failed, run.map, run.named, "row", run.pos)
  BY <1>2, FieldsRun DEF AtRow
<1>6. Fields(run', run.marks.done, run.marks.failed, run.map, run.named, "row", run.pos + 1)
  BY <1>5, FieldsOnward DEF Skip
<1>7. i \notin run.marks.failed
  BY <1>2, <1>3 DEF RunInv, Exclusive
<1>8. Noted(i, run.marks.failed, run.named)
  BY <1>1, <1>3, <1>4, <1>7 DEF Noted
<1> QED
  BY <1>1, <1>3, <1>4, <1>6, <1>8, NotedTurns

LEMMA RunUnmapped ==
  ASSUME RunInv, ServerInv, AtRow, Same, NEW needs, Unmapped(needs), Row \notin Types,
         \A i \in {Row} : (\E n \in needs : run.map[n] = None) /\ run.sound /\ ~run.dry => Cause(i, run.map)
  PROVE  Turn /\ ServerInv'
<1>1. PICK i : i = Row /\ (run.sound /\ ~run.dry => Cause(i, run.map))
  BY DEF Unmapped
<1>2. i \in Items \ Types /\ run \in RunT
  BY <1>1, RowFacts DEF RunInv, AtRow, RunTyped
<1>3. UNCHANGED <<hidden, jobs, plan, disk, server, faults, excuse>> /\ i \notin run.marks.done
  BY <1>1 DEF Same, Unmapped, Keep
<1>4. ServerInv' /\ ServerTyped'
  BY <1>3, NothingCreated, SettledKeeps DEF ServerInv, Settled, ServerTyped
<1>5. Fields(run, run.marks.done, run.marks.failed, run.map, run.named, "row", run.pos)
  BY <1>2, FieldsRun DEF AtRow
<1>6. Fields(MarkFailed(run, i), run.marks.done, run.marks.failed \cup {i}, run.map, run.named, "row", run.pos)
  BY <1>2, <1>5, FieldsFailed
<1>7. Fields(run', run.marks.done, run.marks.failed \cup {i}, run.map, run.named, "row", run.pos + 1)
  BY <1>1, <1>6, FieldsOnward DEF Unmapped
<1>8. run'.sound => run.sound
  BY <1>7 DEF Fields
<1>9. Noted(i, run.marks.failed \cup {i}, run.named)
  BY <1>1, <1>2, <1>3, <1>4, <1>8 DEF Noted
<1> QED
  BY <1>1, <1>3, <1>4, <1>7, <1>9, NotedTurns

LEMMA RunDry ==
  ASSUME RunInv, ServerInv, AtRow, Same, NEW r, NEW names, DryRun(r), Row \notin run.marks.done,
         Fields(r, run.marks.done, run.marks.failed, run.map, names, "row", run.pos)
  PROVE  Turn /\ ServerInv'
<1>1. PICK i : i = Row
  OBVIOUS
<1>2. i \in Items /\ Placeholder \in Uuids
  BY <1>1, RowFacts DEF RunInv, AtRow, Uuids
<1>3. UNCHANGED <<hidden, jobs, plan, disk, server, faults, excuse>> /\ run.dry
  BY <1>1 DEF Same, DryRun, Keep
<1>4. ServerInv'
  BY <1>3, NothingCreated, SettledKeeps DEF ServerInv, Settled, ServerTyped
<1>5. Fields(Add(r, i, Placeholder), run.marks.done, run.marks.failed,
             [run.map EXCEPT ![i] = Placeholder], names, "row", run.pos)
  BY <1>2, FieldsAdd
<1>6. Fields(run', run.marks.done, run.marks.failed,
             [run.map EXCEPT ![i] = Placeholder], names, "row", run.pos + 1)
  BY <1>1, <1>5, FieldsOnward DEF DryRun
<1> QED
  BY <1>1, <1>3, <1>4, <1>6, DryTurns

\* The phase that a row action belongs to.
LEMMA PhaseOf ==
  ASSUME RunInv, NEW p \in 1 .. 9, In(Phases[p])
  PROVE  /\ AtRow /\ run.phase = p /\ run \in RunT /\ Row \in Items
         /\ RowAt(p, Row) /\ ~Passed(Row)
<1>1. AtRow /\ Phases[run.phase] = Phases[p]
  BY DEF In, AtRow
<1>2. run.phase \in 1 .. 9 /\ Row \in Items /\ RowAt(run.phase, Row) /\ run \in RunT /\ ~Passed(Row)
  BY <1>1, RowFacts DEF RunInv, AtRow, RunTyped
<1>3. \A a, b \in 1 .. 9 : Phases[a] = Phases[b] => a = b
  <2>1. \A a \in 1 .. 9 : a = 1 \/ a = 2 \/ a = 3 \/ a = 4 \/ a = 5 \/ a = 6 \/ a = 7 \/ a = 8 \/ a = 9
    OBVIOUS
  <2> QED
    BY <2>1, PhaseNames
<1> QED
  BY <1>1, <1>2, <1>3

\* When the rows that name a type come up, the types are behind.
LEMMA TypesPassed ==
  ASSUME RunInv, run.at # "idle", ~run.dry, run.sound
  PROVE  /\ run.phase = 4 => \A t \in ConfigTypes : ~Lacks(run.map, t) \/ Crowded(t)
         /\ run.phase = 6 => \A t \in AssetTypes : ~Lacks(run.map, t) \/ Crowded(t)
<1>1. ASSUME NEW t \in ConfigTypes \cup AssetTypes,
             t \in ConfigTypes => run.phase = 4, t \notin ConfigTypes => run.phase = 6
      PROVE  Passed(t)
  <2>1. t \in Items \ Statuses /\ t \in Types
    BY RowsApart DEF Items, Types
  <2>2. PICK p \in 1 .. 9 : \E n \in DOMAIN Sheet(p) : Sheet(p)[n] = t
    BY <2>1, EveryRow
  <2>3. RowAt(p, t)
    BY <2>2, SheetOf, RowPhase
  <2>4. p \in {3, 5} /\ (p = 5 => t \in AssetTypes)
    BY <2>1, <2>3, PhaseRow DEF RowAt
  <2>5. p < run.phase
    BY <1>1, <2>4, RowsApart
  <2> QED
    BY <2>2, <2>5 DEF Passed
<1>2. \A t \in ConfigTypes \cup AssetTypes : Passed(t) => ~Lacks(run.map, t) \/ Crowded(t)
  BY DEF RunInv, Behind
<1>3. run.phase = 4 => \A t \in ConfigTypes : Passed(t)
  BY <1>1
<1>4. run.phase = 6 => \A t \in AssetTypes : Passed(t)
  BY <1>1, RowsApart
<1> QED
  BY <1>2, <1>3, <1>4

LEMMA RunOrganizations ==
  ASSUME RunInv, ServerInv, MigrateOrganizations
  PROVE  Turn /\ ServerInv'
<1>1. AtRow /\ run.phase = 1 /\ Row \in Orgs /\ Row \in Items /\ run \in RunT /\ Same
  BY PhaseOf, PhaseNames DEF MigrateOrganizations, RowAt
<1>2. PICK i : i = Row
  OBVIOUS
<1>3. i \in Orgs /\ i \notin Types /\ i \notin Scoped /\ i \notin Links /\ i \in Items /\ i \in Items \ Types
  BY <1>1, <1>2, Apart
<1>4. Fields(run, run.marks.done, run.marks.failed, run.map, run.named, "row", run.pos)
  BY <1>1, FieldsRun DEF AtRow
<1>5. CASE Skip
  BY <1>1, <1>2, <1>3, <1>5, RunSkips
<1>6. CASE /\ Row \notin run.marks.done /\ Row \in plan.matched
           /\ run' = Onward(MarkCompleted(Add(run, Row, 1), Row))
           /\ Keep /\ UNCHANGED excuse
  <2>1. 1 \in Uuids
    BY DEF Uuids
  <2>2. Fields(Add(run, i, 1), run.marks.done, run.marks.failed, [run.map EXCEPT ![i] = 1], run.named, "row", run.pos)
    BY <1>3, <1>4, <2>1, FieldsAdd
  <2>3. Fields(MarkCompleted(Add(run, i, 1), i), run.marks.done \cup {i}, run.marks.failed \ {i},
               [run.map EXCEPT ![i] = 1], run.named, "row", run.pos)
    BY <1>3, <2>2, FieldsCompleted
  <2>4. Fields(run', run.marks.done \cup {i}, run.marks.failed \ {i},
               [run.map EXCEPT ![i] = 1], run.named, "row", run.pos + 1)
    BY <1>2, <1>6, <2>3, FieldsOnward
  <2>5. UNCHANGED <<hidden, jobs, plan, disk, server, faults, excuse>>
    BY <1>1, <1>6 DEF Same, Keep
  <2>6. Turn
    BY <1>1, <1>2, <1>6, <2>4, <2>5, MatchedTurns
  <2>7. ServerInv'
    BY <2>5, NothingCreated, SettledKeeps DEF ServerInv, Settled, ServerTyped
  <2> QED
    BY <2>6, <2>7
<1>7. CASE Row \notin run.marks.done /\ Row \notin plan.matched /\ DryRun(run)
  BY <1>1, <1>4, <1>7, RunDry
<1>8. CASE /\ Row \notin run.marks.done /\ Row \notin plan.matched
           /\ Create(run, {}, Copy("run", None, None))
  <2>1. Carries(i, {}, Copy("run", None, None))
    BY <1>3 DEF Carries, Copy, CopyT, Tools, Files, Texts, None, Resolves, Scoped
  <2>2. \A j \in {Row} : /\ run.phase = 7 => run.named \subseteq run.named \cup {NameOfRow(j)}
                         /\ Carries(j, {}, Copy("run", None, None))
                         /\ Placeholder \in {} /\ run.sound => Cause(j, run.map)
    BY <1>2, <2>1
  <2> QED
    BY <1>1, <1>4, <1>8, <2>2, RunCreates
<1> QED
  BY <1>5, <1>6, <1>7, <1>8 DEF MigrateOrganizations

\* The rows that are created with the uuid of their organization.
LEMMA RunEntity ==
  ASSUME RunInv, ServerInv, AtRow, NEW needs, NEW refs, NEW row, Entity(needs, run, refs, row),
         Row \in Scoped, run.phase # 7,
         \A i \in {Row} :
           /\ (\E n \in needs : run.map[n] = None) /\ run.sound /\ ~run.dry => Cause(i, run.map)
           /\ (\A n \in needs : run.map[n] # None) => Carries(i, refs, row)
           /\ Placeholder \in refs /\ run.sound /\ ~run.dry => Cause(i, run.map)
  PROVE  Turn /\ ServerInv'
<1>1. Same /\ Row \notin Types /\ Row \notin Orgs /\ run \in RunT
  BY Apart DEF Entity, RunInv, RunTyped
<1>2. Fields(run, run.marks.done, run.marks.failed, run.map, run.named, "row", run.pos)
  BY <1>1, FieldsRun DEF AtRow
<1>3. CASE Skip
  BY <1>1, <1>3, RunSkips
<1>4. CASE Unmapped(needs)
  BY <1>1, <1>4, RunUnmapped
<1>5. CASE Ready(needs) /\ DryRun(run)
  BY <1>1, <1>2, <1>5, RunDry DEF Ready
<1>6. CASE Ready(needs) /\ Create(run, refs, row)
  <2>1. ~run.dry /\ Row \notin run.marks.done /\ (\A n \in needs : run.map[n] # None)
    BY <1>6 DEF Create, Ready
  <2> QED
    BY <1>1, <1>2, <1>6, <2>1, RunCreates
<1> QED
  BY <1>3, <1>4, <1>5, <1>6 DEF Entity

LEMMA RunPlain ==
  ASSUME RunInv, ServerInv, AtRow, Row \in Scoped, Row \notin Configs, Row \notin Assets,
         run.phase # 7, Entity({OrgOf[Row]}, run, {OrgUuid}, Copy("run", None, None))
  PROVE  Turn /\ ServerInv'
<1>1. PICK i : i = Row
  OBVIOUS
<1>2. i \notin Links
  BY <1>1, Apart
<1>3. Carries(i, {OrgUuid}, Copy("run", None, None))
  BY <1>1, <1>2 DEF Carries, Copy, CopyT, Tools, Files, Texts, None, Resolves
<1>4. /\ run.map[OrgOf[i]] = None => Cause(i, run.map)
      /\ run.map[OrgOf[i]] = Placeholder => Cause(i, run.map)
  BY <1>1 DEF Cause, Lacks
<1> QED
  BY <1>1, <1>3, <1>4, RunEntity DEF OrgUuid

LEMMA RunConfigurations ==
  ASSUME RunInv, ServerInv, MigrateConfigurations
  PROVE  Turn /\ ServerInv'
<1>1. AtRow /\ run.phase = 4 /\ Row \in Configs /\ Row \in Scoped
  BY PhaseOf, PhaseNames DEF MigrateConfigurations, RowAt, Scoped
<1>2. PICK i : i = Row
  OBVIOUS
<1> DEFINE type == run.map[TypeOf[i]]
           refs == {run.map[OrgOf[i]], type}
           row == Copy("run", type, None)
<1>3. TypeOf[i] \in ConfigTypes /\ TypeOf[i] \in Items /\ i \notin Links /\ i \notin Assets
  BY <1>1, <1>2, Named, Apart, RowsApart DEF Items, Types
<1>4. type \in {None, Placeholder} \cup DOMAIN server[TypeOf[i]]
  BY <1>3 DEF RunInv, Believed, Sound
<1>5. type # Placeholder => type \in Nat
  BY <1>3, <1>4, ItemSeqs DEF None, ServerInv
<1>6. Carries(i, refs, row)
  <2> SUFFICES ASSUME Placeholder \notin refs
               PROVE  row \in CopyT /\ row.by = "run" /\ row.file = "none" /\ Resolves(i, row)
    BY DEF Carries
  <2>1. type # Placeholder
    OBVIOUS
  <2>2. row \in CopyT /\ row.by = "run" /\ row.file = "none" /\ row.type = type /\ row.status = None
    BY <1>5, <2>1 DEF Copy, CopyT, Tools, Files, Texts, None
  <2> QED
    BY <1>1, <1>2, <1>3, <1>4, <2>1, <2>2 DEF Resolves
<1>7. run.map[OrgOf[i]] \in {None, Placeholder} => Cause(i, run.map)
  BY <1>1, <1>2 DEF Cause, Lacks
<1>8. Placeholder \in refs /\ run.sound /\ ~run.dry => Cause(i, run.map)
  <2> SUFFICES ASSUME type = Placeholder, run.sound, ~run.dry PROVE Cause(i, run.map)
    BY <1>7
  <2>1. Crowded(TypeOf[i])
    BY <1>1, <1>3, TypesPassed DEF Lacks, AtRow
  <2> QED
    BY <1>1, <1>2, <2>1 DEF Cause
<1>9. Entity({OrgOf[i]}, run, refs, row)
  BY <1>2 DEF MigrateConfigurations, OrgUuid
<1> HIDE DEF refs, row
<1> QED
  BY <1>1, <1>2, <1>6, <1>7, <1>8, <1>9, RunEntity

LEMMA RunCustomAssets ==
  ASSUME RunInv, ServerInv, MigrateCustomAssets
  PROVE  Turn /\ ServerInv'
<1>1. AtRow /\ run.phase = 6 /\ Row \in Assets /\ Row \in Scoped
  BY PhaseOf, PhaseNames DEF MigrateCustomAssets, RowAt, Scoped
<1>2. PICK i : i = Row
  OBVIOUS
<1> DEFINE type == run.map[TypeOf[i]]
           refs == {run.map[OrgOf[i]], type}
           row == Copy("run", type, None)
           needs == {OrgOf[i], TypeOf[i]}
<1>3. TypeOf[i] \in AssetTypes /\ TypeOf[i] \in Items /\ i \notin Links /\ i \notin Configs
  BY <1>1, <1>2, Named, Apart, RowsApart DEF Items, Types
<1>4. type \in {None, Placeholder} \cup DOMAIN server[TypeOf[i]]
  BY <1>3 DEF RunInv, Believed, Sound
<1>5. type # Placeholder => type \in Nat
  BY <1>3, <1>4, ItemSeqs DEF None, ServerInv
<1>6. type # None => Carries(i, refs, row)
  <2> SUFFICES ASSUME type # None, Placeholder \notin refs
               PROVE  row \in CopyT /\ row.by = "run" /\ row.file = "none" /\ Resolves(i, row)
    BY DEF Carries
  <2>1. type # Placeholder
    OBVIOUS
  <2>2. row \in CopyT /\ row.by = "run" /\ row.file = "none" /\ row.type = type /\ row.status = None
    BY <1>5, <2>1 DEF Copy, CopyT, Tools, Files, Texts, None
  <2> QED
    BY <1>1, <1>2, <1>3, <1>4, <2>1, <2>2 DEF Resolves
<1>7. run.map[OrgOf[i]] \in {None, Placeholder} => Cause(i, run.map)
  BY <1>1, <1>2 DEF Cause, Lacks
<1>8. type \in {None, Placeholder} /\ run.sound /\ ~run.dry => Cause(i, run.map)
  <2> SUFFICES ASSUME type \in {None, Placeholder}, run.sound, ~run.dry PROVE Cause(i, run.map)
    OBVIOUS
  <2>1. Crowded(TypeOf[i])
    BY <1>1, <1>3, TypesPassed DEF Lacks, AtRow
  <2> QED
    BY <1>1, <1>2, <2>1 DEF Cause, Lacks
<1>9. Placeholder \in refs /\ run.sound /\ ~run.dry => Cause(i, run.map)
  BY <1>7, <1>8
<1>10. (\E n \in needs : run.map[n] = None) /\ run.sound /\ ~run.dry => Cause(i, run.map)
  BY <1>7, <1>8
<1>11. (\A n \in needs : run.map[n] # None) => Carries(i, refs, row)
  BY <1>6
<1>12. Entity(needs, run, refs, row)
  BY <1>2 DEF MigrateCustomAssets, OrgUuid
<1> HIDE DEF refs, row, needs
<1> QED
  BY <1>1, <1>2, <1>9, <1>10, <1>11, <1>12, RunEntity

\* A document whose name was tried before it is passed over.
LEMMA RunDocuments ==
  ASSUME RunInv, ServerInv, MigrateDocuments
  PROVE  Turn /\ ServerInv'
<1>1. AtRow /\ run.phase = 7 /\ Row \in Docs /\ Row \in Scoped /\ Row \in Items /\ run \in RunT
      /\ ~Passed(Row)
  BY PhaseOf, PhaseNames DEF MigrateDocuments, RowAt, Scoped
<1>2. PICK i : i = Row
  OBVIOUS
<1>3. /\ i \notin Types /\ i \notin Orgs /\ i \notin Links /\ i \notin Configs /\ i \notin Assets
      /\ {NameOfRow(i)} \in SUBSET Names
  BY <1>1, <1>2, Apart, RowsApart DEF Names, NameOfRow
<1> DEFINE tried == [run EXCEPT !.named = @ \cup {NameOfRow(i)}]
           names == run.named \cup {NameOfRow(i)}
<1>4. Fields(run, run.marks.done, run.marks.failed, run.map, run.named, "row", run.pos)
  BY <1>1, FieldsRun DEF AtRow
<1>5. Fields(tried, run.marks.done, run.marks.failed, run.map, names, "row", run.pos)
  BY <1>3, <1>4, FieldsNamed
<1>6. /\ run.map[OrgOf[i]] = None => Cause(i, run.map)
      /\ run.map[OrgOf[i]] = Placeholder => Cause(i, run.map)
  BY <1>1, <1>2 DEF Cause, Lacks
<1>7. CASE Skip /\ Same
  BY <1>1, <1>2, <1>3, <1>7, RunSkips
<1>8. CASE Unmapped({OrgOf[Row]}) /\ Same
  BY <1>1, <1>2, <1>3, <1>6, <1>8, RunUnmapped
<1>9. CASE /\ NameOfRow(i) \in run.named \/ (i \in Empty /\ ~run.dry)
           /\ run' = Onward(tried) /\ Keep /\ Same /\ UNCHANGED excuse
  <2>1. Fields(run', run.marks.done, run.marks.failed, run.map, names, "row", run.pos + 1)
    BY <1>5, <1>9, FieldsOnward
  <2>2. UNCHANGED <<hidden, jobs, plan, disk, server, faults, excuse>>
    BY <1>9 DEF Same, Keep
  <2>3. ServerInv' /\ ServerTyped'
    BY <2>2, NothingCreated, SettledKeeps DEF ServerInv, Settled, ServerTyped
  <2>4. ~run.dry => Unsaid(i)
    <3>1. CASE i \in Empty
      BY <1>1, <1>2, <3>1 DEF Unsaid
    <3>2. CASE ~run.dry /\ NameOfRow(i) \in run.named
      <4>1. PICK d \in Docs : NameOfRow(i) = <<OrgOf[d], NameOf[d]>> /\ Passed(d)
        BY <1>1, <3>2 DEF RunInv, Behind, AtRow
      <4>2. d # i
        BY <1>1, <1>2, <4>1
      <4> QED
        BY <1>1, <1>2, <4>1, <4>2 DEF Unsaid, Twin, NameOfRow
    <3> QED
      BY <1>9, <3>1, <3>2
  <2>5. Noted(i, run.marks.failed, names)
    BY <1>3, <2>2, <2>3, <2>4 DEF Noted, Cause
  <2> QED
    BY <1>1, <1>2, <2>1, <2>2, <2>3, <2>5, NotedTurns
<1>10. CASE Ready({OrgOf[Row]}) /\ DryRun(tried) /\ Same
  BY <1>1, <1>5, <1>10, RunDry DEF Ready
<1>11. CASE Ready({OrgOf[Row]}) /\ Create(tried, {OrgUuid}, Copy("run", None, None)) /\ Same
  <2>1. Carries(i, {OrgUuid}, Copy("run", None, None))
    BY <1>3 DEF Carries, Copy, CopyT, Tools, Files, Texts, None, Resolves
  <2>2. \A j \in {Row} : /\ run.phase = 7 => names \subseteq run.named \cup {NameOfRow(j)}
                         /\ Carries(j, {OrgUuid}, Copy("run", None, None))
                         /\ Placeholder \in {OrgUuid} /\ run.sound => Cause(j, run.map)
    BY <1>2, <1>6, <2>1 DEF OrgUuid
  <2>3. Row \in Orgs \cup Scoped /\ (Row \in Orgs => Row \notin plan.matched) /\ Row \notin run.marks.done
    BY <1>1, <1>2, <1>3, <1>11 DEF Ready
  <2> HIDE DEF tried, names
  <2> QED
    BY <1>1, <1>5, <1>11, <2>2, <2>3, RunCreates
<1> HIDE DEF tried
<1> QED
  BY <1>2, <1>7, <1>8, <1>9, <1>10, <1>11 DEF MigrateDocuments, NameOfRow, tried

\* Every action on a row is a turn.
LEMMA RunLeavesOut ==
  ASSUME RunInv, ServerInv, LeaveOut
  PROVE  Turn /\ ServerInv'
<1>1. AtRow /\ ~Within(Row) /\ run' = Onward(run) /\ Keep /\ Same /\ UNCHANGED excuse
  BY DEF LeaveOut
<1>2. PICK i : i = Row
  OBVIOUS
<1>3. i \in Items /\ run \in RunT
  BY <1>1, <1>2, RowFacts DEF RunInv, RunTyped, AtRow
<1>4. i \notin Types
  BY <1>1, <1>2, Apart DEF Within
<1>5. Fields(run, run.marks.done, run.marks.failed, run.map, run.named, "row", run.pos)
  BY <1>1, <1>3, FieldsRun DEF AtRow
<1>6. Fields(run', run.marks.done, run.marks.failed, run.map, run.named, "row", run.pos + 1)
  BY <1>1, <1>5, FieldsOnward
<1>7. UNCHANGED <<server, faults, hidden, jobs, plan, disk, excuse>>
  BY <1>1 DEF Keep, Same
<1>8. ServerInv' /\ ServerTyped'
  BY <1>7, NothingCreated, SettledKeeps DEF ServerInv, Settled, ServerTyped
<1>9. Noted(i, run.marks.failed, run.named)
  BY <1>1, <1>2, <1>4, <1>7, <1>8 DEF Noted
<1> QED
  BY <1>1, <1>2, <1>6, <1>7, <1>8, <1>9, NotedTurns

RowAction ==
  \/ LeaveOut
  \/ MigrateOrganizations \/ MigrateLocations
  \/ MigrateConfigurationTypes \/ MigrateConfigurations
  \/ MigrateCustomAssetTypes \/ MigrateCustomAssets
  \/ MigrateDocuments \/ MigratePasswords \/ MigrateRelationships

LEMMA RowActions ==
  ASSUME RunInv, ServerInv, RowAction
  PROVE  RunInv' /\ ServerInv'
<1>1. ASSUME MigrateLocations PROVE Turn /\ ServerInv'
  <2>1. AtRow /\ run.phase = 2 /\ Row \in Locations
    BY <1>1, PhaseOf, PhaseNames DEF MigrateLocations, RowAt
  <2> QED
    BY <1>1, <2>1, RowsApart, RunPlain DEF MigrateLocations, Scoped
<1>2. ASSUME MigratePasswords PROVE Turn /\ ServerInv'
  <2>1. AtRow /\ run.phase = 8 /\ Row \in Passwords
    BY <1>2, PhaseOf, PhaseNames DEF MigratePasswords, RowAt
  <2> QED
    BY <1>2, <2>1, RowsApart, RunPlain DEF MigratePasswords, Scoped
<1>3. ASSUME MigrateConfigurationTypes PROVE Turn /\ ServerInv'
  <2>1. AtRow /\ Row \in ConfigTypes
    BY <1>3, PhaseOf, PhaseNames DEF MigrateConfigurationTypes, RowAt
  <2> QED
    BY <1>3, <2>1, RunTypes DEF MigrateConfigurationTypes
<1>4. ASSUME MigrateCustomAssetTypes PROVE Turn /\ ServerInv'
  <2>1. AtRow /\ Row \in AssetTypes
    BY <1>4, PhaseOf, PhaseNames DEF MigrateCustomAssetTypes, RowAt
  <2> QED
    BY <1>4, <2>1, RunTypes DEF MigrateCustomAssetTypes
<1>5. Turn /\ ServerInv'
  BY <1>1, <1>2, <1>3, <1>4, RunOrganizations, RunConfigurations, RunCustomAssets,
     RunDocuments, RunLinks, RunLeavesOut DEF RowAction
<1> QED
  BY <1>5, TurnKeeps
-----------------------------------------------------------------------------
(***************************************************************************)
(* What the run does between two rows.                                     *)
(***************************************************************************)
LEMMA CauseHolds ==
  ASSUME ServerTyped, Settled, NEW i \in Items, NEW map, Cause(i, map), plan' = plan,
         \A e \in Orgs \cup Scoped : Lacks(map, e) => Lacks(run'.map, e),
         \A t \in Types : run'.map[t] = map[t]
  PROVE  Cause(i, run.map)'
<1>1. i \in Orgs /\ Exists(i) /\ i \notin plan.matched => Cause(i, run.map)'
  BY SameCopies DEF Cause
<1>2. i \in Scoped /\ Lacks(map, OrgOf[i]) => Cause(i, run.map)'
  BY Named DEF Cause, Lacks
<1>3. Unsaid(i) => Cause(i, run.map)'
  BY DEF Cause, Unsaid, Twin
<1>4. ASSUME i \in Links, NEW e \in Ends(i), Lacks(map, e) PROVE Cause(i, run.map)'
  BY <1>4, Named DEF Cause, Lacks, Ends
<1>5. i \in Links /\ KindOf[i] \notin {"configuration", "asset"} => Cause(i, run.map)'
  BY DEF Cause
<1>6. ASSUME i \in Assets \cup Configs, Crowded(TypeOf[i]),
             Lacks(map, TypeOf[i]) /\ (i \in Configs => map[TypeOf[i]] = Placeholder)
      PROVE  Cause(i, run.map)'
  <2>1. TypeOf[i] \in Types /\ TypeOf[i] \in Items
    BY <1>6, Named DEF Items, Types
  <2>2. Crowded(TypeOf[i])'
    BY <1>6, <2>1, CrowdedStays DEF Settled
  <2> QED
    BY <1>6, <2>1, <2>2 DEF Cause, Lacks
<1>7. \/ i \in Orgs /\ Exists(i) /\ i \notin plan.matched
      \/ i \in Scoped /\ Lacks(map, OrgOf[i])
      \/ /\ i \in Assets \cup Configs /\ Crowded(TypeOf[i])
         /\ Lacks(map, TypeOf[i]) /\ (i \in Configs => map[TypeOf[i]] = Placeholder)
      \/ Unsaid(i)
      \/ i \in Links /\ (KindOf[i] \notin {"configuration", "asset"} \/ \E e \in Ends(i) : Lacks(map, e))
  BY RowsApart DEF Cause, Lacks
<1> QED
  BY <1>1, <1>2, <1>3, <1>4, <1>5, <1>6, <1>7

\* A step between two rows changes neither the files nor what the memory says
\* of the rows.
Between ==
  /\ plan' = plan /\ disk' = disk /\ excuse' = excuse
  /\ Settled /\ RunTyped'
  /\ run.at \in {"list", "row", "upload"} /\ run'.at \in {"row", "state"}
  /\ run'.dry = run.dry /\ run'.phase = run.phase /\ (run'.sound => run.sound)
  /\ run'.scope = run.scope
  /\ run'.marks.done = run.marks.done /\ run'.marks.failed = run.marks.failed
  /\ run'.map = run.map
  /\ \A i \in run'.marks.stored :
       i \in run.marks.stored \/ \E n \in 1 .. Len(server'[i]) : server'[i][n].file = "stored"
  /\ \A i : Passed(i) => Passed(i)'
  /\ \A i : Passed(i)' => Passed(i) \/ i \in run.marks.done
  /\ run'.at = "row" /\ run.phase \in {3, 5} /\ ~run.dry =>
       /\ run'.sound =>
            \A t \in Sheets[Phases[run.phase]] : Exists(t) => t \in run'.named \/ Crowded(t)
       /\ \A t \in run'.named : t \in Types /\ Exists(t)
  /\ run'.at = "row" /\ run.phase = 7 /\ ~run.dry =>
       \A name \in run'.named : \E d \in Docs : name = NameOfRow(d) /\ Passed(d)'

LEMMA BetweenKeeps ==
  ASSUME RunInv, ServerInv, Between
  PROVE  RunInv'
<1>1. /\ \A i \in Items : Copies(i, "run")' = Copies(i, "run")
      /\ \A l \in Links : \A n \in Copies(l, "run") : server'[l][n] = server[l][n]
      /\ \A i \in Items : DOMAIN server'[i] = DOMAIN server[i]
      /\ \A i \in Items : Exists(i)' <=> Exists(i)
  BY SameCopies DEF Between, ServerInv
<1>2. \A i \in Orgs \cup Scoped :
        (\E n \in 1 .. Len(server[i]) : server[i][n].file = "stored")
        => \E n \in 1 .. Len(server'[i]) : server'[i][n].file = "stored"
  BY Lasts DEF Between, Settled, ServerInv
<1>3. /\ disk.marks.done \subseteq Items /\ disk.marks.stored \subseteq Orgs \cup Scoped
      /\ run.marks.done \subseteq Items \ Types /\ run.marks.stored \subseteq Orgs \cup Scoped
      /\ plan.matched \subseteq Items /\ run.phase \in 1 .. 9
  BY DEF RunInv, RunTyped, DiskT, RunT, MarksT, Between, Items
<1>4. Believed'
  <2>1. Sound(disk.marks, disk.map)'
    BY <1>1, <1>2, <1>3 DEF RunInv, Believed, Sound, Between
  <2>2. Sound(run.marks, run.map)'
    <3>1. \A i \in run'.marks.done : Exists(i)'
      BY <1>1, <1>3 DEF RunInv, Believed, Sound, Between
    <3>2. \A i \in run'.marks.stored : \E n \in 1 .. Len(server'[i]) : server'[i][n].file = "stored"
      BY <1>2, <1>3 DEF RunInv, Believed, Sound, Between
    <3>3. \A i \in Items : run'.map[i] \in {None, Placeholder} \cup DOMAIN server'[i]
      BY <1>1 DEF RunInv, Believed, Sound, Between
    <3> QED
      BY <3>1, <3>2, <3>3 DEF Sound
  <2>3. \A o \in plan'.matched : Exists(o)'
    BY <1>1, <1>3 DEF RunInv, Believed, Between
  <2> QED
    BY <2>1, <2>2, <2>3 DEF Believed, Between
<1>5. Saved'
  BY DEF RunInv, Saved, Between
<1>6. Counted'
  <2>1. Completed = run.marks.done /\ Completed' = run'.marks.done
    BY DEF Completed, Between
  <2>2. \A e, uuid : Knows(e, uuid) => Knows(e, uuid)'
    BY DEF Knows, Between
  <2>3. ASSUME NEW i \in Scoped
        PROVE  Cardinality(Copies(i, "run")') <= excuse'[i] + IF i \in Completed' THEN 1 ELSE 0
    <3>1. i \in Items
      BY DEF Items
    <3> QED
      BY <1>1, <2>1, <3>1 DEF RunInv, Counted, Between
  <2>4. ASSUME NEW l \in Links, NEW n \in Copies(l, "run")'
        PROVE  /\ Knows(OwnerOf[l], server[l][n].src)' /\ Knows(TargetOf[l], server[l][n].dst)'
               /\ \A m \in Copies(l, "run")' : m = n
    <3>1. l \in Items
      BY DEF Items
    <3>2. n \in Copies(l, "run") /\ server'[l][n] = server[l][n] /\ \A m \in Copies(l, "run") : m = n
      BY <1>1, <2>4, <3>1 DEF RunInv, Counted
    <3>3. Knows(OwnerOf[l], server[l][n].src) /\ Knows(TargetOf[l], server[l][n].dst)
      BY <3>2 DEF RunInv, Counted
    <3> QED
      BY <1>1, <3>1, <3>2, <3>3, <2>2
  <2> QED
    BY <2>3, <2>4 DEF Counted
<1>7. Behind'
  <2> SUFFICES ASSUME ~run.dry PROVE Behind'
    BY DEF Behind, Between
  <2>0. run.at # "idle" /\ run'.at \in {"row", "state"} /\ run'.phase = run.phase
    BY DEF Between
  <2>w. \A i : Within(i)' <=> Within(i)
    BY WithinStays DEF Between
  <2>c. \A i \in Items : Crowded(i) => Crowded(i)'
    BY CrowdedStays DEF Between, Settled, ServerInv
  <2>1. ASSUME NEW i \in Items \ Types, Passed(i)', Within(i)
        PROVE  /\ i \in run'.marks.done \cup run'.marks.failed \/ Unsaid(i)
               /\ run'.sound /\ i \in run'.marks.failed => Cause(i, run.map)'
    <3>1. Passed(i) \/ i \in run.marks.done
      BY <2>1 DEF Between
    <3>2. i \notin run.marks.done \cap run.marks.failed
      BY DEF RunInv, Exclusive
    <3>3. i \in run.marks.done \cup run.marks.failed \/ Unsaid(i)
      BY <2>0, <2>1, <3>1 DEF RunInv, Behind
    <3>4. run.sound /\ i \in run.marks.failed => Cause(i, run.map)
      BY <2>0, <2>1, <3>1, <3>2 DEF RunInv, Behind
    <3>5. Cause(i, run.map) => Cause(i, run.map)'
      BY CauseHolds DEF Between, ServerInv, Lacks
    <3> QED
      BY <3>3, <3>4, <3>5 DEF Between
  <2>2. ASSUME NEW t \in ConfigTypes \cup AssetTypes, Passed(t)', run'.sound
        PROVE  ~Lacks(run'.map, t) \/ Crowded(t)'
    <3>1. Passed(t) /\ t \in Items
      BY <1>3, <2>2 DEF Between, Types, Items
    <3>2. ~Lacks(run.map, t) \/ Crowded(t)
      BY <2>0, <2>2, <3>1 DEF RunInv, Behind, Between
    <3> QED
      BY <2>c, <3>1, <3>2 DEF Between, Lacks
  <2>3. ASSUME run'.at = "row", run.phase \in {3, 5}
        PROVE  /\ run'.sound =>
                    \A t \in Sheets[Phases[run.phase]] : Exists(t)' => t \in run'.named \/ Crowded(t)'
               /\ \A t \in run'.named : t \in Types /\ Exists(t)'
    <3>1. Sheets[Phases[run.phase]] \subseteq Items
      BY <2>3, PhaseNames, SheetNames DEF Types, Items
    <3>2. /\ run'.sound =>
               \A t \in Sheets[Phases[run.phase]] : Exists(t) => t \in run'.named \/ Crowded(t)
          /\ \A t \in run'.named : t \in Types /\ Exists(t)
      BY <2>3 DEF Between
    <3> QED
      BY <1>1, <2>c, <3>1, <3>2, OnlyOrgsAndTypes
  <2>4. ASSUME run'.at = "row", run.phase = 7
        PROVE  \A name \in run'.named : \E d \in Docs : name = NameOfRow(d) /\ Passed(d)'
    BY <2>4 DEF Between
  <2>5. \A i \in Items \ Types : Passed(i)' /\ Within(i)' =>
          /\ i \in run'.marks.done \cup run'.marks.failed \/ Unsaid(i)
          /\ run'.sound /\ i \in run'.marks.failed => Cause(i, run.map)'
    BY <2>1, <2>w
  <2> QED
    BY <2>0, <2>2, <2>3, <2>4, <2>5 DEF Behind, Lacks, NameOfRow, Sheets
<1>8. Exclusive'
  BY DEF RunInv, Exclusive, Between
<1>9. Ended' /\ RunTyped'
  BY DEF Ended, Between
<1> QED
  BY <1>4, <1>5, <1>6, <1>7, <1>8, <1>9 DEF RunInv

LEMMA RunLists ==
  ASSUME RunInv, ServerInv, ListTypes
  PROVE  RunInv' /\ ServerInv'
<1> DEFINE there == {t \in Sheets[Phases[run.phase]] : Exists(t)}
<1>0. /\ run.at = "list" /\ UNCHANGED <<hidden, jobs, plan, disk, server, excuse>>
      /\ faults' = faults \/ faults' = faults + 1
  BY ZenonT(30) DEF ListTypes, Same
<1>1. /\ UNCHANGED <<hidden, jobs, plan, disk, server, excuse>> /\ run.at = "list"
      /\ faults' \in Nat /\ jobs' \in 0 .. MaxJobs
  BY <1>0 DEF ServerInv, ServerTyped
<1>2. Settled /\ ServerInv'
  BY <1>1, NothingCreated, SettledKeeps DEF ServerInv
<1>3. PICK here \in Listed(there) :
        \/ run' = [run EXCEPT !.at = "row", !.named = here]
        \/ run' = [run EXCEPT !.at = "row", !.sound = FALSE]
  <2>1. there \in Listed(there)
    BY DEF Listed
  <2> QED
    BY <2>1, ZenonT(30) DEF ListTypes
<1> HIDE DEF there
<1>4. run \in RunT /\ run.phase \in {3, 5} /\ run.phase \in 1 .. 9 /\ run.pos \in Nat \ {0}
  <2>1. run \in RunT /\ run.phase \in 1 .. 9 /\ run.pos \in Nat \ {0}
        /\ Phases[run.phase] \in {"configuration_types", "custom_asset_types"}
    BY <1>1 DEF RunInv, RunTyped
  <2>2. \A p \in 1 .. 9 : p = 1 \/ p = 2 \/ p = 3 \/ p = 4 \/ p = 5 \/ p = 6 \/ p = 7 \/ p = 8 \/ p = 9
    OBVIOUS
  <2> QED
    BY <2>1, <2>2, PhaseNames
<1>s. /\ here \subseteq there /\ here \subseteq Types
      /\ \A t \in there : t \in here \/ Crowded(t)
  <2>1. there \subseteq Types
    BY <1>4, PhaseNames, SheetNames DEF Types, there
  <2> QED
    BY <2>1, ListedRest
<1>5. here \in SUBSET Names
  BY <1>s DEF Names
<1>6. /\ run' \in RunT /\ run'.at = "row" /\ run'.scope = run.scope
      /\ run'.dry = run.dry /\ run'.phase = run.phase
      /\ run'.pos = run.pos /\ run'.marks = run.marks /\ run'.map = run.map
      /\ run'.sound => run.sound /\ run'.named = here
      /\ run'.named \in {here, run.named}
  <2>1. CASE run' = [run EXCEPT !.at = "row", !.named = here]
    BY <1>4, <1>5, <2>1 DEF RunT
  <2>2. CASE run' = [run EXCEPT !.at = "row", !.sound = FALSE]
    BY <1>4, <2>2 DEF RunT
  <2> QED
    BY <1>3, <2>1, <2>2
<1>7. RunTyped'
  BY <1>1, <1>4, <1>6 DEF RunInv, RunTyped
<1>8. ~run.dry => \A t \in run.named : t \in Types /\ Exists(t)
  BY <1>1, <1>4 DEF RunInv, Behind
<1>9. \A i : Passed(i)' <=> Passed(i)
  BY <1>6 DEF Passed, Sheet
<1>10. Between
  BY <1>1, <1>2, <1>4, <1>6, <1>7, <1>8, <1>9, <1>s DEF Between, there
<1> QED
  BY <1>2, <1>10, BetweenKeeps

LEMMA RunFinishes ==
  ASSUME RunInv, ServerInv, FinishPhase
  PROVE  RunInv' /\ ServerInv'
<1>1. /\ UNCHANGED <<hidden, jobs, plan, disk, server, faults, excuse>> /\ run.at = "row"
      /\ run' = [run EXCEPT !.at = "state"] /\ run.pos > Len(Sheet(run.phase)) /\ run.phase < Final
  BY DEF FinishPhase, Same, Keep, Sheet
<1>2. Settled /\ ServerInv'
  BY <1>1, NothingCreated, SettledKeeps DEF ServerInv, ServerTyped
<1>3. /\ run \in RunT /\ run' \in RunT /\ run'.at = "state" /\ run'.dry = run.dry
      /\ run'.phase = run.phase /\ run'.sound = run.sound
      /\ run'.pos = run.pos /\ run'.marks = run.marks /\ run'.map = run.map
      /\ run'.scope = run.scope
  BY <1>1 DEF RunInv, RunTyped, RunT
<1>4. RunTyped'
  BY <1>1, <1>3 DEF RunInv, RunTyped, Sheet
<1>5. \A i : Passed(i)' <=> Passed(i)
  BY <1>3 DEF Passed, Sheet
<1>6. Between
  BY <1>1, <1>2, <1>3, <1>4, <1>5 DEF Between
<1> QED
  BY <1>2, <1>6, BetweenKeeps

\* What becomes of an attachment is noted in two of the marks.
Noting(stored, unstored, sound) ==
  [run EXCEPT !.marks = [@ EXCEPT !.stored = stored, !.unstored = unstored], !.sound = sound]

LEMMA NotingSame ==
  ASSUME run \in RunT
  PROVE  run = Noting(run.marks.stored, run.marks.unstored, run.sound)
<1>1. run.marks = [run.marks EXCEPT !.stored = run.marks.stored, !.unstored = run.marks.unstored]
  BY DEF RunT, MarksT
<1> QED
  BY <1>1 DEF Noting, RunT

LEMMA NotingStored ==
  ASSUME run \in RunT, NEW i
  PROVE  [run EXCEPT !.marks.stored = @ \cup {i}, !.marks.unstored = @ \ {i}]
         = Noting(run.marks.stored \cup {i}, run.marks.unstored \ {i}, run.sound)
BY DEF RunT, MarksT, Noting

LEMMA NotingLost ==
  ASSUME run \in RunT, NEW i
  PROVE  [run EXCEPT !.marks.unstored = @ \cup {i}, !.sound = FALSE]
         = Noting(run.marks.stored, run.marks.unstored \cup {i}, FALSE)
BY DEF RunT, MarksT, Noting

LEMMA NotingFields ==
  ASSUME run \in RunT, NEW stored \in SUBSET (Orgs \cup Scoped), NEW unstored \in SUBSET Items,
         NEW sound \in BOOLEAN
  PROVE  LET r == Noting(stored, unstored, sound)
         IN  /\ r \in RunT /\ r.dry = run.dry /\ r.phase = run.phase /\ r.sound = sound
             /\ r.pos = run.pos /\ r.scope = run.scope /\ r.map = run.map /\ r.named = run.named
             /\ r.marks.done = run.marks.done /\ r.marks.failed = run.marks.failed
             /\ r.marks.stored = stored
<1> DEFINE marks == [run.marks EXCEPT !.stored = stored, !.unstored = unstored]
<1>1. /\ marks \in MarksT /\ marks.done = run.marks.done /\ marks.failed = run.marks.failed
      /\ marks.stored = stored
  BY DEF RunT, MarksT
<1>2. Noting(stored, unstored, sound) = [run EXCEPT !.marks = marks, !.sound = sound]
  BY DEF Noting
<1> HIDE DEF marks
<1> QED
  BY <1>1, <1>2 DEF RunT

LEMMA RunUploads ==
  ASSUME RunInv, ServerInv, UploadEntityAttachments
  PROVE  RunInv' /\ ServerInv'
<1>0. PICK i : i = Row
  OBVIOUS
<1>1. /\ UNCHANGED <<hidden, jobs, plan, disk, excuse>> /\ run.at = "upload"
  BY DEF UploadEntityAttachments, Same
<1>2. /\ run \in RunT /\ run.phase \in 1 .. 9 /\ run.pos \in Nat \ {0} /\ i \in Orgs \cup Scoped
      /\ run.pos <= Len(Sheet(run.phase)) /\ run.phase < Final
      /\ i \in run.marks.done /\ i \notin run.marks.failed
      /\ run.map[i] \in DOMAIN server[i] /\ server[i][run.map[i]].file # "stored"
  BY <1>0, <1>1, PhaseNames DEF RunInv, RunTyped, Believed
<1>3. i \in Items \ Links /\ i \in Items /\ i \notin Types
  BY <1>2, Apart DEF Items
<1>4. RowAt(run.phase, i)
  BY <1>0, <1>1, <1>2, RowFacts DEF RunInv, Sheet
<1>5. run.phase \notin {3, 5}
  BY <1>2, <1>3, <1>4, PhaseRow
<1>6. PICK stored, unstored, sound :
        /\ run' = Onward(Noting(stored, unstored, sound))
        /\ stored \in SUBSET (Orgs \cup Scoped) /\ unstored \in SUBSET Items
        /\ sound \in BOOLEAN /\ (sound => run.sound)
        /\ Settled /\ ServerInv'
        /\ stored = run.marks.stored \/
             (stored = run.marks.stored \cup {i} /\ \E n \in 1 .. Len(server'[i]) : server'[i][n].file = "stored")
  <2>1. /\ run.marks.stored \in SUBSET (Orgs \cup Scoped) /\ run.marks.unstored \in SUBSET Items
        /\ run.sound \in BOOLEAN
    BY <1>2 DEF RunT, MarksT
  <2>2. CASE i \in run.marks.stored /\ run' = Onward(run) /\ Keep
    <3>1. Settled /\ ServerInv'
      BY <1>1, <2>2, NothingCreated, SettledKeeps DEF ServerInv, ServerTyped, Keep
    <3>2. run = Noting(run.marks.stored, run.marks.unstored, run.sound)
      BY <1>2, NotingSame
    <3> QED
      BY <2>1, <2>2, <3>1, <3>2
  <2>3. CASE \E file \in Files :
             /\ Attach(i, run.map[i], file)
             /\ run' = IF file = "stored"
                       THEN Onward([run EXCEPT !.marks.stored = @ \cup {i},
                                               !.marks.unstored = @ \ {i}])
                       ELSE Onward([run EXCEPT !.marks.unstored = @ \cup {i},
                                               !.sound = FALSE])
    <3>1. PICK file \in Files :
             /\ Attach(i, run.map[i], file)
             /\ run' = IF file = "stored"
                       THEN Onward([run EXCEPT !.marks.stored = @ \cup {i},
                                               !.marks.unstored = @ \ {i}])
                       ELSE Onward([run EXCEPT !.marks.unstored = @ \cup {i},
                                               !.sound = FALSE])
      BY <2>3
    <3>2. /\ server' = [server EXCEPT ![i][run.map[i]].file = file]
          /\ faults' \in Nat /\ jobs' \in 0 .. MaxJobs
      BY <1>1, <3>1 DEF Attach, ServerInv, ServerTyped
    <3>3. Settled /\ ServerInv'
      BY <1>2, <1>3, <3>2, FileChanged, SettledKeeps DEF ServerInv
    <3>4. file = "stored" => \E n \in 1 .. Len(server'[i]) : server'[i][n].file = "stored"
      <4>1. server[i] \in Seq(CopyT)
        BY <1>3, ItemSeqs DEF RowT, ServerInv
      <4>2. server[i][run.map[i]] \in CopyT
        BY <1>2, <4>1
      <4>3. server'[i][run.map[i]] = [server[i][run.map[i]] EXCEPT !.file = file]
        BY <1>2, <1>3, <3>2, <4>1 DEF ServerInv, ServerTyped
      <4>4. server'[i][run.map[i]].file = file
        BY <4>2, <4>3 DEF CopyT
      <4>5. DOMAIN server'[i] = 1 .. Len(server'[i]) /\ DOMAIN server'[i] = DOMAIN server[i]
        BY <1>3, <3>3, SameCopies, Lasts DEF ServerInv, Settled
      <4> QED
        BY <1>2, <4>4, <4>5
    <3>5. CASE file = "stored"
      <4>1. [run EXCEPT !.marks.stored = @ \cup {i}, !.marks.unstored = @ \ {i}]
            = Noting(run.marks.stored \cup {i}, run.marks.unstored \ {i}, run.sound)
        BY <1>2, NotingStored, Zenon
      <4>2. run.marks.stored \cup {i} \in SUBSET (Orgs \cup Scoped) /\ run.marks.unstored \ {i} \in SUBSET Items
        BY <1>2, <2>1
      <4>3. run' = Onward(Noting(run.marks.stored \cup {i}, run.marks.unstored \ {i}, run.sound))
        BY <3>1, <3>5, <4>1, Zenon
      <4> QED
        BY <2>1, <3>3, <3>4, <3>5, <4>2, <4>3
    <3>6. CASE file # "stored"
      <4>1. [run EXCEPT !.marks.unstored = @ \cup {i}, !.sound = FALSE]
            = Noting(run.marks.stored, run.marks.unstored \cup {i}, FALSE)
        BY <1>2, NotingLost, Zenon
      <4>2. run.marks.unstored \cup {i} \in SUBSET Items
        BY <1>3, <2>1
      <4>3. run' = Onward(Noting(run.marks.stored, run.marks.unstored \cup {i}, FALSE))
        BY <3>1, <3>6, <4>1, Zenon
      <4> QED
        BY <2>1, <3>3, <4>2, <4>3
    <3> QED
      BY <3>5, <3>6
  <2> QED
    BY <1>0, <2>2, <2>3 DEF UploadEntityAttachments
<1> DEFINE r == Noting(stored, unstored, sound)
<1>7. /\ r \in RunT /\ r.dry = run.dry /\ r.phase = run.phase /\ r.sound = sound /\ r.pos = run.pos
      /\ r.marks.done = run.marks.done /\ r.marks.failed = run.marks.failed /\ r.marks.stored = stored
      /\ r.map = run.map /\ r.named = run.named /\ r.scope = run.scope
  BY <1>2, <1>6, NotingFields
<1>8. /\ run' \in RunT /\ run'.at = "row" /\ run'.dry = run.dry /\ run'.phase = run.phase
      /\ run'.scope = run.scope
      /\ run'.sound = sound /\ run'.pos = run.pos + 1
      /\ run'.marks = r.marks /\ run'.map = run.map /\ run'.named = run.named
  <2> HIDE DEF r
  <2>1. run' = Onward(r)
    BY <1>6 DEF r
  <2>2. run' = [r EXCEPT !.at = "row", !.pos = run.pos + 1]
    BY <1>7, <2>1 DEF Onward
  <2>3. run.pos + 1 \in Nat
    BY <1>2
  <2> QED
    BY <1>7, <2>2, <2>3 DEF RunT
<1>9. RunTyped'
  BY <1>1, <1>2, <1>8 DEF RunInv, RunTyped
<1>10. \A j : Passed(j)' <=> Passed(j) \/ j = i
  BY <1>0, <1>1, <1>2, <1>8, PassedOn DEF RunInv, Sheet
<1>11. ~run.dry /\ run.phase = 7 =>
         \A name \in run.named : \E d \in Docs : name = NameOfRow(d) /\ (Passed(d) \/ d = i)
  BY <1>0, <1>1 DEF RunInv, Behind, NameOfRow
<1>12. /\ run'.marks.done = run.marks.done /\ run'.marks.failed = run.marks.failed
       /\ run'.marks.stored = stored
  BY <1>7, <1>8
<1> HIDE DEF r
<1>13. Between
  BY <1>1, <1>2, <1>5, <1>6, <1>8, <1>9, <1>10, <1>11, <1>12 DEF Between
<1> QED
  BY <1>6, <1>13, BetweenKeeps
-----------------------------------------------------------------------------
(***************************************************************************)
(* The files, and the beginning and the end of a run.  Nothing changes on  *)
(* the server.                                                             *)
(***************************************************************************)
LEMMA Standstill ==
  ASSUME RunInv, ServerInv, server' = server, faults' \in Nat, jobs' \in 0 .. MaxJobs
  PROVE  /\ ServerInv'
         /\ \A i, by : Copies(i, by)' = Copies(i, by)
         /\ \A i : Exists(i)' <=> Exists(i)
         /\ Sound(disk.marks, disk.map) /\ Sound(run.marks, run.map)
         /\ \A o \in plan.matched : Exists(o)
<1>1. ServerInv'
  BY NothingCreated, SettledKeeps DEF ServerInv
<1> QED
  BY <1>1 DEF Copies, Exists, RunInv, Believed

LEMMA AtRest ==
  /\ Idle \in RunT /\ Idle.at = "idle" /\ Idle.dry = FALSE /\ Idle.phase = 0 /\ Idle.pos = 0
  /\ Idle.marks = NoState /\ Idle.map = NoMap /\ Idle.named = {} /\ Idle.sound = TRUE
  /\ Idle.code = "none" /\ Idle.scope = {}
BY PhaseNames DEF RunT, Idle, NoState, NoMap, MarksT, Uuids, None

\* What is believed to be there is there, in whatever memory or file it is.
LEMMA StillSound ==
  ASSUME server' = server,
         NEW marks, NEW map, Sound(marks, map)
  PROVE  /\ \A i \in marks.done : Exists(i)'
         /\ \A i \in marks.stored : \E n \in 1 .. Len(server'[i]) : server'[i][n].file = "stored"
         /\ \A i \in Items : map[i] \in {None, Placeholder} \cup DOMAIN server'[i]
BY DEF Sound, Exists

LEMMA RunSavesState ==
  ASSUME RunInv, ServerInv, SaveState
  PROVE  RunInv' /\ ServerInv'
<1>1. /\ UNCHANGED <<hidden, jobs, plan, server, faults, excuse>> /\ run.at = "state"
      /\ disk' = [disk EXCEPT !.state = "whole", !.marks = run.marks]
      /\ run' = [run EXCEPT !.at = "map"]
  BY DEF SaveState, Keep
<1>2. run \in RunT /\ disk \in DiskT
  BY DEF RunInv, RunTyped
<1>3. /\ run' \in RunT /\ run'.at = "map" /\ run'.dry = run.dry
      /\ run'.phase = run.phase /\ run'.sound = run.sound /\ run'.code = run.code
      /\ run'.pos = run.pos /\ run'.marks = run.marks /\ run'.map = run.map
      /\ run'.scope = run.scope
  BY <1>1, <1>2 DEF RunT
<1>4. /\ disk' \in DiskT /\ disk'.marks = run.marks /\ disk'.state = "whole"
      /\ disk'.map = disk.map
  BY <1>1, <1>2 DEF RunT, DiskT, FileT
<1>5. RunTyped'
  BY <1>1, <1>3, <1>4 DEF RunInv, RunTyped, Sheet
<1>6. /\ ServerInv' /\ \A i, by : Copies(i, by)' = Copies(i, by)
      /\ \A i : Exists(i)' <=> Exists(i)
      /\ Sound(disk.marks, disk.map) /\ Sound(run.marks, run.map)
      /\ \A o \in plan.matched : Exists(o)
  BY <1>1, Standstill DEF ServerInv, ServerTyped
<1>7. Believed'
  BY <1>1, <1>3, <1>4, <1>6 DEF Believed, Sound, Exists
<1>8. Saved'
  BY <1>1, <1>3, <1>4 DEF RunInv, Saved
<1>9. Counted'
  <2>1. Completed' = Completed
    BY <1>1, <1>3 DEF Completed
  <2>2. \A e, uuid : Knows(e, uuid) => Knows(e, uuid)'
    BY <1>1, <1>3, <1>4 DEF Knows
  <2> QED
    BY <1>1, <1>6, <2>1, <2>2 DEF RunInv, Counted
<1>10. \A i : Passed(i)' <=> Passed(i)
  BY <1>3 DEF Passed, Sheet
<1>11. /\ \A i : Crowded(i)' <=> Crowded(i)
       /\ \A i : Within(i)' <=> Within(i)
  BY <1>1, <1>3, CrowdedAsBefore, WithinStays
<1>12. \A i : Cause(i, run.map) => Cause(i, run.map)'
  BY <1>1, <1>3, <1>6, <1>11 DEF Cause, Unsaid, Twin, Lacks, Ends
<1>15. Behind'
  BY <1>1, <1>3, <1>10, <1>11, <1>12 DEF RunInv, Behind, Unsaid, Twin, Lacks
<1>13. Exclusive'
  BY <1>3, <1>4 DEF RunInv, Exclusive
<1>14. Ended'
  BY <1>3 DEF Ended
<1> QED
  BY <1>5, <1>6, <1>7, <1>8, <1>9, <1>13, <1>14, <1>15 DEF RunInv

\* A phase begins with nothing of it behind.
LEMMA Begins ==
  ASSUME NEW r \in RunT, NEW p \in 1 .. 10
  PROVE  /\ Begin(r, p) \in RunT /\ Begin(r, p).phase = p /\ Begin(r, p).pos = 1
         /\ Begin(r, p).named = {} /\ Begin(r, p).marks = r.marks /\ Begin(r, p).map = r.map
         /\ Begin(r, p).dry = r.dry /\ Begin(r, p).sound = r.sound /\ Begin(r, p).code = r.code
         /\ Begin(r, p).scope = r.scope
         /\ p = 10 => Begin(r, p).at = "state"
         /\ p # 10 => Begin(r, p).at \in {"list", "row"}
         /\ Begin(r, p).at = "list" => ~r.dry /\ Phases[p] \in {"configuration_types", "custom_asset_types"}
         /\ Begin(r, p).at = "row" /\ p \in {3, 5} => r.dry
<1> DEFINE at == IF p = Final THEN "state"
                 ELSE IF ~r.dry /\ Phases[p] \in {"configuration_types", "custom_asset_types"}
                 THEN "list" ELSE "row"
<1>1. Begin(r, p) = [r EXCEPT !.phase = p, !.pos = 1, !.named = {}, !.at = at]
  BY DEF Begin
<1>2. /\ p = 10 => at = "state"
      /\ p # 10 => at \in {"list", "row"}
      /\ at = "list" => ~r.dry /\ Phases[p] \in {"configuration_types", "custom_asset_types"}
      /\ at = "row" /\ p \in {3, 5} => r.dry
  BY PhaseNames
<1> HIDE DEF at
<1>3. p \in 0 .. Final /\ at \in {"list", "row", "state"} /\ 1 \in Nat /\ {} \in SUBSET Names
  BY <1>2, PhaseNames
<1>4. /\ Begin(r, p) \in RunT /\ Begin(r, p).phase = p /\ Begin(r, p).pos = 1
      /\ Begin(r, p).named = {} /\ Begin(r, p).marks = r.marks /\ Begin(r, p).map = r.map
      /\ Begin(r, p).dry = r.dry /\ Begin(r, p).sound = r.sound /\ Begin(r, p).code = r.code
      /\ Begin(r, p).scope = r.scope /\ Begin(r, p).at = at
  BY <1>1, <1>3 DEF RunT
<1> QED
  BY <1>2, <1>4

\* A finished phase is behind when the next begins.
LEMMA PassedPhase ==
  ASSUME RunTyped, run.at = "map", run'.phase = run.phase + 1, run'.pos = 1
  PROVE  \A i : Passed(i)' => Passed(i)
<1> SUFFICES ASSUME NEW i, Passed(i)' PROVE Passed(i)
  OBVIOUS
<1>1. PICK p \in 1 .. 9 : \E n \in DOMAIN Sheet(p) :
        Sheet(p)[n] = i /\ (p < run'.phase \/ (p = run'.phase /\ n < run'.pos))
  BY DEF Passed, Sheet
<1>2. PICK n \in DOMAIN Sheet(p) :
        Sheet(p)[n] = i /\ (p < run'.phase \/ (p = run'.phase /\ n < run'.pos))
  BY <1>1
<1>3. DOMAIN Sheet(p) = 1 .. Len(Sheet(p)) /\ Len(Sheet(p)) \in Nat /\ n \in 1 .. Len(Sheet(p))
  BY SheetOf
<1>4. run.phase \in 0 .. 10 /\ run.pos \in Nat
  BY PhaseNames DEF RunTyped, RunT
<1>5. p < run.phase + 1
  BY <1>2, <1>3, <1>4
<1>6. p = run.phase => n < run.pos
  BY <1>3, <1>4 DEF RunTyped
<1>7. p < run.phase \/ (p = run.phase /\ n < run.pos)
  BY <1>4, <1>5, <1>6
<1> QED
  BY <1>2, <1>7 DEF Passed

LEMMA AllPassed ==
  ASSUME RunTyped, run.phase = Final, NEW i \in Items \ Types
  PROVE  Passed(i)
<1>1. PICK p \in 1 .. 9 : \E n \in DOMAIN Sheet(p) : Sheet(p)[n] = i
  BY EveryRow DEF Types
<1> QED
  BY <1>1, PhaseNames DEF Passed

LEMMA RunSavesMap ==
  ASSUME RunInv, ServerInv, SaveMap
  PROVE  RunInv' /\ ServerInv'
<1>1. /\ UNCHANGED <<hidden, jobs, plan, server, faults, excuse>> /\ run.at = "map"
      /\ disk' = [disk EXCEPT !.mapFile = "whole", !.map = run.map]
  BY DEF SaveMap, Keep
<1>2. run \in RunT /\ disk \in DiskT /\ run.phase \in 0 .. 10
  BY PhaseNames DEF RunInv, RunTyped, RunT
<1>3. /\ disk' \in DiskT /\ disk'.marks = run.marks /\ disk'.state = "whole"
      /\ disk'.map = run.map /\ disk.marks = run.marks
  BY <1>1, <1>2 DEF RunT, DiskT, FileT, RunInv, Saved
<1>4. /\ ServerInv' /\ \A i, by : Copies(i, by)' = Copies(i, by)
      /\ \A i : Exists(i)' <=> Exists(i)
      /\ Sound(disk.marks, disk.map) /\ Sound(run.marks, run.map)
      /\ \A o \in plan.matched : Exists(o)
  BY <1>1, Standstill DEF ServerInv, ServerTyped
<1>5. \A e, uuid : Knows(e, uuid) => e \in run.marks.done /\ run.map[e] = uuid
  BY <1>1 DEF Knows
<1>6. \A e \in Scoped : run.map[e] \notin {None, Placeholder} => e \in run.marks.done
  BY DEF RunInv, Saved
<1>7. Completed = run.marks.done
  BY <1>1 DEF Completed
<1>8. CASE run.phase < Final /\ run' = Begin(run, run.phase + 1)
  <2> DEFINE p == run.phase + 1
  <2>1. p \in 1 .. 10
    BY <1>2, <1>8, PhaseNames
  <2>2. /\ run' \in RunT /\ run'.phase = p /\ run'.pos = 1
        /\ run'.named = {} /\ run'.marks = run.marks /\ run'.map = run.map
        /\ run'.dry = run.dry /\ run'.sound = run.sound /\ run'.code = run.code
        /\ run'.scope = run.scope
        /\ p = 10 => run'.at = "state"
        /\ p # 10 => run'.at \in {"list", "row"}
        /\ run'.at = "list" => ~run.dry /\ Phases[p] \in {"configuration_types", "custom_asset_types"}
        /\ run'.at = "row" /\ p \in {3, 5} => run.dry
    BY <1>2, <1>8, <2>1, Begins
  <2>3. RunTyped'
    BY <1>1, <1>3, <2>1, <2>2 DEF RunInv, RunTyped, Sheet
  <2>4. Believed'
    BY <1>1, <1>3, <1>4, <2>1, <2>2 DEF Believed, Sound, Exists
  <2>5. Saved'
    BY <1>3, <1>6, <2>1, <2>2 DEF Saved
  <2>6. Counted'
    <3>1. Completed' = Completed
      BY <1>7, <2>1, <2>2 DEF Completed
    <3>2. \A e, uuid : Knows(e, uuid) => Knows(e, uuid)'
      BY <1>3, <1>5, <2>2 DEF Knows
    <3> QED
      BY <1>1, <1>4, <3>1, <3>2 DEF RunInv, Counted
  <2>7. \A i : Passed(i)' => Passed(i)
    BY <1>1, <2>2, PassedPhase DEF RunInv
  <2>c. /\ \A i : Crowded(i)' <=> Crowded(i)
        /\ \A i : Within(i)' <=> Within(i)
    BY <1>1, <2>2, CrowdedAsBefore, WithinStays
  <2>8. \A i : Cause(i, run.map) => Cause(i, run.map)'
    BY <1>1, <1>4, <2>2, <2>c DEF Cause, Unsaid, Twin, Lacks, Ends
  <2>9. Behind'
    <3> SUFFICES ASSUME ~run.dry PROVE Behind'
      BY <2>2 DEF Behind
    <3>1. /\ \A i \in Items \ Types : Passed(i)' /\ Within(i)' =>
               /\ i \in run'.marks.done \cup run'.marks.failed \/ Unsaid(i)
               /\ run'.sound /\ i \in run'.marks.failed => Cause(i, run.map)'
          /\ \A t \in ConfigTypes \cup AssetTypes : Passed(t)' /\ run'.sound =>
               ~Lacks(run'.map, t) \/ Crowded(t)'
      BY <1>1, <2>2, <2>7, <2>8, <2>c DEF RunInv, Behind
    <3>2. run'.at = "row" => run'.phase \notin {3, 5}
      BY <2>2
    <3> QED
      BY <2>2, <3>1, <3>2 DEF Behind, Lacks
  <2>10. Exclusive'
    BY <1>3, <2>2 DEF RunInv, Exclusive
  <2>11. Ended'
    BY <2>1, <2>2 DEF Ended
  <2> QED
    BY <1>4, <2>3, <2>4, <2>5, <2>6, <2>9, <2>10, <2>11 DEF RunInv
<1>9. CASE run.phase >= Final /\ run' = [Idle EXCEPT !.dry = run.dry, !.scope = run.scope,
                      !.sound = run.sound, !.code = IF run.marks.failed = {} THEN "success" ELSE "failures"]
  <2> DEFINE code == IF run.marks.failed = {} THEN "success" ELSE "failures"
  <2>0. /\ run' = [Idle EXCEPT !.dry = run.dry, !.scope = run.scope, !.sound = run.sound, !.code = code]
        /\ code \in {"success", "failures"}
        /\ run.dry \in BOOLEAN /\ run.sound \in BOOLEAN /\ run.scope \in SUBSET Orgs
    BY <1>2, <1>9 DEF RunT
  <2> HIDE DEF code
  <2>o. /\ run' \in RunT /\ run'.at = "idle" /\ run'.dry = run.dry /\ run'.sound = run.sound
        /\ run'.scope = run.scope /\ run'.marks = NoState /\ run'.map = NoMap
        /\ run'.code = code
    BY <2>0, AtRest DEF RunT
  <2>1. /\ run' \in RunT /\ run'.at = "idle" /\ run'.dry = run.dry /\ run'.sound = run.sound
        /\ run'.scope = run.scope /\ run'.marks = NoState /\ run'.map = NoMap
        /\ run'.code = IF run.marks.failed = {} THEN "success" ELSE "failures"
    BY <2>o DEF code
  <2>2. RunTyped'
    BY <1>1, <1>3, <2>1 DEF RunInv, RunTyped
  <2>3. Believed'
    BY <1>1, <1>3, <1>4, <2>1 DEF Believed, Sound, Exists, NoState, NoMap
  <2>4. Saved'
    BY <1>3, <1>6, <2>1 DEF Saved, NoMap, Scoped, Items
  <2>5. Counted'
    <3>1. Completed' = Completed
      BY <1>3, <1>7, <2>1 DEF Completed
    <3>2. \A e, uuid : Knows(e, uuid) => Knows(e, uuid)'
      BY <1>3, <1>5, <2>1 DEF Knows
    <3> QED
      BY <1>1, <1>4, <3>1, <3>2 DEF RunInv, Counted
  <2>6. Behind'
    BY <2>1 DEF Behind
  <2>7. Exclusive'
    BY <1>3, <2>1 DEF RunInv, Exclusive, NoState
  <2>8. Ended'
    <3> SUFFICES ASSUME ~run.dry PROVE Ended'
      BY <2>1 DEF Ended
    <3>1. run.phase = Final
      BY <1>2, <1>9, PhaseNames
    <3>2. \A i \in Items \ Types : Passed(i)
      BY <3>1, AllPassed DEF RunInv
    <3>c. /\ \A i : Crowded(i)' <=> Crowded(i)
          /\ \A i : Within(i)' <=> Within(i)
      BY <1>1, <2>1, CrowdedAsBefore, WithinStays
    <3>3. \A i \in Items \ Types : Within(i)' =>
            /\ i \in run.marks.done \cup run.marks.failed \/ Unsaid(i)
            /\ run.sound /\ i \in run.marks.failed => Cause(i, run.map)
      BY <1>1, <3>2, <3>c DEF RunInv, Behind
    <3>4. \A i : Cause(i, run.map) => Cause(i, disk.map)'
      BY <1>1, <1>3, <1>4, <3>c DEF Cause, Unsaid, Twin, Lacks, Ends
    <3>5. run.marks.failed \subseteq Items \ Types
      BY <1>2 DEF RunT, MarksT
    <3>6. run'.code = "success" =>
            \A i \in Items \ Types : Within(i)' => i \in disk'.marks.done \/ Unsaid(i)
      BY <1>3, <2>1, <3>3
    <3>7. run'.sound => \A i \in disk'.marks.failed : Within(i)' => Cause(i, disk.map)'
      BY <1>3, <2>1, <3>3, <3>4, <3>5
    <3> QED
      BY <3>6, <3>7 DEF Ended, Unsaid, Twin
  <2> QED
    BY <1>4, <2>2, <2>3, <2>4, <2>5, <2>6, <2>7, <2>8 DEF RunInv
<1> QED
  BY <1>2, <1>8, <1>9, PhaseNames DEF SaveMap

\* What the process had completed and not saved is forgotten.
LEMMA RunDies ==
  ASSUME RunInv, ServerInv, Die
  PROVE  RunInv' /\ ServerInv'
<1>1. /\ UNCHANGED <<server, hidden, jobs, plan>> /\ run.at # "idle" /\ faults' = faults + 1
      /\ disk' = disk \/ disk' = [disk EXCEPT !.state = "torn"] \/ disk' = [disk EXCEPT !.mapFile = "torn"]
      /\ run' = [Idle EXCEPT !.dry = run.dry, !.sound = FALSE, !.code = "died"]
      /\ excuse' = [i \in Items |->
           IF i \in run.marks.done \ disk'.marks.done THEN excuse[i] + 1 ELSE excuse[i]]
  BY DEF Die, Running
<1>2. run \in RunT /\ disk \in DiskT /\ excuse \in [Items -> Nat]
  BY DEF RunInv, RunTyped
<1>3. /\ disk' \in DiskT /\ disk'.marks = disk.marks /\ disk'.map = disk.map
      /\ disk'.state = "absent" => disk.state = "absent"
  BY <1>1, <1>2 DEF DiskT, FileT
<1>4. /\ run' \in RunT /\ run'.at = "idle" /\ run'.code = "died"
      /\ run'.marks = NoState /\ run'.map = NoMap
  BY <1>1, <1>2, AtRest DEF RunT
<1>5. excuse' \in [Items -> Nat]
  BY <1>1, <1>2
<1>6. RunTyped'
  BY <1>1, <1>3, <1>4, <1>5 DEF RunInv, RunTyped
<1>7. /\ ServerInv' /\ \A i, by : Copies(i, by)' = Copies(i, by)
      /\ \A i : Exists(i)' <=> Exists(i)
      /\ Sound(disk.marks, disk.map) /\ Sound(run.marks, run.map)
      /\ \A o \in plan.matched : Exists(o)
  BY <1>1, Standstill DEF ServerInv, ServerTyped
<1>8. Believed'
  BY <1>1, <1>3, <1>4, <1>7 DEF Believed, Sound, Exists, NoState, NoMap
<1>9. Saved'
  BY <1>3, <1>4 DEF RunInv, Saved, NoMap, Scoped, Items
<1>10. Counted'
  <2>1. Completed = run.marks.done /\ Completed' = disk.marks.done
    BY <1>1, <1>3, <1>4 DEF Completed
  <2>2. \A e, uuid : Knows(e, uuid) => Knows(e, uuid)'
    BY <1>3, <1>4 DEF Knows
  <2>3. ASSUME NEW i \in Scoped
        PROVE  Cardinality(Copies(i, "run")') <= excuse'[i] + IF i \in Completed' THEN 1 ELSE 0
    <3>1. i \in Items
      BY DEF Items
    <3>2. /\ Cardinality(Copies(i, "run")) <= excuse[i] + IF i \in run.marks.done THEN 1 ELSE 0
          /\ Cardinality(Copies(i, "run")) \in Nat /\ excuse[i] \in Nat
      BY <1>2, <2>1, <3>1, CopiesFinite DEF RunInv, Counted, ServerInv
    <3>3. excuse'[i] = IF i \in run.marks.done /\ i \notin disk.marks.done THEN excuse[i] + 1 ELSE excuse[i]
      BY <1>1, <1>3, <3>1
    <3> QED
      BY <1>7, <2>1, <3>2, <3>3
  <2> QED
    BY <1>1, <1>7, <2>2, <2>3 DEF RunInv, Counted
<1>11. Behind' /\ Ended'
  BY <1>4 DEF Behind, Ended
<1>12. Exclusive'
  BY <1>3, <1>4 DEF RunInv, Exclusive, NoState
<1> QED
  BY <1>6, <1>7, <1>8, <1>9, <1>10, <1>11, <1>12 DEF RunInv

LEMMA RunPreviews ==
  ASSUME RunInv, ServerInv, Preview, run.at = "idle"
  PROVE  RunInv' /\ ServerInv'
<1>0. PICK matched \in SUBSET Orgs :
        Match(matched) /\ plan' = [made |-> TRUE, matched |-> matched]
  BY ZenonT(30) DEF Preview
<1>1. /\ UNCHANGED <<server, hidden, faults, disk, excuse>> /\ jobs' = jobs + 1 /\ jobs < MaxJobs
      /\ run' = Idle
  BY ZenonT(30) DEF Preview
<1>2. run \in RunT /\ disk \in DiskT /\ excuse \in [Items -> Nat]
  BY DEF RunInv, RunTyped
<1>3. /\ run' \in RunT /\ run'.at = "idle" /\ run'.code = "none"
      /\ run'.marks = NoState /\ run'.map = NoMap
  BY <1>1, AtRest
<1>4. RunTyped'
  BY <1>0, <1>1, <1>2, <1>3 DEF RunInv, RunTyped
<1>5. /\ ServerInv' /\ \A i, by : Copies(i, by)' = Copies(i, by)
      /\ \A i : Exists(i)' <=> Exists(i)
      /\ Sound(disk.marks, disk.map) /\ Sound(run.marks, run.map)
  <2>1. faults' \in Nat /\ jobs' \in 0 .. MaxJobs
    BY <1>1, BoundsAssumption DEF ServerInv, ServerTyped
  <2> QED
    BY <1>1, <2>1, Standstill
<1>6. Believed'
  <2>1. matched \subseteq {o \in Orgs : Enabled(o)}
    BY <1>0, ListedRest DEF Match
  <2>2. \A o \in plan'.matched : server'[o] # <<>>
    BY <1>0, <1>1, <2>1 DEF Enabled, Exists
  <2> QED
    BY <1>1, <1>3, <1>5, <2>2 DEF Believed, Sound, Exists, NoState, NoMap
<1>7. Saved'
  BY <1>1, <1>3 DEF RunInv, Saved, NoMap, Scoped, Items
<1>8. Counted'
  <2>1. Completed' = Completed /\ \A e, uuid : Knows(e, uuid) => Knows(e, uuid)'
    BY <1>1, <1>3 DEF Completed, Knows
  <2> QED
    BY <1>1, <1>5, <2>1 DEF RunInv, Counted
<1>9. Behind' /\ Ended'
  BY <1>3 DEF Behind, Ended
<1>10. Exclusive'
  BY <1>1, <1>3 DEF RunInv, Exclusive, NoState
<1> QED
  BY <1>4, <1>5, <1>6, <1>7, <1>8, <1>9, <1>10 DEF RunInv

\* A run takes up what the files hold.
LEMMA RunStarts ==
  ASSUME RunInv, ServerInv, run.at = "idle", NEW dry \in BOOLEAN, NEW clear \in BOOLEAN,
         NEW scope \in SUBSET Orgs, Start(dry, clear, scope)
  PROVE  RunInv' /\ ServerInv'
<1> DEFINE r == Load(dry, scope)
           s == IF clear /\ r.marks.failed # {} THEN [ClearFailures(r) EXCEPT !.at = "state"]
                ELSE Begin(r, 1)
<1>1. /\ UNCHANGED <<server, hidden, faults, plan, disk, excuse>> /\ jobs' = jobs + 1 /\ jobs < MaxJobs
      /\ disk.state # "torn" /\ run' = s
  BY DEF Start
<1>2. run \in RunT /\ disk \in DiskT /\ excuse \in [Items -> Nat]
  BY DEF RunInv, RunTyped
<1>3. disk.state \in {"absent", "whole"} /\ (disk.state = "absent" => disk.marks = NoState)
  BY <1>1, <1>2 DEF DiskT, FileT, RunInv, Saved
<1> DEFINE map == IF disk.state = "whole" THEN disk.map ELSE NoMap
<1>4. FromDict = disk.marks
  BY <1>3 DEF FromDict
<1>5. map \in [Items -> Uuids] /\ disk.marks \in MarksT
  BY <1>2 DEF DiskT, NoMap, Uuids, None
<1>6. r = [Idle EXCEPT !.dry = dry, !.scope = scope, !.marks = disk.marks, !.map = map]
  BY <1>4 DEF Load
<1> HIDE DEF map
<1>7. /\ r \in RunT /\ r.at = "idle" /\ r.dry = dry /\ r.phase = 0 /\ r.pos = 0
      /\ r.marks = disk.marks /\ r.map = map /\ r.named = {} /\ r.code = "none" /\ r.sound = TRUE
  BY <1>5, <1>6, AtRest DEF RunT
<1> HIDE DEF r
<1>8. /\ run' \in RunT /\ run'.map = map /\ run'.named = {} /\ run'.dry = dry
      /\ run'.marks.done = disk.marks.done /\ run'.marks.stored = disk.marks.stored
      /\ run'.marks.failed \in {{}, disk.marks.failed}
      /\ \/ run'.at = "state" /\ run'.phase = 0 /\ run'.pos = 0
         \/ run'.at = "row" /\ run'.phase = 1 /\ run'.pos = 1
  <2>1. CASE run' = Begin(r, 1)
    <3>1. /\ run' \in RunT /\ run'.phase = 1 /\ run'.pos = 1
          /\ run'.named = {} /\ run'.marks = r.marks /\ run'.map = r.map
          /\ run'.dry = r.dry /\ run'.at \in {"list", "row"}
          /\ run'.at = "list" => Phases[1] \in {"configuration_types", "custom_asset_types"}
      BY <1>7, <2>1, Begins
    <3> QED
      BY <1>7, <3>1, PhaseNames
  <2>2. CASE run' = [ClearFailures(r) EXCEPT !.at = "state"]
    <3>1. run' = [r EXCEPT !.marks.failed = {}, !.at = "state"]
      BY <1>7, <2>2 DEF ClearFailures, RunT
    <3>2. run'.marks = [disk.marks EXCEPT !.failed = {}]
      BY <1>7, <3>1 DEF RunT
    <3>3. /\ run'.marks \in MarksT /\ run'.marks.done = disk.marks.done
          /\ run'.marks.stored = disk.marks.stored /\ run'.marks.failed = {}
      BY <1>5, <3>2 DEF MarksT
    <3>4. /\ run'.map = map /\ run'.named = {} /\ run'.dry = dry /\ run'.phase = 0 /\ run'.pos = 0
          /\ run'.at = "state" /\ run' \in RunT
      BY <1>7, <3>1, <3>3 DEF RunT
    <3> QED
      BY <3>3, <3>4
  <2> QED
    BY <1>1, <2>1, <2>2
<1> HIDE DEF s
<1>9. RunTyped'
  BY <1>1, <1>2, <1>8 DEF RunInv, RunTyped
<1>10. /\ ServerInv' /\ \A i, by : Copies(i, by)' = Copies(i, by)
       /\ \A i : Exists(i)' <=> Exists(i)
       /\ Sound(disk.marks, disk.map) /\ Sound(run.marks, run.map)
       /\ \A o \in plan.matched : Exists(o)
  <2>1. faults' \in Nat /\ jobs' \in 0 .. MaxJobs
    BY <1>1, BoundsAssumption DEF ServerInv, ServerTyped
  <2> QED
    BY <1>1, <2>1, Standstill
<1>11. \A i \in Items : map[i] = disk.map[i] \/ map[i] = None
  BY DEF map, NoMap
<1>12. Believed'
  BY <1>1, <1>8, <1>10, <1>11 DEF Believed, Sound, Exists
<1>13. \A e \in Scoped : map[e] \notin {None, Placeholder} => e \in disk.marks.done
  BY <1>11 DEF RunInv, Saved, Items
<1>14. Saved'
  BY <1>1, <1>3, <1>8, <1>13 DEF RunInv, Saved
<1>15. Counted'
  <2>1. Completed' = Completed
    BY <1>1, <1>8 DEF Completed
  <2>2. \A e, uuid : Knows(e, uuid) => Knows(e, uuid)'
    BY <1>1, <1>3, <1>8 DEF Knows, map, NoState
  <2> QED
    BY <1>1, <1>10, <2>1, <2>2 DEF RunInv, Counted
<1>16. ASSUME NEW i PROVE ~Passed(i)'
  <2>1. \A p \in 1 .. 9 : \A n \in DOMAIN Sheet(p) :
          ~(p < run'.phase \/ (p = run'.phase /\ n < run'.pos))
    <3> SUFFICES ASSUME NEW p \in 1 .. 9, NEW n \in DOMAIN Sheet(p)
                 PROVE  ~(p < run'.phase \/ (p = run'.phase /\ n < run'.pos))
      OBVIOUS
    <3>1. n \in 1 .. Len(Sheet(p)) /\ Len(Sheet(p)) \in Nat
      BY SheetOf
    <3> QED
      BY <1>8, <3>1
  <2> QED
    BY <2>1 DEF Passed, Sheet
<1>17. Behind'
  BY <1>8, <1>16 DEF Behind
<1>18. Exclusive'
  BY <1>1, <1>8 DEF RunInv, Exclusive
<1>19. Ended'
  BY <1>8 DEF Ended
<1> QED
  BY <1>9, <1>10, <1>12, <1>14, <1>15, <1>17, <1>18, <1>19 DEF RunInv
-----------------------------------------------------------------------------
(***************************************************************************)
(* What others do while no run goes on: a sync, and a user.                *)
(***************************************************************************)
LEMMA RunAside ==
  ASSUME RunInv, ServerInv, run.at = "idle", UNCHANGED <<plan, disk, run, excuse>>, Lasting,
         \A i \in Items : Copies(i, "run")' = Copies(i, "run")
  PROVE  RunInv'
<1>1. /\ \A i \in Items : Exists(i) => Exists(i)'
      /\ \A i \in Items : DOMAIN server[i] \subseteq DOMAIN server'[i]
      /\ \A i \in Orgs \cup Scoped :
           (\E n \in 1 .. Len(server[i]) : server[i][n].file = "stored")
           => \E n \in 1 .. Len(server'[i]) : server'[i][n].file = "stored"
  BY Lasts DEF ServerInv
<1>2. /\ disk.marks.done \subseteq Items /\ disk.marks.stored \subseteq Orgs \cup Scoped
      /\ run.marks = NoState /\ run.map = NoMap /\ plan.matched \subseteq Items
      /\ disk.marks.failed \subseteq Items
  BY DEF RunInv, RunTyped, DiskT, MarksT, Items
<1>3. Believed'
  BY <1>1, <1>2 DEF RunInv, Believed, Sound, NoState, NoMap
<1>4. Saved' /\ Exclusive' /\ RunTyped'
  BY DEF RunInv, RunTyped, Saved, Exclusive, Row
<1>5. Counted'
  <2>1. Completed' = Completed /\ \A e, uuid : Knows(e, uuid) => Knows(e, uuid)'
    BY DEF Completed, Knows
  <2>2. \A l \in Links : \A n \in Copies(l, "run") : l \in Items /\ server'[l][n] = server[l][n]
    BY DEF Copies, Lasting, Kept, Items
  <2>3. \A i \in Scoped : i \in Items
    BY DEF Items
  <2>4. \A i \in Scoped : Cardinality(Copies(i, "run")')
                           <= excuse'[i] + IF i \in Completed' THEN 1 ELSE 0
    BY <2>1, <2>3 DEF RunInv, Counted
  <2>5. ASSUME NEW l \in Links, NEW n \in Copies(l, "run")'
        PROVE  /\ Knows(OwnerOf[l], server[l][n].src)' /\ Knows(TargetOf[l], server[l][n].dst)'
               /\ \A m \in Copies(l, "run")' : m = n
    <3>1. Copies(l, "run")' = Copies(l, "run") /\ server'[l][n] = server[l][n]
      BY <2>2, <2>5 DEF Items
    <3>2. /\ Knows(OwnerOf[l], server[l][n].src) /\ Knows(TargetOf[l], server[l][n].dst)
          /\ \A m \in Copies(l, "run") : m = n
      BY <2>5, <3>1 DEF RunInv, Counted
    <3>3. Knows(OwnerOf[l], server[l][n].src)' /\ Knows(TargetOf[l], server[l][n].dst)'
      BY <3>1, <3>2 DEF Knows
    <3> QED
      BY <3>1, <3>2, <3>3
  <2> QED
    BY <2>4, <2>5 DEF Counted
<1>6. Behind'
  BY DEF Behind
<1>7. Ended'
  <2>1. \A i \in Items : Crowded(i) => Crowded(i)'
    BY CrowdedStays DEF ServerInv
  <2>2. \A i \in Configs \cup Assets : TypeOf[i] \in Items
    BY Named DEF Items, Types
  <2>3. \A i \in Items : Cause(i, disk.map) => Cause(i, disk.map)'
    BY <1>1, <2>1, <2>2 DEF Cause, Unsaid, Twin, Lacks, Ends
  <2>4. \A i : Within(i)' <=> Within(i)
    BY WithinStays
  <2> QED
    BY <1>2, <2>3, <2>4 DEF RunInv, Ended, Unsaid, Twin
<1> QED
  BY <1>3, <1>4, <1>5, <1>6, <1>7 DEF RunInv
-----------------------------------------------------------------------------
(***************************************************************************)
(* The plan of a sync.                                                     *)
(***************************************************************************)
LEMMA StepNames ==
  /\ DOMAIN Steps = 1 .. 16
  /\ Steps[1] = "organizations" /\ Steps[2] = "configuration_types"
  /\ Steps[3] = "configuration_statuses" /\ Steps[4] = "custom_asset_types"
  /\ Steps[5] = "locations" /\ Steps[6] = "configurations" /\ Steps[7] = "custom_assets"
  /\ Steps[8] = "documents" /\ Steps[9] = "passwords" /\ Steps[10] = "row_passwords"
  /\ Steps[11] = "cell_writes" /\ Steps[12] = "relationships"
  /\ Steps[13] = "configuration_updates" /\ Steps[14] = "location_updates"
  /\ Steps[15] = "document_updates" /\ Steps[16] = "password_updates"
BY DEF Steps

LEMMA UpdateSteps == \A n \in 1 .. 16 : Steps[n] \in Updates <=> n > 12
BY StepNames DEF Updates

LEMMA StepOf ==
  ASSUME NEW n \in 1 .. 16
  PROVE  /\ Steps[n] = "organizations" => n = 1
         /\ Steps[n] = "configuration_types" => n = 2
         /\ Steps[n] = "configuration_statuses" => n = 3
         /\ Steps[n] = "custom_asset_types" => n = 4
         /\ Steps[n] = "locations" => n = 5
         /\ Steps[n] = "configurations" => n = 6
         /\ Steps[n] = "custom_assets" => n = 7
         /\ Steps[n] = "documents" => n = 8
         /\ Steps[n] = "passwords" => n = 9
         /\ Steps[n] = "row_passwords" => n = 10
         /\ Steps[n] = "cell_writes" => n = 11
         /\ Steps[n] = "relationships" => n = 12
         /\ Steps[n] = "configuration_updates" => n = 13
         /\ Steps[n] = "location_updates" => n = 14
         /\ Steps[n] = "document_updates" => n = 15
         /\ Steps[n] = "password_updates" => n = 16
<1>1. \/ n = 1 \/ n = 2 \/ n = 3 \/ n = 4 \/ n = 5 \/ n = 6 \/ n = 7 \/ n = 8
      \/ n = 9 \/ n = 10 \/ n = 11 \/ n = 12 \/ n = 13 \/ n = 14 \/ n = 15 \/ n = 16
  OBVIOUS
<1> QED
  BY <1>1, StepNames

LEMMA Least ==
  ASSUME NEW S, S \subseteq Nat, S # {}
  PROVE  \E x \in S : \A y \in S : x <= y
<1>1. \E x \in S : \A y \in S : <<y, x>> \notin OpToRel(<, Nat)
  BY WFMin, NatLessThanWellFounded, Zenon
<1>2. \A x, y \in Nat : <<y, x>> \notin OpToRel(<, Nat) => x <= y
  BY DEF OpToRel
<1> QED
  BY <1>1, <1>2

\* A step goes through the rows of one sheet, which have an order.
LEMMA ItemIn ==
  ASSUME NEW sheet \in DOMAIN Sheets, sync.todo \subseteq Sheets[sheet], sync.todo # {}
  PROVE  Item \in sync.todo
<1> DEFINE at == {n \in DOMAIN Rows[sheet] : Rows[sheet][n] \in sync.todo}
<1>1. /\ Rows[sheet] \in Seq(Sheets[sheet]) /\ DOMAIN Rows = DOMAIN Sheets
      /\ \A i \in Sheets[sheet] : \E n \in DOMAIN Rows[sheet] : Rows[sheet][n] = i
  BY ExportAssumption
<1>2. DOMAIN Rows[sheet] = 1 .. Len(Rows[sheet]) /\ Len(Rows[sheet]) \in Nat
  BY <1>1
<1>3. PICK n \in at : \A m \in at : n <= m
  <2>1. at \subseteq Nat /\ at # {}
    BY <1>1, <1>2
  <2> QED
    BY <2>1, Least
<1>4. ASSUME NEW j \in sync.todo, j # Rows[sheet][n] PROVE Before(Rows[sheet][n], j)
  <2>1. PICK m \in at : Rows[sheet][m] = j
    BY <1>1
  <2>2. n < m /\ n \in 1 .. m - 1 /\ m \in DOMAIN Rows[sheet]
    BY <1>2, <1>3, <1>4, <2>1
  <2> QED
    BY <1>1, <2>1, <2>2 DEF Before
<1>5. Rows[sheet][n] \in sync.todo
  BY <1>3
<1> QED
  BY <1>4, <1>5 DEF Item

\* Nothing is in two of the first ten steps, and no link is in one of them.
LEMMA Shapes ==
  ASSUME NEW o
  PROVE  /\ DOMAIN Shape(o) = 1 .. 16
         /\ Shape(o)[1] = {o} /\ Shape(o)[2] = ConfigTypes /\ Shape(o)[3] = Statuses
         /\ Shape(o)[4] = AssetTypes /\ Shape(o)[5] = RowsOf(o, Locations)
         /\ Shape(o)[6] = RowsOf(o, Configs) /\ Shape(o)[7] = RowsOf(o, Assets)
         /\ Shape(o)[8] = RowsOf(o, Docs) /\ Shape(o)[9] = Plain(RowsOf(o, Passwords))
         /\ Shape(o)[10] = RowPasswords(o) /\ Shape(o)[11] = Cells /\ Shape(o)[12] = LinksOf(o)
         /\ Shape(o)[13] = Configs /\ Shape(o)[14] = Locations /\ Shape(o)[15] = Docs
         /\ Shape(o)[16] = Passwords
BY DEF Shape

StepSheet(n) ==
  CASE n = 1 -> "organizations" [] n = 2 -> "configuration_types"
    [] n = 3 -> "configuration_statuses" [] n = 4 -> "custom_asset_types"
    [] n \in {5, 14} -> "locations" [] n \in {6, 13} -> "configurations"
    [] n = 7 -> "custom_assets" [] n \in {8, 15} -> "documents"
    [] n \in {9, 10, 16} -> "passwords" [] OTHER -> "relationships"

LEMMA ShapeSheet ==
  ASSUME NEW o \in Orgs, NEW n \in 1 .. 16
  PROVE  StepSheet(n) \in DOMAIN Sheets /\ Shape(o)[n] \subseteq Sheets[StepSheet(n)]
<1>1. RowPasswords(o) \subseteq Passwords /\ Plain(RowsOf(o, Passwords)) \subseteq Passwords
  BY DEF RowPasswords, RowsOf, Plain
<1>2. LinksOf(o) \subseteq Links /\ Cells \subseteq Links
  BY DEF LinksOf, Cells
<1>3. /\ RowsOf(o, Locations) \subseteq Locations /\ RowsOf(o, Configs) \subseteq Configs
      /\ RowsOf(o, Assets) \subseteq Assets /\ RowsOf(o, Docs) \subseteq Docs
  BY DEF RowsOf
<1>4. \/ n = 1 \/ n = 2 \/ n = 3 \/ n = 4 \/ n = 5 \/ n = 6 \/ n = 7 \/ n = 8
      \/ n = 9 \/ n = 10 \/ n = 11 \/ n = 12 \/ n = 13 \/ n = 14 \/ n = 15 \/ n = 16
  OBVIOUS
<1> QED
  BY <1>1, <1>2, <1>3, <1>4, Shapes, SheetNames DEF StepSheet

LEMMA SheetItems == \A s \in DOMAIN Sheets : Sheets[s] \subseteq Items
BY SheetNames DEF Items, Types, Scoped

LEMMA ShapesApart ==
  ASSUME NEW o \in Orgs, NEW m \in 1 .. 10, NEW n \in 1 .. 12, m # n
  PROVE  Shape(o)[m] \cap Shape(o)[n] = {}
<1>1. CASE StepSheet(m) # StepSheet(n)
  <2>1. /\ StepSheet(m) \in DOMAIN Sheets /\ Shape(o)[m] \subseteq Sheets[StepSheet(m)]
        /\ StepSheet(n) \in DOMAIN Sheets /\ Shape(o)[n] \subseteq Sheets[StepSheet(n)]
    BY ShapeSheet
  <2> QED
    BY <1>1, <2>1, ExportAssumption
<1>2. CASE StepSheet(m) = StepSheet(n)
  <2>1. {m, n} = {9, 10}
    <3>1. \/ m = 1 \/ m = 2 \/ m = 3 \/ m = 4 \/ m = 5 \/ m = 6 \/ m = 7 \/ m = 8
          \/ m = 9 \/ m = 10
      OBVIOUS
    <3>2. \/ n = 1 \/ n = 2 \/ n = 3 \/ n = 4 \/ n = 5 \/ n = 6 \/ n = 7 \/ n = 8
          \/ n = 9 \/ n = 10 \/ n = 11 \/ n = 12
      OBVIOUS
    <3> QED
      BY <1>2, <3>1, <3>2 DEF StepSheet
  <2>2. Plain(RowsOf(o, Passwords)) \cap RowPasswords(o) = {}
    BY DEF Plain, RowPasswords
  <2> QED
    BY <2>1, <2>2, Shapes
<1> QED
  BY <1>1, <1>2

CellsOf(o) == {l \in LinksOf(o) : KindOf[l] = "cell"}
Bridges(o) == {l \in LinksOf(o) : KindOf[l] \in SyncKinds}

\* What the plan of an organization has to create is missing on the server
\* that was fetched.
LEMMA PlanAt ==
  ASSUME NEW o, NEW s
  PROVE  /\ Plan(o, s)[1] = {o} \cap s.new
         /\ Plan(o, s)[2] = Missing(s, TypesOf(o, ConfigTypes))
         /\ Plan(o, s)[3] = Missing(s, TypesOf(o, Statuses))
         /\ Plan(o, s)[4] = Missing(s, TypesOf(o, AssetTypes))
         /\ Plan(o, s)[5] = Missing(s, RowsOf(o, Locations))
         /\ Plan(o, s)[6] = Missing(s, RowsOf(o, Configs))
         /\ Plan(o, s)[7] = Missing(s, RowsOf(o, Assets))
         /\ Plan(o, s)[8] = Missing(s, FirstOfName(RowsOf(o, Docs)))
         /\ Plan(o, s)[9] = Missing(s, Plain(RowsOf(o, Passwords)))
         /\ Plan(o, s)[10] = Missing(s, RowPasswords(o))
         /\ Plan(o, s)[11] = CellsOf(o)
         /\ Plan(o, s)[12] = Missing(s, Bridges(o))
         /\ Plan(o, s)[13] = Changed(s, RowsOf(o, Configs))
         /\ Plan(o, s)[14] = Changed(s, RowsOf(o, Locations))
         /\ Plan(o, s)[15] = Changed(s, FirstOfName(RowsOf(o, Docs)))
         /\ Plan(o, s)[16] \subseteq Passwords
<1>1. DOMAIN Plan(o, s) = 1 .. 16 /\ \A n \in 1 .. 16 : Plan(o, s)[n] = PlanOf(o, s, Steps[n])
  BY StepNames DEF Plan
<1>2. /\ Plan(o, s)[1] = {o} \cap s.new
      /\ Plan(o, s)[2] = Missing(s, TypesOf(o, ConfigTypes))
      /\ Plan(o, s)[3] = Missing(s, TypesOf(o, Statuses))
      /\ Plan(o, s)[4] = Missing(s, TypesOf(o, AssetTypes))
  BY <1>1, StepNames DEF PlanOf, DiffConfigTypes, DiffConfigStatuses, DiffCustomAssetTypes
<1>3. /\ Plan(o, s)[5] = Missing(s, RowsOf(o, Locations))
      /\ Plan(o, s)[6] = Missing(s, RowsOf(o, Configs))
      /\ Plan(o, s)[7] = Missing(s, RowsOf(o, Assets))
      /\ Plan(o, s)[8] = Missing(s, FirstOfName(RowsOf(o, Docs)))
  BY <1>1, StepNames
     DEF PlanOf, DiffLocations, DiffConfigurations, DiffCustomAssets, DiffDocuments
<1>4. /\ Plan(o, s)[9] = Missing(s, Plain(RowsOf(o, Passwords)))
      /\ Plan(o, s)[10] = Missing(s, RowPasswords(o))
      /\ Plan(o, s)[11] = CellsOf(o)
  <2>1. /\ DiffPasswords(o, s).create = Missing(s, Plain(RowsOf(o, Passwords)))
        /\ DiffPasswords(o, s).rows = Missing(s, RowPasswords(o))
        /\ DiffPasswords(o, s).cells = CellsOf(o)
    BY DEF DiffPasswords, RowPasswords, CellsOf
  <2> QED
    BY <1>1, <2>1, StepNames DEF PlanOf
<1>5. /\ Plan(o, s)[12] = Missing(s, Bridges(o))
      /\ Plan(o, s)[13] = Changed(s, RowsOf(o, Configs))
      /\ Plan(o, s)[14] = Changed(s, RowsOf(o, Locations))
      /\ Plan(o, s)[15] = Changed(s, FirstOfName(RowsOf(o, Docs)))
  BY <1>1, StepNames
     DEF PlanOf, DiffRelationships, DiffConfigurations, DiffLocations, DiffDocuments, Bridges
<1>6. Plan(o, s)[16] \subseteq Passwords
  <2>1. DiffPasswords(o, s).update \subseteq Passwords
    BY DEF DiffPasswords, Plain, RowsOf
  <2> QED
    BY <1>1, <2>1, StepNames DEF PlanOf
<1> QED
  BY <1>2, <1>3, <1>4, <1>5, <1>6

LEMMA PlanShape ==
  ASSUME NEW o \in Orgs, NEW s
  PROVE  /\ Plan(o, s) \in [1 .. 16 -> SUBSET Items]
         /\ \A n \in 1 .. 16 : Plan(o, s)[n] \subseteq Shape(o)[n]
<1>1. /\ Plan(o, s)[1] \subseteq Shape(o)[1] /\ Plan(o, s)[2] \subseteq Shape(o)[2]
      /\ Plan(o, s)[3] \subseteq Shape(o)[3] /\ Plan(o, s)[4] \subseteq Shape(o)[4]
  BY PlanAt, Shapes DEF Missing, TypesOf
<1>2. /\ Plan(o, s)[5] \subseteq Shape(o)[5] /\ Plan(o, s)[6] \subseteq Shape(o)[6]
      /\ Plan(o, s)[7] \subseteq Shape(o)[7] /\ Plan(o, s)[8] \subseteq Shape(o)[8]
      /\ Plan(o, s)[9] \subseteq Shape(o)[9] /\ Plan(o, s)[10] \subseteq Shape(o)[10]
  <2>1. \A rows : Missing(s, rows) \subseteq rows /\ Missing(s, FirstOfName(rows)) \subseteq rows
    BY DEF Missing, FirstOfName
  <2>2. /\ Missing(s, RowsOf(o, Locations)) \subseteq RowsOf(o, Locations)
        /\ Missing(s, RowsOf(o, Configs)) \subseteq RowsOf(o, Configs)
        /\ Missing(s, RowsOf(o, Assets)) \subseteq RowsOf(o, Assets)
        /\ Missing(s, FirstOfName(RowsOf(o, Docs))) \subseteq RowsOf(o, Docs)
        /\ Missing(s, Plain(RowsOf(o, Passwords))) \subseteq Plain(RowsOf(o, Passwords))
        /\ Missing(s, RowPasswords(o)) \subseteq RowPasswords(o)
    BY <2>1
  <2> QED
    BY <2>2, PlanAt, Shapes
<1>3. /\ Plan(o, s)[11] \subseteq Shape(o)[11] /\ Plan(o, s)[12] \subseteq Shape(o)[12]
      /\ Plan(o, s)[13] \subseteq Shape(o)[13] /\ Plan(o, s)[14] \subseteq Shape(o)[14]
      /\ Plan(o, s)[15] \subseteq Shape(o)[15] /\ Plan(o, s)[16] \subseteq Shape(o)[16]
  <2>1. /\ CellsOf(o) \subseteq Cells
        /\ Missing(s, Bridges(o)) \subseteq LinksOf(o)
    BY DEF Missing, LinksOf, Cells, CellsOf, Bridges
  <2>2. /\ Changed(s, RowsOf(o, Configs)) \subseteq Configs
        /\ Changed(s, RowsOf(o, Locations)) \subseteq Locations
        /\ Changed(s, FirstOfName(RowsOf(o, Docs))) \subseteq Docs
    BY DEF Changed, FirstOfName, RowsOf
  <2> QED
    BY <2>1, <2>2, PlanAt, Shapes
<1>4. ASSUME NEW n \in 1 .. 16 PROVE Plan(o, s)[n] \subseteq Shape(o)[n]
  <2>1. \/ n = 1 \/ n = 2 \/ n = 3 \/ n = 4 \/ n = 5 \/ n = 6 \/ n = 7 \/ n = 8
        \/ n = 9 \/ n = 10 \/ n = 11 \/ n = 12 \/ n = 13 \/ n = 14 \/ n = 15 \/ n = 16
    OBVIOUS
  <2> QED
    BY <1>1, <1>2, <1>3, <2>1
<1>5. \A n \in 1 .. 16 : Plan(o, s)[n] \subseteq Items
  BY <1>4, ShapeSheet, SheetItems
<1>6. Plan(o, s) = [n \in 1 .. 16 |-> Plan(o, s)[n]]
  BY StepNames DEF Plan
<1> QED
  BY <1>4, <1>5, <1>6
-----------------------------------------------------------------------------
(***************************************************************************)
(* The way of a sync through its plan.                                     *)
(***************************************************************************)
Remembers(t, r) ==
  /\ t.update = r.update /\ t.asked = r.asked /\ t.found = r.found /\ t.new = r.new
  /\ t.known = r.known /\ t.edited = r.edited /\ t.before = r.before
  /\ t.failed = r.failed /\ t.code = r.code

LEMMA OntoNext ==
  ASSUME NEW r \in SyncT, r.at # "create", r.orgs # <<>>, r.plan \in [1 .. 16 -> SUBSET Items]
  PROVE  /\ Onto(r) \in SyncT /\ Remembers(Onto(r), r)
         /\ \/ /\ Onto(r).at = "fetch" /\ Onto(r).orgs = Tail(r.orgs) /\ Onto(r).made = Nothing
               /\ \A n \in 1 .. 12 : n > r.step => r.plan[n] = {}
            \/ /\ Onto(r).at = "row" /\ Onto(r).orgs = r.orgs /\ Onto(r).made = r.made
               /\ Onto(r).plan = r.plan /\ Onto(r).step \in 1 .. 16 /\ Onto(r).step > r.step
               /\ Onto(r).todo = r.plan[Onto(r).step] /\ Onto(r).todo # {}
               /\ Onto(r).step > 12 => r.update
               /\ \A n \in 1 .. 12 : n > r.step /\ n < Onto(r).step => r.plan[n] = {}
<1>1. DOMAIN r.plan = 1 .. 16 /\ r.step \in 0 .. 16 /\ \A n \in 1 .. 16 : r.plan[n] \in SUBSET Items
  BY DEF SyncT
<1>2. Left(r) \subseteq 1 .. 16
  BY <1>1 DEF Left
<1>3. \A n \in 1 .. 12 : n > r.step /\ n \notin Left(r) => r.plan[n] = {}
  BY <1>1, UpdateSteps DEF Left
<1>4. CASE Left(r) = {}
  <2>1. Onto(r) = [r EXCEPT !.at = "fetch", !.orgs = Tail(r.orgs), !.made = Nothing, !.plan = <<>>]
    BY <1>4 DEF Onto
  <2>2. Tail(r.orgs) \in Seq(Orgs)
    BY DEF SyncT
  <2>3. Nothing \in [Items -> Nat]
    BY BoundsAssumption DEF Nothing, None
  <2>4. Onto(r) \in SyncT
    BY <2>1, <2>2, <2>3 DEF SyncT
  <2>5. Remembers(Onto(r), r)
    BY <2>1 DEF SyncT, Remembers
  <2>6. Onto(r).at = "fetch" /\ Onto(r).orgs = Tail(r.orgs) /\ Onto(r).made = Nothing
    BY <2>1 DEF SyncT
  <2> QED
    BY <1>3, <1>4, <2>4, <2>5, <2>6
<1>5. CASE Left(r) # {}
  <2> DEFINE next == Min(Left(r))
  <2>1. next \in Left(r) /\ \A n \in Left(r) : next <= n
    <3>1. \E x \in Left(r) : \A y \in Left(r) : x =< y
      <4>1. Left(r) \subseteq Nat
        BY <1>2
      <4> QED
        BY <1>5, <4>1, Least
    <3> QED
      BY <3>1 DEF Min
  <2>2. Onto(r) = [r EXCEPT !.at = "row", !.step = next, !.todo = r.plan[next]]
    BY <1>5 DEF Onto
  <2> HIDE DEF next
  <2>3. /\ next \in 1 .. 16 /\ next > r.step /\ r.plan[next] # {}
        /\ next > 12 => r.update
    BY <1>2, <2>1, UpdateSteps DEF Left
  <2>4. \A n \in 1 .. 12 : n > r.step /\ n < next => r.plan[n] = {}
    BY <1>2, <1>3, <2>1, <2>3
  <2>5. Onto(r) \in SyncT
    <3>1. next \in 0 .. 16 /\ r.plan[next] \in SUBSET Items
      BY <1>1, <2>3
    <3> QED
      BY <2>2, <3>1 DEF SyncT
  <2>6. Remembers(Onto(r), r)
    BY <2>2 DEF SyncT, Remembers
  <2>7. /\ Onto(r).at = "row" /\ Onto(r).orgs = r.orgs /\ Onto(r).made = r.made
        /\ Onto(r).plan = r.plan /\ Onto(r).step = next /\ Onto(r).todo = r.plan[next]
    BY <2>2 DEF SyncT
  <2> QED
    BY <2>3, <2>4, <2>5, <2>6, <2>7
<1> QED
  BY <1>4, <1>5

\* What there is to do when the item at hand is done.
Rest(n) ==
  IF n = sync.step THEN sync.todo \ {Item}
  ELSE IF n > sync.step THEN sync.plan[n] ELSE {}

\* The sync goes on with what is left, or to the next organization.
Goes(s, left) ==
  /\ sync' \in SyncT /\ Remembers(sync', s)
  /\ \/ /\ sync'.at = "fetch" /\ sync'.orgs = Tail(s.orgs) /\ sync'.made = Nothing
        /\ \A n \in 1 .. 12 : left[n] = {}
     \/ /\ Working' /\ sync'.orgs = s.orgs /\ sync'.made = s.made
        /\ sync'.plan \in [1 .. 16 -> SUBSET Items]
        /\ \A n \in 1 .. 16 : sync'.plan[n] \subseteq Shape(Head(s.orgs))[n]
        /\ sync'.step \in 1 .. 16 /\ sync'.step >= s.step /\ sync'.todo # {}
        /\ sync'.todo \subseteq sync'.plan[sync'.step]
        /\ sync'.step > 12 => s.update
        /\ (sync.at = "upload" => /\ sync.step \in 5 .. 9 /\ sync.made[Item] # None
                                  /\ server[Item][sync.made[Item]].file # "stored")'
        /\ sync'.at = "link" => sync'.step = 10
        /\ \A n \in 1 .. 12 : Ahead(n)' = left[n]

\* While it works on the plan of one organization.
Fitting(s) ==
  /\ s \in SyncT /\ s.at # "create" /\ s.orgs = sync.orgs /\ s.plan = sync.plan
  /\ s.step = sync.step /\ s.todo = sync.todo /\ s.update = sync.update

LEMMA DoneGoes ==
  ASSUME SyncTyped, Working, NEW s, Fitting(s), sync' = Done(s)
  PROVE  Goes(s, [n \in 1 .. 12 |-> Rest(n)])
<1> DEFINE rest == [s EXCEPT !.todo = s.todo \ {Item}]
<1>1. /\ s \in SyncT /\ s.at # "create" /\ s.orgs = sync.orgs /\ s.plan = sync.plan
      /\ s.step = sync.step /\ s.todo = sync.todo /\ s.update = sync.update
  BY DEF Fitting
<1>2. /\ sync.orgs # <<>> /\ sync.plan \in [1 .. 16 -> SUBSET Items]
      /\ \A n \in 1 .. 16 : sync.plan[n] \subseteq Shape(Head(sync.orgs))[n]
      /\ sync.step \in 1 .. 16 /\ sync.todo # {} /\ sync.todo \subseteq sync.plan[sync.step]
      /\ sync.step > 12 => sync.update
  BY DEF SyncTyped, Present
<1>3. sync' = IF rest.todo = {} THEN Onto(rest) ELSE [rest EXCEPT !.at = "row"]
  BY <1>1 DEF Done
<1>4. /\ rest \in SyncT /\ rest.at = s.at /\ rest.orgs = s.orgs /\ rest.plan = s.plan
      /\ rest.step = s.step /\ rest.todo = s.todo \ {Item} /\ rest.update = s.update
      /\ rest.made = s.made /\ Remembers(rest, s)
  BY <1>1 DEF SyncT, Remembers
<1> HIDE DEF rest
<1>5. CASE rest.todo = {}
  <2>1. sync' = Onto(rest)
    BY <1>3, <1>5
  <2>2. /\ sync' \in SyncT /\ Remembers(sync', rest)
        /\ \/ /\ sync'.at = "fetch" /\ sync'.orgs = Tail(s.orgs) /\ sync'.made = Nothing
              /\ \A n \in 1 .. 12 : n > s.step => s.plan[n] = {}
           \/ /\ sync'.at = "row" /\ sync'.orgs = s.orgs /\ sync'.made = s.made
              /\ sync'.plan = s.plan /\ sync'.step \in 1 .. 16 /\ sync'.step > s.step
              /\ sync'.todo = s.plan[sync'.step] /\ sync'.todo # {}
              /\ sync'.step > 12 => s.update
              /\ \A n \in 1 .. 12 : n > s.step /\ n < sync'.step => s.plan[n] = {}
    <3>1. /\ rest.at # "create" /\ rest.orgs # <<>>
          /\ rest.plan \in [1 .. 16 -> SUBSET Items]
      BY <1>1, <1>2, <1>4
    <3>2. /\ Onto(rest) \in SyncT /\ Remembers(Onto(rest), rest)
          /\ \/ /\ Onto(rest).at = "fetch" /\ Onto(rest).orgs = Tail(rest.orgs)
                /\ Onto(rest).made = Nothing
                /\ \A n \in 1 .. 12 : n > rest.step => rest.plan[n] = {}
             \/ /\ Onto(rest).at = "row" /\ Onto(rest).orgs = rest.orgs
                /\ Onto(rest).made = rest.made /\ Onto(rest).plan = rest.plan
                /\ Onto(rest).step \in 1 .. 16 /\ Onto(rest).step > rest.step
                /\ Onto(rest).todo = rest.plan[Onto(rest).step] /\ Onto(rest).todo # {}
                /\ Onto(rest).step > 12 => rest.update
                /\ \A n \in 1 .. 12 :
                     n > rest.step /\ n < Onto(rest).step => rest.plan[n] = {}
      BY <1>4, <3>1, OntoNext
    <3> QED
      BY <1>4, <2>1, <3>2
  <2>3. Remembers(sync', s)
    BY <1>4, <2>2 DEF Remembers
  <2>4. CASE sync'.at = "fetch"
    <3>1. \A n \in 1 .. 12 : Rest(n) = {}
      BY <1>1, <1>2, <1>4, <1>5, <2>2, <2>4 DEF Rest
    <3> QED
      BY <2>2, <2>3, <2>4, <3>1 DEF Goes
  <2>5. CASE sync'.at = "row"
    <3>1. ASSUME NEW n \in 1 .. 12 PROVE Ahead(n)' = Rest(n)
      <4>1. /\ sync'.plan = sync.plan /\ sync'.todo = sync.plan[sync'.step]
            /\ sync'.step > sync.step /\ sync'.step \in 1 .. 16 /\ sync.step \in 1 .. 16
            /\ sync.todo \ {Item} = {}
            /\ n > sync.step /\ n < sync'.step => sync.plan[n] = {}
        BY <1>1, <1>2, <1>4, <1>5, <2>2, <2>5
      <4>2. Ahead(n)' = IF n = sync'.step THEN sync.plan[sync'.step]
                        ELSE IF n > sync'.step THEN sync.plan[n] ELSE {}
        BY <2>5, <4>1 DEF Ahead
      <4>3. CASE n = sync.step \/ n < sync.step
        <5>1. Ahead(n)' = {}
          BY <4>1, <4>2, <4>3
        <5>2. Rest(n) = {}
          <6>1. CASE n = sync.step
            BY <4>1, <6>1, Zenon DEF Rest
          <6>2. CASE n < sync.step
            BY <4>1, <6>2 DEF Rest
          <6> QED
            BY <4>3, <6>1, <6>2
        <5> QED
          BY <5>1, <5>2
      <4>4. CASE n > sync.step /\ n < sync'.step
        BY <4>1, <4>2, <4>4 DEF Rest
      <4>5. CASE n = sync'.step
        BY <4>1, <4>2, <4>5 DEF Rest
      <4>6. CASE n > sync'.step
        BY <4>1, <4>2, <4>6 DEF Rest
      <4> QED
        BY <4>1, <4>3, <4>4, <4>5, <4>6
    <3> QED
      BY <1>1, <1>2, <2>2, <2>3, <2>5, <3>1 DEF Goes, Working
  <2> QED
    BY <2>2, <2>4, <2>5
<1>6. CASE rest.todo # {}
  <2>1. sync' = [rest EXCEPT !.at = "row"]
    BY <1>3, <1>6
  <2>2. /\ sync' \in SyncT /\ Remembers(sync', rest) /\ sync'.at = "row"
        /\ sync'.orgs = rest.orgs /\ sync'.plan = rest.plan /\ sync'.step = rest.step
        /\ sync'.todo = rest.todo /\ sync'.made = rest.made
    BY <1>4, <2>1 DEF SyncT, Remembers
  <2>3. Remembers(sync', s)
    BY <1>4, <2>2 DEF Remembers
  <2>4. \A n \in 1 .. 12 : Ahead(n)' = Rest(n)
    BY <1>1, <1>4, <2>2 DEF Rest, Ahead
  <2>5. sync'.todo \subseteq sync'.plan[sync'.step]
    BY <1>1, <1>2, <1>4, <2>2
  <2> QED
    BY <1>1, <1>2, <1>4, <1>6, <2>2, <2>3, <2>4, <2>5 DEF Goes, Working
<1> QED
  BY <1>5, <1>6
-----------------------------------------------------------------------------
(***************************************************************************)
(* What a step of the executor means for the organization it works on.     *)
(***************************************************************************)
Uuid(s, i) == IF s.made[i] # None THEN s.made[i] ELSE s.known[i]

\* After the step: what is there, and what the fetch can have missed.
There(i) == server'[i] # <<>>
Missed(s, i) ==
  \/ ~There(i)
  \/ Crowded(i)'
  \/ i \in Assets /\ s.known[TypeOf[i]] = None /\ There(TypeOf[i])

\* It holds of the server after the step, with s in memory and left[n] to be
\* done in step n of the plan.
Sane(s, left) ==
  /\ \A i \in Items : s.known[i] \in {None} \cup DOMAIN server'[i]
  /\ \A i \in Items : s.made[i] \in {None} \cup DOMAIN server'[i]
  /\ \A n \in 2 .. 10 : \A i \in left[n] : Missed(s, i)
  /\ s.failed => s.before < faults' \/ Crowding'
  /\ ~s.failed =>
       /\ ~sync.failed
       /\ \A i \in Scoped : OrgOf[i] = Present =>
            /\ Exists(i)' \/ PassedOver(i) \/ \E n \in 5 .. 10 : i \in left[n]
            /\ Uuid(s, i) # None \/ Missed(s, i)
       /\ \A a \in Assets : OrgOf[a] = Present =>
            s.known[TypeOf[a]] # None \/ TypeOf[a] \in left[4]
       /\ \A l \in Links : Linked(Present, l) =>
            \/ Exists(l)' \/ l \in left[12]
            \/ s.step >= 12 /\ None \in {Uuid(s, OwnerOf[l]), Uuid(s, TargetOf[l])}

\* Nothing is created of another organization, and s is of this one.
Aside(s) ==
  /\ s \in SyncT /\ s.asked = sync.asked /\ s.found = sync.found /\ s.orgs = sync.orgs
  /\ s.before = sync.before /\ s.code = sync.code
  /\ sync.orgs # <<>> /\ sync.at \in {"fetch", "row", "upload", "link"}
  /\ ~sync.failed => Exists(Present)
  /\ Lasting /\ hidden' = hidden /\ jobs' = jobs /\ faults' >= faults
  /\ \A i \in Scoped : OrgOf[i] # Present /\ Exists(i)' => Exists(i)

LEMMA WholeStays ==
  ASSUME ServerTyped, Lasting, NEW o \in Orgs, Whole(o),
         \A i \in Scoped : OrgOf[i] = o /\ Exists(i)' => Exists(i)
  PROVE  Whole(o)'
<1>1. \A i \in Items : Exists(i) => Exists(i)'
  BY Lasts
<1>2. \A i \in Scoped \cup Links \cup Orgs : i \in Items
  BY DEF Items
<1>3. \A l \in Links : OwnerOf[l] \in Scoped /\ TargetOf[l] \in Scoped
  BY Named
<1>4. Exists(o)' /\ \A i \in Scoped : OrgOf[i] = o => Exists(i)' \/ PassedOver(i)
  BY <1>1, <1>2 DEF Whole
<1>5. \A l \in Links :
        /\ OrgOf[OwnerOf[l]] = o /\ OrgOf[TargetOf[l]] = o
        /\ Exists(OwnerOf[l])' /\ Exists(TargetOf[l])'
        /\ KindOf[l] \in SyncKinds
        => Exists(l)' \/ Crowded(OwnerOf[l])' \/ Crowded(TargetOf[l])'
  BY <1>1, <1>2, <1>3, CrowdedStays DEF Whole
<1> QED
  BY <1>4, <1>5 DEF Whole, PassedOver

LEMMA Rotates ==
  ASSUME SyncTyped, sync.orgs # <<>>, NEW orgs, orgs = Tail(sync.orgs)
  PROVE  /\ orgs \in Seq(Orgs) /\ DOMAIN orgs = 1 .. Len(sync.orgs) - 1
         /\ \A n \in DOMAIN orgs : orgs[n] = sync.orgs[n + 1] /\ n + 1 \in DOMAIN sync.orgs
         /\ \A n \in DOMAIN sync.orgs :
              sync.orgs[n] = Present \/ (n - 1 \in DOMAIN orgs /\ orgs[n - 1] = sync.orgs[n])
         /\ Present \in sync.asked /\ Present \in Orgs
         /\ \E n \in DOMAIN sync.orgs : sync.orgs[n] = Present
<1>1. sync.orgs \in Seq(Orgs) /\ sync.asked \subseteq Orgs
  BY DEF SyncTyped, SyncT
<1>2. DOMAIN sync.orgs = 1 .. Len(sync.orgs) /\ Len(sync.orgs) \in Nat \ {0}
  BY <1>1
<1>3. /\ orgs \in Seq(Orgs) /\ DOMAIN orgs = 1 .. Len(sync.orgs) - 1
      /\ \A n \in DOMAIN orgs : orgs[n] = sync.orgs[n + 1]
  BY <1>1, <1>2
<1>4. Present = sync.orgs[1]
  BY <1>1, <1>2 DEF Present
<1>5. Present \in sync.asked
  BY <1>2, <1>4 DEF SyncTyped
<1> QED
  BY <1>1, <1>2, <1>3, <1>4, <1>5

LEMMA GoesTyped ==
  ASSUME SyncTyped, ServerInv, ServerInv', NEW s, NEW left, Aside(s), Sane(s, left), Goes(s, left)
  PROVE  SyncTyped'
<1>1. /\ sync' \in SyncT /\ sync'.asked = sync.asked /\ sync'.before = sync.before
      /\ sync'.failed = s.failed /\ sync'.code = sync.code /\ sync'.update = s.update
      /\ sync'.at \in {"fetch", "row", "upload", "link"}
  BY DEF Goes, Remembers, Aside, Working
<1>2. sync.at # "idle" /\ jobs >= 1 /\ sync.before <= faults /\ sync.code = "none"
  BY DEF SyncTyped, Aside
<1>3. sync'.before <= faults' /\ jobs' >= 1
  BY <1>1, <1>2 DEF Aside, ServerInv, ServerTyped, SyncT
<1>4. s.failed => s.before < faults' \/ Crowding'
  BY DEF Sane
<1>5. s.before = sync.before
  BY DEF Aside
<1>6. CASE sync'.at = "fetch"
  <2>1. sync'.orgs = Tail(sync.orgs) /\ sync.orgs # <<>>
    BY <1>6 DEF Goes, Aside, Working
  <2>2. /\ \A n \in DOMAIN sync'.orgs : sync'.orgs[n] \in sync.asked
        /\ \A m, n \in DOMAIN sync'.orgs : sync'.orgs[m] = sync'.orgs[n] => m = n
    <3>1. \A n \in DOMAIN sync'.orgs :
            sync'.orgs[n] = sync.orgs[n + 1] /\ n + 1 \in DOMAIN sync.orgs /\ n \in Int
      <4>1. /\ sync'.orgs \in Seq(Orgs)
            /\ \A n \in DOMAIN sync'.orgs :
                 sync'.orgs[n] = sync.orgs[n + 1] /\ n + 1 \in DOMAIN sync.orgs
        BY <2>1, Rotates
      <4> QED
        BY <4>1
    <3> QED
      BY <3>1 DEF SyncTyped
  <2> QED
    BY <1>1, <1>2, <1>3, <1>4, <1>5, <1>6, <2>2 DEF SyncTyped, Working
<1>7. CASE sync'.at # "fetch"
  <2>1. sync'.orgs = sync.orgs /\ sync.orgs # <<>>
    BY <1>7 DEF Goes, Aside
  <2>2. /\ sync'.plan \in [1 .. 16 -> SUBSET Items]
        /\ \A n \in 1 .. 16 : sync'.plan[n] \subseteq Shape(Head(sync'.orgs))[n]
        /\ sync'.step \in 1 .. 16 /\ sync'.todo # {}
        /\ sync'.todo \subseteq sync'.plan[sync'.step]
        /\ sync'.step > 12 => sync'.update
        /\ sync'.at = "upload" => sync'.step \in 5 .. 9
        /\ sync'.at = "link" => sync'.step = 10
    BY <1>1, <1>7, <2>1 DEF Goes, Aside
  <2>3. /\ \A n \in DOMAIN sync'.orgs : sync'.orgs[n] \in sync.asked
        /\ \A m, n \in DOMAIN sync'.orgs : sync'.orgs[m] = sync'.orgs[n] => m = n
    BY <2>1 DEF SyncTyped
  <2> QED
    BY <1>1, <1>2, <1>3, <1>4, <1>5, <1>7, <2>1, <2>2, <2>3
       DEF SyncTyped, Working, Present, Shape, RowsOf, Kinds, Plain, RowPasswords, LinksOf, Cells
<1> QED
  BY <1>6, <1>7

LEMMA GoesKnown ==
  ASSUME SyncTyped, Known, ServerInv, NEW s, NEW left, Aside(s), Sane(s, left), Goes(s, left)
  PROVE  Known'
<1>1. /\ sync'.known = s.known /\ sync'.found = sync.found
      /\ sync'.at \in {"fetch", "row", "upload", "link"}
  BY DEF Goes, Remembers, Aside, Working
<1>2. \A i \in Items : sync'.known[i] \in {None} \cup DOMAIN server'[i]
  BY <1>1 DEF Sane
<1>3. \A i \in Items : sync'.made[i] \in {None} \cup DOMAIN server'[i]
  BY DEF Sane, Goes, Nothing
<1>4. (sync.at = "upload" => /\ sync.made[Item] # None
                             /\ server[Item][sync.made[Item]].file # "stored")'
  <2>1. CASE sync'.at = "fetch"
    BY <2>1
  <2>2. CASE sync'.at # "fetch"
    BY <2>2 DEF Goes
  <2> QED
    BY <2>1, <2>2
<1>5. \A o \in sync'.found : Exists(o)'
  <2>1. \A o \in sync.found : Exists(o) /\ o \in Items
    BY DEF Known, SyncTyped, SyncT, Items
  <2> QED
    BY <1>1, <2>1, Lasts DEF Aside, ServerInv
<1>6. ASSUME Working', NEW n \in 2 .. 10, NEW i \in Ahead(n)' PROVE Missable(i)'
  <2>1. Ahead(n)' = left[n]
    BY <1>6 DEF Goes, Working
  <2>2. Missed(s, i)
    BY <1>6, <2>1 DEF Sane
  <2> QED
    BY <1>1, <2>2 DEF Missed, Missable, There, Exists
<1> QED
  BY <1>2, <1>3, <1>4, <1>5, <1>6 DEF Known

LEMMA GoesComplete ==
  ASSUME SyncTyped, Complete, ServerInv, NEW s, NEW left, Aside(s), Sane(s, left), Goes(s, left)
  PROVE  Complete'
<1> SUFFICES ASSUME ~sync'.failed PROVE Complete'
  BY DEF Complete
<1>1. /\ sync'.known = s.known /\ sync'.found = sync.found /\ sync'.failed = s.failed
      /\ sync'.asked = sync.asked /\ sync'.at \in {"fetch", "row", "upload", "link"}
      /\ hidden' = hidden
  BY DEF Goes, Remembers, Aside, Working
<1>2. /\ ~s.failed /\ ~sync.failed
  BY <1>1 DEF Sane
<1>3. /\ \A o \in sync.asked : o \in sync.found \/ o \in hidden \/ Unlisted(o)
      /\ \A o \in sync.asked :
           \/ \E n \in DOMAIN sync.orgs : sync.orgs[n] = o
           \/ o \in hidden \/ Whole(o) \/ Unlisted(o)
  BY <1>2 DEF Complete, Aside
<1>u. \A o \in sync.asked : Unlisted(o) => Unlisted(o)'
  <2>1. \A o \in sync.asked : o \in Items
    BY DEF SyncTyped, SyncT, Items
  <2> QED
    BY <1>1, <2>1, CrowdedStays, Lasts DEF Unlisted, Aside, ServerInv
<1>4. /\ \A i \in Scoped : OrgOf[i] = Present =>
           /\ Exists(i)' \/ PassedOver(i) \/ \E n \in 5 .. 10 : i \in left[n]
           /\ Uuid(s, i) # None \/ Missed(s, i)
      /\ \A a \in Assets : OrgOf[a] = Present =>
           s.known[TypeOf[a]] # None \/ TypeOf[a] \in left[4]
      /\ \A l \in Links : Linked(Present, l) =>
           \/ Exists(l)' \/ l \in left[12]
           \/ s.step >= 12 /\ None \in {Uuid(s, OwnerOf[l]), Uuid(s, TargetOf[l])}
  BY <1>2 DEF Sane
<1>5. server'[Present] # <<>> /\ Present \in Orgs
  <2>1. Present \in Orgs
    BY Rotates DEF Aside
  <2>2. Present \in Items /\ Exists(Present)
    BY <1>2, <2>1 DEF Aside, Items
  <2>3. \A i \in Items : Exists(i) => server'[i] # <<>>
    BY Lasts DEF Aside, ServerInv, Exists
  <2> QED
    BY <2>1, <2>2, <2>3
<1>6. /\ \A o \in sync'.asked : o \in sync'.found \/ o \in hidden' \/ Unlisted(o)'
      /\ \A o \in sync.asked :
           \/ \E n \in DOMAIN sync'.orgs : sync'.orgs[n] = o
           \/ o \in hidden \/ Whole(o)' \/ Unlisted(o)'
           \/ (o = Present /\ sync'.at = "fetch")
  <2>1. ASSUME NEW o \in sync.asked, o # Present, Whole(o) PROVE Whole(o)'
    <3>1. o \in Orgs
      BY DEF SyncTyped, SyncT
    <3>2. \A i \in Scoped : OrgOf[i] = o /\ Exists(i)' => Exists(i)
      BY <2>1 DEF Aside
    <3> QED
      BY <2>1, <3>1, <3>2, WholeStays DEF Aside, ServerInv
  <2>2. CASE sync'.at = "fetch"
    <3>1. sync'.orgs = Tail(sync.orgs) /\ sync.orgs # <<>>
      BY <2>2 DEF Goes, Aside, Working
    <3>2. \A n \in DOMAIN sync.orgs :
            \/ sync.orgs[n] = Present
            \/ n - 1 \in DOMAIN sync'.orgs /\ sync'.orgs[n - 1] = sync.orgs[n]
      BY <3>1, Rotates
    <3> QED
      BY <1>1, <1>3, <1>u, <2>1, <2>2, <3>2
  <2>3. CASE sync'.at # "fetch"
    <3>1. sync'.orgs = sync.orgs /\ \E n \in DOMAIN sync.orgs : sync.orgs[n] = Present
      BY <2>3, Rotates DEF Goes, Aside
    <3> QED
      BY <1>1, <1>3, <1>u, <2>1, <3>1
  <2> QED
    BY <2>2, <2>3
<1>7. CASE sync'.at = "fetch"
  <2>1. \A n \in 1 .. 12 : left[n] = {}
    BY <1>7 DEF Goes, Working
  <2>2. \A i \in Scoped : OrgOf[i] = Present => Exists(i)' \/ PassedOver(i)
    BY <1>4, <2>1
  <2>3. ASSUME NEW l \in Links, OrgOf[OwnerOf[l]] = Present, OrgOf[TargetOf[l]] = Present,
               Exists(OwnerOf[l])', Exists(TargetOf[l])', KindOf[l] \in SyncKinds
        PROVE  Exists(l)' \/ Crowded(OwnerOf[l])' \/ Crowded(TargetOf[l])'
    <3>1. /\ OwnerOf[l] \in Scoped /\ TargetOf[l] \in Scoped
          /\ Linked(Present, l) /\ l \notin left[12]
      BY <2>1, <2>3, Named DEF Linked
    <3>2. \A a \in Assets : OrgOf[a] = Present => s.known[TypeOf[a]] # None
      BY <1>4, <2>1
    <3>3. /\ Uuid(s, OwnerOf[l]) # None \/ Crowded(OwnerOf[l])'
          /\ Uuid(s, TargetOf[l]) # None \/ Crowded(TargetOf[l])'
      BY <1>4, <2>3, <3>1, <3>2 DEF Missed, There, Exists
    <3> QED
      BY <1>4, <3>1, <3>3
  <2>4. ASSUME NEW o, o = Present PROVE Whole(o)'
    <3>1. Exists(o)' /\ \A i \in Scoped : OrgOf[i] = o => Exists(i)' \/ PassedOver(i)
      BY <1>5, <2>2, <2>4 DEF Exists
    <3>2. \A l \in Links :
            /\ OrgOf[OwnerOf[l]] = o /\ OrgOf[TargetOf[l]] = o
            /\ Exists(OwnerOf[l])' /\ Exists(TargetOf[l])'
            /\ KindOf[l] \in SyncKinds
            => Exists(l)' \/ Crowded(OwnerOf[l])' \/ Crowded(TargetOf[l])'
      BY <2>3, <2>4
    <3> QED
      BY <3>1, <3>2 DEF Whole, PassedOver
  <2> QED
    BY <1>1, <1>6, <1>7, <2>4 DEF Complete, Working
<1>8. CASE sync'.at # "fetch"
  <2>1. /\ sync'.made = s.made /\ sync'.step >= s.step /\ sync'.orgs = sync.orgs
        /\ \A n \in 1 .. 12 : Ahead(n)' = left[n]
        /\ s.step \in 0 .. 16 /\ sync'.step \in 1 .. 16
    BY <1>8 DEF Goes, Aside, SyncT
  <2>2. Present' = Present
    BY <2>1 DEF Present
  <2>3. \A i : UuidOf(i)' = Uuid(s, i)
    BY <1>1, <2>1 DEF UuidOf, Uuid
  <2>4. ASSUME NEW i \in Scoped, OrgOf[i] = Present'
        PROVE  /\ Exists(i)' \/ PassedOver(i)' \/ \E n \in 5 .. 10 : i \in Ahead(n)'
               /\ UuidOf(i)' # None \/ Missable(i)'
    <3>1. \/ Exists(i)' \/ PassedOver(i) \/ \E n \in 5 .. 10 : i \in Ahead(n)'
      BY <1>4, <2>1, <2>2, <2>4
    <3>2. UuidOf(i)' # None \/ Missable(i)'
      BY <1>1, <1>4, <2>2, <2>3, <2>4 DEF Missed, Missable, There, Exists
    <3> QED
      BY <3>1, <3>2 DEF PassedOver
  <2>5. \A a \in Assets : OrgOf[a] = Present' =>
          sync'.known[TypeOf[a]] # None \/ TypeOf[a] \in Ahead(4)'
    BY <1>1, <1>4, <2>1, <2>2
  <2>6. ASSUME NEW l \in Links, Linked(Present, l)'
        PROVE  \/ Exists(l)' \/ l \in Ahead(12)'
               \/ sync'.step >= 12 /\ None \in {UuidOf(OwnerOf[l])', UuidOf(TargetOf[l])'}
    <3>1. Linked(Present, l)
      BY <2>2, <2>6 DEF Linked
    <3>2. \/ Exists(l)' \/ l \in left[12]
          \/ s.step >= 12 /\ None \in {Uuid(s, OwnerOf[l]), Uuid(s, TargetOf[l])}
      BY <1>4, <3>1
    <3>3. left[12] = Ahead(12)' /\ (s.step >= 12 => sync'.step >= 12)
      BY <2>1
    <3> QED
      BY <2>3, <3>2, <3>3
  <2>7. Exists(Present)'
    BY <1>5, <2>2 DEF Exists
  <2> QED
    BY <1>1, <1>6, <1>8, <2>4, <2>5, <2>6, <2>7 DEF Complete, Working
<1> QED
  BY <1>7, <1>8

LEMMA GoesOn ==
  ASSUME SyncInv, ServerInv, ServerInv', NEW s, NEW left, Aside(s), Sane(s, left), Goes(s, left)
  PROVE  SyncInv'
BY GoesTyped, GoesKnown, GoesComplete DEF SyncInv

\* The item at hand, and what is left when it is done.
LEMMA AtItem ==
  ASSUME SyncTyped, Working
  PROVE  /\ Present \in Orgs /\ sync.step \in 1 .. 16
         /\ Item \in sync.todo /\ Item \in Shape(Present)[sync.step] /\ Item \in Items
         /\ \A n \in 1 .. 12 : Rest(n) \subseteq Ahead(n) /\ Rest(n) \subseteq Shape(Present)[n]
         /\ \A n \in 1 .. 12 : \A i \in Ahead(n) :
              i \in Rest(n) \/ (i = Item /\ n = sync.step /\ sync.at = "row")
         /\ \A n \in 1 .. 10 : Item \notin Rest(n)
         /\ sync.step <= 10 => \A n \in 1 .. 12 : Item \notin Rest(n)
<1>1. /\ sync.orgs # <<>> /\ sync.plan \in [1 .. 16 -> SUBSET Items]
      /\ \A n \in 1 .. 16 : sync.plan[n] \subseteq Shape(Present)[n]
      /\ sync.step \in 1 .. 16 /\ sync.todo # {} /\ sync.todo \subseteq sync.plan[sync.step]
  BY DEF SyncTyped
<1>2. Present \in Orgs
  BY <1>1, Rotates
<1>3. Item \in sync.todo
  <2>1. /\ StepSheet(sync.step) \in DOMAIN Sheets
        /\ Shape(Present)[sync.step] \subseteq Sheets[StepSheet(sync.step)]
    BY <1>1, <1>2, ShapeSheet
  <2> QED
    BY <1>1, <2>1, ItemIn
<1>4. Item \in Shape(Present)[sync.step] /\ Item \in Items
  BY <1>1, <1>3
<1>5. \A n \in 1 .. 12 : Rest(n) \subseteq Ahead(n)
  BY <1>1 DEF Rest, Ahead
<1>6. \A n \in 1 .. 12 : Rest(n) \subseteq sync.plan[n]
  BY <1>1 DEF Rest
<1>7. \A n \in 1 .. 12 : Rest(n) \subseteq Shape(Present)[n]
  BY <1>1, <1>6
<1>8. \A n \in 1 .. 12 : \A i \in Ahead(n) :
        i \in Rest(n) \/ (i = Item /\ n = sync.step /\ sync.at = "row")
  BY DEF Rest, Ahead
<1>9. ASSUME NEW n \in 1 .. 12, n = sync.step PROVE Item \notin Rest(n)
  BY <1>9 DEF Rest
<1>10. ASSUME NEW n \in 1 .. 12, n # sync.step, sync.step <= 10 PROVE Item \notin Rest(n)
  <2>1. Shape(Present)[sync.step] \cap Shape(Present)[n] = {}
    BY <1>1, <1>2, <1>10, ShapesApart
  <2> QED
    BY <1>4, <1>7, <2>1
<1>11. ASSUME NEW n \in 1 .. 10, sync.step > 10 PROVE Item \notin Rest(n)
  BY <1>1, <1>11 DEF Rest
<1>12. sync.step <= 10 => \A n \in 1 .. 12 : Item \notin Rest(n)
  BY <1>9, <1>10
<1>13. \A n \in 1 .. 10 : Item \notin Rest(n)
  BY <1>1, <1>11, <1>12
<1> QED
  BY <1>1, <1>2, <1>3, <1>4, <1>5, <1>7, <1>8, <1>12, <1>13

\* What every step of the executor does, for the item at hand; s is what it
\* remembers before it goes on.
Works(s) ==
  /\ s \in SyncT /\ s.asked = sync.asked /\ s.found = sync.found /\ s.orgs = sync.orgs
  /\ s.before = sync.before /\ s.code = sync.code /\ s.step = sync.step
  /\ Lasting /\ hidden' = hidden /\ jobs' = jobs /\ faults' >= faults
  /\ \A i \in Items \ Links :
       There(i) => Exists(i) \/ (i = Item /\ sync.at = "row" /\ sync.step <= 10)
  /\ \A i \in Items : /\ s.known[i] \in {None} \cup DOMAIN server'[i]
                      /\ s.made[i] \in {None} \cup DOMAIN server'[i]
                      /\ sync.known[i] # None => s.known[i] # None
                      /\ sync.made[i] # None => s.made[i] # None
  /\ \A t \in Types : Exists(t) /\ sync.known[t] = None => s.known[t] = None
  /\ sync.step >= 12 => s.known = sync.known /\ s.made = sync.made
  /\ sync.failed => s.failed
  /\ s.failed => s.before < faults' \/ Crowding'
  /\ ~s.failed /\ sync.at = "row" =>
       /\ sync.step \in 5 .. 10 => /\ There(Item) \/ PassedOver(Item)
                                   /\ Uuid(s, Item) # None \/ Missed(s, Item)
       /\ sync.step = 4 => s.known[Item] # None
       /\ sync.step = 12 => \/ There(Item)
                            \/ None \in {Uuid(s, OwnerOf[Item]), Uuid(s, TargetOf[Item])}

LEMMA ItemSheet ==
  ASSUME SyncTyped, Working
  PROVE  /\ sync.step \in 5 .. 10 => Item \in Scoped /\ OrgOf[Item] = Present /\ Item \notin Types
         /\ sync.step \in 1 .. 4 => Item \in Orgs \cup Types /\ Item \notin Scoped
         /\ sync.step \in 11 .. 12 => Item \in Links
<1>1. Item \in Shape(Present)[sync.step] /\ Present \in Orgs /\ sync.step \in 1 .. 16
  BY AtItem
<1>2. ASSUME sync.step \in 5 .. 10 PROVE Item \in Scoped /\ OrgOf[Item] = Present
  <2>1. /\ RowPasswords(Present) \subseteq RowsOf(Present, Passwords)
        /\ Plain(RowsOf(Present, Passwords)) \subseteq RowsOf(Present, Passwords)
    BY DEF RowPasswords, Plain
  <2>2. \/ sync.step = 5 \/ sync.step = 6 \/ sync.step = 7 \/ sync.step = 8
        \/ sync.step = 9 \/ sync.step = 10
    BY <1>2
  <2>3. \/ Item \in RowsOf(Present, Locations) \/ Item \in RowsOf(Present, Configs)
        \/ Item \in RowsOf(Present, Assets) \/ Item \in RowsOf(Present, Docs)
        \/ Item \in RowsOf(Present, Passwords)
    BY <1>1, <2>1, <2>2, Shapes
  <2> QED
    BY <2>3 DEF RowsOf, Scoped
<1>3. ASSUME sync.step \in 1 .. 4 PROVE Item \in Orgs \cup Types
  <2>1. sync.step = 1 \/ sync.step = 2 \/ sync.step = 3 \/ sync.step = 4
    BY <1>3
  <2> QED
    BY <1>1, <2>1, Shapes DEF Types
<1>4. ASSUME sync.step \in 11 .. 12 PROVE Item \in Links
  <2>1. sync.step = 11 \/ sync.step = 12
    BY <1>4
  <2> QED
    BY <1>1, <2>1, Shapes DEF Cells, LinksOf
<1> QED
  BY <1>2, <1>3, <1>4, Apart

LEMMA WorksAside ==
  ASSUME SyncInv, Working, NEW s, Works(s)
  PROVE  Aside(s)
<1>1. sync.orgs # <<>> /\ sync.at \in {"fetch", "row", "upload", "link"}
  BY DEF SyncInv, SyncTyped, Working
<1>2. ~sync.failed => Exists(Present)
  BY DEF SyncInv, Complete, Working
<1>3. \A i \in Scoped : OrgOf[i] # Present /\ Exists(i)' => Exists(i)
  <2>1. \A i \in Scoped : i \in Items \ Links
    BY Apart DEF Items
  <2>2. Item \in Scoped /\ sync.step <= 10 => OrgOf[Item] = Present
    BY ItemSheet, AtItem DEF SyncInv
  <2>3. \A i \in Scoped : There(i) => Exists(i) \/ OrgOf[i] = Present
    BY <2>1, <2>2 DEF Works
  <2> QED
    BY <2>3 DEF There, Exists
<1> QED
  BY <1>1, <1>2, <1>3 DEF Works, Aside

\* What the fetch can have missed it still can.
LEMMA MissedStays ==
  ASSUME ServerInv, NEW s, NEW i \in Items \ Links, Missable(i), Lasting,
         There(i) => Exists(i),
         \A t \in Types : Exists(t) /\ sync.known[t] = None => s.known[t] = None
  PROVE  Missed(s, i)
<1>1. CASE ~Exists(i)
  BY <1>1 DEF Missed
<1>2. CASE Crowded(i)
  BY <1>2, CrowdedStays DEF Missed, ServerInv
<1>3. CASE i \in Assets /\ sync.known[TypeOf[i]] = None /\ Exists(TypeOf[i])
  <2>1. TypeOf[i] \in Types /\ TypeOf[i] \in Items
    BY <1>3, Named DEF Types, Items
  <2>2. There(TypeOf[i])
    BY <1>3, <2>1, Lasts DEF ServerInv, Exists, There
  <2> QED
    BY <1>3, <2>1, <2>2 DEF Missed
<1> QED
  BY <1>1, <1>2, <1>3 DEF Missable

LEMMA WorksSane ==
  ASSUME SyncInv, ServerInv, Working, NEW s, Works(s)
  PROVE  Sane(s, [n \in 1 .. 12 |-> Rest(n)])
<1> DEFINE left == [n \in 1 .. 12 |-> Rest(n)]
<1>1. \A n \in 1 .. 12 : left[n] = Rest(n)
  OBVIOUS
<1>2. /\ \A i \in Items : Exists(i) => There(i)
      /\ \A i \in Items : DOMAIN server[i] \subseteq DOMAIN server'[i]
  BY Lasts DEF Works, ServerInv, There, Exists
<1>3. \A i \in Scoped \cup Types : i \in Items \ Links
  BY Apart DEF Items
<1>4. \A i : Exists(i)' <=> There(i)
  BY DEF Exists, There
<1> HIDE DEF left
<1>5. \A n \in 2 .. 10 : \A i \in left[n] : Missed(s, i)
  <2> SUFFICES ASSUME NEW n \in 2 .. 10, NEW i \in left[n] PROVE Missed(s, i)
    OBVIOUS
  <2>1. i \in Ahead(n) /\ i \in Shape(Present)[n] /\ i # Item
    BY <1>1, AtItem DEF SyncInv
  <2>2. Missable(i)
    BY <2>1 DEF SyncInv, Known
  <2>3. i \in Items \ Links
    <3>1. n \in 1 .. 16 /\ Present \in Orgs /\ StepSheet(n) # "relationships"
      BY AtItem DEF SyncInv, StepSheet
    <3>2. StepSheet(n) \in DOMAIN Sheets /\ i \in Sheets[StepSheet(n)]
      BY <2>1, <3>1, ShapeSheet
    <3>3. Sheets[StepSheet(n)] \cap Links = {}
      BY <3>1, <3>2, SheetNames, ExportAssumption
    <3> QED
      BY <3>2, <3>3, SheetItems
  <2> QED
    BY <2>1, <2>2, <2>3, MissedStays DEF Works
<1>6. ASSUME ~s.failed
      PROVE  /\ ~sync.failed
             /\ \A i \in Scoped : OrgOf[i] = Present =>
                  /\ There(i) \/ PassedOver(i) \/ \E n \in 5 .. 10 : i \in left[n]
                  /\ Uuid(s, i) # None \/ Missed(s, i)
             /\ \A a \in Assets : OrgOf[a] = Present =>
                  s.known[TypeOf[a]] # None \/ TypeOf[a] \in left[4]
             /\ \A l \in Links : Linked(Present, l) =>
                  \/ There(l) \/ l \in left[12]
                  \/ s.step >= 12 /\ None \in {Uuid(s, OwnerOf[l]), Uuid(s, TargetOf[l])}
  <2>1. ~sync.failed
    BY <1>6 DEF Works
  <2>2. /\ \A i \in Scoped : OrgOf[i] = Present =>
             /\ Exists(i) \/ PassedOver(i) \/ \E n \in 5 .. 10 : i \in Ahead(n)
             /\ UuidOf(i) # None \/ Missable(i)
        /\ \A a \in Assets : OrgOf[a] = Present =>
             sync.known[TypeOf[a]] # None \/ TypeOf[a] \in Ahead(4)
        /\ \A l \in Links : Linked(Present, l) =>
             \/ Exists(l) \/ l \in Ahead(12)
             \/ sync.step >= 12 /\ None \in {UuidOf(OwnerOf[l]), UuidOf(TargetOf[l])}
    BY <2>1 DEF SyncInv, Complete, Working
  <2>3. ASSUME NEW i \in Scoped, OrgOf[i] = Present
        PROVE  /\ There(i) \/ PassedOver(i) \/ \E n \in 5 .. 10 : i \in left[n]
               /\ Uuid(s, i) # None \/ Missed(s, i)
    <3>1. ASSUME NEW n \in 5 .. 10, i \in Ahead(n)
          PROVE  i \in left[n] \/ There(i) \/ PassedOver(i)
      BY <1>1, <1>6, <3>1, AtItem DEF SyncInv, Works
    <3>2. There(i) \/ PassedOver(i) \/ \E n \in 5 .. 10 : i \in left[n]
      BY <1>2, <1>3, <2>2, <2>3, <3>1
    <3>3. CASE UuidOf(i) # None
      BY <1>3, <3>2, <3>3 DEF UuidOf, Uuid, Works
    <3>4. CASE UuidOf(i) = None /\ (There(i) => Exists(i))
      BY <1>3, <2>2, <2>3, <3>2, <3>4, MissedStays DEF Works
    <3>5. CASE ~Exists(i) /\ There(i)
      <4>1. i = Item /\ sync.at = "row" /\ sync.step <= 10
        BY <1>3, <3>5 DEF Works
      <4>2. sync.step \in 5 .. 10
        BY <4>1, ItemSheet, AtItem DEF SyncInv
      <4> QED
        BY <1>6, <3>2, <4>1, <4>2 DEF Works
    <3> QED
      BY <3>3, <3>4, <3>5
  <2>4. ASSUME NEW a \in Assets, OrgOf[a] = Present
        PROVE  s.known[TypeOf[a]] # None \/ TypeOf[a] \in left[4]
    <3>1. TypeOf[a] \in Items
      BY Named DEF Items, Types
    <3>2. TypeOf[a] \in Ahead(4) => TypeOf[a] \in left[4] \/ s.known[TypeOf[a]] # None
      BY <1>1, <1>6, AtItem DEF SyncInv, Works
    <3> QED
      BY <2>2, <2>4, <3>1, <3>2 DEF Works
  <2>5. ASSUME NEW l \in Links, Linked(Present, l)
        PROVE  \/ There(l) \/ l \in left[12]
               \/ s.step >= 12 /\ None \in {Uuid(s, OwnerOf[l]), Uuid(s, TargetOf[l])}
    <3>1. l \in Items
      BY DEF Items
    <3>2. CASE Exists(l)
      BY <1>2, <3>1, <3>2
    <3>3. CASE l \in Ahead(12)
      <4>1. l \in left[12] \/ (l = Item /\ sync.step = 12 /\ sync.at = "row")
        BY <1>1, <3>3, AtItem DEF SyncInv
      <4> QED
        BY <1>6, <4>1 DEF Works
    <3>4. CASE sync.step >= 12 /\ None \in {UuidOf(OwnerOf[l]), UuidOf(TargetOf[l])}
      BY <3>4 DEF Works, UuidOf, Uuid
    <3> QED
      BY <2>2, <2>5, <3>2, <3>3, <3>4
  <2> QED
    BY <2>1, <2>3, <2>4, <2>5
<1> QED
  BY <1>4, <1>5, <1>6 DEF Sane, Works, left

\* So such a step keeps the invariant of the sync.
LEMMA WorksOn ==
  ASSUME SyncInv, ServerInv, ServerInv', Working, NEW s, Works(s),
         Goes(s, [n \in 1 .. 12 |-> Rest(n)])
  PROVE  SyncInv'
<1> DEFINE left == [n \in 1 .. 12 |-> Rest(n)]
<1>1. Aside(s) /\ Sane(s, left) /\ Goes(s, left)
  BY WorksAside, WorksSane
<1> HIDE DEF left
<1> QED
  BY <1>1, GoesOn
-----------------------------------------------------------------------------
(***************************************************************************)
(* What a call of the sync does to the server.                             *)
(***************************************************************************)
Served ==
  /\ ServerInv' /\ Lasting
  /\ \A i \in Items : Copies(i, "run")' = Copies(i, "run")
  /\ \A i \in Items \ Links :
       Len(server'[i]) > Len(server[i]) => ~Exists(i) \/ Crowded(i)
  /\ ~sync.update =>
       \A i \in Scoped : \A n \in DOMAIN server[i] :
         server[i][n].text = "edited" /\ server'[i][n].text # "edited" =>
           n = sync.made[i] /\ \E l \in Links : TargetOf[l] = i /\ KindOf[l] = "cell"

LEMMA SettledServed ==
  ASSUME ServerInv, Settled,
         sync.update \/ \A i \in Scoped : \A n \in DOMAIN server[i] :
           server[i][n].text = "edited" /\ server'[i][n].text # "edited" =>
             n = sync.made[i] /\ \E l \in Links : TargetOf[l] = i /\ KindOf[l] = "cell"
  PROVE  Served /\ \A i \in Items : There(i) => Exists(i)
<1>1. ServerInv' /\ \A i \in Items : Exists(i)' <=> Exists(i)
  BY SettledKeeps
<1>2. \A i \in Items : Copies(i, "run")' = Copies(i, "run")
  BY SameCopies DEF ServerInv
<1>3. \A i \in Items : /\ Len(server'[i]) = Len(server[i]) /\ Len(server[i]) \in Nat
                       /\ There(i) => Exists(i)
  BY <1>1, ItemSeqs DEF Settled, ServerInv, Exists, There
<1> QED
  BY <1>1, <1>2, <1>3 DEF Served, Settled

LEMMA StillServed ==
  ASSUME ServerInv, UNCHANGED <<server, jobs>>, faults' \in Nat
  PROVE  Served /\ \A i \in Items : There(i) => Exists(i)
<1>1. Settled
  BY NothingCreated DEF ServerInv, ServerTyped
<1> QED
  BY <1>1, SettledServed

LEMMA PostServed ==
  ASSUME ServerInv, NEW i \in Items, NEW row \in RowT(i), row.by = "sync", Resolves(i, row),
         NEW answer, Post(i, row, answer), UNCHANGED jobs,
         i \in Scoped => ~Exists(i) \/ Crowded(i)
  PROVE  /\ Served /\ faults' \in Nat /\ faults' >= faults
         /\ answer \in {"created", "conflict", "refused", "lost"}
         /\ answer = "conflict" <=> Taken(i, row)
         /\ answer \in {"refused", "lost"} <=> faults' > faults
         /\ \A j \in Items : There(j) => Exists(j) \/ (j = i /\ answer \in {"created", "lost"})
         /\ answer \in {"created", "lost"} => /\ There(i) /\ Len(server'[i]) = Len(server[i]) + 1
                                              /\ server'[i][Len(server[i]) + 1] = row
<1>1. /\ faults' \in Nat /\ faults' >= faults
      /\ answer \in {"created", "conflict", "refused", "lost"}
      /\ answer = "conflict" <=> Taken(i, row)
      /\ answer \in {"refused", "lost"} <=> faults' > faults
      /\ answer \in {"created", "lost"} => Gains(i, row)
      /\ answer \in {"conflict", "refused"} => UNCHANGED server
  BY PostDone DEF ServerInv
<1>2. CASE answer \in {"conflict", "refused"}
  BY <1>1, <1>2, StillServed
<1>3. CASE answer \in {"created", "lost"}
  <2>1. Gains(i, row) /\ ~Taken(i, row)
    BY <1>1, <1>3
  <2>2. i \in Orgs \cup Types => ~Exists(i)
    BY <2>1 DEF Taken
  <2>3. /\ ServerInv' /\ Exists(i)' /\ \A j \in Items \ {i} : Exists(j)' <=> Exists(j)
    BY <2>1, <2>2, GainsKeeps
  <2>4. /\ Lasting /\ server'[i] = Append(server[i], row)
        /\ Len(server'[i]) = Len(server[i]) + 1 /\ server'[i][Len(server[i]) + 1] = row
        /\ \A n \in 1 .. Len(server[i]) : server'[i][n] = server[i][n]
        /\ \A j \in Items \ {i} : server'[j] = server[j]
    BY <2>1 DEF Gains
  <2>5. \A j \in Items : Len(server[j]) \in Nat /\ DOMAIN server[j] = 1 .. Len(server[j])
    BY ItemSeqs DEF ServerInv
  <2>6. ASSUME NEW j \in Items PROVE Copies(j, "run")' = Copies(j, "run")
    <3>1. CASE j # i
      BY <2>4, <3>1 DEF Copies
    <3>2. CASE j = i
      BY <2>4, <2>5, <3>2 DEF Copies
    <3> QED
      BY <3>1, <3>2
  <2>7. \A j \in Items \ Links : Len(server'[j]) > Len(server[j]) => ~Exists(j) \/ Crowded(j)
    <3>1. i \notin Links => ~Exists(i) \/ Crowded(i)
      BY <2>2 DEF Items
    <3> QED
      BY <2>4, <2>5, <3>1
  <2>8. \A j \in Scoped : \A n \in DOMAIN server[j] : server'[j][n] = server[j][n]
    BY <2>4, <2>5 DEF Items
  <2>9. \A j \in Items : There(j) => Exists(j) \/ j = i
    BY <2>3 DEF There, Exists
  <2>10. There(i)
    BY <2>3 DEF There, Exists
  <2> QED
    BY <1>1, <1>3, <2>3, <2>4, <2>6, <2>7, <2>8, <2>9, <2>10 DEF Served
<1> QED
  BY <1>1, <1>2, <1>3

\* The text of one copy, which the sync may change.
LEMMA TextServed ==
  ASSUME ServerInv, NEW i \in Scoped, NEW u, NEW text \in Texts, UNCHANGED jobs, faults' \in Nat,
         server' = [server EXCEPT ![i][u].text = text],
         \/ sync.update
         \/ u = sync.made[i] /\ \E l \in Links : TargetOf[l] = i /\ KindOf[l] = "cell"
  PROVE  Served /\ \A j \in Items : There(j) => Exists(j)
<1>1. i \in Items \ Links
  BY Apart DEF Items
<1>2. Settled
  BY <1>1, TextChanged DEF ServerInv, ServerTyped
<1>3. ASSUME NEW j \in Scoped, NEW n \in DOMAIN server[j], j # i \/ n # u
      PROVE  server'[j][n] = server[j][n]
  <2>1. j \in Items /\ server[i] \in Seq(CopyT)
    BY <1>1, ItemSeqs DEF ServerInv, Items, RowT
  <2>2. CASE j # i
    BY <2>1, <2>2 DEF ServerInv, ServerTyped
  <2>3. CASE j = i /\ n # u
    <3>1. server'[j] = [server[i] EXCEPT ![u].text = text]
      BY <1>1, <2>3 DEF ServerInv, ServerTyped
    <3> QED
      BY <2>1, <2>3, <3>1
  <2> QED
    BY <1>3, <2>2, <2>3
<1>4. sync.update \/ \A j \in Scoped : \A n \in DOMAIN server[j] :
        server[j][n].text = "edited" /\ server'[j][n].text # "edited" =>
          n = sync.made[j] /\ \E l \in Links : TargetOf[l] = j /\ KindOf[l] = "cell"
  BY <1>3
<1> QED
  BY <1>2, <1>4, SettledServed

\* The file of one copy.
LEMMA FileServed ==
  ASSUME ServerInv, NEW i \in Items \ Links, NEW u \in DOMAIN server[i], NEW file,
         Attach(i, u, file), UNCHANGED jobs, server[i][u].file # "stored"
  PROVE  /\ Served /\ faults' \in Nat /\ faults' >= faults
         /\ \A j \in Items : There(j) => Exists(j)
<1>1. /\ file \in Files /\ faults' \in Nat /\ faults' >= faults
      /\ server' = [server EXCEPT ![i][u].file = file]
  BY DEF Attach, ServerInv, ServerTyped
<1>2. Settled
  BY <1>1, FileChanged DEF ServerInv, ServerTyped
<1>3. \A j \in Scoped : \A n \in DOMAIN server[j] : server'[j][n].text = server[j][n].text
  <2> SUFFICES ASSUME NEW j \in Scoped, NEW n \in DOMAIN server[j]
               PROVE  server'[j][n].text = server[j][n].text
    OBVIOUS
  <2>1. j \in Items /\ server[j] \in Seq(CopyT)
    BY Apart DEF ServerInv, ServerTyped, Items
  <2>2. server[j][n] \in CopyT
    BY <2>1
  <2>3. CASE j # i \/ n # u
    BY <1>1, <2>1, <2>3 DEF ServerInv, ServerTyped
  <2>4. CASE j = i /\ n = u
    <3>1. server'[j][n] = [server[j][n] EXCEPT !.file = file]
      BY <1>1, <2>1, <2>4 DEF ServerInv, ServerTyped
    <3> QED
      BY <2>2, <3>1 DEF CopyT
  <2> QED
    BY <2>3, <2>4
<1> QED
  BY <1>1, <1>2, <1>3, SettledServed

\* What it does to the organization at hand.
Calls ==
  /\ Served /\ hidden' = hidden /\ jobs' = jobs /\ faults' >= faults
  /\ \A i \in Items \ Links :
       There(i) => Exists(i) \/ (i = Item /\ sync.at = "row" /\ sync.step <= 10)
-----------------------------------------------------------------------------
(***************************************************************************)
(* The memory of a sync after a call.                                      *)
(***************************************************************************)
LEMMA WorkDone ==
  ASSUME SyncInv, ServerInv, Working, Calls, NEW s, Fitting(s), Works(s), sync' = Done(s)
  PROVE  SyncInv' /\ sync'.code = "none"
<1>1. Goes(s, [n \in 1 .. 12 |-> Rest(n)])
  BY DoneGoes DEF SyncInv
<1>2. SyncInv'
  BY <1>1, WorksOn DEF Calls, Served
<1>3. sync'.at # "idle"
  BY <1>1 DEF Goes, Working
<1> QED
  BY <1>2, <1>3 DEF SyncInv, SyncTyped

LEMMA AtWork ==
  ASSUME SyncInv, ServerInv, Working
  PROVE  /\ sync \in SyncT /\ sync.at # "create" /\ sync.before <= faults
         /\ sync.failed => sync.before < faults \/ Crowding
         /\ faults \in Nat /\ sync.before \in Nat
         /\ \A i \in Items : sync.known[i] \in {None} \cup DOMAIN server[i]
         /\ \A i \in Items : sync.made[i] \in {None} \cup DOMAIN server[i]
BY DEF SyncInv, SyncTyped, Known, Working, ServerInv, ServerTyped, SyncT

LEMMA FailedBefore ==
  ASSUME SyncInv, ServerInv, Working, Calls, sync.failed
  PROVE  sync.before < faults' \/ Crowding'
<1>1. /\ sync.before < faults \/ Crowding
      /\ faults \in Nat /\ sync.before \in Nat
  BY AtWork
<1>2. faults' \in Nat /\ faults' >= faults
  BY DEF Calls, Served, ServerInv, ServerTyped
<1>3. Crowding => Crowding'
  BY CrowdingStays DEF Calls, Served, ServerInv
<1> QED
  BY <1>1, <1>2, <1>3

\* What is about to be created was not found.
LEMMA NotFound ==
  ASSUME SyncInv, Working, sync.at = "row", sync.step \in 2 .. 10
  PROVE  Missable(Item)
<1>1. Item \in Ahead(sync.step)
  BY AtItem DEF Ahead, SyncInv
<1> QED
  BY <1>1 DEF SyncInv, Known

LEMMA WorkPasses ==
  ASSUME SyncInv, ServerInv, Working, Calls, sync' = Done(sync),
         sync.at = "row" =>
           /\ sync.step \in 5 .. 10 => /\ PassedOver(Item) \/ sync.failed
                                       /\ There(Item) => Exists(Item)
           /\ sync.step # 4 \/ sync.failed
           /\ sync.step = 12 => \/ There(Item)
                                \/ None \in {UuidOf(OwnerOf[Item]), UuidOf(TargetOf[Item])}
  PROVE  SyncInv' /\ sync'.code = "none"
<1>1. Fitting(sync)
  BY AtWork DEF Fitting
<1>2. \A i \in Items : DOMAIN server[i] \subseteq DOMAIN server'[i]
  BY Lasts DEF Calls, Served, ServerInv
<1>3. sync.failed => sync.before < faults' \/ Crowding'
  BY FailedBefore
<1>4. \A i : UuidOf(i) = Uuid(sync, i)
  BY DEF UuidOf, Uuid
<1>5. ASSUME sync.at = "row", sync.step \in 5 .. 10 PROVE Missed(sync, Item)
  <2>1. Item \in Items \ Links
    BY <1>5, ItemSheet, AtItem, Apart DEF SyncInv
  <2>2. Missable(Item)
    <3>1. sync.step \in 2 .. 10
      BY <1>5
    <3> QED
      BY <1>5, <3>1, NotFound
  <2> QED
    BY <1>5, <2>1, <2>2, MissedStays DEF Calls, Served
<1>6. Works(sync)
  BY <1>2, <1>3, <1>4, <1>5, AtWork DEF Works, Calls, Served
<1> QED
  BY <1>1, <1>6, WorkDone

LEMMA WorkFails ==
  ASSUME SyncInv, ServerInv, Working, Calls, faults' > faults \/ Crowding',
         sync' = Done(Failed(sync))
  PROVE  SyncInv' /\ sync'.code = "none"
<1> DEFINE s == Failed(sync)
<1>1. sync \in SyncT /\ s = [sync EXCEPT !.failed = TRUE]
  BY AtWork DEF Failed
<1>2. /\ s \in SyncT /\ s.at = sync.at /\ s.orgs = sync.orgs /\ s.plan = sync.plan
      /\ s.step = sync.step /\ s.todo = sync.todo /\ s.update = sync.update
      /\ s.asked = sync.asked /\ s.found = sync.found /\ s.before = sync.before
      /\ s.code = sync.code /\ s.known = sync.known /\ s.made = sync.made /\ s.failed = TRUE
  BY <1>1 DEF SyncT
<1> HIDE DEF s
<1>3. Fitting(s)
  BY <1>2, AtWork DEF Fitting
<1>4. \A i \in Items : DOMAIN server[i] \subseteq DOMAIN server'[i]
  BY Lasts DEF Calls, Served, ServerInv
<1>5. sync.before < faults' \/ Crowding'
  BY AtWork DEF Calls, Served, ServerInv, ServerTyped
<1>6. Works(s)
  BY <1>2, <1>4, <1>5, AtWork DEF Works, Calls, Served
<1> QED
  BY <1>3, <1>6, WorkDone DEF s

\* A row was created.
LEMMA MakesWorks ==
  ASSUME SyncInv, ServerInv, Working, Calls, sync.at = "row", sync.step \in 5 .. 10,
         NEW u \in DOMAIN server'[Item], NEW s, s = [sync EXCEPT !.made[Item] = u]
  PROVE  /\ Fitting(s) /\ Works(s) /\ s.made[Item] = u /\ u # None
         /\ s.made = [sync.made EXCEPT ![Item] = u]
<1>1. sync \in SyncT /\ Item \in Items
  BY AtWork, AtItem DEF SyncInv
<1>2. u \in Nat /\ u # None /\ There(Item)
  <2>1. server'[Item] \in Seq(RowT(Item))
    BY <1>1 DEF Calls, Served, Lasting, ServerTyped, RowT
  <2> QED
    BY <2>1 DEF There, None
<1>3. /\ s \in SyncT /\ s.at = sync.at /\ s.orgs = sync.orgs /\ s.plan = sync.plan
      /\ s.step = sync.step /\ s.todo = sync.todo /\ s.update = sync.update
      /\ s.asked = sync.asked /\ s.found = sync.found /\ s.before = sync.before
      /\ s.code = sync.code /\ s.known = sync.known /\ s.failed = sync.failed
      /\ s.made = [sync.made EXCEPT ![Item] = u]
  BY <1>1, <1>2 DEF SyncT
<1>4. s.made[Item] = u /\ \A i \in Items : i # Item => s.made[i] = sync.made[i]
  BY <1>1, <1>3 DEF SyncT
<1>5. Fitting(s)
  BY <1>3, AtWork DEF Fitting
<1>6. /\ \A i \in Items : DOMAIN server[i] \subseteq DOMAIN server'[i]
      /\ \A i \in Items : DOMAIN server'[i] = 1 .. Len(server'[i])
  BY Lasts DEF Calls, Served, ServerInv
<1>8. sync.failed => sync.before < faults' \/ Crowding'
  BY FailedBefore
<1>9. Uuid(s, Item) # None
  BY <1>2, <1>4 DEF Uuid
<1>10. \A i \in Items : /\ s.made[i] \in {None} \cup DOMAIN server'[i]
                        /\ sync.made[i] # None => s.made[i] # None
  BY <1>2, <1>4, <1>6, AtWork
<1>11. Works(s)
  BY <1>2, <1>3, <1>6, <1>8, <1>9, <1>10, AtWork DEF Works, Calls, Served
<1> QED
  BY <1>2, <1>3, <1>4, <1>5, <1>11

\* Before it goes on, the row's attachments are uploaded or it is linked.
LEMMA WorkPauses ==
  ASSUME SyncInv, ServerInv, Working, Calls, sync.at = "row", sync.step \in 5 .. 10,
         NEW u \in DOMAIN server'[Item],
         \/ sync' = [sync EXCEPT !.made[Item] = u, !.at = "upload"]
            /\ sync.step # 10 /\ server'[Item][u].file # "stored"
         \/ sync' = [sync EXCEPT !.made[Item] = u, !.at = "link"] /\ sync.step = 10
  PROVE  SyncInv' /\ sync'.code = "none"
<1> DEFINE s == [sync EXCEPT !.made[Item] = u]
<1>1. /\ Fitting(s) /\ Works(s) /\ s.made[Item] = u /\ u # None
      /\ s.made = [sync.made EXCEPT ![Item] = u]
  BY MakesWorks
<1>2. PICK at \in {"upload", "link"} : /\ sync' = [s EXCEPT !.at = at]
                                       /\ at = "upload" => /\ sync.step # 10
                                                           /\ server'[Item][u].file # "stored"
                                       /\ at = "link" => sync.step = 10
  <2>1. \A at : [sync EXCEPT !.made[Item] = u, !.at = at] = [s EXCEPT !.at = at]
    BY AtWork DEF SyncT
  <2> QED
    BY <2>1
<1> HIDE DEF s
<1>3. /\ s \in SyncT /\ s.orgs = sync.orgs /\ s.plan = sync.plan
      /\ s.step = sync.step /\ s.todo = sync.todo /\ s.update = sync.update /\ s.code = sync.code
  BY <1>1 DEF Fitting, Works
<1>4. /\ sync' \in SyncT /\ sync'.at = at /\ Remembers(sync', s) /\ sync'.orgs = s.orgs
      /\ sync'.made = s.made /\ sync'.plan = s.plan /\ sync'.step = s.step /\ sync'.todo = s.todo
  BY <1>2, <1>3 DEF SyncT, Remembers
<1>5. Item' = Item
  BY <1>3, <1>4 DEF Item, Before
<1>6. \A n \in 1 .. 12 : Ahead(n)' = Rest(n)
  BY <1>3, <1>4, <1>5 DEF Ahead, Rest
<1>7. /\ sync.plan \in [1 .. 16 -> SUBSET Items] /\ sync.todo # {} /\ sync.step \in 1 .. 16
      /\ \A n \in 1 .. 16 : sync.plan[n] \subseteq Shape(Head(sync.orgs))[n]
      /\ sync.todo \subseteq sync.plan[sync.step]
      /\ sync.step > 12 => sync.update
  BY DEF SyncInv, SyncTyped, Present
<1>8. sync'.at = "upload" => /\ sync'.step \in 5 .. 9 /\ sync'.made[Item'] # None
                             /\ server'[Item'][sync'.made[Item']].file # "stored"
  <2>1. sync'.step = sync.step /\ sync'.made[Item] = u
    BY <1>1, <1>3, <1>4
  <2>2. sync'.made[Item'] = u
    BY <1>5, <2>1
  <2>3. sync'.at = "upload" => sync.step \in 5 .. 9 /\ server'[Item][u].file # "stored"
    BY <1>2, <1>4
  <2>4. sync'.at = "upload" => server'[Item'][sync'.made[Item']].file # "stored"
    BY <1>5, <2>2, <2>3
  <2> QED
    BY <1>1, <2>1, <2>2, <2>3, <2>4
<1>9. Goes(s, [n \in 1 .. 12 |-> Rest(n)])
  <2>1. Working'
    BY <1>4 DEF Working
  <2>2. \A n \in 1 .. 12 : Ahead(n)' = [m \in 1 .. 12 |-> Rest(m)][n]
    BY <1>6
  <2>3. (sync.at = "upload" => /\ sync.step \in 5 .. 9 /\ sync.made[Item] # None
                               /\ server[Item][sync.made[Item]].file # "stored")'
    BY <1>8
  <2>4. /\ sync'.plan \in [1 .. 16 -> SUBSET Items]
        /\ \A n \in 1 .. 16 : sync'.plan[n] \subseteq Shape(Head(s.orgs))[n]
        /\ sync'.step \in 1 .. 16 /\ sync'.step >= s.step /\ sync'.todo # {}
        /\ sync'.todo \subseteq sync'.plan[sync'.step]
        /\ sync'.step > 12 => s.update
        /\ sync'.at = "link" => sync'.step = 10
    BY <1>2, <1>3, <1>4, <1>7
  <2> QED
    BY <1>4, <2>1, <2>2, <2>3, <2>4 DEF Goes
<1>10. SyncInv'
  BY <1>1, <1>9, WorksOn DEF Calls, Served
<1> QED
  BY <1>10, <1>4 DEF SyncInv, SyncTyped

LEMMA WorkMakes ==
  ASSUME SyncInv, ServerInv, Working, Calls, sync.at = "row", sync.step \in 5 .. 10,
         NEW u \in DOMAIN server'[Item], sync' = Done([sync EXCEPT !.made[Item] = u])
  PROVE  SyncInv' /\ sync'.code = "none"
<1> DEFINE s == [sync EXCEPT !.made[Item] = u]
<1>1. Fitting(s) /\ Works(s)
  BY MakesWorks
<1> HIDE DEF s
<1> QED
  BY <1>1, WorkDone DEF s

\* A type was created.
LEMMA WorkKnows ==
  ASSUME SyncInv, ServerInv, Working, Calls, sync.at = "row", sync.step \in 2 .. 4,
         There(Item), ~Exists(Item), NEW known, known = [sync.known EXCEPT ![Item] = 1]
                    \/ (known = sync.known /\ sync.step # 4),
         sync' = Done([sync EXCEPT !.known = known])
  PROVE  SyncInv' /\ sync'.code = "none"
<1> DEFINE s == [sync EXCEPT !.known = known]
<1>1. sync \in SyncT /\ Item \in Items
  BY AtWork, AtItem DEF SyncInv
<1>2. 1 \in Nat
  BY BoundsAssumption DEF SyncInv, SyncTyped, Working, ServerInv, ServerTyped
<1>3. known \in [Items -> Nat] /\ sync.known \in [Items -> Nat]
  BY <1>1, <1>2 DEF SyncT
<1>4. /\ s \in SyncT /\ s.at = sync.at /\ s.orgs = sync.orgs /\ s.plan = sync.plan
      /\ s.step = sync.step /\ s.todo = sync.todo /\ s.update = sync.update
      /\ s.asked = sync.asked /\ s.found = sync.found /\ s.before = sync.before
      /\ s.code = sync.code /\ s.known = known /\ s.failed = sync.failed
      /\ s.made = sync.made
  BY <1>1, <1>3 DEF SyncT
<1> HIDE DEF s
<1>5. /\ sync.step = 4 => known[Item] = 1
      /\ \A i \in Items : known[i] = sync.known[i] \/ (known[i] = 1 /\ i = Item)
  BY <1>1, <1>3
<1>6. Fitting(s)
  BY <1>4, AtWork DEF Fitting
<1>7. \A i \in Items : DOMAIN server[i] \subseteq DOMAIN server'[i]
  BY Lasts DEF Calls, Served, ServerInv
<1>8. 1 \in DOMAIN server'[Item]
  <2>1. server'[Item] \in Seq(RowT(Item))
    BY <1>1 DEF Calls, Served, Lasting, ServerTyped, RowT
  <2> QED
    BY <2>1 DEF There
<1>9. sync.failed => sync.before < faults' \/ Crowding'
  BY FailedBefore
<1>t. \A x \in Types : Exists(x) /\ sync.known[x] = None => known[x] = None
  <2>1. \A x \in Types : x \in Items
    BY DEF Items
  <2> QED
    BY <1>5, <2>1
<1>10. \A i \in Items : /\ known[i] \in {None} \cup DOMAIN server'[i]
                        /\ sync.known[i] # None => known[i] # None
  BY <1>5, <1>7, <1>8, AtWork DEF None
<1>11. \A i \in Items : sync.made[i] \in {None} \cup DOMAIN server'[i]
  BY <1>7, AtWork
<1>12. Works(s)
  BY <1>4, <1>5, <1>9, <1>t, <1>10, <1>11 DEF Works, Calls, Served, None
<1> QED
  BY <1>6, <1>12, WorkDone DEF s
-----------------------------------------------------------------------------
(***************************************************************************)
(* The calls of the executor.                                              *)
(***************************************************************************)
Advances == Served /\ SyncInv' /\ sync'.code = "none"

LEMMA Creatable ==
  ASSUME SyncInv, Working, sync.at = "row", sync.step \in 2 .. 10,
         Item \in Assets => sync.known[TypeOf[Item]] # None
  PROVE  ~Exists(Item) \/ Crowded(Item)
BY NotFound DEF Missable

LEMMA PostCalls ==
  ASSUME SyncInv, ServerInv, Working, sync.at = "row", sync.step \in 1 .. 10, Leave,
         sync.step >= 5 => ~Exists(Item) \/ Crowded(Item),
         NEW row \in CopyT, row.by = "sync", Resolves(Item, row),
         NEW answer, Post(Item, row, answer)
  PROVE  /\ Calls /\ answer \in {"created", "conflict", "refused", "lost"}
         /\ answer \in {"refused", "lost"} => faults' > faults
         /\ answer = "conflict" => sync.step < 5
         /\ answer = "conflict" /\ sync.step # 1 => Crowding'
         /\ answer = "created" => /\ There(Item)
                                  /\ Len(server[Item]) + 1 \in DOMAIN server'[Item]
                                  /\ server'[Item][Len(server[Item]) + 1] = row
                                  /\ sync.step < 5 => ~Exists(Item)
<1>1. /\ Item \in Items /\ Item \notin Links
      /\ Item \in Scoped <=> sync.step >= 5
      /\ sync.step < 5 => Item \in Orgs \cup Types
  BY ItemSheet, AtItem, Apart DEF SyncInv
<1>2. row \in RowT(Item)
  BY <1>1 DEF RowT
<1>3. Item \in Scoped => ~Exists(Item) \/ Crowded(Item)
  BY <1>1
<1>4. Taken(Item, row) <=> sync.step < 5 /\ Exists(Item)
  BY <1>1, Apart DEF Taken
<1>5. /\ Served /\ faults' \in Nat /\ faults' >= faults
      /\ answer \in {"created", "conflict", "refused", "lost"}
      /\ answer = "conflict" <=> Taken(Item, row)
      /\ answer \in {"refused", "lost"} <=> faults' > faults
      /\ \A j \in Items : There(j) => Exists(j) \/ (j = Item /\ answer \in {"created", "lost"})
      /\ answer \in {"created", "lost"} => /\ There(Item) /\ Len(server'[Item]) = Len(server[Item]) + 1
                                           /\ server'[Item][Len(server[Item]) + 1] = row
  BY <1>1, <1>2, <1>3, PostServed DEF Leave
<1>6. Calls
  BY <1>5 DEF Calls, Leave
<1>7. ASSUME answer = "conflict", sync.step # 1 PROVE Crowding'
  <2>1. sync.step \in 2 .. 4 /\ Exists(Item)
    BY <1>4, <1>5, <1>7
  <2>2. Item \in Types /\ Item \notin Assets
    <3>1. Item \in Shape(Present)[sync.step]
      BY AtItem DEF SyncInv
    <3>2. sync.step = 2 \/ sync.step = 3 \/ sync.step = 4
      BY <2>1
    <3>3. Item \in Types
      BY <3>1, <3>2, Shapes DEF Types
    <3> QED
      BY <3>3, Apart DEF Scoped
  <2>3. Crowded(Item)
    BY <2>1, <2>2, Creatable
  <2> QED
    BY <1>5, <2>2, <2>3, CrowdingStays DEF Crowding, Served, ServerInv
<1>8. answer = "created" => Len(server[Item]) + 1 \in DOMAIN server'[Item]
  <2>1. Len(server[Item]) \in Nat
    BY <1>1, ItemSeqs DEF ServerInv
  <2>2. DOMAIN server'[Item] = 1 .. Len(server'[Item])
    BY <1>1, <1>5, Lasts DEF Served, ServerInv
  <2> QED
    BY <1>5, <2>1, <2>2
<1> QED
  BY <1>4, <1>5, <1>6, <1>7, <1>8

LEMMA CallAdvances ==
  ASSUME Calls, SyncInv', sync'.code = "none"
  PROVE  Advances
BY DEF Calls, Advances

LEMMA SyncCopies ==
  ASSUME NEW type \in Nat, NEW status \in Nat
  PROVE  /\ Copy("sync", type, status) \in CopyT /\ Copy("sync", type, status).by = "sync"
         /\ Copy("sync", type, status).file = "none"
         /\ Copy("sync", type, status).type = type /\ Copy("sync", type, status).status = status
BY DEF Copy, CopyT, Tools, Files, Texts

LEMMA SyncCreatesRow ==
  ASSUME SyncInv, ServerInv, Working, sync.at = "row", sync.step \in 5 .. 9, Leave,
         ~Exists(Item) \/ Crowded(Item),
         NEW row \in CopyT, row.by = "sync", row.file = "none", Resolves(Item, row),
         CreateRow(row)
  PROVE  Advances
<1> DEFINE u == Len(server[Item]) + 1
           made == [sync EXCEPT !.made[Item] = u]
<1>1. PICK answer : /\ Post(Item, row, answer)
                    /\ sync' = IF answer # "created" THEN Done(Failed(sync))
                               ELSE IF Item \in WithFile THEN [made EXCEPT !.at = "upload"]
                               ELSE Done(made)
  BY DEF CreateRow
<1>2. /\ Calls /\ answer \in {"created", "refused", "lost"}
      /\ answer \in {"refused", "lost"} => faults' > faults
      /\ answer = "created" => u \in DOMAIN server'[Item] /\ server'[Item][u] = row
  <2>1. sync.step \in 1 .. 10 /\ ~(sync.step < 5)
    OBVIOUS
  <2> QED
    BY <1>1, <2>1, PostCalls
<1> HIDE DEF u
<1>3. CASE answer # "created"
  <2>1. faults' > faults /\ sync' = Done(Failed(sync))
    BY <1>1, <1>2, <1>3
  <2> QED
    BY <1>2, <2>1, WorkFails, CallAdvances
<1>4. CASE answer = "created"
  <2>1. /\ u \in DOMAIN server'[Item] /\ server'[Item][u].file # "stored"
        /\ sync.step # 10 /\ sync.step \in 5 .. 10
    BY <1>2, <1>4
  <2>2. CASE Item \in WithFile
    <3>1. sync' = [made EXCEPT !.at = "upload"]
      BY <1>1, <1>4, <2>2
    <3>2. [sync EXCEPT !.made[Item] = u, !.at = "upload"] = [made EXCEPT !.at = "upload"]
      BY AtWork DEF SyncT
    <3>3. sync' = [sync EXCEPT !.made[Item] = u, !.at = "upload"]
      BY <3>1, <3>2
    <3> QED
      BY <1>2, <2>1, <3>3, WorkPauses, CallAdvances, Zenon
  <2>3. CASE Item \notin WithFile
    <3>1. sync' = Done([sync EXCEPT !.made[Item] = u])
      BY <1>1, <1>4, <2>3
    <3> QED
      BY <1>2, <2>1, <3>1, WorkMakes, CallAdvances
  <2> QED
    BY <2>2, <2>3
<1> QED
  BY <1>3, <1>4

\* An item is passed over.
LEMMA SyncPasses ==
  ASSUME SyncInv, ServerInv, Working, Leave, PassOver,
         sync.at = "row" =>
           /\ sync.step \in 5 .. 10 => PassedOver(Item) \/ sync.failed
           /\ sync.step # 4
           /\ sync.step = 12 => None \in {UuidOf(OwnerOf[Item]), UuidOf(TargetOf[Item])}
  PROVE  Advances
<1>1. UNCHANGED <<server, faults, hidden, jobs>> /\ sync' = Done(sync)
  BY DEF PassOver, Still, Leave
<1>2. faults' \in Nat /\ faults' >= faults
  BY <1>1 DEF ServerInv, ServerTyped
<1>3. Served /\ \A i \in Items : There(i) => Exists(i)
  BY <1>1, <1>2, StillServed
<1>4. Calls
  BY <1>1, <1>2, <1>3 DEF Calls
<1>5. There(Item) => Exists(Item)
  BY <1>3, AtItem DEF SyncInv
<1> QED
  BY <1>1, <1>4, <1>5, WorkPasses, CallAdvances

LEMMA SyncOrganization ==
  ASSUME SyncInv, ServerInv, Doing("organizations"), ExecuteOrganizations
  PROVE  Advances
<1>1. sync.at = "row" /\ Working /\ Leave
  BY DEF Doing, Working, ExecuteOrganizations
<1>2. sync.step = 1
  BY <1>1, StepOf, AtItem DEF Doing, SyncInv
<1>3. PICK answer : /\ Post(Item, Copy("sync", None, None), answer)
                    /\ sync' = Done(IF answer \in {"created", "conflict"} THEN sync ELSE Failed(sync))
  BY DEF ExecuteOrganizations
<1>4. Resolves(Item, Copy("sync", None, None))
  BY <1>1, <1>2, ItemSheet, Apart DEF Resolves, SyncInv, Scoped
<1>5. /\ Calls /\ answer \in {"created", "conflict", "refused", "lost"}
      /\ answer \in {"refused", "lost"} => faults' > faults
  <2>1. sync.step \in 1 .. 10 /\ ~(sync.step >= 5) /\ None \in Nat
    BY <1>2 DEF None
  <2> QED
    BY <1>1, <1>3, <1>4, <2>1, PostCalls, SyncCopies
<1>6. CASE answer \in {"created", "conflict"}
  <2>1. sync' = Done(sync)
    BY <1>3, <1>6
  <2> QED
    BY <1>1, <1>2, <1>5, <2>1, WorkPasses, CallAdvances
<1>7. CASE answer \in {"refused", "lost"}
  <2>1. sync' = Done(Failed(sync))
    BY <1>3, <1>7
  <2> QED
    BY <1>1, <1>5, <1>7, <2>1, WorkFails, CallAdvances
<1> QED
  BY <1>5, <1>6, <1>7

LEMMA SyncCreatesType ==
  ASSUME SyncInv, ServerInv, Working, sync.at = "row", sync.step \in 2 .. 4,
         NEW known, known = [sync.known EXCEPT ![Item] = 1]
                    \/ (known = sync.known /\ sync.step # 4),
         CreateType(known)
  PROVE  Advances
<1>1. Leave
  BY DEF CreateType
<1>2. PICK answer : /\ Post(Item, Copy("sync", None, None), answer)
                    /\ sync' = Done(IF answer # "created" THEN Failed(sync)
                                    ELSE [sync EXCEPT !.known = known])
  BY DEF CreateType
<1>3. Resolves(Item, Copy("sync", None, None))
  <2>1. Item \notin Scoped /\ Item \notin Links
    BY ItemSheet, Apart DEF SyncInv
  <2> QED
    BY <2>1 DEF Resolves, Scoped
<1>4. /\ Calls /\ answer \in {"created", "conflict", "refused", "lost"}
      /\ answer \in {"refused", "lost"} => faults' > faults
      /\ answer = "conflict" => Crowding'
      /\ answer = "created" => There(Item) /\ ~Exists(Item)
  <2>1. /\ sync.step \in 1 .. 10 /\ ~(sync.step >= 5) /\ sync.step < 5 /\ sync.step # 1
        /\ None \in Nat
    BY DEF None
  <2> QED
    BY <1>1, <1>2, <1>3, <2>1, PostCalls, SyncCopies
<1>5. CASE answer # "created"
  <2>1. (faults' > faults \/ Crowding') /\ sync' = Done(Failed(sync))
    BY <1>2, <1>4, <1>5
  <2> QED
    BY <1>4, <2>1, WorkFails, CallAdvances
<1>6. CASE answer = "created"
  <2>1. sync' = Done([sync EXCEPT !.known = known]) /\ There(Item) /\ ~Exists(Item)
    BY <1>2, <1>4, <1>6
  <2> QED
    BY <1>4, <2>1, WorkKnows, CallAdvances
<1> QED
  BY <1>5, <1>6

LEMMA SyncRowPassword ==
  ASSUME SyncInv, ServerInv, ExecuteRowPasswords
  PROVE  Advances
<1>1. sync.at = "row" /\ Working /\ Leave
  BY DEF Doing, Working, ExecuteRowPasswords
<1>2. sync.step = 10
  BY <1>1, StepOf, AtItem DEF Doing, SyncInv, ExecuteRowPasswords
<1>3. PICK answer :
        /\ Post(Item, Copy("sync", None, None), answer)
        /\ sync' = IF answer = "created"
                   THEN [sync EXCEPT !.made[Item] = Len(server[Item]) + 1, !.at = "link"]
                   ELSE Done(Failed(sync))
  BY DEF ExecuteRowPasswords
<1>4. Resolves(Item, Copy("sync", None, None)) /\ Item \notin Assets
  <2>1. Item \in RowPasswords(Present)
    BY <1>1, <1>2, AtItem, Shapes DEF SyncInv
  <2>2. Item \in Passwords /\ Item \in Scoped
    BY <2>1 DEF RowPasswords, RowsOf, Scoped
  <2> QED
    BY <2>2, RowsApart, Apart DEF Resolves
<1>p. ~Exists(Item) \/ Crowded(Item)
  <2>1. sync.step \in 2 .. 10
    BY <1>2
  <2> QED
    BY <1>1, <1>4, <2>1, Creatable
<1> DEFINE u == Len(server[Item]) + 1
<1>5. /\ Calls /\ answer \in {"created", "refused", "lost"}
      /\ answer \in {"refused", "lost"} => faults' > faults
      /\ answer = "created" => u \in DOMAIN server'[Item]
  <2>1. sync.step \in 1 .. 10 /\ ~(sync.step < 5) /\ None \in Nat
    BY <1>2 DEF None
  <2> QED
    BY <1>1, <1>3, <1>4, <1>p, <2>1, PostCalls, SyncCopies
<1>u. sync' = IF answer = "created" THEN [sync EXCEPT !.made[Item] = u, !.at = "link"]
              ELSE Done(Failed(sync))
  BY <1>3
<1> HIDE DEF u
<1>6. CASE answer # "created"
  <2>1. faults' > faults /\ sync' = Done(Failed(sync))
    BY <1>5, <1>6, <1>u
  <2> QED
    BY <1>1, <1>5, <2>1, WorkFails, CallAdvances
<1>7. CASE answer = "created"
  <2>1. /\ u \in DOMAIN server'[Item] /\ sync.step \in 5 .. 10
        /\ sync' = [sync EXCEPT !.made[Item] = u, !.at = "link"]
    BY <1>2, <1>5, <1>7, <1>u
  <2> QED
    BY <1>1, <1>2, <1>5, <2>1, WorkPauses, CallAdvances, Zenon
<1> QED
  BY <1>6, <1>7

\* What is known of a row is a copy of it.
LEMMA UuidKnown ==
  ASSUME SyncInv, ServerInv, NEW i \in Items
  PROVE  UuidOf(i) \in {None} \cup DOMAIN server[i] /\ UuidOf(i) \in Nat
<1>1. UuidOf(i) \in {None} \cup DOMAIN server[i]
  BY DEF SyncInv, Known, UuidOf
<1>2. DOMAIN server[i] = 1 .. Len(server[i])
  BY ItemSeqs DEF ServerInv
<1> QED
  BY <1>1, <1>2 DEF None

LEMMA SyncLinks ==
  ASSUME SyncInv, ServerInv, Working, Leave, NEW l \in Links, CreateRelationship(l),
         sync.at = "link" \/ (sync.at = "row" /\ sync.step = 12 /\ l = Item)
  PROVE  Advances
<1> DEFINE src == UuidOf(OwnerOf[l])
           dst == UuidOf(TargetOf[l])
<1>1. CASE None \in {src, dst}
  <2>1. PassOver
    BY <1>1 DEF CreateRelationship
  <2> QED
    BY <1>1, <2>1, SyncPasses
<1>2. CASE None \notin {src, dst}
  <2>1. PICK answer :
          /\ Post(l, LinkCopy("sync", src, dst), answer)
          /\ sync' = Done(IF answer \in {"created", "conflict"} THEN sync ELSE Failed(sync))
    BY <1>2 DEF CreateRelationship
  <2>2. l \in Items /\ OwnerOf[l] \in Items /\ TargetOf[l] \in Items /\ l \notin Scoped
    BY Named, Apart DEF Items
  <2>3. /\ src \in DOMAIN server[OwnerOf[l]] /\ src \in Nat
        /\ dst \in DOMAIN server[TargetOf[l]] /\ dst \in Nat
    BY <1>2, <2>2, UuidKnown
  <2> DEFINE row == LinkCopy("sync", src, dst)
  <2>4. /\ row \in RowT(l) /\ row.by = "sync" /\ row.src = src /\ row.dst = dst
    BY <2>3 DEF LinkCopy, LinkT, RowT, Tools
  <2>5. Post(l, row, answer)
    BY <2>1
  <2> HIDE DEF row, src, dst
  <2>6. Resolves(l, row)
    <3>1. l \notin Configs /\ l \notin Assets
      BY <2>2 DEF Scoped
    <3> QED
      BY <2>3, <2>4, <3>1 DEF Resolves
  <2>7. /\ Served /\ faults' \in Nat /\ faults' >= faults
        /\ answer \in {"created", "conflict", "refused", "lost"}
        /\ answer = "conflict" <=> Taken(l, row)
        /\ answer \in {"refused", "lost"} <=> faults' > faults
        /\ \A j \in Items : There(j) => Exists(j) \/ (j = l /\ answer \in {"created", "lost"})
        /\ answer \in {"created", "lost"} => There(l)
    BY <2>2, <2>4, <2>5, <2>6, PostServed DEF Leave
  <2>8. Calls
    BY <2>7 DEF Calls, Leave
  <2>9. CASE answer \in {"created", "conflict"}
    <3>1. There(l)
      <4>1. CASE answer = "created"
        BY <2>7, <4>1
      <4>2. CASE answer = "conflict"
        <5>1. Taken(l, row) /\ l \notin Orgs \cup Types
          BY <2>7, <4>2, Apart
        <5>2. \E n \in 1 .. Len(server[l]) : TRUE
          BY <5>1 DEF Taken
        <5>3. Len(server[l]) > 0
          BY <2>2, <5>2, ItemSeqs DEF ServerInv
        <5>4. Len(server'[l]) > 0
          BY <2>2, <2>7, <5>3, ItemSeqs, Lasts DEF Served, Lasting, ServerInv
        <5>5. server'[l] \in Seq(RowT(l))
          BY <2>2, <2>7 DEF Served, Lasting, ServerTyped, RowT
        <5> QED
          BY <5>4, <5>5 DEF There
      <4> QED
        BY <2>9, <4>1, <4>2
    <3>2. sync' = Done(sync)
      BY <2>1, <2>9
    <3> QED
      BY <2>8, <3>1, <3>2, WorkPasses, CallAdvances
  <2>10. CASE answer \in {"refused", "lost"}
    <3>1. sync' = Done(Failed(sync))
      BY <2>1, <2>10
    <3> QED
      BY <2>7, <2>8, <2>10, <3>1, WorkFails, CallAdvances
  <2> QED
    BY <2>7, <2>9, <2>10
<1> QED
  BY <1>1, <1>2

LEMMA SyncPuts ==
  ASSUME SyncInv, ServerInv, Working, Leave, sync.at = "row", sync.step > 10, sync.step # 12,
         NEW i \in Scoped, NEW text \in Texts, Put(i, text),
         \/ sync.update
         \/ sync.made[i] # None /\ \E l \in Links : TargetOf[l] = i /\ KindOf[l] = "cell"
  PROVE  Advances
<1> DEFINE changed == [server EXCEPT ![i][UuidOf(i)].text = text]
<1>1. \/ server' = changed /\ sync' = Done(sync) /\ UNCHANGED faults
      \/ /\ faults' = faults + 1 /\ sync' = Done(Failed(sync))
         /\ server' = server \/ server' = changed
  BY DEF Put
<1>2. faults \in Nat /\ faults' \in Nat /\ faults' >= faults
  BY <1>1 DEF ServerInv, ServerTyped
<1>3. Served /\ \A j \in Items : There(j) => Exists(j)
  <2>1. CASE server' = server
    BY <1>2, <2>1, StillServed DEF Leave
  <2>2. CASE server' = changed
    <3>1. sync.made[i] # None => UuidOf(i) = sync.made[i]
      BY DEF UuidOf
    <3> QED
      BY <1>2, <2>2, <3>1, TextServed DEF Leave
  <2> QED
    BY <1>1, <2>1, <2>2
<1>4. Calls
  BY <1>2, <1>3 DEF Calls, Leave
<1>5. CASE sync' = Done(sync)
  <2>1. ~(sync.step \in 5 .. 10) /\ sync.step # 4
    BY AtItem DEF SyncInv
  <2> QED
    BY <1>4, <1>5, <2>1, WorkPasses, CallAdvances
<1>6. CASE sync' = Done(Failed(sync)) /\ faults' > faults
  BY <1>4, <1>6, WorkFails, CallAdvances
<1> QED
  BY <1>1, <1>2, <1>5, <1>6

LEMMA SyncUploads ==
  ASSUME SyncInv, ServerInv, UploadAttachments
  PROVE  Advances
<1>1. sync.at = "upload" /\ Working /\ Leave /\ sync' = Done(sync)
  BY DEF UploadAttachments, Working
<1>2. PICK file \in Files : Attach(Item, sync.made[Item], file)
  BY DEF UploadAttachments
<1>3. Item \in Items \ Links
  <2>1. sync.step \in 5 .. 10
    BY <1>1 DEF SyncInv, SyncTyped
  <2> QED
    BY <1>1, <2>1, ItemSheet, AtItem, Apart DEF SyncInv
<1>4. sync.made[Item] \in DOMAIN server[Item] /\ server[Item][sync.made[Item]].file # "stored"
  BY <1>1, <1>3 DEF SyncInv, Known
<1>5. /\ Served /\ faults' \in Nat /\ faults' >= faults
      /\ \A j \in Items : There(j) => Exists(j)
  BY <1>1, <1>2, <1>3, <1>4, FileServed DEF Leave
<1>6. Calls
  BY <1>1, <1>5 DEF Calls, Leave
<1> QED
  BY <1>1, <1>6, WorkPasses, CallAdvances

\* Whoever has no password of its own to write down knows one of its links.
LEMMA RowPasswordLink ==
  ASSUME NEW o, NEW p \in RowPasswords(o)
  PROVE  (CHOOSE l \in Links : OwnerOf[l] = p) \in Links
<1>1. \E l \in Links : OwnerOf[l] = p
  BY DEF RowPasswords, Kinds
<1> QED
  BY <1>1

LEMMA SyncRows ==
  ASSUME SyncInv, ServerInv,
         \/ ExecuteLocations \/ ExecuteConfigurations \/ ExecuteCustomAssets
         \/ ExecuteDocuments \/ ExecutePasswords
  PROVE  Advances
<1>1. sync.at = "row" /\ Working /\ Leave
  BY DEF Doing, Working, ExecuteLocations, ExecuteConfigurations, ExecuteCustomAssets,
         ExecuteDocuments, ExecutePasswords
<1>2. /\ Item \in Shape(Present)[sync.step] /\ sync.step \in 1 .. 16 /\ Item \in Items
  BY <1>1, AtItem DEF SyncInv
<1>3. \A i \in Items : /\ sync.known[i] \in {None} \cup DOMAIN server[i]
                       /\ sync.known[i] \in Nat
  <2>1. \A i \in Items : sync.known[i] \in {None} \cup DOMAIN server[i]
    BY DEF SyncInv, Known
  <2>2. \A i \in Items : sync.known[i] \in Nat
    BY DEF SyncInv, SyncTyped, SyncT
  <2> QED
    BY <2>1, <2>2 
<1>4. None \in Nat
  BY DEF None
<1>5. ASSUME sync.step \in {5, 8, 9}, CreateRow(Copy("sync", None, None)) PROVE Advances
  <2>p. sync.step \in 5 .. 9 /\ sync.step \in 2 .. 10
    BY <1>5
  <2>1. Item \notin Configs /\ Item \notin Assets /\ Item \notin Links
    <3>1. sync.step = 5 \/ sync.step = 8 \/ sync.step = 9
      BY <1>5
    <3>2. \/ Item \in RowsOf(Present, Locations) \/ Item \in RowsOf(Present, Docs)
          \/ Item \in Plain(RowsOf(Present, Passwords))
      BY <1>2, <3>1, Shapes
    <3>3. Item \in Locations \/ Item \in Docs \/ Item \in Passwords
      BY <3>2 DEF RowsOf, Plain
    <3> QED
      BY <3>3, RowsApart, Apart DEF Scoped
  <2>2. Resolves(Item, Copy("sync", None, None))
    BY <2>1 DEF Resolves
  <2>3. ~Exists(Item) \/ Crowded(Item)
    BY <1>1, <2>p, <2>1, Creatable
  <2> QED
    BY <1>1, <1>4, <1>5, <2>p, <2>2, <2>3, SyncCopies, SyncCreatesRow
<1>6. CASE ExecuteLocations
  <2>1. sync.step = 5 /\ CreateRow(Copy("sync", None, None))
    BY <1>2, <1>6, StepOf DEF ExecuteLocations, Doing
  <2> QED
    BY <1>5, <2>1
<1>7. CASE ExecuteDocuments
  <2>1. sync.step = 8
    BY <1>2, <1>7, StepOf DEF ExecuteDocuments, Doing
  <2>2. CASE Item \in Empty \ WithFile
    <3>1. PassOver /\ PassedOver(Item)
      BY <1>7, <2>2 DEF ExecuteDocuments, PassedOver
    <3> QED
      BY <1>1, <2>1, <3>1, SyncPasses
  <2>3. CASE Item \notin Empty \ WithFile
    <3>1. CreateRow(Copy("sync", None, None))
      BY <1>7, <2>3 DEF ExecuteDocuments
    <3> QED
      BY <1>5, <2>1, <3>1
  <2> QED
    BY <2>2, <2>3
<1>8. CASE ExecutePasswords
  <2>1. sync.step = 9
    BY <1>2, <1>8, StepOf DEF ExecutePasswords, Doing
  <2>2. CASE Item \in Blank
    <3>1. Item \in Plain(RowsOf(Present, Passwords))
      BY <1>2, <2>1, Shapes
    <3>2. Kinds(Item) \cap {"cell", "row"} = {}
      BY <3>1 DEF Plain
    <3>3. PassOver /\ PassedOver(Item)
      BY <1>8, <2>2, <3>2 DEF ExecutePasswords, PassedOver
    <3> QED
      BY <1>1, <2>1, <3>3, SyncPasses
  <2>3. CASE Item \notin Blank
    <3>1. CreateRow(Copy("sync", None, None))
      BY <1>8, <2>3 DEF ExecutePasswords
    <3> QED
      BY <1>5, <2>1, <3>1
  <2> QED
    BY <2>2, <2>3
<1>9. CASE ExecuteConfigurations
  <2>1. /\ sync.step = 6
        /\ CreateRow(Copy("sync", sync.known[TypeOf[Item]], sync.known[StatusOf[Item]]))
    BY <1>2, <1>9, StepOf DEF ExecuteConfigurations, Doing
  <2>2. Item \in Configs
    <3>1. Item \in RowsOf(Present, Configs)
      BY <1>2, <2>1, Shapes
    <3> QED
      BY <3>1 DEF RowsOf
  <2>3. /\ TypeOf[Item] \in Items /\ StatusOf[Item] \in Items
        /\ Item \notin Assets /\ Item \notin Links
    BY <2>2, Named, RowsApart, Apart DEF Items, Types, Scoped
  <2> DEFINE type == sync.known[TypeOf[Item]]
             status == sync.known[StatusOf[Item]]
  <2>4. /\ type \in {None} \cup DOMAIN server[TypeOf[Item]] /\ type \in Nat
        /\ status \in {None} \cup DOMAIN server[StatusOf[Item]] /\ status \in Nat
    BY <1>3, <2>3
  <2>5. CreateRow(Copy("sync", type, status))
    BY <2>1
  <2> HIDE DEF type, status
  <2>6. /\ Copy("sync", type, status) \in CopyT /\ Copy("sync", type, status).by = "sync"
        /\ Copy("sync", type, status).file = "none"
        /\ Resolves(Item, Copy("sync", type, status))
    BY <2>3, <2>4, SyncCopies DEF Resolves
  <2>7. sync.step \in 5 .. 9 /\ (~Exists(Item) \/ Crowded(Item))
    <3>1. sync.step \in 5 .. 9 /\ sync.step \in 2 .. 10
      BY <2>1
    <3> QED
      BY <1>1, <2>3, <3>1, Creatable
  <2> QED
    BY <1>1, <2>5, <2>6, <2>7, SyncCreatesRow
<1>10. CASE ExecuteCustomAssets
  <2>1. sync.step = 7
    BY <1>2, <1>10, StepOf DEF ExecuteCustomAssets, Doing
  <2>2. Item \in Assets /\ OrgOf[Item] = Present
    <3>1. Item \in RowsOf(Present, Assets)
      BY <1>2, <2>1, Shapes
    <3> QED
      BY <3>1 DEF RowsOf
  <2>3. TypeOf[Item] \in Items /\ Item \notin Configs /\ Item \notin Links
    BY <2>2, Named, RowsApart, Apart DEF Items, Types, Scoped
  <2> DEFINE type == sync.known[TypeOf[Item]]
  <2>4. type \in {None} \cup DOMAIN server[TypeOf[Item]] /\ type \in Nat
    BY <1>3, <2>3
  <2>5. CASE type = None
    <3>1. PassOver
      BY <1>10, <2>5 DEF ExecuteCustomAssets
    <3>2. sync.failed
      <4>1. Ahead(4) = {}
        BY <2>1 DEF Ahead
      <4> QED
        BY <1>1, <2>2, <2>5, <4>1 DEF SyncInv, Complete, Working
    <3> QED
      BY <1>1, <2>1, <3>1, <3>2, SyncPasses
  <2>6. CASE type # None
    <3>1. CreateRow(Copy("sync", type, None))
      BY <1>10, <2>6 DEF ExecuteCustomAssets
    <3> HIDE DEF type
    <3>2. /\ Copy("sync", type, None) \in CopyT /\ Copy("sync", type, None).by = "sync"
          /\ Copy("sync", type, None).file = "none"
          /\ Resolves(Item, Copy("sync", type, None))
      BY <1>4, <2>2, <2>3, <2>4, <2>6, SyncCopies DEF Resolves, type
    <3>3. sync.step \in 5 .. 9 /\ (~Exists(Item) \/ Crowded(Item))
      <4>1. sync.step \in 5 .. 9 /\ sync.step \in 2 .. 10
        BY <2>1
      <4> QED
        BY <1>1, <2>6, <4>1, Creatable DEF type
    <3> QED
      BY <1>1, <3>1, <3>2, <3>3, SyncCreatesRow
  <2> QED
    BY <2>5, <2>6
<1> QED
  BY <1>6, <1>7, <1>8, <1>9, <1>10

LEMMA SyncTypes ==
  ASSUME SyncInv, ServerInv,
         ExecuteConfigTypes \/ ExecuteConfigStatuses \/ ExecuteCustomAssetTypes
  PROVE  Advances
<1>1. sync.at = "row" /\ Working
  BY DEF Doing, Working, ExecuteConfigTypes, ExecuteConfigStatuses, ExecuteCustomAssetTypes
<1>2. sync.step \in 1 .. 16
  BY <1>1, AtItem DEF SyncInv
<1>3. ASSUME sync.step \in 2 .. 3, CreateType(sync.known) PROVE Advances
  <2>1. sync.step \in 2 .. 4 /\ sync.step # 4
    BY <1>3
  <2> QED
    BY <1>1, <1>3, <2>1, SyncCreatesType
<1>4. CASE ExecuteConfigTypes
  BY <1>2, <1>3, <1>4, StepOf DEF ExecuteConfigTypes, Doing
<1>5. CASE ExecuteConfigStatuses
  BY <1>2, <1>3, <1>5, StepOf DEF ExecuteConfigStatuses, Doing
<1>6. CASE ExecuteCustomAssetTypes
  <2>1. sync.step = 4 /\ CreateType([sync.known EXCEPT ![Item] = 1])
    BY <1>2, <1>6, StepOf DEF ExecuteCustomAssetTypes, Doing
  <2> QED
    BY <1>1, <2>1, SyncCreatesType
<1> QED
  BY <1>4, <1>5, <1>6

LEMMA SyncWrites ==
  ASSUME SyncInv, ServerInv,
         \/ LinkRowPassword \/ ExecuteRelationships \/ ExecuteCellWrites
         \/ UpdateConfiguration \/ UpdateLocation \/ UpdateDocument \/ UpdatePassword
  PROVE  Advances
<1>1. Working /\ Leave
  BY DEF Doing, Working, LinkRowPassword, ExecuteRelationships, ExecuteCellWrites,
         UpdateConfiguration, UpdateLocation, UpdateDocument, UpdatePassword
<1>2. /\ Item \in Shape(Present)[sync.step] /\ sync.step \in 1 .. 16 /\ Item \in Items
  BY <1>1, AtItem DEF SyncInv
<1>3. CASE LinkRowPassword
  <2>1. sync.at = "link" /\ CreateRelationship(CHOOSE l \in Links : OwnerOf[l] = Item)
    BY <1>3 DEF LinkRowPassword
  <2>2. Item \in RowPasswords(Present)
    BY <1>2, <2>1, Shapes DEF SyncInv, SyncTyped
  <2> QED
    BY <1>1, <2>1, <2>2, RowPasswordLink, SyncLinks
<1>4. CASE ExecuteRelationships
  <2>1. sync.at = "row" /\ sync.step = 12 /\ CreateRelationship(Item)
    BY <1>2, <1>4, StepOf DEF ExecuteRelationships, Doing
  <2>2. Item \in Links
    BY <1>2, <2>1, Shapes DEF LinksOf
  <2> QED
    BY <1>1, <2>1, <2>2, SyncLinks
<1>5. CASE ExecuteCellWrites
  <2>1. sync.at = "row" /\ sync.step = 11
    BY <1>2, <1>5, StepOf DEF ExecuteCellWrites, Doing
  <2>2. Item \in Links /\ KindOf[Item] = "cell"
    BY <1>2, <2>1, Shapes DEF Cells
  <2>3. CASE sync.made[TargetOf[Item]] = None
    <3>1. PassOver
      BY <1>5, <2>3 DEF ExecuteCellWrites
    <3> QED
      BY <1>1, <2>1, <3>1, SyncPasses
  <2>4. CASE sync.made[TargetOf[Item]] # None
    <3>1. Put(TargetOf[Item], "cell") /\ TargetOf[Item] \in Scoped /\ "cell" \in Texts
      BY <1>5, <2>2, <2>4, Named DEF ExecuteCellWrites, Texts
    <3> QED
      BY <1>1, <2>1, <2>2, <2>4, <3>1, SyncPuts
  <2> QED
    BY <2>3, <2>4
<1>6. ASSUME sync.at = "row", sync.step \in 13 .. 16, Put(Item, "export") PROVE Advances
  <2>1. sync.update
    BY <1>1, <1>6 DEF SyncInv, SyncTyped
  <2>2. Item \in Scoped /\ "export" \in Texts
    <3>1. sync.step = 13 \/ sync.step = 14 \/ sync.step = 15 \/ sync.step = 16
      BY <1>6
    <3> QED
      BY <1>2, <3>1, Shapes DEF Scoped, Texts
  <2> QED
    BY <1>1, <1>6, <2>1, <2>2, SyncPuts
<1>7. CASE UpdateConfiguration
  BY <1>2, <1>6, <1>7, StepOf DEF UpdateConfiguration, Doing
<1>8. CASE UpdateLocation
  BY <1>2, <1>6, <1>8, StepOf DEF UpdateLocation, Doing
<1>9. CASE UpdateDocument
  BY <1>2, <1>6, <1>9, StepOf DEF UpdateDocument, Doing
<1>10. CASE UpdatePassword
  BY <1>2, <1>6, <1>10, StepOf DEF UpdatePassword, Doing
<1> QED
  BY <1>3, <1>4, <1>5, <1>7, <1>8, <1>9, <1>10
-----------------------------------------------------------------------------
(***************************************************************************)
(* A sync before and after the plan of an organization.                    *)
(***************************************************************************)
LEMMA NothingKnown ==
  ASSUME sync'.known = Nothing, sync'.made = Nothing, sync'.at \in {"idle", "list", "create"},
         \A o \in sync'.found : There(o)
  PROVE  Known'
BY DEF Known, Nothing, There, Exists, Working

LEMMA NothingTyped == Nothing \in [Items -> Nat]
BY BoundsAssumption DEF Nothing, None

\* What a sync remembers of the organizations is there after a call as well.
LEMMA FoundLasts ==
  ASSUME SyncInv, ServerInv, Lasting
  PROVE  \A o \in sync.found : There(o)
<1>1. \A o \in sync.found : Exists(o) /\ o \in Items
  BY DEF SyncInv, Known, SyncTyped, SyncT, Items
<1> QED
  BY <1>1, Lasts DEF ServerInv, There, Exists

LEMMA StopsTyped ==
  ASSUME SyncInv, jobs' = jobs, NEW code \in {"success", "failures", "died"},
         code = "failures" => sync.before < faults' \/ Crowding', sync' = Stop(sync, code)
  PROVE  SyncInv' /\ sync'.update = sync.update
<1>1. sync \in SyncT
  BY DEF SyncInv, SyncTyped
<1>2. /\ sync'.at = "idle" /\ sync'.update = sync.update /\ sync'.asked = sync.asked
      /\ sync'.orgs = <<>> /\ sync'.found = {} /\ sync'.known = Nothing /\ sync'.made = Nothing
      /\ sync'.before = sync.before /\ sync'.failed = FALSE /\ sync'.code = code
  BY DEF Stop, SyncIdle
<1>3. sync' \in SyncT
  <2>1. <<>> \in Seq(Orgs) /\ 0 \in 0 .. 16
    OBVIOUS
  <2> QED
    BY <1>1, <2>1, NothingTyped DEF Stop, SyncIdle, SyncT
<1>4. SyncTyped'
  BY <1>2, <1>3 DEF SyncTyped, Working
<1>5. Known'
  BY <1>2, NothingKnown
<1> QED
  BY <1>2, <1>4, <1>5 DEF SyncInv, Complete

\* What a step of a sync does.
Proceeds ==
  /\ Served /\ SyncInv'
  /\ sync'.code = "success" => \A o \in sync.asked \ hidden : Whole(o) \/ Unlisted(o)

LEMMA SyncAborts ==
  ASSUME SyncInv, ServerInv, Syncing, Leave, Abort
  PROVE  Proceeds
<1>1. faults' = faults + 1 /\ sync' = Stop(sync, "failures") /\ UNCHANGED <<server, hidden, jobs>>
  BY DEF Abort, Leave
<1>2. faults \in Nat /\ sync.before <= faults /\ sync.before \in Nat
  BY DEF SyncInv, SyncTyped, SyncT, ServerInv, ServerTyped, Syncing
<1>3. SyncInv'
  BY <1>1, <1>2, StopsTyped
<1>4. Served
  BY <1>1, <1>2, StillServed
<1>5. sync'.code # "success"
  BY <1>1 DEF Stop, SyncIdle
<1> QED
  BY <1>3, <1>4, <1>5 DEF Proceeds

LEMMA SyncKilled ==
  ASSUME SyncInv, ServerInv, Kill
  PROVE  Proceeds
<1>1. faults' = faults + 1 /\ sync' = Stop(sync, "died") /\ UNCHANGED <<server, hidden, jobs>>
  BY DEF Kill, Leave
<1>2. faults \in Nat
  BY DEF ServerInv, ServerTyped
<1>3. SyncInv'
  BY <1>1, StopsTyped
<1>4. Served
  BY <1>1, <1>2, StillServed
<1>5. sync'.code # "success"
  BY <1>1 DEF Stop, SyncIdle
<1> QED
  BY <1>3, <1>4, <1>5 DEF Proceeds

LEMMA SyncEnds ==
  ASSUME SyncInv, ServerInv, SyncEnd
  PROVE  Proceeds
<1>1. /\ sync.at = "fetch" /\ sync.orgs = <<>> /\ UNCHANGED <<server, faults, hidden, jobs>>
      /\ sync' = Stop(sync, IF sync.failed THEN "failures" ELSE "success")
  BY DEF SyncEnd, Leave, Still
<1>2. sync.failed => sync.before < faults' \/ Crowding'
  <2>1. sync.failed => sync.before < faults \/ Crowding
    BY DEF SyncInv, SyncTyped
  <2>2. Crowding => Crowding'
    BY <1>1, CrowdedAsBefore DEF Crowding, Types
  <2> QED
    BY <1>1, <2>1, <2>2
<1>3. SyncInv'
  BY <1>1, <1>2, StopsTyped
<1>4. Served
  BY <1>1, StillServed DEF ServerInv, ServerTyped
<1>5. ASSUME sync'.code = "success", NEW o \in sync.asked \ hidden PROVE Whole(o) \/ Unlisted(o)
  <2>1. ~sync.failed
    BY <1>1, <1>5 DEF Stop, SyncIdle
  <2>2. \/ \E n \in DOMAIN sync.orgs : sync.orgs[n] = o
        \/ o \in hidden \/ Whole(o) \/ Unlisted(o)
    BY <1>1, <2>1 DEF SyncInv, Complete
  <2> QED
    BY <1>1, <2>2
<1> QED
  BY <1>3, <1>4, <1>5 DEF Proceeds

LEMMA SyncBegins ==
  ASSUME SyncInv, ServerInv, ~Syncing, SyncStart
  PROVE  /\ SyncInv' /\ jobs' \in 0 .. MaxJobs /\ UNCHANGED <<server, hidden, faults>>
         /\ sync'.code = "none"
<1>1. PICK update \in BOOLEAN, orgs \in Seq(Orgs) :
        /\ \A m, n \in DOMAIN orgs : orgs[m] = orgs[n] => m = n
        /\ StartSync(update, orgs)
  <2>1. CASE \E update \in BOOLEAN : StartSync(update, Rows["organizations"])
    <3>1. /\ Rows["organizations"] \in Seq(Orgs)
          /\ \A m, n \in DOMAIN Rows["organizations"] :
               Rows["organizations"][m] = Rows["organizations"][n] => m = n
      BY SheetNames, ExportAssumption
    <3> QED
      BY <2>1, <3>1
  <2>2. ASSUME NEW update \in BOOLEAN, NEW o \in Orgs, StartSync(update, <<o>>)
        PROVE  \E orgs \in Seq(Orgs) : /\ \A m, n \in DOMAIN orgs : orgs[m] = orgs[n] => m = n
                                       /\ StartSync(update, orgs)
    <3>1. <<o>> \in Seq(Orgs) /\ \A m, n \in DOMAIN <<o>> : m = n
      OBVIOUS
    <3> QED
      BY <2>2, <3>1
  <2> QED
    BY <2>1, <2>2 DEF SyncStart
<1>2. /\ jobs < MaxJobs /\ jobs' = jobs + 1 /\ UNCHANGED <<server, hidden, faults>>
      /\ sync' = [SyncIdle EXCEPT !.at = "list", !.update = update, !.orgs = orgs,
                                 !.asked = ToSet(orgs), !.before = faults]
  BY <1>1 DEF StartSync
<1>3. jobs \in 0 .. MaxJobs /\ faults \in Nat /\ MaxJobs \in Nat
  BY BoundsAssumption DEF ServerInv, ServerTyped
<1>4. /\ sync'.at = "list" /\ sync'.update = update /\ sync'.asked = ToSet(orgs)
      /\ sync'.orgs = orgs /\ sync'.found = {} /\ sync'.new = {} /\ sync'.known = Nothing
      /\ sync'.made = Nothing /\ sync'.before = faults /\ sync'.failed = FALSE
      /\ sync'.code = "none"
  BY <1>2 DEF SyncIdle
<1>5. ToSet(orgs) \subseteq Orgs /\ \A o \in ToSet(orgs) : \E n \in DOMAIN orgs : orgs[n] = o
  BY DEF ToSet
<1>6. \A n \in DOMAIN orgs : orgs[n] \in ToSet(orgs)
  BY DEF ToSet
<1>7. sync' \in SyncT
  <2>1. 0 \in 0 .. 16
    OBVIOUS
  <2> QED
    BY <1>2, <1>3, <1>5, <2>1, NothingTyped DEF SyncIdle, SyncT
<1>8. SyncTyped'
  BY <1>1, <1>2, <1>3, <1>4, <1>5, <1>6, <1>7 DEF SyncTyped, Working
<1>9. Known'
  BY <1>4, NothingKnown
<1>10. Complete'
  BY <1>4 DEF Complete, Working
<1> QED
  BY <1>2, <1>3, <1>4, <1>8, <1>9, <1>10 DEF SyncInv
-----------------------------------------------------------------------------
(***************************************************************************)
(* The list of the organizations, and those that are created first.        *)
(***************************************************************************)
LEMMA DoneCreating ==
  ASSUME SyncTyped, sync.at = "create", NEW s, s = sync \/ s = Failed(sync), sync' = Done(s)
  PROVE  /\ sync' \in SyncT /\ Remembers(sync', s) /\ sync'.at \in {"list", "create"}
         /\ sync'.orgs = sync.orgs /\ sync'.made = sync.made /\ sync'.todo = sync.todo \ {Item}
         /\ sync'.at = "create" => sync'.todo # {}
         /\ sync'.at = "list" => sync'.todo = {}
<1>1. sync \in SyncT /\ Failed(sync) = [sync EXCEPT !.failed = TRUE]
  BY DEF SyncTyped, Failed
<1>2. /\ s \in SyncT /\ s.at = "create" /\ s.orgs = sync.orgs /\ s.made = sync.made
      /\ s.todo = sync.todo
  <2>1. CASE s = sync
    BY <1>1, <2>1
  <2>2. CASE s = [sync EXCEPT !.failed = TRUE]
    BY <1>1, <2>2 DEF SyncT
  <2> QED
    BY <1>1, <2>1, <2>2
<1> DEFINE rest == [s EXCEPT !.todo = s.todo \ {Item}]
<1>3. /\ rest \in SyncT /\ rest.at = "create" /\ rest.orgs = sync.orgs
      /\ rest.made = sync.made /\ rest.todo = sync.todo \ {Item} /\ Remembers(rest, s)
  BY <1>2 DEF SyncT, Remembers
<1>4. sync' = IF rest.todo = {} THEN Onto(rest) ELSE rest
  BY <1>2 DEF Done
<1> HIDE DEF rest
<1>5. CASE rest.todo = {}
  <2>1. sync' = [rest EXCEPT !.at = "list"]
    BY <1>3, <1>4, <1>5 DEF Onto
  <2> QED
    BY <1>3, <1>5, <2>1 DEF SyncT, Remembers
<1>6. CASE rest.todo # {}
  BY <1>3, <1>4, <1>6
<1> QED
  BY <1>5, <1>6

LEMMA SyncCreatesOrganization ==
  ASSUME SyncInv, ServerInv, sync.at = "create", ExecuteOrganizations
  PROVE  Proceeds
<1>1. SyncTyped /\ sync.todo # {} /\ sync.todo \subseteq Orgs
  BY DEF SyncInv, SyncTyped
<1>2. Item \in sync.todo /\ Item \in Orgs /\ Item \in Items
  <2>1. "organizations" \in DOMAIN Sheets /\ Sheets["organizations"] = Orgs
    BY SheetNames
  <2> QED
    BY <1>1, <2>1, ItemIn DEF Items
<1>3. PICK answer : /\ Post(Item, Copy("sync", None, None), answer)
                    /\ sync' = Done(IF answer \in {"created", "conflict"} THEN sync ELSE Failed(sync))
  BY DEF ExecuteOrganizations
<1>4. UNCHANGED <<hidden, jobs>>
  BY DEF ExecuteOrganizations, Leave
<1>5. Item \notin Links /\ Item \notin Scoped
  BY <1>2, Apart
<1> DEFINE row == Copy("sync", None, None)
<1>6. row \in RowT(Item) /\ row.by = "sync" /\ Resolves(Item, row)
  <2>1. None \in Nat
    BY DEF None
  <2> QED
    BY <1>5, <2>1, SyncCopies DEF RowT, Resolves, Scoped
<1> HIDE DEF row
<1>7. /\ Served /\ faults' \in Nat /\ faults' >= faults
      /\ answer \in {"created", "conflict", "refused", "lost"}
      /\ answer = "conflict" <=> Taken(Item, row)
      /\ answer \in {"refused", "lost"} <=> faults' > faults
      /\ answer \in {"created", "lost"} => There(Item)
  BY <1>2, <1>3, <1>4, <1>5, <1>6, PostServed DEF row
<1>8. Lasting /\ \A o \in Orgs : Exists(o) => There(o)
  <2>1. Lasting
    BY <1>7 DEF Served
  <2> QED
    BY <2>1, Lasts DEF ServerInv, Items, Exists, There
<1>9. PICK s : /\ s = sync \/ s = Failed(sync)
               /\ sync' = Done(s)
               /\ ((s.failed <=> sync.failed) /\ There(Item)) \/ (s.failed /\ faults' > faults)
  <2>1. CASE answer \in {"created", "conflict"}
    <3>1. There(Item)
      BY <1>2, <1>5, <1>7, <1>8, <2>1 DEF Taken
    <3> QED
      BY <1>3, <2>1, <3>1
  <2>2. CASE answer \notin {"created", "conflict"}
    <3>1. Failed(sync).failed
      BY <1>1 DEF Failed, SyncTyped, SyncT
    <3> QED
      BY <1>3, <1>7, <2>2, <3>1
  <2> QED
    BY <2>1, <2>2
<1>10. /\ sync' \in SyncT /\ Remembers(sync', s) /\ sync'.at \in {"list", "create"}
       /\ sync'.orgs = sync.orgs /\ sync'.made = sync.made /\ sync'.todo = sync.todo \ {Item}
       /\ sync'.at = "create" => sync'.todo # {}
       /\ sync'.at = "list" => sync'.todo = {}
  BY <1>1, <1>9, DoneCreating
<1>11. /\ sync'.asked = sync.asked /\ sync'.found = sync.found /\ sync'.new = sync.new
       /\ sync'.known = sync.known /\ sync'.before = sync.before /\ sync'.code = sync.code
       /\ sync'.failed <=> s.failed
  <2>1. /\ s.asked = sync.asked /\ s.found = sync.found /\ s.new = sync.new
        /\ s.known = sync.known /\ s.before = sync.before /\ s.code = sync.code
    <3>1. sync \in SyncT /\ Failed(sync) = [sync EXCEPT !.failed = TRUE]
      BY <1>1 DEF SyncTyped, Failed
    <3> QED
      BY <1>9, <3>1 DEF SyncT
  <2> QED
    BY <1>10, <2>1 DEF Remembers
<1>12. /\ sync.known = Nothing /\ sync.made = Nothing /\ sync.code = "none"
       /\ jobs >= 1 /\ sync.before <= faults /\ sync.before \in Nat /\ faults \in Nat
       /\ sync.failed => sync.before < faults \/ Crowding
       /\ \A o \in sync.asked : \E n \in DOMAIN sync.orgs : sync.orgs[n] = o
       /\ \A n \in DOMAIN sync.orgs : sync.orgs[n] \in sync.asked
       /\ \A m, n \in DOMAIN sync.orgs : sync.orgs[m] = sync.orgs[n] => m = n
       /\ sync.asked \subseteq Orgs
  BY <1>1 DEF SyncTyped, SyncT, ServerInv, ServerTyped
<1>13. ASSUME sync'.failed PROVE sync'.before < faults' \/ Crowding'
  <2>1. CASE s.failed <=> sync.failed
    <3>1. Crowding => Crowding'
      BY <1>8, CrowdingStays DEF ServerInv
    <3> QED
      BY <1>7, <1>11, <1>12, <1>13, <2>1, <3>1
  <2>2. CASE faults' > faults
    BY <1>7, <1>11, <1>12, <2>2
  <2> QED
    BY <1>9, <2>1, <2>2
<1>14. SyncTyped'
  BY <1>1, <1>4, <1>7, <1>10, <1>11, <1>12, <1>13 DEF SyncTyped, Working
<1>15. Known'
  <2>1. \A o \in sync'.found : There(o)
    BY <1>8, <1>11, FoundLasts
  <2> QED
    BY <1>10, <1>11, <1>12, <2>1, NothingKnown
<1>16. Complete'
  <2>1. ASSUME ~sync'.failed, NEW o \in sync.asked PROVE There(o) \/ o \in sync'.todo
    <3>1. ~sync.failed /\ There(Item)
      BY <1>9, <1>11, <2>1
    <3>2. Exists(o) \/ o \in sync.todo
      BY <3>1 DEF SyncInv, Complete
    <3> QED
      BY <1>8, <1>10, <1>12, <3>1, <3>2
  <2> QED
    BY <1>10, <1>11, <2>1 DEF Complete, Working, There, Exists
<1> QED
  BY <1>7, <1>11, <1>12, <1>14, <1>15, <1>16 DEF Proceeds, SyncInv

LEMMA SyncLists ==
  ASSUME SyncInv, ServerInv, FetchAllOrgs
  PROVE  Proceeds
<1>1. sync.at = "list" /\ Leave /\ UNCHANGED <<hidden, jobs>>
  BY ZenonT(30) DEF FetchAllOrgs, Leave
<1>2. CASE Abort
  BY <1>1, <1>2, SyncAborts DEF Syncing
<1>3. CASE ~Abort
  <2>p. PICK found \in Listed({o \in Orgs : Enabled(o)}) :
          /\ UNCHANGED <<server, faults>>
          /\ LET new == DiffOrganizations(sync.orgs, found)
             IN  sync' = IF sync.new = {} /\ new # {}
                         THEN [sync EXCEPT !.at = "create", !.found = found,
                                           !.new = new, !.todo = new]
                         ELSE [sync EXCEPT !.at = "fetch", !.found = found]
    BY <1>3, ZenonT(30) DEF FetchAllOrgs, Still
  <2> DEFINE new == ToSet(sync.orgs) \ found
  <2>1. /\ UNCHANGED <<server, faults>>
        /\ sync' = IF sync.new = {} /\ new # {}
                   THEN [sync EXCEPT !.at = "create", !.found = found,
                                     !.new = new, !.todo = new]
                   ELSE [sync EXCEPT !.at = "fetch", !.found = found]
    BY <2>p DEF DiffOrganizations
  <2>2. /\ found \subseteq Orgs /\ \A o \in found : Exists(o)
        /\ \A o \in Orgs : Exists(o) => o \in found \cup hidden \/ Unlisted(o)'
    <3>1. /\ found \subseteq {o \in Orgs : Enabled(o)}
          /\ \A o \in Orgs : Enabled(o) => o \in found \/ Crowded(o)
      BY ListedRest
    <3>2. sync'.found = found
      BY <1>1, <2>1 DEF SyncInv, SyncTyped, SyncT
    <3> QED
      BY <2>1, <3>1, <3>2, CrowdedAsBefore DEF Enabled, Unlisted, Exists
  <2>3. /\ sync \in SyncT /\ sync.known = Nothing /\ sync.made = Nothing /\ sync.code = "none"
        /\ jobs >= 1 /\ sync.before <= faults
        /\ sync.failed => sync.before < faults' \/ Crowding'
        /\ \A o \in sync.asked : \E n \in DOMAIN sync.orgs : sync.orgs[n] = o
        /\ \A n \in DOMAIN sync.orgs : sync.orgs[n] \in sync.asked
        /\ \A m, n \in DOMAIN sync.orgs : sync.orgs[m] = sync.orgs[n] => m = n
    <3>1. Crowding => Crowding'
      BY <2>1, CrowdedAsBefore DEF Crowding, Types
    <3> QED
      BY <1>1, <2>1, <3>1 DEF SyncInv, SyncTyped
  <2>4. sync.asked \subseteq Orgs /\ sync.orgs \in Seq(Orgs)
    BY <2>3 DEF SyncT
  <2>5. new \subseteq Orgs /\ \A o \in sync.asked : o \in new \cup found
    BY <2>3, <2>4 DEF ToSet
  <2> HIDE DEF new
  <2>6. Served
    BY <1>1, <2>1, StillServed DEF ServerInv, ServerTyped
  <2>7. CASE sync.new = {} /\ new # {}
    <3>1. sync' = [sync EXCEPT !.at = "create", !.found = found, !.new = new, !.todo = new]
      BY <2>1, <2>7
    <3>2. /\ sync'.at = "create" /\ sync'.found = found /\ sync'.todo = new
          /\ sync'.asked = sync.asked /\ sync'.orgs = sync.orgs /\ sync'.known = sync.known
          /\ sync'.made = sync.made /\ sync'.before = sync.before /\ sync'.code = sync.code
          /\ sync'.failed = sync.failed
      BY <2>3, <3>1 DEF SyncT
    <3>3. sync' \in SyncT
      <4>1. new \subseteq Items
        BY <2>5 DEF Items
      <4> QED
        BY <2>2, <2>3, <2>5, <3>1, <4>1 DEF SyncT
    <3>4. SyncTyped'
      BY <1>1, <2>1, <2>3, <2>5, <2>7, <3>2, <3>3 DEF SyncTyped, Working
    <3>5. Known'
      <4>1. \A o \in sync'.found : There(o)
        BY <2>1, <2>2, <3>2 DEF There, Exists
      <4> QED
        BY <2>3, <3>2, <4>1, NothingKnown
    <3>6. Complete'
      <4>1. \A o \in sync'.asked : Exists(o)' \/ o \in sync'.todo
        BY <2>1, <2>2, <2>5, <3>2 DEF Exists
      <4> QED
        BY <3>2, <4>1 DEF Complete, Working
    <3> QED
      BY <2>3, <2>6, <3>2, <3>4, <3>5, <3>6 DEF Proceeds, SyncInv
  <2>8. CASE ~(sync.new = {} /\ new # {})
    <3>1. sync' = [sync EXCEPT !.at = "fetch", !.found = found]
      BY <2>1, <2>8
    <3>2. /\ sync'.at = "fetch" /\ sync'.found = found
          /\ sync'.asked = sync.asked /\ sync'.orgs = sync.orgs /\ sync'.known = sync.known
          /\ sync'.made = sync.made /\ sync'.before = sync.before /\ sync'.code = sync.code
          /\ sync'.failed = sync.failed
      BY <2>3, <3>1 DEF SyncT
    <3>3. sync' \in SyncT
      BY <2>2, <2>3, <3>1 DEF SyncT
    <3>4. SyncTyped'
      BY <1>1, <2>1, <2>3, <3>2, <3>3 DEF SyncTyped, Working
    <3>5. Known'
      <4>1. \A o \in sync'.found : Exists(o)'
        BY <2>1, <2>2, <3>2 DEF Exists
      <4> QED
        BY <2>3, <3>2, <4>1 DEF Known, Nothing, Working
    <3>6. Complete'
      <4>1. ASSUME ~sync.failed, NEW o \in sync.asked
            PROVE  o \in found \cup hidden \/ Unlisted(o)'
        <5>1. CASE new = {}
          BY <2>5, <4>1, <5>1
        <5>2. CASE new # {}
          <6>1. sync.new # {}
            BY <2>8, <5>2
          <6>2. Exists(o)
            BY <1>1, <4>1, <6>1 DEF SyncInv, Complete
          <6> QED
            BY <2>2, <2>4, <4>1, <6>2
        <5> QED
          BY <5>1, <5>2
      <4>2. ~sync'.failed =>
              \A o \in sync'.asked : o \in sync'.found \/ o \in hidden' \/ Unlisted(o)'
        BY <1>1, <3>2, <4>1
      <4>3. \A o \in sync'.asked : \E n \in DOMAIN sync'.orgs : sync'.orgs[n] = o
        BY <2>3, <3>2
      <4> QED
        BY <3>2, <4>2, <4>3 DEF Complete, Working
    <3> QED
      BY <2>3, <2>6, <3>2, <3>4, <3>5, <3>6 DEF Proceeds, SyncInv
  <2> QED
    BY <2>7, <2>8
<1> QED
  BY <1>2, <1>3
-----------------------------------------------------------------------------
(***************************************************************************)
(* The state of one organization is fetched.                               *)
(***************************************************************************)
LEMMA SyncNotFound ==
  ASSUME SyncInv, ServerInv, sync.at = "fetch", sync.orgs # <<>>, Leave, Still,
         Present \notin sync.found, sync' = [sync EXCEPT !.orgs = Tail(sync.orgs)]
  PROVE  Proceeds
<1>1. SyncTyped /\ sync \in SyncT /\ UNCHANGED <<server, faults, hidden, jobs>>
  BY DEF SyncInv, SyncTyped, Leave, Still
<1> DEFINE orgs == Tail(sync.orgs)
<1>2. /\ orgs \in Seq(Orgs)
      /\ \A n \in DOMAIN orgs : orgs[n] = sync.orgs[n + 1] /\ n + 1 \in DOMAIN sync.orgs
      /\ \A n \in DOMAIN orgs : n \in Int
      /\ \A n \in DOMAIN sync.orgs :
           sync.orgs[n] = Present \/ (n - 1 \in DOMAIN orgs /\ orgs[n - 1] = sync.orgs[n])
      /\ Present \in sync.asked
  <2>1. orgs = Tail(sync.orgs)
    OBVIOUS
  <2> HIDE DEF orgs
  <2>2. orgs \in Seq(Orgs) /\ DOMAIN orgs = 1 .. Len(sync.orgs) - 1
    BY <1>1, <2>1, Rotates
  <2>3. \A n \in DOMAIN orgs : n \in Int
    BY <2>2
  <2> QED
    BY <1>1, <2>1, <2>3, Rotates
<1>3. sync' = [sync EXCEPT !.orgs = orgs]
  OBVIOUS
<1> HIDE DEF orgs
<1>4. /\ sync'.at = "fetch" /\ sync'.orgs = orgs /\ sync'.asked = sync.asked
      /\ sync'.found = sync.found /\ sync'.known = sync.known /\ sync'.made = sync.made
      /\ sync'.before = sync.before /\ sync'.code = sync.code /\ sync'.failed = sync.failed
  BY <1>1, <1>3 DEF SyncT
<1>5. sync' \in SyncT
  BY <1>1, <1>2, <1>3 DEF SyncT
<1>6. SyncTyped'
  <2>1. /\ \A n \in DOMAIN orgs : orgs[n] \in sync.asked
        /\ \A m, n \in DOMAIN orgs : orgs[m] = orgs[n] => m = n
    BY <1>1, <1>2 DEF SyncTyped
  <2>2. /\ jobs >= 1 /\ sync.before <= faults /\ sync.code = "none"
        /\ sync.failed => sync.before < faults \/ Crowding
    BY <1>1 DEF SyncTyped
  <2>3. Crowding => Crowding'
    BY <1>1, CrowdedAsBefore DEF Crowding, Types
  <2>4. /\ sync'.failed \/ sync'.code = "failures" => sync'.before < faults' \/ Crowding'
        /\ sync'.at # "idle" => jobs' >= 1 /\ sync'.before <= faults' /\ sync'.code = "none"
        /\ \A n \in DOMAIN sync'.orgs : sync'.orgs[n] \in sync'.asked
        /\ \A m, n \in DOMAIN sync'.orgs : sync'.orgs[m] = sync'.orgs[n] => m = n
    BY <1>1, <1>4, <2>1, <2>2, <2>3
  <2> QED
    BY <1>4, <1>5, <2>4 DEF SyncTyped, Working
<1>7. Known'
  BY <1>1, <1>4 DEF SyncInv, Known, Working, Exists
<1>8. Complete'
  <2> SUFFICES ASSUME ~sync.failed PROVE Complete'
    BY <1>4 DEF Complete
  <2>1. /\ \A o \in sync.asked : o \in sync.found \/ o \in hidden \/ Unlisted(o)
        /\ \A o \in sync.asked :
             \/ \E n \in DOMAIN sync.orgs : sync.orgs[n] = o
             \/ o \in hidden \/ Whole(o) \/ Unlisted(o)
    BY DEF SyncInv, Complete
  <2>2. Present \in hidden \/ Unlisted(Present)
    BY <1>2, <2>1
  <2>3. \A o \in sync.asked :
          \/ \E n \in DOMAIN orgs : orgs[n] = o
          \/ o \in hidden \/ Whole(o) \/ Unlisted(o)
    BY <1>2, <2>1, <2>2
  <2>4. \A o : (Whole(o) => Whole(o)') /\ (Unlisted(o) => Unlisted(o)')
    BY <1>1, <1>4, CrowdedAsBefore DEF Whole, Exists, PassedOver, Unlisted
  <2>5. /\ \A o \in sync'.asked : o \in sync'.found \/ o \in hidden' \/ Unlisted(o)'
        /\ \A o \in sync'.asked :
             \/ \E n \in DOMAIN sync'.orgs : sync'.orgs[n] = o
             \/ o \in hidden' \/ Whole(o)' \/ Unlisted(o)'
    BY <1>1, <1>4, <2>1, <2>3, <2>4
  <2> QED
    BY <1>4, <2>5 DEF Complete, Working
<1>9. Served
  BY <1>1, StillServed DEF ServerInv, ServerTyped
<1>10. sync.code = "none"
  BY <1>1 DEF SyncTyped
<1> QED
  BY <1>4, <1>6, <1>7, <1>8, <1>9, <1>10 DEF SyncInv, Proceeds

\* A row that is there is found under the uuid of one of its copies, unless its
\* list is too long or it is a custom asset whose type was not found.
LEMMA Finds ==
  ASSUME ServerInv, NEW o \in Orgs, NEW pick \in Picks(o), NEW unlisted
  PROVE  LET known == Fetched(o, pick, unlisted)
         IN  /\ known \in [Items -> Nat]
             /\ \A i \in Items : known[i] \in {None} \cup DOMAIN server[i]
             /\ \A i \in Types : known[i] = None => ~Exists(i) \/ Crowded(i)
             /\ \A i \in Scoped : OrgOf[i] = o /\ known[i] = None =>
                  \/ ~Exists(i) \/ Crowded(i)
                  \/ i \in Assets /\ known[TypeOf[i]] = None /\ Exists(TypeOf[i])
<1> DEFINE known == Fetched(o, pick, unlisted)
<1>1. /\ 1 \in Nat /\ None \in Nat /\ DOMAIN pick = Doubtful(o)
      /\ \A i \in Doubtful(o) :
           pick[i] \in DOMAIN server[i] \/ (pick[i] = None /\ Crowded(i))
  BY DEF Picks, None
<1>2. \A i \in Items : /\ Len(server[i]) \in Nat /\ DOMAIN server[i] = 1 .. Len(server[i])
                       /\ Exists(i) => 1 \in DOMAIN server[i]
  <2> SUFFICES ASSUME NEW i \in Items
               PROVE  /\ Len(server[i]) \in Nat /\ DOMAIN server[i] = 1 .. Len(server[i])
                      /\ Exists(i) => 1 \in DOMAIN server[i]
    OBVIOUS
  <2>1. server[i] \in Seq(RowT(i))
    BY ItemSeqs DEF ServerInv
  <2> QED
    BY <2>1 DEF Exists
<1>f. ASSUME NEW i \in Items
      PROVE  /\ Found(pick, i) \in Nat
             /\ Found(pick, i) \in {None} \cup DOMAIN server[i]
             /\ Found(pick, i) = None => ~Exists(i) \/ Crowded(i)
  <2>1. CASE ~Exists(i)
    BY <1>1, <2>1 DEF Found
  <2>2. CASE Exists(i) /\ i \in DOMAIN pick
    <3>1. Found(pick, i) = pick[i]
      BY <2>2 DEF Found
    <3>2. pick[i] \in DOMAIN server[i] \/ (pick[i] = None /\ Crowded(i))
      BY <1>1, <2>2
    <3> QED
      BY <1>1, <1>2, <3>1, <3>2 DEF None
  <2>3. CASE Exists(i) /\ i \notin DOMAIN pick
    <3>1. Found(pick, i) = 1
      BY <2>3 DEF Found
    <3> QED
      BY <1>1, <1>2, <2>3, <3>1 DEF None
  <2> QED
    BY <2>1, <2>2, <2>3
<1>3. ASSUME NEW i \in Items, i \notin Links
      PROVE  /\ FoundRow(o, pick, i) \in Nat
             /\ FoundRow(o, pick, i) \in {None} \cup DOMAIN server[i]
             /\ FoundRow(o, pick, i) = None =>
                  \/ i \in Scoped /\ OrgOf[i] # o
                  \/ i \in Assets /\ Found(pick, TypeOf[i]) = None
                  \/ ~Exists(i) \/ Crowded(i)
  BY <1>1, <1>3, <1>f DEF FoundRow
<1>4. ASSUME NEW l \in Links
      PROVE  /\ FoundLink(o, pick, unlisted, l) \in Nat
             /\ FoundLink(o, pick, unlisted, l) \in {None} \cup DOMAIN server[l]
  <2>1. CASE FoundLink(o, pick, unlisted, l) = None
    BY <1>1, <2>1
  <2>2. CASE FoundLink(o, pick, unlisted, l) # None
    <3>1. FoundLink(o, pick, unlisted, l) = 1 /\ \E n \in DOMAIN server[l] : TRUE
      BY <2>2 DEF FoundLink
    <3>2. l \in Items
      BY DEF Items
    <3>3. 1 \in DOMAIN server[l]
      BY <1>2, <3>1, <3>2
    <3> QED
      BY <1>1, <3>1, <3>3
  <2> QED
    BY <2>1, <2>2
<1>5. known = [i \in Items |-> IF i \in Links THEN FoundLink(o, pick, unlisted, i)
                               ELSE FoundRow(o, pick, i)]
  BY DEF Fetched
<1> HIDE DEF known
<1>6. known \in [Items -> Nat] /\ \A i \in Items : known[i] \in {None} \cup DOMAIN server[i]
  <2>1. ASSUME NEW i \in Items
        PROVE  known[i] \in Nat /\ known[i] \in {None} \cup DOMAIN server[i]
    <3>1. CASE i \in Links
      BY <1>4, <1>5, <2>1, <3>1
    <3>2. CASE i \notin Links
      BY <1>3, <1>5, <2>1, <3>2
    <3> QED
      BY <3>1, <3>2
  <2> QED
    BY <1>5, <2>1
<1>7. \A i \in Types \cup Scoped : i \in Items /\ i \notin Links
  BY Apart DEF Items
<1>8. /\ \A i \in Types : i \notin Scoped /\ i \notin Assets
      /\ \A a \in Assets : TypeOf[a] \in Types
  BY Apart, Named DEF Scoped, Types
<1>9. \A i \in Types : known[i] = Found(pick, i) /\ (known[i] = None => ~Exists(i) \/ Crowded(i))
  BY <1>5, <1>7, <1>8, <1>f DEF FoundRow
<1>10. ASSUME NEW i \in Scoped, OrgOf[i] = o, known[i] = None
       PROVE  \/ ~Exists(i) \/ Crowded(i)
              \/ i \in Assets /\ known[TypeOf[i]] = None /\ Exists(TypeOf[i])
  <2>1. \/ i \in Assets /\ Found(pick, TypeOf[i]) = None
        \/ ~Exists(i) \/ Crowded(i)
    BY <1>3, <1>5, <1>7, <1>10
  <2>2. ASSUME i \in Assets, Exists(i) PROVE Exists(TypeOf[i])
    <3>1. 1 \in DOMAIN server[i] /\ TypeOf[i] \in Items
      BY <1>2, <1>7, <1>8, <2>2
    <3>2. server[i][1].type \in DOMAIN server[TypeOf[i]]
      BY <1>7, <2>2, <3>1 DEF ServerInv, Resolves
    <3> QED
      BY <1>2, <3>1, <3>2 DEF Exists
  <2> QED
    BY <1>8, <1>9, <2>1, <2>2
<1> QED
  BY <1>6, <1>9, <1>10 DEF known

LEMMA BeforeOther == \A i, j : Before(i, j) => i # j
<1> SUFFICES ASSUME NEW i, NEW j, Before(i, j), i = j PROVE FALSE
  OBVIOUS
<1>1. PICK phase \in DOMAIN Rows : \E n \in DOMAIN Rows[phase] : \E m \in 1 .. n - 1 :
        Rows[phase][m] = i /\ Rows[phase][n] = j
  BY DEF Before
<1>2. PICK n \in DOMAIN Rows[phase] : \E m \in 1 .. n - 1 :
        Rows[phase][m] = i /\ Rows[phase][n] = j
  BY <1>1
<1>3. PICK m \in 1 .. n - 1 : Rows[phase][m] = i /\ Rows[phase][n] = j
  BY <1>2
<1>4. /\ Rows[phase] \in Seq(Sheets[phase])
      /\ \A k, l \in DOMAIN Rows[phase] : Rows[phase][k] = Rows[phase][l] => k = l
  BY ExportAssumption
<1>5. n \in 1 .. Len(Rows[phase]) /\ Len(Rows[phase]) \in Nat
  BY <1>4
<1>6. m \in DOMAIN Rows[phase] /\ m # n
  BY <1>4, <1>5
<1> QED
  BY <1>4, <1>6, <1>3

\* What is missing of a row is planned or passed over.
LEMMA Planned ==
  ASSUME NEW o, NEW t, NEW i \in Scoped, OrgOf[i] = o, t.known[i] = None
  PROVE  PassedOver(i) \/ \E n \in 5 .. 10 : i \in Plan(o, t)[n]
<1>1. /\ Plan(o, t)[5] = Missing(t, RowsOf(o, Locations))
      /\ Plan(o, t)[6] = Missing(t, RowsOf(o, Configs))
      /\ Plan(o, t)[7] = Missing(t, RowsOf(o, Assets))
      /\ Plan(o, t)[8] = Missing(t, FirstOfName(RowsOf(o, Docs)))
      /\ Plan(o, t)[9] = Missing(t, Plain(RowsOf(o, Passwords)))
      /\ Plan(o, t)[10] = Missing(t, RowPasswords(o))
  BY PlanAt
<1>2. CASE i \in Locations
  <2>1. i \in Missing(t, RowsOf(o, Locations))
    BY <1>2 DEF Missing, RowsOf
  <2> QED
    BY <1>1, <2>1
<1>3. CASE i \in Configs
  <2>1. i \in Missing(t, RowsOf(o, Configs))
    BY <1>3 DEF Missing, RowsOf
  <2> QED
    BY <1>1, <2>1
<1>4. CASE i \in Assets
  <2>1. i \in Missing(t, RowsOf(o, Assets))
    BY <1>4 DEF Missing, RowsOf
  <2> QED
    BY <1>1, <2>1
<1>5. CASE i \in Docs
  <2>1. i \in RowsOf(o, Docs)
    BY <1>5 DEF RowsOf
  <2>2. CASE i \in FirstOfName(RowsOf(o, Docs))
    <3>1. i \in Missing(t, FirstOfName(RowsOf(o, Docs)))
      BY <2>2 DEF Missing
    <3> QED
      BY <1>1, <3>1
  <2>3. CASE i \notin FirstOfName(RowsOf(o, Docs))
    <3>1. PICK e \in RowsOf(o, Docs) : Before(e, i) /\ NameOf[e] = NameOf[i]
      BY <2>1, <2>3 DEF FirstOfName
    <3>2. e \in Docs \ {i} /\ OrgOf[e] = OrgOf[i]
      BY <3>1, BeforeOther DEF RowsOf
    <3> QED
      BY <1>5, <3>1, <3>2 DEF PassedOver
  <2> QED
    BY <2>2, <2>3
<1>6. CASE i \in Passwords
  <2>1. i \in RowsOf(o, Passwords)
    BY <1>6 DEF RowsOf
  <2>2. CASE "cell" \in Kinds(i)
    BY <1>6, <2>2 DEF PassedOver
  <2>3. CASE "row" \in Kinds(i)
    <3>1. i \in Missing(t, RowPasswords(o))
      BY <2>1, <2>3 DEF Missing, RowPasswords
    <3> QED
      BY <1>1, <3>1
  <2>4. CASE "cell" \notin Kinds(i) /\ "row" \notin Kinds(i)
    <3>1. i \in Missing(t, Plain(RowsOf(o, Passwords)))
      <4>1. i \in Plain(RowsOf(o, Passwords))
        BY <2>1, <2>4 DEF Plain
      <4> QED
        BY <4>1 DEF Missing
    <3> QED
      BY <1>1, <3>1
  <2> QED
    BY <2>2, <2>3, <2>4
<1> QED
  BY <1>2, <1>3, <1>4, <1>5, <1>6 DEF Scoped

\* And nothing that is there is planned.
LEMMA PlannedMissing ==
  ASSUME NEW o, NEW t, NEW n \in 2 .. 10, NEW i \in Plan(o, t)[n]
  PROVE  t.known[i] = None /\ (i \in Types \/ (i \in Scoped /\ OrgOf[i] = o))
<1>1. \A rows : Missing(t, rows) \subseteq rows /\ \A j \in Missing(t, rows) : t.known[j] = None
  BY DEF Missing
<1>2. \A class : /\ RowsOf(o, class) \subseteq class /\ TypesOf(o, class) \subseteq class
                 /\ \A j \in RowsOf(o, class) : OrgOf[j] = o
  BY DEF RowsOf, TypesOf
<1>3. /\ FirstOfName(RowsOf(o, Docs)) \subseteq RowsOf(o, Docs)
      /\ Plain(RowsOf(o, Passwords)) \subseteq RowsOf(o, Passwords)
      /\ RowPasswords(o) \subseteq RowsOf(o, Passwords)
  BY DEF FirstOfName, Plain, RowPasswords
<1>4. CASE n = 2
  BY <1>1, <1>2, <1>4, PlanAt DEF Types
<1>5. CASE n = 3
  BY <1>1, <1>2, <1>5, PlanAt DEF Types
<1>6. CASE n = 4
  BY <1>1, <1>2, <1>6, PlanAt DEF Types
<1>7. CASE n = 5
  BY <1>1, <1>2, <1>7, PlanAt DEF Scoped
<1>8. CASE n = 6
  BY <1>1, <1>2, <1>8, PlanAt DEF Scoped
<1>9. CASE n = 7
  BY <1>1, <1>2, <1>9, PlanAt DEF Scoped
<1>10. CASE n = 8
  BY <1>1, <1>2, <1>3, <1>10, PlanAt DEF Scoped
<1>11. CASE n = 9
  BY <1>1, <1>2, <1>3, <1>11, PlanAt DEF Scoped
<1>12. CASE n = 10
  BY <1>1, <1>2, <1>3, <1>12, PlanAt DEF Scoped
<1> QED
  BY <1>4, <1>5, <1>6, <1>7, <1>8, <1>9, <1>10, <1>11, <1>12

LEMMA FetchedSane ==
  ASSUME SyncInv, ServerInv, UNCHANGED server, faults' \in Nat, faults' >= faults,
         sync.at = "fetch", NEW t, NEW s,
         \A i \in Items : t.known[i] \in {None} \cup DOMAIN server[i],
         \A i \in Types : t.known[i] = None => ~Exists(i) \/ Crowded(i),
         \A i \in Scoped : OrgOf[i] = Present /\ t.known[i] = None =>
           \/ ~Exists(i) \/ Crowded(i)
           \/ i \in Assets /\ t.known[TypeOf[i]] = None /\ Exists(TypeOf[i]),
         s.known = t.known, s.made = sync.made, s.failed <=> sync.failed,
         s.before = sync.before
  PROVE  Sane(s, [n \in 1 .. 12 |-> Plan(Present, t)[n]])
<1> DEFINE left == [n \in 1 .. 12 |-> Plan(Present, t)[n]]
<1>1. \A n \in 1 .. 12 : left[n] = Plan(Present, t)[n]
  OBVIOUS
<1> HIDE DEF left
<1>2. \A i \in Items : /\ s.known[i] \in {None} \cup DOMAIN server'[i]
                       /\ s.made[i] \in {None} \cup DOMAIN server'[i]
  BY DEF SyncInv, Known
<1>3. \A i : Exists(i)' <=> Exists(i)
  BY DEF Exists
<1>m. ASSUME NEW i \in Types \cup Scoped, t.known[i] = None, i \in Scoped => OrgOf[i] = Present
      PROVE  Missed(s, i)
  <2>1. \A j : (There(j) <=> Exists(j)) /\ (Crowded(j)' <=> Crowded(j))
    BY CrowdedAsBefore DEF There, Exists
  <2> QED
    BY <1>m, <2>1 DEF Missed
<1>4. ASSUME NEW n \in 2 .. 10, NEW i \in left[n] PROVE Missed(s, i)
  <2>1. i \in Plan(Present, t)[n]
    BY <1>1, <1>4
  <2>2. t.known[i] = None /\ (i \in Types \/ (i \in Scoped /\ OrgOf[i] = Present))
    BY <2>1, PlannedMissing
  <2> QED
    BY <1>m, <2>2, Apart
<1>5. s.failed => s.before < faults' \/ Crowding'
  <2>1. sync.failed => sync.before < faults \/ Crowding
    BY DEF SyncInv, SyncTyped
  <2>2. sync.before \in Nat /\ faults \in Nat
    BY DEF SyncInv, SyncTyped, SyncT, ServerInv, ServerTyped
  <2>3. Crowding => Crowding'
    BY CrowdedAsBefore DEF Crowding, Types
  <2> QED
    BY <2>1, <2>2, <2>3
<1>6. ASSUME NEW i \in Scoped, OrgOf[i] = Present
      PROVE  /\ Exists(i)' \/ PassedOver(i) \/ \E n \in 5 .. 10 : i \in left[n]
             /\ Uuid(s, i) # None \/ Missed(s, i)
  <2>1. CASE t.known[i] # None
    <3>1. t.known[i] \in DOMAIN server[i] /\ server[i] \in Seq(RowT(i))
      BY <2>1, ItemSeqs DEF Items, ServerInv
    <3>2. Exists(i)
      BY <3>1 DEF Exists
    <3> QED
      BY <1>3, <2>1, <3>2 DEF Uuid
  <2>2. CASE t.known[i] = None
    <3>1. PassedOver(i) \/ \E n \in 5 .. 10 : i \in Plan(Present, t)[n]
      BY <1>6, <2>2, Planned
    <3>2. Missed(s, i)
      BY <1>6, <1>m, <2>2
    <3> QED
      BY <1>1, <3>1, <3>2
  <2> QED
    BY <2>1, <2>2
<1>7. ASSUME NEW a \in Assets, OrgOf[a] = Present
      PROVE  s.known[TypeOf[a]] # None \/ TypeOf[a] \in left[4]
  <2>1. TypeOf[a] \in TypesOf(Present, AssetTypes)
    BY <1>7, Named DEF TypesOf
  <2>2. left[4] = Missing(t, TypesOf(Present, AssetTypes))
    BY <1>1, PlanAt
  <2> QED
    BY <2>1, <2>2 DEF Missing
<1>8. ASSUME NEW l \in Links, Linked(Present, l) PROVE Exists(l)' \/ l \in left[12]
  <2>1. left[12] = Missing(t, Bridges(Present)) /\ l \in Bridges(Present)
    BY <1>1, <1>8, PlanAt DEF Bridges, LinksOf, Linked
  <2>2. l \in Items
    BY DEF Items
  <2>3. CASE t.known[l] = None
    BY <2>1, <2>3 DEF Missing
  <2>4. CASE t.known[l] # None
    <3>1. t.known[l] \in DOMAIN server[l]
      BY <2>2, <2>4
    <3> QED
      BY <1>3, <3>1 DEF Exists
  <2> QED
    BY <2>3, <2>4
<1> QED
  BY <1>2, <1>4, <1>5, <1>6, <1>7, <1>8 DEF Sane, left

LEMMA SyncFetches ==
  ASSUME SyncInv, ServerInv, FetchForOrg
  PROVE  Proceeds
<1>1. /\ sync.at = "fetch" /\ sync.orgs # <<>> /\ Leave /\ UNCHANGED <<hidden, jobs>>
      /\ Head(sync.orgs) = Present
  BY ZenonT(30) DEF FetchForOrg, Leave, Present
<1>2. CASE Present \notin sync.found /\ sync' = [sync EXCEPT !.orgs = Tail(@)] /\ Still
  BY <1>1, <1>2, SyncNotFound
<1>3. CASE Abort
  BY <1>1, <1>3, SyncAborts DEF Syncing
<1>4. ASSUME Present \in sync.found, UNCHANGED server,
             NEW pick \in Picks(Present),
             NEW unlisted \in {{}} \cup {{p} : p \in Passwords}, NEW known, NEW seen,
             known = Fetched(Present, pick, unlisted),
             seen = [sync EXCEPT !.known = known, !.step = 0,
                                 !.edited = {i \in Scoped : /\ known[i] # None
                                                            /\ server[i][known[i]].text = "edited"}],
             faults' = faults + Cardinality(unlisted),
             sync' = Onto([seen EXCEPT !.plan = Plan(Present, seen)])
      PROVE  Proceeds
  <2>1. /\ SyncTyped /\ sync \in SyncT /\ jobs >= 1 /\ sync.code = "none" /\ faults \in Nat
        /\ Present \in Orgs
    BY <1>1, Rotates DEF SyncInv, SyncTyped, ServerInv, ServerTyped
  <2>2. faults' \in Nat /\ faults' >= faults
    <3>1. CASE unlisted = {}
      BY <1>4, <2>1, <3>1, FS_EmptySet
    <3>2. ASSUME NEW p, unlisted = {p} PROVE Cardinality(unlisted) = 1
      BY <3>2, FS_Singleton
    <3> QED
      BY <1>4, <2>1, <3>1, <3>2
  <2>3. Served
    BY <1>1, <1>4, <2>2, StillServed
  <2>4. /\ known \in [Items -> Nat]
        /\ \A i \in Items : known[i] \in {None} \cup DOMAIN server[i]
        /\ \A i \in Types : known[i] = None => ~Exists(i) \/ Crowded(i)
        /\ \A i \in Scoped : OrgOf[i] = Present /\ known[i] = None =>
             \/ ~Exists(i) \/ Crowded(i)
             \/ i \in Assets /\ known[TypeOf[i]] = None /\ Exists(TypeOf[i])
    BY <1>4, <2>1, Finds
  <2> DEFINE edited == {i \in Scoped : known[i] # None /\ server[i][known[i]].text = "edited"}
             plan16 == Plan(Present, seen)
             s == [seen EXCEPT !.plan = plan16]
  <2>5. seen = [sync EXCEPT !.known = known, !.step = 0, !.edited = edited]
    BY <1>4
  <2>6. edited \subseteq Scoped
    OBVIOUS
  <2> HIDE DEF edited
  <2>7. /\ seen \in SyncT /\ seen.known = known /\ seen.step = 0 /\ seen.at = "fetch"
        /\ seen.orgs = sync.orgs /\ seen.asked = sync.asked /\ seen.found = sync.found
        /\ seen.made = sync.made /\ seen.failed = sync.failed /\ seen.before = sync.before
        /\ seen.code = sync.code /\ seen.update = sync.update
    <3>1. 0 \in 0 .. 16
      OBVIOUS
    <3>2. seen \in SyncT
      BY <2>1, <2>4, <2>5, <2>6, <3>1 DEF SyncT
    <3> QED
      BY <1>1, <2>1, <2>5, <3>2 DEF SyncT
  <2>8. /\ plan16 \in [1 .. 16 -> SUBSET Items]
        /\ \A n \in 1 .. 16 : plan16[n] \subseteq Shape(Present)[n]
    BY <2>1, PlanShape
  <2>9. sync' = Onto(s)
    BY <1>4
  <2>10. Sane(seen, [n \in 1 .. 12 |-> Plan(Present, seen)[n]])
    BY <1>1, <1>4, <2>2, <2>4, <2>7, FetchedSane
  <2>11. s \in SyncT /\ s.plan = plan16
    <3> HIDE DEF plan16
    <3> QED
      BY <2>7, <2>8 DEF SyncT
  <2>12. /\ s.known = known /\ s.step = 0 /\ s.at = "fetch"
         /\ s.orgs = sync.orgs /\ s.asked = sync.asked /\ s.found = sync.found
         /\ s.made = sync.made /\ s.failed = sync.failed /\ s.before = sync.before
         /\ s.code = sync.code /\ s.update = sync.update
    <3> HIDE DEF plan16
    <3> QED
      BY <2>7 DEF SyncT
  <2> DEFINE left == [n \in 1 .. 12 |-> plan16[n]]
  <2>13. Sane(s, left)
    <3>1. Sane(seen, left)
      BY <2>10
    <3> HIDE DEF left, s, plan16
    <3> QED
      BY <2>7, <2>12, <3>1 DEF Sane, Uuid, Missed
  <2>14. \A n \in 1 .. 12 : left[n] = plan16[n]
    OBVIOUS
  <2> HIDE DEF left, s, plan16
  <2>15. Aside(s)
    <3>1. ~sync.failed => Exists(Present)
      BY <1>4 DEF SyncInv, Known
    <3>2. Lasting /\ \A i : Exists(i)' <=> Exists(i)
      BY <1>4, <2>3 DEF Served, Exists
    <3> QED
      BY <1>1, <2>2, <2>11, <2>12, <3>1, <3>2 DEF Aside
  <2>16. Goes(s, left)
    <3>1. /\ sync' \in SyncT /\ Remembers(sync', s)
          /\ \/ /\ sync'.at = "fetch" /\ sync'.orgs = Tail(s.orgs) /\ sync'.made = Nothing
                /\ \A n \in 1 .. 12 : n > s.step => s.plan[n] = {}
             \/ /\ sync'.at = "row" /\ sync'.orgs = s.orgs /\ sync'.made = s.made
                /\ sync'.plan = s.plan /\ sync'.step \in 1 .. 16 /\ sync'.step > s.step
                /\ sync'.todo = s.plan[sync'.step] /\ sync'.todo # {}
                /\ sync'.step > 12 => s.update
                /\ \A n \in 1 .. 12 : n > s.step /\ n < sync'.step => s.plan[n] = {}
      <4>1. s.at # "create" /\ s.orgs # <<>> /\ s.plan \in [1 .. 16 -> SUBSET Items]
        BY <1>1, <2>8, <2>11, <2>12
      <4>2. /\ Onto(s) \in SyncT /\ Remembers(Onto(s), s)
            /\ \/ /\ Onto(s).at = "fetch" /\ Onto(s).orgs = Tail(s.orgs) /\ Onto(s).made = Nothing
                  /\ \A n \in 1 .. 12 : n > s.step => s.plan[n] = {}
               \/ /\ Onto(s).at = "row" /\ Onto(s).orgs = s.orgs /\ Onto(s).made = s.made
                  /\ Onto(s).plan = s.plan /\ Onto(s).step \in 1 .. 16 /\ Onto(s).step > s.step
                  /\ Onto(s).todo = s.plan[Onto(s).step] /\ Onto(s).todo # {}
                  /\ Onto(s).step > 12 => s.update
                  /\ \A n \in 1 .. 12 : n > s.step /\ n < Onto(s).step => s.plan[n] = {}
        BY <2>11, <4>1, OntoNext
      <4> QED
        BY <2>9, <4>2
    <3>2. CASE sync'.at = "fetch"
      <4>1. \A n \in 1 .. 12 : left[n] = {}
        BY <2>11, <2>12, <2>14, <3>1, <3>2
      <4> QED
        BY <3>1, <3>2, <4>1 DEF Goes
    <3>3. CASE sync'.at = "row"
      <4>1. ASSUME NEW n \in 1 .. 12 PROVE Ahead(n)' = left[n]
        <5>1. /\ sync'.plan = plan16 /\ sync'.todo = plan16[sync'.step]
              /\ sync'.step \in 1 .. 16
              /\ n < sync'.step => plan16[n] = {}
          BY <2>11, <2>12, <3>1, <3>3
        <5>2. Ahead(n)' = IF n = sync'.step THEN plan16[sync'.step]
                          ELSE IF n > sync'.step THEN plan16[n] ELSE {}
          BY <3>3, <5>1 DEF Ahead
        <5>3. CASE n = sync'.step
          BY <2>14, <5>2, <5>3
        <5>4. CASE n > sync'.step
          BY <2>14, <5>1, <5>2, <5>4
        <5>5. CASE n < sync'.step
          BY <2>14, <5>1, <5>2, <5>5
        <5> QED
          BY <5>1, <5>3, <5>4, <5>5
      <4>2. /\ sync'.plan \in [1 .. 16 -> SUBSET Items]
            /\ \A n \in 1 .. 16 : sync'.plan[n] \subseteq Shape(Head(s.orgs))[n]
            /\ sync'.step >= s.step /\ sync'.todo \subseteq sync'.plan[sync'.step]
        <5>1. sync'.plan = plan16 /\ Head(s.orgs) = Present /\ s.step = 0
          BY <1>1, <2>11, <2>12, <3>1, <3>3
        <5>2. sync'.todo = sync'.plan[sync'.step] /\ sync'.step \in 1 .. 16
          BY <2>11, <3>1, <3>3, <5>1
        <5>3. \A n \in 1 .. 16 : sync'.plan[n] \subseteq Shape(Head(s.orgs))[n]
          BY <2>8, <5>1
        <5> QED
          BY <2>8, <5>1, <5>2, <5>3
      <4>3. Working'
        BY <3>3 DEF Working
      <4> QED
        BY <3>1, <3>3, <4>1, <4>2, <4>3 DEF Goes
    <3> QED
      BY <3>1, <3>2, <3>3
  <2>17. SyncInv'
    BY <2>3, <2>13, <2>15, <2>16, GoesOn DEF Served
  <2>18. sync'.code = "none"
    BY <2>1, <2>12, <2>16 DEF Goes, Remembers
  <2> QED
    BY <2>3, <2>17, <2>18 DEF Proceeds
<1> QED
  BY <1>1, <1>2, <1>3, <1>4, ZenonT(30) DEF FetchForOrg

LEMMA SyncSteps ==
  ASSUME SyncInv, ServerInv, SyncStep
  PROVE  Proceeds
<1>1. Advances => Proceeds
  BY DEF Advances, Proceeds
<1>2. CASE FetchAllOrgs
  BY <1>2, SyncLists
<1>3. CASE FetchForOrg
  BY <1>3, SyncFetches
<1>4. CASE SyncEnd
  BY <1>4, SyncEnds
<1>5. CASE ExecuteOrganizations
  <2>1. sync.at = "create" \/ Doing("organizations")
    BY <1>5 DEF ExecuteOrganizations
  <2> QED
    BY <1>1, <1>5, <2>1, SyncCreatesOrganization, SyncOrganization
<1>6. CASE ExecuteConfigTypes \/ ExecuteConfigStatuses \/ ExecuteCustomAssetTypes
  BY <1>1, <1>6, SyncTypes
<1>7. CASE \/ ExecuteLocations \/ ExecuteConfigurations \/ ExecuteCustomAssets
           \/ ExecuteDocuments \/ ExecutePasswords
  BY <1>1, <1>7, SyncRows
<1>8. CASE ExecuteRowPasswords
  BY <1>1, <1>8, SyncRowPassword
<1>9. CASE \/ LinkRowPassword \/ ExecuteRelationships \/ ExecuteCellWrites
           \/ UpdateConfiguration \/ UpdateLocation \/ UpdateDocument \/ UpdatePassword
  BY <1>1, <1>9, SyncWrites
<1>10. CASE UploadAttachments
  BY <1>1, <1>10, SyncUploads
<1>11. CASE Kill
  BY <1>11, SyncKilled
<1> QED
  BY <1>2, <1>3, <1>4, <1>5, <1>6, <1>7, <1>8, <1>9, <1>10, <1>11 DEF SyncStep
-----------------------------------------------------------------------------
(***************************************************************************)
(* What a run and a user mean for a sync.                                  *)
(***************************************************************************)
\* A run only adds rows and puts files.
Adds ==
  /\ faults' \in Nat /\ faults' >= faults
  /\ \A i \in Scoped : \A n \in DOMAIN server[i] : server'[i][n].text = server[i][n].text
  /\ \A i \in Items : DOMAIN server[i] \subseteq DOMAIN server'[i]

LEMMA PostAdds ==
  ASSUME ServerInv, NEW i, NEW row, NEW answer, Post(i, row, answer)
  PROVE  Adds
<1>1. faults' \in Nat /\ faults' >= faults
  BY DEF Post, ServerInv, ServerTyped
<1>2. CASE server' = server
  BY <1>1, <1>2 DEF Adds
<1>3. CASE server' = [server EXCEPT ![i] = Append(server[i], row)]
  <2>1. ASSUME NEW j \in Scoped, NEW n \in DOMAIN server[j]
        PROVE  server'[j][n] = server[j][n]
    <3>1. j \in Items /\ server[j] \in Seq(CopyT)
      BY Apart DEF ServerInv, ServerTyped, Items
    <3>2. CASE j # i
      BY <1>3, <3>1, <3>2
    <3>3. CASE j = i
      <4>1. server'[j] = Append(server[j], row)
        BY <1>3, <3>1, <3>3 DEF ServerInv, ServerTyped
      <4> QED
        BY <3>1, <4>1
    <3> QED
      BY <3>2, <3>3
  <2>2. ASSUME NEW j \in Items PROVE DOMAIN server[j] \subseteq DOMAIN server'[j]
    <3>1. server[j] \in Seq(RowT(j)) /\ server \in [Items -> Seq(CopyT) \cup Seq(LinkT)]
      BY ItemSeqs DEF ServerInv, ServerTyped
    <3>2. CASE j # i
      BY <1>3, <3>1, <3>2
    <3>3. CASE j = i
      <4>1. server'[j] = Append(server[j], row)
        BY <1>3, <3>1, <3>3
      <4> QED
        BY <3>1, <4>1
    <3> QED
      BY <3>2, <3>3
  <2> QED
    BY <1>1, <2>1, <2>2 DEF Adds
<1> QED
  BY <1>2, <1>3 DEF Post

LEMMA KeepAdds ==
  ASSUME ServerInv, UNCHANGED server, faults' \in {faults, faults + 1}
  PROVE  Adds
BY DEF Adds, ServerInv, ServerTyped

LEMMA AttachAdds ==
  ASSUME ServerInv, NEW i, NEW u, NEW file, Attach(i, u, file)
  PROVE  Adds
<1>1. /\ faults' \in Nat /\ faults' >= faults
      /\ server' = [server EXCEPT ![i][u].file = file]
  BY DEF Attach, ServerInv, ServerTyped
<1>2. ASSUME NEW j \in Scoped, NEW n \in DOMAIN server[j]
      PROVE  server'[j][n].text = server[j][n].text
  <2>1. j \in Items /\ server[j] \in Seq(CopyT) /\ server[j][n] \in CopyT
    <3>1. j \in Items /\ server[j] \in Seq(CopyT)
      BY Apart DEF ServerInv, ServerTyped, Items
    <3> QED
      BY <3>1
  <2>2. CASE j # i
    BY <1>1, <2>1, <2>2
  <2>3. CASE j = i
    <3>1. server'[j] = [server[j] EXCEPT ![u].file = file]
      BY <1>1, <2>1, <2>3 DEF ServerInv, ServerTyped
    <3>2. CASE n # u
      BY <2>1, <3>1, <3>2
    <3>3. CASE n = u
      <4>1. server'[j][n] = [server[j][n] EXCEPT !.file = file]
        BY <2>1, <3>1, <3>3
      <4> QED
        BY <2>1, <4>1 DEF CopyT
    <3> QED
      BY <3>2, <3>3
  <2> QED
    BY <2>2, <2>3
<1>3. ASSUME NEW j \in Items PROVE DOMAIN server'[j] = DOMAIN server[j]
  <2>1. server'[j] \in {server[j], [server[j] EXCEPT ![u].file = file]}
    BY <1>1 DEF ServerInv, ServerTyped
  <2> QED
    BY <2>1
<1> QED
  BY <1>1, <1>2, <1>3 DEF Adds

LEMMA RunAdds ==
  ASSUME ServerInv, MigrationStep \/ MigrationStart
  PROVE  Adds
<1>1. Keep => Adds
  BY KeepAdds DEF Keep
<1>2. \A r, refs, row : Create(r, refs, row) => Adds
  BY <1>1, PostAdds DEF Create, Refused
<1>3. \A r : DryRun(r) => Adds
  BY <1>1 DEF DryRun
<1>4. \A needs, r, refs, row : Entity(needs, r, refs, row) => Adds
  BY <1>1, <1>2, <1>3 DEF Entity, Skip, Unmapped
<1>5. CASE MigrateOrganizations
  BY <1>1, <1>2, <1>3, <1>5 DEF MigrateOrganizations, Skip
<1>6. CASE \/ MigrateLocations \/ MigrateConfigurations \/ MigrateCustomAssets
           \/ MigratePasswords
  BY <1>4, <1>6 DEF MigrateLocations, MigrateConfigurations, MigrateCustomAssets,
         MigratePasswords
<1>7. CASE MigrateConfigurationTypes \/ MigrateCustomAssetTypes
  BY <1>1, <1>7, PostAdds DEF MigrateConfigurationTypes, MigrateCustomAssetTypes, MigrateTypes
<1>8. CASE MigrateDocuments
  BY <1>1, <1>2, <1>3, <1>8 DEF MigrateDocuments, Skip, Unmapped
<1>9. CASE MigrateRelationships
  BY <1>1, <1>9, PostAdds DEF MigrateRelationships
<1>10. CASE ListTypes
  <2>1. UNCHANGED server /\ (faults' = faults \/ faults' = faults + 1)
    BY <1>10, ZenonT(30) DEF ListTypes
  <2> QED
    BY <2>1, KeepAdds
<1>11. CASE UploadEntityAttachments
  BY <1>1, <1>11, AttachAdds DEF UploadEntityAttachments
<1>12. CASE LeaveOut \/ FinishPhase \/ SaveState \/ SaveMap
  BY <1>1, <1>12 DEF LeaveOut, FinishPhase, SaveState, SaveMap
<1>13. CASE Die
  BY <1>13, KeepAdds DEF Die
<1>14. CASE MigrationStart
  <2>1. UNCHANGED <<server, faults>>
    BY <1>14, ZenonT(30) DEF MigrationStart, Preview, Start
  <2> QED
    BY <2>1, KeepAdds
<1> QED
  BY <1>5, <1>6, <1>7, <1>8, <1>9, <1>10, <1>11, <1>12, <1>13, <1>14 DEF MigrationStep

LEMMA SyncRests ==
  ASSUME SyncInv, ServerInv, ServerInv', sync.at = "idle", UNCHANGED sync, Adds
  PROVE  SyncInv'
<1>1. sync.failed \/ sync.code = "failures" => sync.before < faults' \/ Crowding'
  <2>1. sync.before \in Nat /\ faults \in Nat /\ faults' \in Nat /\ faults' >= faults
    BY DEF SyncInv, SyncTyped, SyncT, ServerInv, ServerTyped, Adds
  <2>2. sync.failed \/ sync.code = "failures" => sync.before < faults \/ Crowding
    BY DEF SyncInv, SyncTyped
  <2>3. Crowding => Crowding'
    <3>1. \A i \in Items : Crowded(i) => Crowded(i)'
      BY CrowdedGrows DEF Adds, ServerInv
    <3>2. Types \subseteq Items
      BY DEF Items
    <3> QED
      BY <3>1, <3>2 DEF Crowding, Types
  <2> QED
    BY <2>1, <2>2, <2>3
<1>2. SyncTyped'
  BY <1>1 DEF SyncInv, SyncTyped, Working
<1>3. Known'
  <2>1. sync.known = Nothing /\ sync.made = Nothing /\ sync.found = {}
    BY DEF SyncInv, SyncTyped
  <2> QED
    BY <2>1, NothingKnown
<1>4. Complete'
  BY DEF Complete
<1> QED
  BY <1>2, <1>3, <1>4 DEF SyncInv

\* A user may disable an organization or edit a row while a sync goes on.
LEMMA UserServes ==
  ASSUME ServerInv, UserNext
  PROVE  /\ Settled /\ hidden \subseteq hidden' /\ jobs' \in 0 .. MaxJobs /\ jobs' >= jobs
         /\ faults' = faults
         /\ \A i \in Items \ Links : \A n \in DOMAIN server[i] :
              /\ server'[i][n].file = server[i][n].file
              /\ server[i][n].text = "edited" => server'[i][n].text = "edited"
<1>1. jobs \in 0 .. MaxJobs /\ MaxJobs \in Nat /\ faults \in Nat
  BY BoundsAssumption DEF ServerInv, ServerTyped
<1>2. ASSUME NEW o \in Orgs, Disable(o)
      PROVE  /\ Settled /\ hidden \subseteq hidden' /\ jobs' \in 0 .. MaxJobs /\ jobs' >= jobs
             /\ UNCHANGED <<server, faults>>
  <2>1. /\ jobs < MaxJobs /\ jobs' = jobs + 1 /\ hidden \subseteq hidden'
        /\ UNCHANGED <<server, faults>>
    BY <1>2 DEF Disable
  <2>2. jobs' \in 0 .. MaxJobs /\ jobs' >= jobs /\ faults' \in Nat
    BY <1>1, <2>1
  <2> QED
    BY <2>1, <2>2, NothingCreated DEF ServerInv
<1>3. ASSUME NEW i \in Scoped, Edit(i)
      PROVE  /\ Settled /\ hidden' = hidden /\ jobs' \in 0 .. MaxJobs /\ jobs' >= jobs
             /\ faults' = faults
             /\ \A j \in Items \ Links : \A n \in DOMAIN server[j] :
                  /\ server'[j][n].file = server[j][n].file
                  /\ server[j][n].text = "edited" => server'[j][n].text = "edited"
  <2>1. /\ jobs < MaxJobs /\ jobs' = jobs + 1 /\ UNCHANGED <<hidden, faults>>
        /\ server' = [server EXCEPT ![i][1].text = "edited"]
    BY <1>3 DEF Edit
  <2>2. jobs' \in 0 .. MaxJobs /\ jobs' >= jobs /\ faults' \in Nat
    BY <1>1, <2>1
  <2>3. i \in Items \ Links /\ "edited" \in Texts
    BY Apart DEF Items, Texts
  <2>4. Settled
    BY <2>1, <2>2, <2>3, TextChanged DEF ServerInv
  <2>5. ASSUME NEW j \in Items \ Links, NEW n \in DOMAIN server[j]
        PROVE  /\ server'[j][n].file = server[j][n].file
               /\ server[j][n].text = "edited" => server'[j][n].text = "edited"
    <3>1. server[j] \in Seq(CopyT) /\ server[j][n] \in CopyT
      BY DEF ServerInv, ServerTyped
    <3>2. CASE j # i
      BY <2>1, <3>2
    <3>3. CASE j = i
      <4>1. server'[j] = [server[j] EXCEPT ![1].text = "edited"]
        BY <2>1, <2>3, <3>3 DEF ServerInv, ServerTyped
      <4>2. CASE n # 1
        BY <3>1, <4>1, <4>2
      <4>3. CASE n = 1
        <5>1. server'[j][n] = [server[j][n] EXCEPT !.text = "edited"]
          BY <3>1, <4>1, <4>3
        <5> QED
          BY <3>1, <5>1 DEF CopyT
      <4> QED
        BY <4>2, <4>3
    <3> QED
      BY <3>2, <3>3
  <2> QED
    BY <2>1, <2>2, <2>4, <2>5
<1> QED
  BY <1>2, <1>3 DEF UserNext

LEMMA MissableHolds ==
  ASSUME NEW i \in Items, Missable(i), sync' = sync,
         \A j \in Items : Exists(j)' <=> Exists(j), \A j \in Items : Crowded(j) => Crowded(j)'
  PROVE  Missable(i)'
<1>1. CASE ~Exists(i) \/ Crowded(i)
  BY <1>1 DEF Missable
<1>2. CASE i \in Assets /\ sync.known[TypeOf[i]] = None /\ Exists(TypeOf[i])
  <2>1. TypeOf[i] \in Items
    BY <1>2, Named DEF Items, Types
  <2>2. Exists(TypeOf[i])'
    BY <1>2, <2>1
  <2> QED
    BY <1>2, <2>2 DEF Missable
<1> QED
  BY <1>1, <1>2 DEF Missable

\* To a sync at work it is all the same.
LEMMA SyncHolds ==
  ASSUME SyncInv, ServerInv, UNCHANGED <<sync, faults>>, Settled, hidden \subseteq hidden',
         jobs' \in 0 .. MaxJobs, jobs' >= jobs,
         \A i \in Items \ Links : \A n \in DOMAIN server[i] :
           server'[i][n].file = server[i][n].file
  PROVE  SyncInv'
<1>1. sync' = sync /\ faults' = faults
  OBVIOUS
<1>2. /\ \A i \in Items : DOMAIN server'[i] = DOMAIN server[i]
      /\ \A i \in Items : Exists(i)' <=> Exists(i)
      /\ \A i \in Items : Crowded(i) => Crowded(i)'
  BY <1>1, SameCopies, CrowdedStays DEF ServerInv, Settled
<1>3. SyncTyped'
  <2>1. sync.at # "idle" => jobs' >= 1
    BY <1>1 DEF SyncInv, SyncTyped, ServerInv, ServerTyped
  <2>2. /\ sync.failed \/ sync.code = "failures" => sync.before < faults' \/ Crowding'
        /\ sync.at # "idle" => sync.before <= faults' /\ sync.code = "none"
    <3>1. Crowding => Crowding'
      BY CrowdingStays DEF ServerInv, Settled
    <3> QED
      BY <1>1, <3>1 DEF SyncInv, SyncTyped
  <2>3. /\ Working' <=> Working
        /\ \A n \in 1 .. 16 : Shape(Present)[n]' = Shape(Present)[n]
    BY <1>1 DEF Working, Present, Shape, RowsOf, Plain, Kinds, RowPasswords, Cells, LinksOf
  <2>4. Working => /\ sync.orgs # <<>> /\ sync.plan \in [1 .. 16 -> SUBSET Items]
                   /\ \A n \in 1 .. 16 : sync.plan[n] \subseteq Shape(Present)[n]'
                   /\ sync.step \in 1 .. 16 /\ sync.todo # {}
                   /\ sync.todo \subseteq sync.plan[sync.step]
                   /\ sync.step > 12 => sync.update
    BY <2>3 DEF SyncInv, SyncTyped
  <2> QED
    BY <1>1, <2>1, <2>2, <2>3, <2>4 DEF SyncInv, SyncTyped
<1>4. Known'
  <2>1. \A i \in Items : /\ sync.known[i] \in {None} \cup DOMAIN server'[i]
                         /\ sync.made[i] \in {None} \cup DOMAIN server'[i]
    BY <1>2 DEF SyncInv, Known
  <2>2. ASSUME sync.at = "upload"
        PROVE  sync.made[Item] # None /\ server'[Item][sync.made[Item]].file # "stored"
    <3>1. /\ sync.made[Item] # None /\ server[Item][sync.made[Item]].file # "stored"
          /\ sync.made[Item] \in {None} \cup DOMAIN server[Item]
          /\ Item \in Scoped /\ Item \in Items
      <4>1. Working /\ sync.step \in 5 .. 10
        BY <2>2 DEF Working, SyncInv, SyncTyped
      <4> QED
        BY <2>2, <4>1, AtItem, ItemSheet DEF SyncInv, Known
    <3>2. Item \in Items \ Links /\ sync.made[Item] \in DOMAIN server[Item]
      BY <3>1, Apart
    <3> QED
      BY <1>1, <3>1, <3>2
  <2>3. \A o \in sync.found : Exists(o)'
    BY <1>2 DEF SyncInv, Known, SyncTyped, SyncT, Items
  <2>4. ASSUME Working, NEW n \in 2 .. 10, NEW i \in Ahead(n) PROVE Missable(i)'
    <3>1. Missable(i)
      BY <2>4 DEF SyncInv, Known
    <3>2. i \in Items
      <4>1. \A k \in 1 .. 16 : sync.plan[k] \subseteq Items
        BY <2>4 DEF SyncInv, SyncTyped
      <4>2. sync.step \in 1 .. 16 /\ sync.todo \subseteq sync.plan[sync.step]
        BY <2>4 DEF SyncInv, SyncTyped
      <4>3. i \in sync.todo \/ i \in sync.plan[n]
        BY <2>4 DEF Ahead
      <4> QED
        BY <4>1, <4>2, <4>3
    <3> QED
      BY <1>1, <1>2, <3>1, <3>2, MissableHolds
  <2>5. /\ Item' = Item
        /\ Working' <=> Working
        /\ \A n : Ahead(n)' = Ahead(n)
    BY <1>1 DEF Item, Working, Ahead
  <2>6. (sync.at = "upload" => /\ sync.made[Item] # None
                               /\ server[Item][sync.made[Item]].file # "stored")'
    BY <1>1, <2>2, <2>5
  <2>7. Working' => \A n \in 2 .. 10 : \A i \in Ahead(n)' : Missable(i)'
    BY <2>4, <2>5
  <2> QED
    BY <1>1, <2>1, <2>3, <2>6, <2>7 DEF Known
<1>5. Complete'
  <2> SUFFICES ASSUME sync.at # "idle", ~sync.failed PROVE Complete'
    BY <1>1 DEF Complete
  <2>1. /\ sync.asked \subseteq Items /\ \A i \in Scoped \cup Links : i \in Items
        /\ \A l \in Links : OwnerOf[l] \in Items /\ TargetOf[l] \in Items
    BY Named DEF SyncInv, SyncTyped, SyncT, Items
  <2>2. ASSUME NEW o \in sync.asked
        PROVE  (Whole(o) => Whole(o)') /\ (Unlisted(o) => Unlisted(o)')
    <3>1. Whole(o) => Whole(o)'
      BY <1>2, <2>1 DEF Whole, PassedOver
    <3>2. Unlisted(o) => Unlisted(o)'
      BY <1>1, <1>2, <2>1 DEF Unlisted
    <3> QED
      BY <3>1, <3>2
  <2>3. /\ Present' = Present
        /\ Working' <=> Working
        /\ \A n : Ahead(n)' = Ahead(n)
        /\ \A i : UuidOf(i)' = UuidOf(i)
    BY <1>1 DEF Item, Working, Ahead, Present, UuidOf
  <2>4. /\ sync.at = "list" /\ sync.new # {} => \A o \in sync.asked : Exists(o)'
        /\ sync.at = "create" => \A o \in sync.asked : Exists(o)' \/ o \in sync.todo
        /\ sync.at \notin {"list", "create"} =>
             /\ \A o \in sync.asked : o \in sync.found \/ o \in hidden' \/ Unlisted(o)'
             /\ \A o \in sync.asked :
                  \/ \E n \in DOMAIN sync.orgs : sync.orgs[n] = o
                  \/ o \in hidden' \/ Whole(o)' \/ Unlisted(o)'
    BY <1>1, <1>2, <2>1, <2>2 DEF SyncInv, Complete
  <2>5. ASSUME Working
        PROVE  /\ server'[Present] # <<>>
               /\ \A i \in Scoped : OrgOf[i] = Present =>
                    /\ Exists(i)' \/ PassedOver(i) \/ \E n \in 5 .. 10 : i \in Ahead(n)
                    /\ UuidOf(i) # None \/ Missable(i)'
               /\ \A a \in Assets : OrgOf[a] = Present =>
                    sync.known[TypeOf[a]] # None \/ TypeOf[a] \in Ahead(4)
               /\ \A l \in Links : Linked(Present, l) =>
                    \/ Exists(l)' \/ l \in Ahead(12)
                    \/ sync.step >= 12 /\ None \in {UuidOf(OwnerOf[l]), UuidOf(TargetOf[l])}
    <3>1. Present \in Items /\ server[Present] # <<>>
      BY <2>5, AtItem DEF SyncInv, Complete, Items, Exists
    <3>2. server'[Present] # <<>>
      BY <1>2, <3>1 DEF Exists
    <3>3. \A i \in Scoped : Missable(i) => Missable(i)'
      BY <1>1, <1>2, <2>1, MissableHolds
    <3> QED
      BY <1>2, <2>1, <2>5, <3>2, <3>3 DEF SyncInv, Complete
  <2>6. Working' => /\ Exists(Present)'
                    /\ \A i \in Scoped : OrgOf[i] = Present' =>
                         /\ Exists(i)' \/ PassedOver(i) \/ \E n \in 5 .. 10 : i \in Ahead(n)'
                         /\ UuidOf(i)' # None \/ Missable(i)'
                    /\ \A a \in Assets : OrgOf[a] = Present' =>
                         sync'.known[TypeOf[a]] # None \/ TypeOf[a] \in Ahead(4)'
                    /\ \A l \in Links : Linked(Present, l)' =>
                         \/ Exists(l)' \/ l \in Ahead(12)'
                         \/ sync'.step >= 12 /\ None \in {UuidOf(OwnerOf[l])', UuidOf(TargetOf[l])'}
    <3>1. Exists(Present)' <=> server'[Present'] # <<>>
      BY DEF Exists
    <3>2. \A l \in Links : Linked(Present, l)' <=> Linked(Present, l)
      BY <2>3 DEF Linked
    <3> QED
      BY <1>1, <2>3, <2>5, <3>1, <3>2
  <2> QED
    BY <1>1, <2>4, <2>6 DEF Complete, PassedOver
<1> QED
  BY <1>3, <1>4, <1>5 DEF SyncInv
-----------------------------------------------------------------------------
(***************************************************************************)
(* The two tools, one after the other.                                     *)
(***************************************************************************)
LEMMA ImportStarts == Init => ImportInv
<1> SUFFICES ASSUME Init PROVE ImportInv
  OBVIOUS
<1>1. /\ server = [i \in Items |-> <<>>] /\ hidden = {} /\ faults = 0 /\ jobs = 0
      /\ plan = NoPlan /\ disk = NoFiles /\ run = Idle /\ excuse = [i \in Items |-> 0]
      /\ sync = SyncIdle
  BY DEF Init, ServerInit, MigrationInit, SyncInit
<1>2. ServerInv
  <2>1. \A i \in Items : server[i] = <<>> /\ Len(server[i]) = 0 /\ DOMAIN server[i] = {}
    BY <1>1
  <2>2. <<>> \in Seq(CopyT) /\ <<>> \in Seq(LinkT)
    OBVIOUS
  <2>3. ServerTyped
    BY <1>1, <2>1, <2>2, BoundsAssumption DEF ServerTyped, Items
  <2> QED
    BY <2>1, <2>3 DEF ServerInv, OnlyOne, Items
<1>3. NoState \in MarksT /\ NoMap \in [Items -> Uuids]
  BY DEF NoState, MarksT, NoMap, Uuids, None
<1>4. run \in RunT /\ run.at = "idle" /\ run.marks = NoState /\ run.map = NoMap /\ run.code = "none"
  <2>1. Final = 10
    BY DEF Final, Phases
  <2> QED
    BY <1>1, <1>3, <2>1 DEF Idle, RunT
<1>5. /\ disk \in DiskT /\ disk.marks = NoState /\ disk.map = NoMap /\ plan.matched = {}
      /\ plan \in [made : BOOLEAN, matched : SUBSET Orgs] /\ excuse \in [Items -> Nat]
  BY <1>1, <1>3 DEF NoFiles, DiskT, FileT, NoPlan
<1>6. RunInv
  <2>1. RunTyped
    BY <1>4, <1>5 DEF RunTyped
  <2>2. Believed
    BY <1>4, <1>5 DEF Believed, Sound, NoState, NoMap
  <2>3. Saved
    <3>1. \A e \in Scoped : e \in Items
      BY DEF Items
    <3>2. \A i \in Items : NoMap[i] = None
      BY DEF NoMap
    <3> QED
      BY <1>4, <1>5, <3>1, <3>2 DEF Saved
  <2>4. Counted
    <3>1. \A i \in Items : Copies(i, "run") = {} /\ Cardinality(Copies(i, "run")) = 0
      BY <1>1, FS_EmptySet DEF Copies
    <3>2. \A i \in Scoped \cup Links : i \in Items
      BY DEF Items
    <3>3. Completed = {}
      BY <1>4, <1>5 DEF Completed, NoState
    <3> QED
      BY <1>1, <3>1, <3>2, <3>3 DEF Counted
  <2>5. Behind /\ Exclusive /\ Ended
    BY <1>4, <1>5 DEF Behind, Exclusive, Ended, NoState
  <2> QED
    BY <2>1, <2>2, <2>3, <2>4, <2>5 DEF RunInv
<1>7. SyncInv
  <2>1. /\ sync.at = "idle" /\ sync.orgs = <<>> /\ sync.found = {} /\ sync.known = Nothing
        /\ sync.made = Nothing /\ sync.failed = FALSE /\ sync.code = "none"
    BY <1>1 DEF SyncIdle
  <2>2. sync \in SyncT
    <3>1. <<>> \in Seq(Orgs) /\ 0 \in 0 .. 16
      OBVIOUS
    <3> QED
      BY <1>1, <3>1, NothingTyped DEF SyncIdle, SyncT
  <2>3. SyncTyped
    BY <2>1, <2>2 DEF SyncTyped, Working
  <2> QED
    BY <2>1, <2>3 DEF SyncInv, Known, Complete, Nothing, Working
<1> QED
  BY <1>2, <1>4, <1>6, <1>7 DEF ImportInv, Alone

\* What no step may do.
CreatesOnce ==
  \A i \in Items \ Links :
    Len(server'[i]) > Len(server[i]) /\ sync.at # "idle" => ~Exists(i) \/ Crowded(i)
KeepsEdits ==
  ~sync.update =>
    \A i \in Scoped : \A n \in DOMAIN server[i] :
      server[i][n].text = "edited" /\ server'[i][n].text # "edited" =>
        n = sync.made[i] /\ \E l \in Links : TargetOf[l] = i /\ KindOf[l] = "cell"
EndsWhole ==
  Syncing /\ sync'.code = "success" =>
    \A o \in sync.asked \ hidden : Whole(o) \/ Unlisted(o)

Goal == ImportInv' /\ CreatesOnce /\ KeepsEdits /\ EndsWhole

LEMMA RunsOn ==
  ASSUME ImportInv, MigrationNext
  PROVE  Goal
<1>1. ServerInv /\ RunInv /\ SyncInv /\ Alone
  BY DEF ImportInv
<1>2. UNCHANGED sync /\ (MigrationStep \/ (Resting /\ MigrationStart))
  BY DEF MigrationNext
<1>3. MigrationStep => run.at # "idle"
  <2>1. ListTypes => run.at = "list"
    BY ZenonT(30) DEF ListTypes
  <2> QED
    BY <2>1
    DEF  MigrationStep, MigrateOrganizations, MigrateLocations,
         MigrateConfigurationTypes, MigrateConfigurations, MigrateCustomAssetTypes,
         MigrateCustomAssets, MigrateDocuments, MigratePasswords, MigrateRelationships,
         UploadEntityAttachments, LeaveOut, FinishPhase, SaveState, SaveMap, Die, Running,
         In, AtRow
<1>4. sync.at = "idle"
  BY <1>1, <1>2, <1>3 DEF Alone, Resting, Syncing
<1>5. RunInv' /\ ServerInv'
  <2>1. CASE MigrationStep
    <3>1. \/ RowAction \/ ListTypes \/ FinishPhase \/ UploadEntityAttachments \/ SaveState
          \/ SaveMap \/ Die
      BY <2>1 DEF MigrationStep, RowAction
    <3> QED
      BY <1>1, <3>1, RowActions, RunLists, RunFinishes, RunUploads, RunSavesState,
         RunSavesMap, RunDies
  <2>2. CASE Resting /\ MigrationStart
    <3>1. run.at = "idle" /\ \A o \in Orgs : {o} \in SUBSET Orgs
      BY <2>2 DEF Resting, Running
    <3>2. CASE Preview
      BY <1>1, <3>1, <3>2, RunPreviews
    <3>3. ASSUME NEW dry \in BOOLEAN, NEW clear \in BOOLEAN,
                 NEW scope \in {Orgs} \cup {{o} : o \in Orgs}, Start(dry, clear, scope)
          PROVE  RunInv' /\ ServerInv'
      <4>1. scope \in SUBSET Orgs
        BY <3>1, <3>3
      <4> QED
        BY <1>1, <3>1, <3>3, <4>1, RunStarts
    <3> QED
      BY <2>2, <3>2, <3>3, Zenon DEF MigrationStart
  <2> QED
    BY <1>2, <2>1, <2>2
<1>6. Adds
  BY <1>1, <1>2, RunAdds
<1>7. SyncInv' /\ sync'.at = "idle"
  BY <1>1, <1>2, <1>4, <1>5, <1>6, SyncRests
<1> QED
  BY <1>4, <1>5, <1>6, <1>7 DEF Goal, ImportInv, Alone, CreatesOnce, KeepsEdits, EndsWhole,
     Adds, Syncing

LEMMA SyncsOn ==
  ASSUME ImportInv, SyncNext
  PROVE  Goal
<1>1. ServerInv /\ RunInv /\ SyncInv /\ Alone
  BY DEF ImportInv
<1>2. UNCHANGED <<plan, disk, run, excuse>> /\ (SyncStep \/ (Resting /\ SyncStart))
  BY DEF SyncNext
<1>3. CASE SyncStep
  <2>1. Proceeds
    BY <1>1, <1>3, SyncSteps
  <2>2. sync.at # "idle"
    <3>1. FetchAllOrgs => sync.at = "list"
      BY ZenonT(30) DEF FetchAllOrgs
    <3>2. FetchForOrg => sync.at = "fetch"
      BY ZenonT(30) DEF FetchForOrg
    <3> QED
      BY <1>3, <3>1, <3>2 DEF SyncStep, SyncEnd, ExecuteOrganizations,
         ExecuteConfigTypes, ExecuteConfigStatuses, ExecuteCustomAssetTypes, ExecuteLocations,
         ExecuteConfigurations, ExecuteCustomAssets, ExecuteDocuments, ExecutePasswords,
         ExecuteRowPasswords, LinkRowPassword, ExecuteCellWrites, ExecuteRelationships,
         UpdateConfiguration, UpdateLocation, UpdateDocument, UpdatePassword,
         UploadAttachments, Kill, Syncing, Doing
  <2>3. run.at = "idle" /\ run' = run
    BY <1>1, <1>2, <2>2 DEF Alone
  <2>4. RunInv'
    BY <1>1, <1>2, <2>1, <2>3, RunAside DEF Proceeds, Served
  <2> QED
    BY <2>1, <2>3, <2>4 DEF Goal, Proceeds, Served, ImportInv, Alone, CreatesOnce, KeepsEdits,
       EndsWhole
<1>4. CASE Resting /\ SyncStart
  <2>1. /\ SyncInv' /\ jobs' \in 0 .. MaxJobs /\ UNCHANGED <<server, hidden, faults>>
        /\ ~Syncing /\ run.at = "idle"
    BY <1>1, <1>4, SyncBegins DEF Resting, Running
  <2>2. Settled
    BY <1>1, <2>1, NothingCreated DEF ServerInv, ServerTyped
  <2>3. ServerInv' /\ RunInv'
    BY <1>1, <1>2, <2>1, <2>2, SettledKeeps, SameCopies, RunAside DEF Settled, ServerInv
  <2>4. \A i \in Items : Len(server'[i]) = Len(server[i]) /\ Len(server[i]) \in Nat
    BY <1>1, <2>1, ItemSeqs DEF ServerInv
  <2> QED
    BY <1>2, <2>1, <2>3, <2>4 DEF Goal, ImportInv, Alone, CreatesOnce, KeepsEdits, EndsWhole
<1> QED
  BY <1>2, <1>3, <1>4

LEMMA UsersGoOn ==
  ASSUME ImportInv, UserNext
  PROVE  Goal
<1>1. ServerInv /\ RunInv /\ SyncInv /\ Alone
  BY DEF ImportInv
<1>2. UNCHANGED <<plan, disk, run, excuse, sync>> /\ run.at = "idle"
  BY DEF UserNext, Running
<1>3. /\ Settled
      /\ \A i \in Items \ Links : \A n \in DOMAIN server[i] :
           server[i][n].text = "edited" => server'[i][n].text = "edited"
  BY <1>1, UserServes
<1>4. ServerInv' /\ RunInv'
  BY <1>1, <1>2, <1>3, SettledKeeps, SameCopies, RunAside DEF Settled, ServerInv
<1>5. SyncInv'
  <2>1. /\ Settled /\ hidden \subseteq hidden' /\ jobs' \in 0 .. MaxJobs /\ jobs' >= jobs
        /\ faults' = faults
        /\ \A i \in Items \ Links : \A n \in DOMAIN server[i] :
             server'[i][n].file = server[i][n].file
    BY <1>1, UserServes
  <2> QED
    BY <1>1, <1>2, <2>1, SyncHolds
<1>6. CreatesOnce
  <2>1. \A i \in Items : Len(server'[i]) = Len(server[i]) /\ Len(server[i]) \in Nat
    BY <1>1, <1>3, ItemSeqs DEF ServerInv, Settled
  <2> QED
    BY <2>1 DEF CreatesOnce
<1>7. KeepsEdits
  <2>1. \A i \in Scoped : i \in Items \ Links
    BY Apart DEF Items
  <2> QED
    BY <1>3, <2>1 DEF KeepsEdits
<1>8. EndsWhole
  BY <1>1, <1>2 DEF EndsWhole, SyncInv, SyncTyped, Syncing
<1> QED
  BY <1>2, <1>4, <1>5, <1>6, <1>7, <1>8 DEF Goal, ImportInv, Alone

LEMMA ImportStays == ImportInv /\ UNCHANGED importVars => ImportInv'
<1> SUFFICES ASSUME ImportInv, UNCHANGED importVars PROVE ImportInv'
  OBVIOUS
<1>1. ServerInv /\ RunInv /\ SyncInv /\ Alone
  BY DEF ImportInv
<1>2. UNCHANGED <<server, hidden, faults, jobs, plan, disk, run, excuse, sync>>
  BY DEF importVars
<1>3. ServerInv'
  BY <1>1, <1>2 DEF ServerInv, ServerTyped, OnlyOne, Resolves
<1>4. RunInv'
  <2>1. RunTyped'
    BY <1>1, <1>2 DEF RunInv, RunTyped, Row, Sheet
  <2>2. Believed'
    BY <1>1, <1>2 DEF RunInv, Believed, Sound, Exists, Row
  <2>3. Saved'
    BY <1>1, <1>2 DEF RunInv, Saved
  <2>4. Counted'
    BY <1>1, <1>2 DEF RunInv, Counted, Completed, Knows, Copies
  <2>c. \A i : Crowded(i)' <=> Crowded(i)
    BY <1>2, CrowdedAsBefore
  <2>w. \A i : Within(i)' <=> Within(i)
    BY <1>2 DEF Within, Scoped
  <2>5. Behind'
    <3>1. /\ \A i : Passed(i)' <=> Passed(i)
          /\ \A i : Cause(i, run.map)' <=> Cause(i, run.map)
          /\ \A i : Exists(i)' <=> Exists(i)
          /\ Row' = Row
      BY <1>2, <2>c DEF Passed, Cause, Exists, Row, Unsaid, Twin, Lacks, Ends, Sheet, Scoped
    <3> QED
      BY <1>1, <1>2, <2>c, <2>w, <3>1 DEF RunInv, Behind, Unsaid, Twin, Lacks
  <2>6. Exclusive'
    BY <1>1, <1>2 DEF RunInv, Exclusive
  <2>7. Ended'
    <3>1. \A i : Cause(i, disk.map)' <=> Cause(i, disk.map)
      BY <1>2, <2>c DEF Cause, Exists, Unsaid, Twin, Lacks, Ends, Scoped
    <3> QED
      BY <1>1, <1>2, <2>w, <3>1 DEF RunInv, Ended, Unsaid, Twin
  <2> QED
    BY <2>1, <2>2, <2>3, <2>4, <2>5, <2>6, <2>7 DEF RunInv
<1>5. SyncInv'
  <2>1. jobs' \in 0 .. MaxJobs /\ jobs' >= jobs /\ faults' \in Nat
    BY <1>1, <1>2, BoundsAssumption DEF ServerInv, ServerTyped
  <2>2. Settled
    BY <1>1, <1>2, <2>1, NothingCreated DEF ServerInv
  <2> QED
    BY <1>1, <1>2, <2>1, <2>2, SyncHolds
<1> QED
  BY <1>1, <1>2, <1>3, <1>4, <1>5 DEF ImportInv, Alone

LEMMA ImportStep == ImportInv /\ [Next]_importVars => ImportInv'
BY RunsOn, SyncsOn, UsersGoOn, ImportStays DEF Goal, Next

LEMMA ImportInvariant == Spec => []ImportInv
BY ImportStarts, ImportStep, PTL DEF Spec

-----------------------------------------------------------------------------
(***************************************************************************)
(* The properties.                                                         *)
(***************************************************************************)
\* The state file, the id map, the plan and the memory of both tools have the
\* types that the loaders and the executor expect.
THEOREM ImportTypes == Spec => []TypeOK
<1>1. ASSUME ImportInv PROVE TypeOK
  <2>1. ServerInv /\ RunTyped /\ SyncTyped
    BY <1>1 DEF ImportInv, RunInv, SyncInv
  <2>2. /\ plan \in [made : BOOLEAN, matched : SUBSET Orgs]
        /\ disk \in DiskT /\ run \in RunT /\ excuse \in [Items -> Nat]
    BY <2>1 DEF RunTyped
  <2>3. MarksT \subseteq Marks
    <3>1. Orgs \cup Scoped \subseteq Items
      BY DEF Items
    <3> QED
      BY <3>1 DEF MarksT, Marks
  <2>4. \A u \in Uuids : u >= Placeholder
    BY DEF Uuids, Placeholder
  <2>5. MigrationTypeOK
    <3>1. \A i \in Items : disk.map[i] \in Uuids /\ run.map[i] \in Uuids
      BY <2>2 DEF DiskT, RunT
    <3>2. disk.marks \in MarksT /\ run.marks \in MarksT
      BY <2>2 DEF DiskT, RunT
    <3>3. disk.marks \in Marks /\ run.marks \in Marks
      BY <2>3, <3>2
    <3>4. \A i \in Items : disk.map[i] >= Placeholder /\ run.map[i] >= Placeholder
      BY <2>4, <3>1
    <3>5. disk.state \in FileT /\ disk.mapFile \in FileT
      BY <2>2 DEF DiskT
    <3> QED
      BY <2>2, <3>3, <3>4, <3>5 DEF MigrationTypeOK, FileT, RunT
  <2>6. SyncTypeOK
    <3>1. sync \in SyncT
      BY <2>1 DEF SyncTyped
    <3>2. ToSet(sync.orgs) \subseteq sync.asked
      BY <2>1 DEF SyncTyped, ToSet
    <3>3. \A n \in DOMAIN sync.plan : sync.plan[n] \subseteq Items
      <4>1. CASE sync.plan = <<>>
        BY <4>1
      <4>2. CASE sync.plan \in [1 .. 16 -> SUBSET Items]
        BY <4>2
      <4> QED
        BY <3>1, <4>1, <4>2 DEF SyncT
    <3>4. sync.at \in {"create", "row", "upload", "link"} => sync.todo # {}
      BY <2>1 DEF SyncTyped, Working
    <3> QED
      BY <3>1, <3>2, <3>3, <3>4 DEF SyncTypeOK, SyncT
  <2> QED
    BY <2>5, <2>6 DEF TypeOK
<1> QED
  BY <1>1, ImportInvariant, PTL

\* What the state file or a running process calls completed is on the server,
\* and what it calls uploaded is in the store, whatever process died in
\* between, and whichever dry run put placeholders into the id map.
THEOREM CompletedThere == Spec => []CompletedIsThere
<1>1. ImportInv => CompletedIsThere
  BY DEF ImportInv, RunInv, Believed, Sound, CompletedIsThere
<1> QED
  BY <1>1, ImportInvariant, PTL

\* A row has a second copy by a run only for every time its creation was
\* forgotten: its call failed after the server had done its work, or the
\* process died before the phase was saved.
THEOREM DuplicatesCaused == Spec => []DuplicatesHaveCause
<1>1. ASSUME ImportInv PROVE DuplicatesHaveCause
  <2>1. /\ ServerTyped /\ OnlyOne /\ Counted /\ excuse \in [Items -> Nat]
    BY <1>1 DEF ImportInv, ServerInv, RunInv, RunTyped
  <2>2. ASSUME NEW i \in Items PROVE Cardinality(Copies(i, "run")) <= 1 + excuse[i]
    <3>1. excuse[i] \in Nat /\ Cardinality(Copies(i, "run")) \in Nat
      BY <2>1, CopiesFinite
    <3>2. CASE i \in Scoped
      <4>1. Cardinality(Copies(i, "run")) <= excuse[i] + IF i \in Completed THEN 1 ELSE 0
        BY <2>1, <3>2 DEF Counted
      <4> QED
        BY <3>1, <4>1
    <3>3. ASSUME \A m, n \in Copies(i, "run") : m = n
          PROVE  Cardinality(Copies(i, "run")) <= 1
      <4>1. CASE Copies(i, "run") = {}
        BY <4>1, FS_EmptySet
      <4>2. ASSUME NEW n \in Copies(i, "run") PROVE Cardinality(Copies(i, "run")) = 1
        <5>1. Copies(i, "run") = {n}
          BY <3>3, <4>2
        <5> QED
          BY <5>1, FS_Singleton
      <4> QED
        BY <4>1, <4>2
    <3>4. CASE i \in Links
      <4>1. \A m, n \in Copies(i, "run") : m = n
        BY <2>1, <3>4 DEF Counted
      <4> QED
        BY <3>1, <3>3, <4>1
    <3>5. CASE i \in Orgs \cup Types
      <4>1. Len(server[i]) \in Nat /\ Len(server[i]) <= 1
        BY <2>1, <3>5, ItemSeqs DEF OnlyOne
      <4>2. \A m, n \in Copies(i, "run") : m = n
        BY <4>1 DEF Copies
      <4> QED
        BY <3>1, <3>3, <4>2
    <3> QED
      BY <2>2, <3>2, <3>4, <3>5 DEF Items
  <2> QED
    BY <2>2 DEF DuplicatesHaveCause
<1> QED
  BY <1>1, ImportInvariant, PTL

\* Exit code 0 of a run means that every row of the organizations it was for is
\* in the state file and, with CompletedThere, on the server.
THEOREM SuccessComplete == Spec => []SuccessIsComplete
<1>1. ImportInv => SuccessIsComplete
  BY DEF ImportInv, RunInv, Ended, Unsaid, Twin, SuccessIsComplete
<1> QED
  BY <1>1, ImportInvariant, PTL

\* After a run in which no call failed, whatever it counts as failed has one
\* of the causes that the next run will meet again, a list of types that is too
\* short for all of them among these.
THEOREM FailuresCaused == Spec => []FailuresHaveCause
<1>1. ASSUME ImportInv PROVE FailuresHaveCause
  <2>1. Ended
    BY <1>1 DEF ImportInv, RunInv
  <2>2. \A e : Lacks(disk.map, e) <=> Unresolved(e)
    BY DEF Lacks, Unresolved
  <2> QED
    BY <2>1, <2>2 DEF Ended, Cause, Unsaid, Twin, Ends, FailuresHaveCause
<1> QED
  BY <1>1, ImportInvariant, PTL

\* A sync ends with an error only if one of its calls failed or there are more
\* types than their list shows: nothing else that earlier runs and syncs left
\* on the server is a cause.
THEOREM SyncFailuresCaused == Spec => []SyncFailuresHaveCause
<1>1. ImportInv => SyncFailuresHaveCause
  BY DEF ImportInv, SyncInv, SyncTyped, SyncFailuresHaveCause, Crowding
<1> QED
  BY <1>1, ImportInvariant, PTL

\* No type, status or link on the server refers to a row that is not there,
\* whichever tool wrote it.
THEOREM References == Spec => []ReferencesResolve
<1>1. ASSUME ImportInv PROVE ReferencesResolve
  <2>1. \A i \in Items : \A n \in DOMAIN server[i] : Resolves(i, server[i][n])
    BY <1>1 DEF ImportInv, ServerInv
  <2>2. \A i \in Configs \cup Assets \cup Links : i \in Items
    BY DEF Items, Scoped
  <2> QED
    BY <2>1, <2>2 DEF Resolves, ReferencesResolve
<1> QED
  BY <1>1, ImportInvariant, PTL

\* A sync creates nothing that the server has, but for what a list too long
\* for one answer did not show it.
THEOREM SyncOnce == Spec => SyncCreatesOnce
<1>1. ImportInv /\ [Next]_importVars =>
        [\A i \in Items \ Links :
           Len(server'[i]) > Len(server[i]) /\ sync.at # "idle" =>
             ~Exists(i) \/ Crowded(i)]_<<server, sync>>
  BY RunsOn, SyncsOn, UsersGoOn DEF Goal, CreatesOnce, Next, importVars
<1> QED
  BY <1>1, ImportInvariant, PTL DEF Spec, SyncCreatesOnce

\* A sync that is not asked to update undoes no edit of a user, but for those
\* made in its course in an asset it has created that has a cell password.
THEOREM EditsKept == Spec => EditsSurvive
<1>1. ImportInv /\ [Next]_importVars =>
        [~sync.update =>
           \A i \in Scoped : \A n \in DOMAIN server[i] :
             server[i][n].text = "edited" /\ server'[i][n].text # "edited" =>
               /\ n = sync.made[i]
               /\ \E l \in Links : TargetOf[l] = i /\ KindOf[l] = "cell"]_<<server, sync>>
  BY RunsOn, SyncsOn, UsersGoOn DEF Goal, KeepsEdits, Next, importVars
<1> QED
  BY <1>1, ImportInvariant, PTL DEF Spec, EditsSurvive

\* A sync that ends with exit code 0 leaves every organization it was asked
\* for whole, but for those that somebody has disabled and those that a list
\* too short for all organizations did not show.
THEOREM SyncComplete == Spec => SyncIsComplete
<1>1. ImportInv /\ [Next]_importVars =>
        [Syncing /\ sync'.code = "success" =>
           \A o \in sync.asked \ hidden :
             Whole(o) \/ (o \notin sync.found /\ Exists(o) /\ Crowded(o))]_<<server, hidden, sync>>
  BY RunsOn, SyncsOn, UsersGoOn DEF Goal, EndsWhole, Unlisted, Next, importVars
<1> QED
  BY <1>1, ImportInvariant, PTL DEF Spec, SyncIsComplete
=============================================================================
