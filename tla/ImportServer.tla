---------------------------- MODULE ImportServer ----------------------------
(***************************************************************************)
(* The export of IT Glue and the documentation server it is imported into. *)
(* This is what the two importing tools, Migration (`run`) and Sync        *)
(* (`sync`), share: the rows of the export, the copies of each of them     *)
(* that the server holds, and what one HTTP call to create a copy can come *)
(* to.  A row of the export is a member of Items; the copies of it on the  *)
(* server are numbered in the order of their creation, and the number      *)
(* stands for the copy's uuid.                                             *)
(***************************************************************************)
EXTENDS Integers, Sequences, FiniteSets

CONSTANTS
  Orgs, ConfigTypes, Statuses, AssetTypes,        \* shared by all organizations
  Locations, Configs, Assets, Docs, Passwords,    \* the rows of one organization
  Links,                                          \* passwords that name a resource
  OrgOf,      \* the organization of a row
  TypeOf,     \* the type that a configuration or a custom asset names
  StatusOf,   \* the status that a configuration names
  NameOf,     \* the name of a document
  Empty,      \* the documents without an HTML body
  Blank,      \* the passwords without a value
  WithFile,   \* the rows with a file in the attachments folder
  OwnerOf,    \* the password of a link
  TargetOf,   \* the row that a link points to
  KindOf,     \* the resource type of a link
  Rows,       \* the order of the rows in the export, by phase
  Places,     \* the rows of a sheet that the server's lists have places for
  MaxFaults,  \* bound: calls that fail and processes that die
  MaxJobs     \* bound: tools started

VARIABLES
  server,     \* for every row the sequence of its copies
  hidden,     \* the organizations that somebody has disabled
  faults, jobs

Types == ConfigTypes \cup Statuses \cup AssetTypes
Scoped == Locations \cup Configs \cup Assets \cup Docs \cup Passwords
Items == Orgs \cup Types \cup Scoped \cup Links

\* The sheets of the export; types and statuses are the distinct values of a
\* column of one.  Every row is in one of them, once, and what it names is there.
Sheets == [organizations |-> Orgs, configuration_types |-> ConfigTypes,
           configuration_statuses |-> Statuses, custom_asset_types |-> AssetTypes,
           locations |-> Locations, configurations |-> Configs, custom_assets |-> Assets,
           documents |-> Docs, passwords |-> Passwords, relationships |-> Links]

ASSUME ExportAssumption ==
  /\ DOMAIN Rows = DOMAIN Sheets
  /\ \A s, t \in DOMAIN Sheets : s # t => Sheets[s] \cap Sheets[t] = {}
  /\ \A s \in DOMAIN Sheets :
       /\ Rows[s] \in Seq(Sheets[s])
       /\ \A i \in Sheets[s] : \E n \in DOMAIN Rows[s] : Rows[s][n] = i
       /\ \A m, n \in DOMAIN Rows[s] : Rows[s][m] = Rows[s][n] => m = n
  /\ OrgOf \in [Scoped -> Orgs]
  /\ \A c \in Configs : TypeOf[c] \in ConfigTypes /\ StatusOf[c] \in Statuses
  /\ \A a \in Assets : TypeOf[a] \in AssetTypes
  /\ \A l \in Links : OwnerOf[l] \in Passwords /\ TargetOf[l] \in Scoped

\* A list call is answered with a hundred rows at the most, and rows that are
\* not of the export take places too.
ASSUME PlacesAssumption == Places \in [DOMAIN Sheets -> Nat]

ASSUME BoundsAssumption == MaxFaults \in Nat /\ MaxJobs \in Nat

None == 0                     \* no uuid
Placeholder == -1             \* the uuid "dry-run-..."

Tools == {"run", "sync"}
Files == {"none", "record", "stored"}

Texts == {"export", "edited", "cell"}

\* What a create call carries that the properties tell apart: the tool, the
\* type and the status of a configuration, the object of its attachment, and
\* whether a field reads as exported, as a user has edited it since or, for a
\* custom asset, as the value of a cell password.
Copy(by, type, status) ==
  [by |-> by, type |-> type, status |-> status, file |-> "none", text |-> "export"]
LinkCopy(by, src, dst) == [by |-> by, src |-> src, dst |-> dst]

Exists(i) == server[i] # <<>>
Enabled(o) == Exists(o) /\ o \notin hidden
Copies(i, by) == {n \in 1..Len(server[i]) : server[i][n].by = by}

\* The rows that are in one list: all organizations, all types of a kind, the
\* rows of a kind that an organization has, the custom assets of each type.
SheetName(i) == CHOOSE s \in DOMAIN Sheets : i \in Sheets[s]
Neighbours(i) ==
  {j \in Sheets[SheetName(i)] : /\ i \in Scoped => OrgOf[j] = OrgOf[i]
                                /\ i \in Assets => TypeOf[j] = TypeOf[i]}
Crowded(i) ==
  Cardinality(UNION {{j} \X DOMAIN server[j] : j \in Neighbours(i)}) > Places[SheetName(i)]

\* What a list of these rows can show.  Organizations and types are listed by
\* one call that is not repeated for the rest, and the order of the other
\* lists does not hold from one page to the next: of a list that is too long
\* for one answer, any row can be missing.
Listed(rows) == {shown \in SUBSET rows : \A i \in rows \ shown : Crowded(i)}

\* Names of organizations and types are unique, and so is a pair of linked
\* entities in either direction.
Taken(i, row) ==
  \/ i \in Orgs \cup Types /\ Exists(i)
  \/ i \in Links /\ \E n \in 1..Len(server[i]) :
       server[i][n].src = row.src /\ server[i][n].dst = row.dst

\* The answers to a create call: "created"; "conflict" (409); "refused",
\* an error status for any other reason; "lost", a timeout or a broken
\* connection after the server has done its work.
Post(i, row, answer) ==
  /\ answer \in IF Taken(i, row) THEN {"conflict"} ELSE {"created", "refused", "lost"}
  /\ answer \in {"refused", "lost"} => faults < MaxFaults
  /\ faults' = IF answer \in {"refused", "lost"} THEN faults + 1 ELSE faults
  /\ server' = IF answer \in {"created", "lost"}
               THEN [server EXCEPT ![i] = Append(@, row)] ELSE server

\* The record of an attachment is created first and the object is put at its
\* presigned address by a second call: either can fail.
Attach(i, n, file) ==
  /\ file \in Files
  /\ file # "stored" => faults < MaxFaults
  /\ faults' = IF file = "stored" THEN faults ELSE faults + 1
  /\ server' = [server EXCEPT ![i][n].file = file]

\* In the web client an administrator disables an organization, and a user
\* edits a field of a row.
Disable(o) ==
  /\ Exists(o) /\ o \notin hidden
  /\ jobs < MaxJobs
  /\ jobs' = jobs + 1
  /\ hidden' = hidden \cup {o}
  /\ UNCHANGED <<server, faults>>

Edit(i) ==
  /\ i \in Scoped /\ Exists(i)
  /\ server[i][1].text # "edited"
  /\ jobs < MaxJobs
  /\ jobs' = jobs + 1
  /\ server' = [server EXCEPT ![i][1].text = "edited"]
  /\ UNCHANGED <<hidden, faults>>

ServerInit ==
  /\ server = [i \in Items |-> <<>>]
  /\ hidden = {}
  /\ faults = 0
  /\ jobs = 0
=============================================================================
