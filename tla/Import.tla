------------------------------- MODULE Import -------------------------------
(***************************************************************************)
(* The two importing tools on one server.  Somebody starts one of them     *)
(* after the other, in any order and as often as he likes; users disable   *)
(* organizations and edit rows all the while.                              *)
(***************************************************************************)
EXTENDS Migration, Sync

importVars == <<server, hidden, faults, jobs, plan, disk, run, excuse, sync>>

Init == ServerInit /\ MigrationInit /\ SyncInit

\* One tool at a time: there is no lock, and two of them would not see each
\* other's rows.
Resting == ~Running /\ ~Syncing

MigrationNext ==
  /\ MigrationStep \/ (Resting /\ MigrationStart)
  /\ UNCHANGED sync
SyncNext ==
  /\ SyncStep \/ (Resting /\ SyncStart)
  /\ UNCHANGED <<plan, disk, run, excuse>>

\* A run reads neither the list of organizations nor a field of a row: what a
\* user changes while it goes on he could as well have changed before it.
UserNext ==
  /\ ~Running
  /\ (\E o \in Orgs : Disable(o)) \/ (\E i \in Scoped : Edit(i))
  /\ UNCHANGED <<plan, disk, run, excuse, sync>>

Next == MigrationNext \/ SyncNext \/ UserNext

Spec == Init /\ [][Next]_importVars
-----------------------------------------------------------------------------
TypeOK == MigrationTypeOK /\ SyncTypeOK

\* Whatever the server holds refers to rows it holds: no placeholder of a dry
\* run and no uuid of another row gets into a type, a status or a link.
ReferencesResolve ==
  /\ \A c \in Configs : \A n \in DOMAIN server[c] :
       /\ server[c][n].type \in {None} \cup DOMAIN server[TypeOf[c]]
       /\ server[c][n].status \in {None} \cup DOMAIN server[StatusOf[c]]
  /\ \A a \in Assets : \A n \in DOMAIN server[a] : server[a][n].type \in DOMAIN server[TypeOf[a]]
  /\ \A l \in Links : \A n \in DOMAIN server[l] :
       /\ server[l][n].src \in DOMAIN server[OwnerOf[l]]
       /\ server[l][n].dst \in DOMAIN server[TargetOf[l]]
=============================================================================
