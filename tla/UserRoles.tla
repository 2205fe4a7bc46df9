------------------------------- MODULE UserRoles ------------------------------
(***************************************************************************)
(* User administration: who has which role, and the API requests that      *)
(* create and remove users, change roles and transfer ownership.           *)
(*                                                                         *)
(* A request is authenticated by an access token that carries the role its *)
(* user had when it was issued; no handler compares it with the database.  *)
(* Every statement runs at READ COMMITTED and sees committed rows; the     *)
(* commit is a step of its own, after the handler or at its end.  Emails   *)
(* are left out: a request that names a taken one changes nothing.         *)
(***************************************************************************)
EXTENDS Integers, FiniteSets

CONSTANTS Users,        \* the user ids that can be drawn
          Requests,     \* API requests that can be in flight together
          Lesser,       \* the roles below administrator
          DefaultUser,  \* the id create_default_user draws, or NoUser
          Production,   \* neither is_development nor is_testing
          MaxTokens,    \* a bound: the access tokens that are unexpired together
          Absent,       \* no row in users
          NoUser

Staff == {"owner", "administrator"}
Roles == Staff \cup Lesser

ASSUME ConstAssumption ==
  /\ IsFiniteSet(Users)
  /\ NoUser \notin Users
  /\ DefaultUser \in Users \cup {NoUser}
  /\ "contributor" \in Lesser
  /\ Lesser \subseteq {"contributor", "reader"}
  /\ Absent \notin Roles
  /\ Production \in BOOLEAN
  /\ MaxTokens \in Nat

VARIABLES
  role,    \* role[u]: the committed row of u in users
  claims,  \* claims[u]: the roles in u's unexpired access tokens that RequireAdmin admits
  req,     \* req[r]: the locals of request r and its uncommitted writes
  \* --- history ---
  gone,    \* users that have been removed
  owned    \* users that have been an owner

vars == <<role, claims, req, gone, owned>>

-----------------------------------------------------------------------------
IdleReq == [pc |-> "idle", kind |-> "none", actor |-> NoUser, target |-> NoUser,
            seen |-> Absent, own |-> Absent, want |-> Absent,
            fresh |-> FALSE]

\* The requests that insert a user; "found" makes an owner without asking one.
Inserts == {"create", "found"}

Owners == {u \in Users : role[u] = "owner"}

Init == /\ role = [u \in Users |-> Absent]
        /\ claims = [u \in Users |-> {}]
        /\ req = [r \in Requests |-> IdleReq]
        /\ gone = {}
        /\ owned = {}

-----------------------------------------------------------------------------
(* Access tokens.                                                          *)

\* Slip: require_role takes anyone with an account.
IssueAny(u) ==
  /\ role[u] # Absent
  /\ Cardinality(UNION {{v} \X claims[v] : v \in Users}) < MaxTokens
  /\ claims' = [claims EXCEPT ![u] = @ \cup {role[u]}]
  /\ UNCHANGED <<role, req, gone, owned>>

\* login and refresh_token put the role of the row into the token.
Issue(u) ==
  /\ role[u] \in Staff
  /\ Cardinality(UNION {{v} \X claims[v] : v \in Users}) < MaxTokens
  /\ claims' = [claims EXCEPT ![u] = @ \cup {role[u]}]
  /\ UNCHANGED <<role, req, gone, owned>>

\* The token reaches its exp.
Expire(u) ==
  /\ \E c \in claims[u] : claims' = [claims EXCEPT ![u] = @ \ {c}]
  /\ UNCHANGED <<role, req, gone, owned>>

-----------------------------------------------------------------------------
(* Requests: reading.                                                      *)

SendTo(r, pc) == req' = [req EXCEPT ![r].pc = pc]
Reply(r)      == req' = [req EXCEPT ![r] = IdleReq]
Idle(r)       == req[r].pc = "idle"

\* Request r of actor goes on at pc about target.
Begin(r, pc, kind, actor, target, want) ==
  /\ req' = [req EXCEPT ![r] = [IdleReq EXCEPT
               !.pc = pc, !.kind = kind, !.actor = actor,
               !.target = target, !.want = want, !.fresh = TRUE,
               !.seen = IF kind \in Inserts THEN Absent ELSE role[target]]]
  /\ UNCHANGED <<role, claims, gone, owned>>

\* A user id nobody has drawn; the default user's is kept for it.
Unused(u) == /\ u # DefaultUser
             /\ role[u] = Absent
             /\ u \notin gone
             /\ \A r \in Requests : req[r].target # u

\* create_user of admin.py: an owner is created by an owner.
Create(r) ==
  /\ Idle(r)
  /\ \E u \in Users, n \in Users, want \in Roles : \E c \in claims[u] :
       /\ Unused(n)
       /\ want = "owner" => c = "owner"
       /\ Begin(r, "commit", "create", u, n, want)

\* register_user and setup_passkey_verify: has_any_users sees committed rows.
\* The first user is the owner.  Later there is no setup, and no registration in
\* production.
Register(r) ==
  /\ Idle(r)
  /\ \E n \in Users :
       LET any == \E u \in Users : role[u] # Absent IN
       /\ Unused(n)
       /\ \/ ~any /\ Begin(r, "commit", "found", NoUser, n, "owner")
          \/ any /\ ~Production /\ Begin(r, "commit", "create", NoUser, n, "contributor")

\* create_default_user, when an API process starts and its email is not taken.
Startup(r) ==
  /\ Idle(r)
  /\ DefaultUser # NoUser
  /\ role[DefaultUser] = Absent
  /\ DefaultUser \notin gone
  /\ \A s \in Requests : req[s].target # DefaultUser
  /\ Begin(r, "commit", "found", NoUser, DefaultUser, "owner")

\* oauth callback of a new user.
SignUp(r) ==
  /\ Idle(r)
  /\ \E n \in Users :
       /\ Unused(n)
       /\ Begin(r, "commit", "create", NoUser, n, "contributor")

\* remove_user: not oneself; 404 when there is no row.
Remove(r) ==
  /\ Idle(r)
  /\ \E u \in Users : \E t \in Users \ {u}, c \in claims[u] :
       /\ role[t] # Absent
       /\ Begin(r, IF role[t] = "owner" THEN "count" ELSE "flush",
                "remove", u, t, Absent)

\* Slip: only granting ownership asks for an owner.
UpdateRevokes(r) ==
  /\ Idle(r)
  /\ \E u \in Users, t \in Users, want \in Roles : \E c \in claims[u] :
       /\ role[t] # Absent
       /\ want = "owner" => c = "owner"
       /\ Begin(r, IF role[t] = "owner" /\ want # "owner" THEN "count" ELSE "flush",
                "update", u, t, want)

\* update_user_role: granting and revoking ownership ask for an owner.  The second
\* read of update_role returns the session's object with the role first read.
Update(r) ==
  /\ Idle(r)
  /\ \E u \in Users, t \in Users, want \in Roles : \E c \in claims[u] :
       /\ role[t] # Absent
       /\ "owner" \in {want, role[t]} => c = "owner"
       /\ Begin(r, IF role[t] = "owner" /\ want # "owner" THEN "count" ELSE "flush",
                "update", u, t, want)

\* Slip: an off-by-one lets the last owner go.
CountNone(r) ==
  /\ req[r].pc = "count"
  /\ IF Cardinality(Owners) < 1 THEN Reply(r) ELSE SendTo(r, "flush")
  /\ UNCHANGED <<role, claims, gone, owned>>

\* count_owners: 400 for the last one.
Count(r) ==
  /\ req[r].pc = "count"
  /\ IF Cardinality(Owners) <= 1 THEN Reply(r) ELSE SendTo(r, "flush")
  /\ UNCHANGED <<role, claims, gone, owned>>

\* transfer_ownership reads the new owner, and then the actor.
Transfer(r) ==
  /\ Idle(r)
  /\ \E u \in Users : \E t \in Users \ {u} :
       /\ "owner" \in claims[u]
       /\ role[t] # Absent
       /\ Begin(r, "self", "transfer", u, t, "owner")

TransferSelf(r) ==
  /\ req[r].pc = "self"
  /\ LET own == role[req[r].actor] IN
     IF own = Absent
     THEN Reply(r)
     ELSE req' = [req EXCEPT ![r] = [@ EXCEPT !.pc = "flush", !.own = own]]
  /\ UNCHANGED <<role, claims, gone, owned>>

-----------------------------------------------------------------------------
(* Requests: writing.                                                      *)

\* The rows r writes.  The ORM writes a role only where it changes the one read.
Writes(r) ==
  (IF req[r].kind = "none" \/ req[r].want = req[r].seen THEN {} ELSE {req[r].target})
  \cup (IF req[r].kind = "transfer" /\ req[r].own # "administrator"
        THEN {req[r].actor} ELSE {})

\* Rows written by transactions that have not committed.
Locked == UNION {Writes(r) : r \in {s \in Requests : req[s].pc = "commit"}}

\* Slip: the row is not looked at again.
FlushBlind(r) ==
  /\ req[r].pc = "flush"
  /\ Writes(r) \cap Locked = {}
  /\ IF Writes(r) = {} THEN Reply(r) ELSE SendTo(r, "commit")
  /\ UNCHANGED <<role, claims, gone, owned>>

\* The UPDATEs or the DELETE, once the row locks are free; a transfer takes both
\* at once, since every session takes them in the order of the ids.  An UPDATE
\* of a row that is gone is a StaleDataError, a refresh of one raises too, and
\* a DELETE does nothing.
Flush(r) ==
  /\ req[r].pc = "flush"
  /\ Writes(r) \cap Locked = {}
  /\ IF Writes(r) = {} \/ \E u \in Writes(r) \cup {req[r].target} : role[u] = Absent
     THEN Reply(r)
     ELSE SendTo(r, "commit")
  /\ UNCHANGED <<role, claims, gone, owned>>

\* users after the commit of r.
Written(r) ==
  [u \in Users |->
     IF u \notin Writes(r) THEN role[u]
     ELSE IF u = req[r].target THEN req[r].want
     ELSE "administrator"]

\* get_db's commit, or the handler's own.  A request that began before and is
\* still at work has read owners that are no longer the owners.
Commit(r) ==
  /\ req[r].pc = "commit"
  /\ role' = Written(r)
  /\ LET now == {u \in Users : Written(r)[u] = "owner"} IN
       /\ owned' = owned \cup now
       /\ gone' = gone \cup {u \in Writes(r) : Written(r)[u] = Absent}
       /\ req' = [s \in Requests |->
            IF s = r THEN IdleReq
            ELSE [req[s] EXCEPT !.fresh = @ /\ now = Owners]]
  /\ UNCHANGED claims

\* An error or the end of the API process: the transaction is rolled back.
Fail(r) ==
  /\ req[r].pc # "idle"
  /\ Reply(r)
  /\ UNCHANGED <<role, claims, gone, owned>>

-----------------------------------------------------------------------------
RequestStep(r) ==
  \/ Create(r) \/ Register(r) \/ Startup(r) \/ SignUp(r) \/ Remove(r) \/ Update(r)
  \/ Count(r) \/ Transfer(r) \/ TransferSelf(r) \/ Flush(r) \/ Commit(r) \/ Fail(r)

Next == \/ \E u \in Users : Issue(u) \/ Expire(u)
        \/ \E r \in Requests : RequestStep(r)

Spec == Init /\ [][Next]_vars

-----------------------------------------------------------------------------
(* Properties.                                                             *)

Req == [pc : {"idle", "count", "self", "flush", "commit"},
        kind : Inserts \cup {"none", "remove", "update", "transfer"},
        actor : Users \cup {NoUser}, target : Users \cup {NoUser},
        seen : Roles \cup {Absent}, own : Roles \cup {Absent},
        want : Roles \cup {Absent}, fresh : BOOLEAN]

\* The values of the variables: no token of a lesser role is ever admitted.
TypeOK ==
  /\ role \in [Users -> Roles \cup {Absent}]
  /\ claims \in [Users -> SUBSET Staff]
  /\ req \in [Requests -> Req]
  /\ gone \in SUBSET Users
  /\ owned \in SUBSET Users

\* A user that has been removed stays removed: a role change or a transfer that
\* read the row before the removal never brings it back (base.py, update_role).
RemovedForGood == \A u \in gone : role[u] = Absent

\* The step commits request r.
Commits(r) == req[r].pc = "commit" /\ role' = Written(r) /\ req'[r].pc = "idle"

\* The last owner goes only by a request that decided on owners that another
\* commit has changed since: the guards of remove_user, update_role and
\* transfer_ownership are right as long as revocations do not overlap.
LastOwnerGuarded ==
  [][Owners # {} /\ Owners' = {} => \E r \in Requests : Commits(r) /\ ~req[r].fresh]_vars

\* Ownership is in owners' hands: whoever becomes an owner founds the system or
\* is appointed by someone who has been an owner, and whoever stops being one and
\* is still there was demoted by such a user, or by a role change that read the
\* row before it was an owner's (admin.py, update_user_role).
OwnersDecide ==
  [][\A u \in Users :
       /\ role[u] # "owner" /\ role'[u] = "owner" =>
            \E r \in Requests : /\ Commits(r)
                                /\ req[r].kind = "found" \/ req[r].actor \in owned
       /\ role[u] = "owner" /\ role'[u] \notin {"owner", Absent} =>
            \E r \in Requests : Commits(r) /\ (req[r].actor \in owned \/ ~req[r].fresh)]_vars

\* What update_role promises, "prevents removing the last owner from the system",
\* and remove_user with it.
OwnerRemains == owned # {} => Owners # {}
=============================================================================
