--------------------------- MODULE UserRoles_proofs ---------------------------
(***************************************************************************)
(* Proofs about UserRoles, for every number of users, requests and tokens. *)
(* Row locks come first: what a transaction has written stays as it found  *)
(* it until it commits.  Then what a request knows: one that no commit has *)
(* overtaken still sees the owners as they are, and one that makes or      *)
(* unmakes an owner has an actor who has been one.                         *)
(***************************************************************************)
EXTENDS UserRoles, FiniteSetTheorems, TLAPS

-----------------------------------------------------------------------------
(* The invariants.                                                         *)

\* What the locals of a request are for each kind of it.
Formed ==
  \A r \in Requests :
    LET q == req[r] IN
    /\ q.pc = "idle" => q = IdleReq
    /\ q.pc # "idle" => q.kind # "none" /\ q.target \in Users
    /\ q.kind \in Inserts => q.pc = "commit" /\ q.want \in Roles /\ q.seen = Absent
    /\ q.kind \in {"remove", "update", "transfer"} => q.actor \in Users /\ q.seen \in Roles
    /\ q.kind = "remove" => q.want = Absent
    /\ q.kind = "update" => q.want \in Roles
    /\ q.kind = "transfer" => q.want = "owner" /\ q.actor # q.target
    /\ q.pc = "self" => q.kind = "transfer"
    /\ q.pc = "count" => q.kind \in {"remove", "update"}

\* A user that is being inserted is nobody else's business.
Inserting ==
  \A r \in Requests : req[r].kind \in Inserts =>
    /\ role[req[r].target] = Absent
    /\ req[r].target \notin gone
    /\ \A s \in Requests \ {r} : req[s].target # req[r].target

\* One transaction at a time has written a row; an update's row stays there.
Locks ==
  /\ \A r \in Requests : req[r].pc = "commit" /\ req[r].kind \notin Inserts =>
       \A u \in Writes(r) : role[u] # Absent
  /\ \A r, s \in Requests : r # s /\ req[r].pc = "commit" /\ req[s].pc = "commit" =>
       Writes(r) \cap Writes(s) = {}

\* A request no commit has overtaken: its target is an owner if it was one, and
\* one that takes ownership away has counted another owner.
Current ==
  \A r \in Requests : req[r].fresh /\ req[r].kind \in {"remove", "update", "transfer"} =>
    /\ (req[r].seen = "owner") = (role[req[r].target] = "owner")
    /\ req[r].pc \in {"flush", "commit"} /\ req[r].kind # "transfer"
         /\ req[r].seen = "owner" /\ req[r].want # "owner" => Cardinality(Owners) > 1

\* Tokens and requests that appoint or demote an owner are an owner's.
Chiefs ==
  /\ Owners \subseteq owned
  /\ \A u \in Users : "owner" \in claims[u] => u \in owned
  /\ \A r \in Requests :
       /\ req[r].kind \in {"create", "update", "transfer"} /\ req[r].want = "owner" =>
            req[r].actor \in owned
       /\ req[r].kind = "update" /\ req[r].seen = "owner" => req[r].actor \in owned

TypeInv == TypeOK /\ Formed
LockInv == Inserting /\ Locks /\ RemovedForGood

USE DEF vars

-----------------------------------------------------------------------------
(* The steps.                                                              *)

\* What a request is when it begins.
Started(pc, kind, actor, target, want) ==
  /\ target \in Users
  /\ actor \in Users \cup {NoUser}
  /\ want \in Roles \cup {Absent}
  /\ kind \in Inserts \/ (actor \in Users /\ role[target] # Absent)
  /\ \/ /\ kind \in Inserts
        /\ pc = "commit"
        /\ want \in Roles
        /\ role[target] = Absent
        /\ target \notin gone
        /\ \A s \in Requests : req[s].target # target
        /\ want = "owner" /\ kind = "create" => actor \in Users /\ "owner" \in claims[actor]
     \/ kind = "remove" /\ want = Absent /\ pc = IF role[target] = "owner" THEN "count" ELSE "flush"
     \/ /\ kind = "update"
        /\ want \in Roles
        /\ "owner" \in {want, role[target]} => "owner" \in claims[actor]
        /\ pc = IF role[target] = "owner" /\ want # "owner" THEN "count" ELSE "flush"
     \/ kind = "transfer" /\ want = "owner" /\ pc = "self" /\ actor # target
        /\ "owner" \in claims[actor]

\* The steps of a request that begins.
Opens(r) == Create(r) \/ Register(r) \/ Startup(r) \/ SignUp(r)
            \/ Remove(r) \/ Update(r) \/ Transfer(r)

LEMMA Opening ==
  ASSUME TypeInv, NEW r \in Requests, Opens(r)
  PROVE  \E pc, kind, actor, target, want :
           /\ Idle(r)
           /\ Begin(r, pc, kind, actor, target, want)
           /\ Started(pc, kind, actor, target, want)
<1> USE ConstAssumption DEF TypeInv, TypeOK, Idle, Started, Inserts, Roles, Staff
<1>1. CASE Create(r)
  BY <1>1 DEF Create, Unused
<1>2. CASE Register(r)
  BY <1>2 DEF Register, Unused
<1>3. CASE Startup(r)
  <2>1. DefaultUser \in Users
    BY <1>3 DEF Startup
  <2> QED BY <1>3, <2>1 DEF Startup
<1>4. CASE SignUp(r)
  BY <1>4 DEF SignUp, Unused
<1>5. CASE Remove(r)
  BY <1>5 DEF Remove
<1>6. CASE Update(r)
  BY <1>6 DEF Update
<1>7. CASE Transfer(r)
  BY <1>7 DEF Transfer
<1> QED BY <1>1, <1>2, <1>3, <1>4, <1>5, <1>6, <1>7 DEF Opens

\* The request that begins, field by field.
LEMMA Opened ==
  ASSUME TypeInv, NEW r \in Requests, NEW pc, NEW kind, NEW actor, NEW target, NEW want,
         Begin(r, pc, kind, actor, target, want),
         Started(pc, kind, actor, target, want)
  PROVE  /\ req'[r].pc = pc /\ req'[r].kind = kind /\ req'[r].actor = actor
         /\ req'[r].target = target /\ req'[r].want = want
         /\ req'[r].own = Absent /\ req'[r].fresh
         /\ req'[r].seen = IF kind \in Inserts THEN Absent ELSE role[target]
         /\ req'[r] \in Req
         /\ \A s \in Requests \ {r} : req'[s] = req[s]
         /\ req' \in [Requests -> Req]
         /\ UNCHANGED <<role, claims, gone, owned>>
<1> DEFINE q == [IdleReq EXCEPT !.pc = pc, !.kind = kind, !.actor = actor,
                   !.target = target, !.want = want, !.fresh = TRUE,
                   !.seen = IF kind \in Inserts THEN Absent ELSE role[target]]
<1>1. req' = [req EXCEPT ![r] = q] /\ UNCHANGED <<role, claims, gone, owned>>
  BY DEF Begin
<1>2. /\ q.pc = pc /\ q.kind = kind /\ q.actor = actor /\ q.target = target
      /\ q.want = want /\ q.own = Absent /\ q.fresh = TRUE
      /\ q.seen = IF kind \in Inserts THEN Absent ELSE role[target]
  BY DEF IdleReq
<1>3. q \in Req
  <2>1. pc \in {"count", "flush", "commit", "self"}
    BY DEF Started
  <2>2. kind \in Inserts \cup {"remove", "update", "transfer"}
    BY DEF Started, Inserts
  <2>3. (IF kind \in Inserts THEN Absent ELSE role[target]) \in Roles \cup {Absent}
    BY DEF Started, TypeInv, TypeOK
  <2> QED BY <2>1, <2>2, <2>3 DEF Started, Req, IdleReq, Inserts
<1> HIDE DEF q
<1>4. req' \in [Requests -> Req] /\ req'[r] = q /\ \A s \in Requests \ {r} : req'[s] = req[s]
  BY <1>1, <1>3 DEF TypeInv, TypeOK
<1> QED BY <1>1, <1>2, <1>3, <1>4

\* The steps of a request between its beginning and its end.
Goes(r) == Count(r) \/ TransferSelf(r) \/ Flush(r) \/ Fail(r)

LEMMA Going ==
  ASSUME TypeInv, NEW r \in Requests, Goes(r)
  PROVE  /\ req' \in [Requests -> Req]
         /\ \A s \in Requests \ {r} : req'[s] = req[s]
         /\ UNCHANGED <<role, claims, gone, owned>>
         /\ \/ req'[r] = IdleReq
            \/ /\ req'[r].kind = req[r].kind /\ req'[r].actor = req[r].actor
               /\ req'[r].target = req[r].target /\ req'[r].seen = req[r].seen
               /\ req'[r].want = req[r].want /\ req'[r].fresh = req[r].fresh
               /\ \/ /\ req[r].pc = "count" /\ req'[r].pc = "flush"
                     /\ Cardinality(Owners) > 1 /\ req'[r].own = req[r].own
                  \/ req[r].pc = "self" /\ req'[r].pc = "flush"
                  \/ /\ req[r].pc = "flush" /\ req'[r].pc = "commit"
                     /\ req'[r].own = req[r].own
                     /\ Writes(r) \cap Locked = {}
                     /\ \A u \in Writes(r) : role[u] # Absent
<1> USE DEF TypeInv, TypeOK
<1>1. IdleReq \in Req
  BY ConstAssumption DEF IdleReq, Req, Inserts
<1>2. ASSUME Reply(r)
      PROVE  /\ req' \in [Requests -> Req] /\ req'[r] = IdleReq
             /\ \A s \in Requests \ {r} : req'[s] = req[s]
  BY <1>1, <1>2 DEF Reply
<1>3. ASSUME NEW pc \in {"flush", "commit"}, SendTo(r, pc)
      PROVE  /\ req' \in [Requests -> Req]
             /\ \A s \in Requests \ {r} : req'[s] = req[s]
             /\ req'[r].pc = pc /\ req'[r].kind = req[r].kind /\ req'[r].actor = req[r].actor
             /\ req'[r].target = req[r].target /\ req'[r].seen = req[r].seen
             /\ req'[r].want = req[r].want /\ req'[r].fresh = req[r].fresh
             /\ req'[r].own = req[r].own
  <2>1. req'[r] = [req[r] EXCEPT !.pc = pc] /\ \A s \in Requests \ {r} : req'[s] = req[s]
    BY <1>3 DEF SendTo
  <2>2. [req[r] EXCEPT !.pc = pc] \in Req
    BY DEF Req
  <2> QED BY <1>3, <2>1, <2>2 DEF SendTo, Req
<1>4. CASE Count(r)
  <2>1. UNCHANGED <<role, claims, gone, owned>> /\ req[r].pc = "count"
    BY <1>4 DEF Count
  <2>2. CASE Cardinality(Owners) <= 1
    BY <1>2, <1>4, <2>1, <2>2 DEF Count
  <2>3. CASE ~(Cardinality(Owners) <= 1)
    <3>1. Cardinality(Owners) \in Nat
      BY FS_Subset, FS_CardinalityType, ConstAssumption DEF Owners
    <3> QED BY <1>3, <1>4, <2>1, <2>3, <3>1 DEF Count
  <2> QED BY <2>2, <2>3
<1>5. CASE TransferSelf(r)
  <2> DEFINE own == role[req[r].actor]
  <2>1. UNCHANGED <<role, claims, gone, owned>> /\ req[r].pc = "self"
    BY <1>5 DEF TransferSelf
  <2>2. CASE own = Absent
    BY <1>2, <1>5, <2>1, <2>2 DEF TransferSelf
  <2>3. CASE own # Absent
    <3>1. own \in Roles
      BY <2>1, <2>3 DEF Formed
    <3>2. req' = [req EXCEPT ![r] = [@ EXCEPT !.pc = "flush", !.own = own]]
      BY <1>5, <2>3 DEF TransferSelf
    <3> HIDE DEF own
    <3>3. [req[r] EXCEPT !.pc = "flush", !.own = own] \in Req
      BY <3>1 DEF Req
    <3> QED BY <2>1, <3>2, <3>3 DEF Req
  <2> QED BY <2>2, <2>3
<1>6. CASE Flush(r)
  <2>1. UNCHANGED <<role, claims, gone, owned>> /\ req[r].pc = "flush"
    BY <1>6 DEF Flush
  <2>2. CASE Reply(r)
    BY <1>2, <2>1, <2>2
  <2>3. CASE ~Reply(r)
    <3>1. /\ SendTo(r, "commit") /\ Writes(r) \cap Locked = {}
          /\ \A u \in Writes(r) : role[u] # Absent
      BY <1>6, <2>3 DEF Flush
    <3> QED BY <1>3, <2>1, <3>1
  <2> QED BY <2>2, <2>3
<1>7. CASE Fail(r)
  BY <1>2, <1>7 DEF Fail
<1> QED BY <1>4, <1>5, <1>6, <1>7 DEF Goes

\* The commit, field by field.
LEMMA Committing ==
  ASSUME TypeInv, NEW r \in Requests, Commit(r)
  PROVE  /\ req' \in [Requests -> Req]
         /\ req[r].pc = "commit" /\ req'[r] = IdleReq
         /\ \A s \in Requests \ {r} :
              /\ req'[s].pc = req[s].pc /\ req'[s].kind = req[s].kind
              /\ req'[s].actor = req[s].actor /\ req'[s].target = req[s].target
              /\ req'[s].seen = req[s].seen /\ req'[s].want = req[s].want
              /\ req'[s].own = req[s].own
              /\ req'[s].fresh => req[s].fresh /\ Owners' = Owners
         /\ role' = Written(r)
         /\ \A u \in Users : u \notin Writes(r) => role'[u] = role[u]
         /\ \A u \in Writes(r) \cap Users :
              role'[u] = IF u = req[r].target THEN req[r].want ELSE "administrator"
         /\ owned' = owned \cup Owners'
         /\ gone' = gone \cup {u \in Writes(r) : Written(r)[u] = Absent}
         /\ claims' = claims
<1> DEFINE now == {u \in Users : Written(r)[u] = "owner"}
           still(s) == req[s].fresh /\ now = Owners
<1> USE DEF TypeInv, TypeOK
<1>1. /\ req[r].pc = "commit" /\ role' = Written(r) /\ claims' = claims
      /\ owned' = owned \cup now
      /\ gone' = gone \cup {u \in Writes(r) : Written(r)[u] = Absent}
      /\ req' = [s \in Requests |->
           IF s = r THEN IdleReq ELSE [req[s] EXCEPT !.fresh = still(s)]]
  BY DEF Commit
<1>2. Owners' = now
  BY <1>1 DEF Owners
<1>3. ASSUME NEW s \in Requests \ {r}
      PROVE  /\ req'[s] \in Req
             /\ req'[s].pc = req[s].pc /\ req'[s].kind = req[s].kind
             /\ req'[s].actor = req[s].actor /\ req'[s].target = req[s].target
             /\ req'[s].seen = req[s].seen /\ req'[s].want = req[s].want
             /\ req'[s].own = req[s].own
             /\ req'[s].fresh = still(s)
  <2>1. PICK b \in BOOLEAN : b = still(s)
    OBVIOUS
  <2>2. req'[s] = [req[s] EXCEPT !.fresh = b]
    BY <1>1, <2>1
  <2>3. req[s] \in Req
    OBVIOUS
  <2>4. [req[s] EXCEPT !.fresh = b] \in Req /\ [req[s] EXCEPT !.fresh = b].fresh = b
    BY <2>3, Zenon DEF Req
  <2>5. /\ req'[s].pc = req[s].pc /\ req'[s].kind = req[s].kind
        /\ req'[s].actor = req[s].actor /\ req'[s].target = req[s].target
        /\ req'[s].seen = req[s].seen /\ req'[s].want = req[s].want
        /\ req'[s].own = req[s].own
    BY <2>2, <2>3 DEF Req
  <2> QED BY <2>1, <2>2, <2>4, <2>5
<1>4. IdleReq \in Req
  BY ConstAssumption DEF IdleReq, Req, Inserts
<1>5. req' \in [Requests -> Req] /\ req'[r] = IdleReq
  BY <1>1, <1>3, <1>4
<1>6. /\ \A u \in Users : u \notin Writes(r) => role'[u] = role[u]
      /\ \A u \in Writes(r) \cap Users :
           role'[u] = IF u = req[r].target THEN req[r].want ELSE "administrator"
  <2> DEFINE W == Writes(r)
  <2>1. role' = [u \in Users |-> IF u \notin W THEN role[u]
                                  ELSE IF u = req[r].target THEN req[r].want
                                  ELSE "administrator"]
    BY <1>1 DEF Written
  <2> HIDE DEF W
  <2>2. ASSUME NEW u \in Users, u \notin W PROVE role'[u] = role[u]
    BY <2>1, <2>2
  <2>3. ASSUME NEW u \in Users, u \in W, u = req[r].target PROVE role'[u] = req[r].want
    BY <2>1, <2>3
  <2>4. ASSUME NEW u \in Users, u \in W, u # req[r].target PROVE role'[u] = "administrator"
    BY <2>1, <2>4
  <2> QED BY <2>2, <2>3, <2>4 DEF W
<1> QED BY <1>1, <1>2, <1>3, <1>5, <1>6

\* The steps of the tokens.
LEMMA Tokens ==
  ASSUME TypeInv, NEW u \in Users, Issue(u) \/ Expire(u)
  PROVE  /\ UNCHANGED <<role, req, gone, owned>>
         /\ claims' \in [Users -> SUBSET Staff]
         /\ \A v \in Users : "owner" \in claims'[v] => "owner" \in claims[v] \/ role[v] = "owner"
BY DEF TypeInv, TypeOK, Issue, Expire

\* Which steps there are.
LEMMA Steps ==
  ASSUME [Next]_vars
  PROVE  \/ UNCHANGED vars
         \/ \E u \in Users : Issue(u) \/ Expire(u)
         \/ \E r \in Requests : Opens(r) \/ Goes(r) \/ Commit(r)
BY DEF Next, RequestStep, Opens, Goes

-----------------------------------------------------------------------------
(* Types.                                                                  *)

LEMMA WrittenTyped ==
  ASSUME TypeInv, NEW r \in Requests, Commit(r)
  PROVE  role' \in [Users -> Roles \cup {Absent}]
<1>1. req[r] \in Req
  BY DEF TypeInv, TypeOK
<1>2. req[r].want \in Roles \cup {Absent}
  BY <1>1 DEF Req
<1>3. \A u \in Users : role'[u] \in Roles \cup {Absent}
  BY <1>2, Committing DEF TypeInv, TypeOK, Roles, Staff
<1>4. role' = Written(r)
  BY Committing
<1> QED BY <1>3, <1>4 DEF Written

LEMMA TypeStep == TypeInv /\ [Next]_vars => TypeInv'
<1> SUFFICES ASSUME TypeInv, [Next]_vars PROVE TypeInv'
  OBVIOUS
<1>1. CASE UNCHANGED vars
  BY <1>1 DEF TypeInv, TypeOK, Formed
<1>2. ASSUME NEW u \in Users, Issue(u) \/ Expire(u) PROVE TypeInv'
  BY <1>2, Tokens DEF TypeInv, TypeOK, Formed
<1>3. ASSUME NEW r \in Requests, Opens(r) PROVE TypeInv'
  <2>1. PICK pc, kind, actor, target, want :
          /\ Begin(r, pc, kind, actor, target, want)
          /\ Started(pc, kind, actor, target, want)
    BY <1>3, Opening
  <2>2. TypeOK'
    BY <2>1, Opened DEF TypeInv, TypeOK
  <2>3. Formed'
    BY <2>1, Opened DEF TypeInv, TypeOK, Formed, Started, Inserts
  <2> QED BY <2>2, <2>3 DEF TypeInv
<1>4. ASSUME NEW r \in Requests, Goes(r) PROVE TypeInv'
  <2>1. TypeOK'
    BY <1>4, Going DEF TypeInv, TypeOK
  <2>2. Formed'
    <3>1. CASE req'[r] = IdleReq
      <4>1. IdleReq.pc = "idle" /\ IdleReq.kind = "none"
        BY DEF IdleReq
      <4> QED BY <1>4, <3>1, <4>1, Going DEF TypeInv, Formed, Inserts
    <3>2. CASE req'[r] # IdleReq
      BY <1>4, <3>2, Going DEF TypeInv, Formed, Inserts
    <3> QED BY <3>1, <3>2
  <2> QED BY <2>1, <2>2 DEF TypeInv
<1>5. ASSUME NEW r \in Requests, Commit(r) PROVE TypeInv'
  <2>1. Owners' \in SUBSET Users
    BY DEF Owners
  <2>2. Writes(r) \subseteq Users
    BY <1>5, Committing DEF Writes, TypeInv, Formed
  <2>3. TypeOK'
    BY <1>5, <2>1, <2>2, Committing, WrittenTyped DEF TypeInv, TypeOK
  <2>4. Formed'
    <3>1. ASSUME NEW s \in Requests \ {r}, req[s].pc = "idle"
          PROVE  req'[s] = IdleReq
      <4>1. req[s] = IdleReq /\ req[s].fresh = FALSE
        <5>1. req[s] = IdleReq
          BY <3>1 DEF TypeInv, Formed
        <5> QED BY <5>1 DEF IdleReq
      <4>2. req'[s].fresh = FALSE /\ req'[s] \in Req /\ req[s] \in Req
        BY <1>5, <2>3, <4>1, Committing DEF TypeInv, TypeOK, Req
      <4> QED BY <1>5, <4>1, <4>2, Committing DEF Req
    <3>2. ASSUME NEW s \in Requests \ {r}, req[s].pc # "idle"
          PROVE  req'[s].pc # "idle"
      BY <1>5, <3>2, Committing
    <3>3. /\ IdleReq.pc = "idle" /\ IdleReq.kind = "none"
      BY DEF IdleReq
    <3> QED BY <1>5, <3>1, <3>2, <3>3, Committing DEF TypeInv, Formed, Inserts
  <2> QED BY <2>3, <2>4 DEF TypeInv
<1> QED BY <1>1, <1>2, <1>3, <1>4, <1>5, Steps

LEMMA TypeInit == Init => TypeInv
BY ConstAssumption DEF Init, TypeInv, TypeOK, Formed, IdleReq, Req, Inserts

\* The values of the variables, for every number of users, requests and tokens.
THEOREM TypeCorrect == Spec => []TypeOK
<1>1. TypeInv => TypeOK
  BY DEF TypeInv
<1> QED BY TypeInit, TypeStep, <1>1, PTL DEF Spec

-----------------------------------------------------------------------------
(* Row locks, and the removed.                                             *)

\* What the requests write.
LEMMA WritesFormed ==
  ASSUME TypeInv, NEW r \in Requests
  PROVE  /\ Writes(r) \subseteq Users
         /\ req[r].kind \in Inserts => req[r].pc = "commit" /\ Writes(r) = {req[r].target}
<1>1. req[r] = IdleReq => Writes(r) = {}
  BY DEF Writes, IdleReq
<1>2. req[r].pc # "idle" => Writes(r) \subseteq Users
  BY DEF TypeInv, Formed, Writes
<1> QED BY <1>1, <1>2, ConstAssumption DEF TypeInv, Formed, Writes, Inserts

LEMMA LockStep == TypeInv /\ LockInv /\ [Next]_vars => LockInv'
<1> SUFFICES ASSUME TypeInv, LockInv, [Next]_vars PROVE LockInv'
  OBVIOUS
<1> USE DEF LockInv
<1>0. TypeInv'
  BY TypeStep
<1>1. CASE UNCHANGED vars
  BY <1>1 DEF Inserting, Locks, RemovedForGood, Writes
<1>2. ASSUME NEW u \in Users, Issue(u) \/ Expire(u) PROVE LockInv'
  <2>1. role' = role /\ req' = req /\ gone' = gone
    BY <1>2, Tokens
  <2>2. Inserting' /\ RemovedForGood'
    BY <2>1 DEF Inserting, RemovedForGood
  <2>3. Locks'
    <3>1. \A r \in Requests : Writes(r)' = Writes(r)
      BY <2>1 DEF Writes
    <3> QED BY <2>1, <3>1 DEF Locks
  <2> QED BY <2>2, <2>3
<1>3. ASSUME NEW r \in Requests, Opens(r) PROVE LockInv'
  <2>1. PICK pc, kind, actor, target, want :
          /\ Idle(r)
          /\ Begin(r, pc, kind, actor, target, want)
          /\ Started(pc, kind, actor, target, want)
    BY <1>3, Opening
  <2>2. Inserting'
    <3>1. ASSUME NEW s \in Requests \ {r}, req[s].kind \in Inserts PROVE req[s].target # target
      <4>1. role[req[s].target] = Absent
        BY <3>1 DEF Inserting
      <4>2. role[target] # Absent \/ req[s].target # target
        BY <2>1 DEF Started, Inserts
      <4> QED BY <4>1, <4>2
    <3>2. kind \in Inserts => /\ role[target] = Absent /\ target \notin gone
                             /\ \A s \in Requests : req[s].target # target
      BY <2>1 DEF Started, Inserts
    <3> QED BY <2>1, <3>1, <3>2, Opened DEF Inserting
  <2>3. \A s \in Requests \ {r} : Writes(s)' = Writes(s)
    BY <2>1, Opened DEF Writes
  <2>4. req'[r].pc = "commit" => req'[r].kind \in Inserts /\ Writes(r)' = {target}
    BY <2>1, Opened, ConstAssumption DEF Started, Writes, Inserts
  <2>5. ASSUME NEW s \in Requests \ {r}, req[s].pc = "commit", kind \in Inserts
        PROVE  target \notin Writes(s)
    <3>1. CASE req[s].kind \in Inserts
      <4>1. req[s].target # target
        BY <2>1, <2>5 DEF Started, Inserts
      <4> QED BY <3>1, <4>1, WritesFormed
    <3>2. CASE req[s].kind \notin Inserts
      BY <2>1, <2>5, <3>2 DEF Started, Locks, Inserts
    <3> QED BY <3>1, <3>2
  <2>6. Locks'
    BY <2>1, <2>3, <2>4, <2>5, Opened DEF Locks
  <2> QED BY <2>1, <2>2, <2>6, Opened DEF RemovedForGood
<1>4. ASSUME NEW r \in Requests, Goes(r) PROVE LockInv'
  <2>1. \A s \in Requests \ {r} : Writes(s)' = Writes(s)
    BY <1>4, Going DEF Writes
  <2>2. Inserting'
    <3>1. IdleReq.kind \notin Inserts /\ IdleReq.target \notin Users
      BY ConstAssumption DEF IdleReq, Inserts
    <3>2. req'[r] # IdleReq => req'[r].kind \notin Inserts /\ req'[r].target = req[r].target
      BY <1>4, Going DEF TypeInv, Formed
    <3>3. ASSUME NEW s \in Requests, req[s].kind \in Inserts PROVE req[s].target \in Users
      BY <3>3 DEF TypeInv, Formed
    <3> QED BY <1>4, <3>1, <3>2, <3>3, Going DEF Inserting
  <2>3. ASSUME req'[r].pc = "commit"
        PROVE  /\ Writes(r)' = Writes(r)
               /\ \A u \in Writes(r) : role[u] # Absent
               /\ \A s \in Requests \ {r} : req[s].pc = "commit" => Writes(r) \cap Writes(s) = {}
    <3>1. Writes(r)' = Writes(r) /\ Writes(r) \cap Locked = {} /\ \A u \in Writes(r) : role[u] # Absent
      BY <1>4, <2>3, Going DEF Writes, IdleReq
    <3> QED BY <3>1 DEF Locked
  <2>4. Locks'
    BY <1>4, <2>1, <2>3, Going DEF Locks
  <2> QED BY <1>4, <2>2, <2>4, Going DEF RemovedForGood
<1>5. ASSUME NEW r \in Requests, Commit(r) PROVE LockInv'
  <2>1. \A s \in Requests \ {r} : Writes(s)' = Writes(s)
    BY <1>5, Committing DEF Writes
  <2>2. ASSUME NEW s \in Requests \ {r}, req[s].pc = "commit"
        PROVE  \A u \in Writes(s) \cap Users : role'[u] = role[u]
    BY <1>5, <2>2, Committing DEF Locks
  <2>3. Inserting'
    <3>1. ASSUME NEW s \in Requests \ {r}, req[s].kind \in Inserts
          PROVE  /\ req[s].pc = "commit" /\ Writes(s) = {req[s].target}
                 /\ req[s].target \in Users
                 /\ req[s].target \notin Writes(r)
      <4>1. /\ req[s].pc = "commit" /\ Writes(s) = {req[s].target}
            /\ req[s].target \in Users
        BY <3>1, ConstAssumption DEF Writes, Inserts, TypeInv, Formed
      <4>2. Writes(r) \cap Writes(s) = {}
        BY <1>5, <4>1, Committing DEF Locks
      <4> QED BY <4>1, <4>2
    <3>2. IdleReq.kind \notin Inserts /\ IdleReq.target \notin Users
      BY ConstAssumption DEF IdleReq, Inserts
    <3> QED BY <1>5, <2>2, <3>1, <3>2, Committing DEF Inserting
  <2>4. Locks'
    <3>1. IdleReq.pc # "commit"
      BY DEF IdleReq
    <3>2. \A s \in Requests : Writes(s) \cap Users = Writes(s)
      BY WritesFormed
    <3> QED BY <1>5, <2>1, <2>2, <3>1, <3>2, Committing DEF Locks
  <2>5. RemovedForGood'
    <3>1. ASSUME NEW u \in gone PROVE role'[u] = Absent
      <4>1. u \in Users /\ role[u] = Absent
        BY DEF TypeInv, TypeOK, RemovedForGood
      <4>2. u \notin Writes(r)
        <5>1. CASE req[r].kind \in Inserts
          BY <5>1 DEF Inserting, Writes, Inserts
        <5>2. CASE req[r].kind \notin Inserts
          BY <1>5, <4>1, <5>2, Committing DEF Locks
        <5> QED BY <5>1, <5>2
      <4> QED BY <1>5, <4>1, <4>2, Committing
    <3>2. role' = Written(r)
      BY <1>5, Committing
    <3> QED BY <1>5, <3>1, <3>2, Committing DEF RemovedForGood
  <2> QED BY <2>3, <2>4, <2>5
<1> QED BY <1>1, <1>2, <1>3, <1>4, <1>5, Steps

LEMMA LockInit == Init => LockInv
BY DEF Init, LockInv, Inserting, Locks, RemovedForGood, IdleReq, Inserts

\* A removed user stays removed: row locks and the look at the row at the flush
\* keep a role change that read it before from bringing it back.
THEOREM RemovalIsFinal == Spec => []RemovedForGood
<1>1. LockInv => RemovedForGood
  BY DEF LockInv
<1> QED BY TypeInit, TypeStep, LockInit, LockStep, <1>1, PTL DEF Spec

-----------------------------------------------------------------------------
(* The owners a request has seen.                                          *)

LEMMA CurrentStep == TypeInv /\ LockInv /\ Current /\ [Next]_vars => Current'
<1> SUFFICES ASSUME TypeInv, LockInv, Current, [Next]_vars PROVE Current'
  OBVIOUS
<1>1. CASE UNCHANGED vars
  BY <1>1 DEF Current, Owners
<1>2. ASSUME NEW u \in Users, Issue(u) \/ Expire(u) PROVE Current'
  <2>1. role' = role /\ req' = req
    BY <1>2, Tokens
  <2> QED BY <2>1 DEF Current, Owners
<1>3. ASSUME NEW r \in Requests, Opens(r) PROVE Current'
  <2>1. PICK pc, kind, actor, target, want :
          /\ Begin(r, pc, kind, actor, target, want)
          /\ Started(pc, kind, actor, target, want)
    BY <1>3, Opening
  <2>2. Owners' = Owners
    BY <2>1, Opened DEF Owners
  <2>3. ASSUME kind \in {"remove", "update", "transfer"}
        PROVE  /\ pc \in {"flush", "commit"} /\ kind # "transfer" =>
                    role[target] # "owner" \/ want = "owner"
               /\ req'[r].seen = role[target]
    <3>1. req'[r].seen = role[target]
      BY <2>1, <2>3, Opened DEF Inserts
    <3> QED BY <2>1, <2>3, <3>1 DEF Started, Inserts
  <2>4. /\ req'[r].kind = kind /\ req'[r].pc = pc /\ req'[r].target = target
        /\ req'[r].want = want /\ role' = role
        /\ \A s \in Requests \ {r} : req'[s] = req[s]
    BY <2>1, Opened
  <2>5. ASSUME req'[r].kind \in {"remove", "update", "transfer"}
        PROVE  /\ (req'[r].seen = "owner") = (role'[req'[r].target] = "owner")
               /\ ~ /\ req'[r].pc \in {"flush", "commit"} /\ req'[r].kind # "transfer"
                    /\ req'[r].seen = "owner" /\ req'[r].want # "owner"
    BY <2>3, <2>4, <2>5
  <2> QED BY <2>2, <2>4, <2>5 DEF Current
<1>4. ASSUME NEW r \in Requests, Goes(r) PROVE Current'
  <2>1. Owners' = Owners
    BY <1>4, Going DEF Owners
  <2>2. IdleReq.kind = "none" /\ req[r].pc = "self" => req[r].kind = "transfer"
    BY DEF IdleReq, TypeInv, Formed
  <2>3. IdleReq.kind = "none"
    BY DEF IdleReq
  <2> QED BY <1>4, <2>1, <2>2, <2>3, Going DEF Current
<1>5. ASSUME NEW r \in Requests, Commit(r) PROVE Current'
  <2>1. ASSUME NEW s \in Requests \ {r}, req'[s].fresh,
               req'[s].kind \in {"remove", "update", "transfer"}
        PROVE  Owners' = Owners /\ (role[req[s].target] = "owner") = (role'[req[s].target] = "owner")
    <3>1. Owners' = Owners
      BY <1>5, <2>1, Committing
    <3>2. req[s].target \in Users
      <4>1. req[s].kind # "none"
        BY <1>5, <2>1, Committing
      <4>2. IdleReq.kind = "none"
        BY DEF IdleReq
      <4> QED BY <4>1, <4>2 DEF TypeInv, Formed
    <3> QED BY <3>1, <3>2 DEF Owners
  <2>2. IdleReq.kind = "none"
    BY DEF IdleReq
  <2> QED BY <1>5, <2>1, <2>2, Committing DEF Current
<1> QED BY <1>1, <1>2, <1>3, <1>4, <1>5, Steps

LEMMA LastOwnerStep ==
  TypeInv /\ LockInv /\ Current /\ [Next]_vars =>
    [Owners # {} /\ Owners' = {} => \E r \in Requests : Commits(r) /\ ~req[r].fresh]_vars
<1> SUFFICES ASSUME TypeInv, LockInv, Current, [Next]_vars, Owners # {}, Owners' = {}
             PROVE  \E r \in Requests : Commits(r) /\ ~req[r].fresh
  OBVIOUS
<1>1. PICK r \in Requests : Commit(r)
  <2>1. role' # role
    BY DEF Owners
  <2>2. ASSUME NEW r \in Requests, Opens(r) PROVE role' = role
    BY <2>2, Opening, Opened
  <2>3. ASSUME NEW r \in Requests, Goes(r) PROVE role' = role
    BY <2>3, Going
  <2>4. ASSUME NEW u \in Users, Issue(u) \/ Expire(u) PROVE role' = role
    BY <2>4, Tokens
  <2> QED BY <2>1, <2>2, <2>3, <2>4, Steps
<1>2. Commits(r)
  <2>1. IdleReq.pc = "idle"
    BY DEF IdleReq
  <2> QED BY <1>1, <2>1, Committing DEF Commits
<1>3. ASSUME req[r].fresh PROVE FALSE
  <2> DEFINE t == req[r].target
  <2>0. req[r].pc = "commit" /\ t \in Users /\ req[r].kind # "none"
    BY <1>1, Committing DEF TypeInv, Formed
  <2>1. \A u \in Owners : u \in Writes(r) /\ u \in Users
    BY <1>1, Committing DEF Owners
  <2>2. ASSUME t \in Writes(r), req[r].want = "owner" PROVE FALSE
    BY <1>1, <2>0, <2>2, Committing DEF Owners
  <2>3. req[r].kind \in Inserts \cup {"remove", "update", "transfer"}
    BY <2>0 DEF TypeInv, TypeOK, Req
  <2>4. CASE req[r].kind \in Inserts
    <3>1. Writes(r) = {t} /\ role[t] = Absent
      BY <2>4, WritesFormed DEF LockInv, Inserting
    <3> QED BY <2>1, <3>1, ConstAssumption DEF Owners, Roles, Staff
  <2>5. CASE req[r].kind = "transfer"
    <3>1. req[r].want = "owner" /\ t # req[r].actor
      BY <2>5 DEF TypeInv, Formed
    <3>2. CASE req[r].seen = "owner"
      <4>1. t \in Owners /\ t \notin Writes(r)
        BY <1>3, <2>0, <2>5, <3>1, <3>2 DEF Current, Owners, Writes
      <4> QED BY <2>1, <4>1
    <3>3. CASE req[r].seen # "owner"
      BY <2>2, <2>5, <3>1, <3>3 DEF Writes
    <3> QED BY <3>2, <3>3
  <2>6. CASE req[r].kind \in {"remove", "update"}
    <3>1. Writes(r) \subseteq {t}
      BY <2>6 DEF Writes
    <3>2. Owners = {t}
      BY <2>1, <3>1
    <3>3. req[r].seen = "owner" /\ t \in Writes(r)
      BY <1>3, <2>1, <2>6, <3>2 DEF Current, Owners
    <3>4. req[r].want # "owner"
      BY <2>2, <3>3
    <3>5. Cardinality(Owners) > 1
      BY <1>3, <2>0, <2>6, <3>3, <3>4 DEF Current
    <3>6. Cardinality(Owners) = 1
      BY <3>2, FS_Singleton
    <3> QED BY <3>5, <3>6
  <2> QED BY <2>3, <2>4, <2>5, <2>6
<1> QED BY <1>2, <1>3

\* The guards of remove_user, update_role and transfer_ownership keep an owner,
\* as long as no other commit changes who the owners are while they decide.
THEOREM LastOwner == Spec => LastOwnerGuarded
<1>1. Init => Current
  BY DEF Init, Current, IdleReq
<1> QED BY TypeInit, TypeStep, LockInit, LockStep, <1>1, CurrentStep, LastOwnerStep, PTL
        DEF Spec, LastOwnerGuarded

-----------------------------------------------------------------------------
(* The owners and their actors.                                            *)

LEMMA ChiefStep == TypeInv /\ LockInv /\ Chiefs /\ [Next]_vars => Chiefs'
<1> SUFFICES ASSUME TypeInv, LockInv, Chiefs, [Next]_vars PROVE Chiefs'
  OBVIOUS
<1>0. IdleReq.kind = "none"
  BY DEF IdleReq
<1>1. CASE UNCHANGED vars
  BY <1>1 DEF Chiefs, Owners
<1>2. ASSUME NEW u \in Users, Issue(u) \/ Expire(u) PROVE Chiefs'
  <2>1. UNCHANGED <<role, req, owned>>
    BY <1>2, Tokens
  <2>2. \A v \in Users : "owner" \in claims'[v] => v \in owned
    BY <1>2, Tokens DEF Chiefs, Owners
  <2> QED BY <2>1, <2>2 DEF Chiefs, Owners
<1>3. ASSUME NEW r \in Requests, Opens(r) PROVE Chiefs'
  <2>1. PICK pc, kind, actor, target, want :
          /\ Begin(r, pc, kind, actor, target, want)
          /\ Started(pc, kind, actor, target, want)
    BY <1>3, Opening
  <2>2. /\ req'[r].kind = kind /\ req'[r].actor = actor /\ req'[r].want = want
        /\ req'[r].seen = IF kind \in Inserts THEN Absent ELSE role[target]
        /\ \A s \in Requests \ {r} : req'[s] = req[s]
        /\ UNCHANGED <<role, claims, owned>>
    BY <2>1, Opened
  <2>3. /\ kind \in {"create", "update", "transfer"} /\ want = "owner" => actor \in owned
        /\ kind = "update" /\ role[target] = "owner" => actor \in owned
    BY <2>1 DEF Started, Chiefs, Inserts
  <2>4. Owners' = Owners
    BY <2>2 DEF Owners
  <2> QED BY <2>2, <2>3, <2>4 DEF Chiefs, Inserts
<1>4. ASSUME NEW r \in Requests, Goes(r) PROVE Chiefs'
  <2>1. Owners' = Owners
    BY <1>4, Going DEF Owners
  <2> QED BY <1>0, <1>4, <2>1, Going DEF Chiefs
<1>5. ASSUME NEW r \in Requests, Commit(r) PROVE Chiefs'
  BY <1>0, <1>5, Committing DEF Chiefs
<1> QED BY <1>1, <1>2, <1>3, <1>4, <1>5, Steps

\* A request that appoints or demotes an owner.
Appointed == \E r \in Requests : Commits(r) /\ (req[r].kind = "found" \/ req[r].actor \in owned)
Demoted   == \E r \in Requests : Commits(r) /\ (req[r].actor \in owned \/ ~req[r].fresh)

LEMMA DecideStep ==
  TypeInv /\ LockInv /\ Current /\ Chiefs /\ [Next]_vars =>
    \A u \in Users :
       /\ role[u] # "owner" /\ role'[u] = "owner" => Appointed
       /\ role[u] = "owner" /\ role'[u] \notin {"owner", Absent} => Demoted
<1> SUFFICES ASSUME TypeInv, LockInv, Current, Chiefs, [Next]_vars, NEW u \in Users
             PROVE  /\ role[u] # "owner" /\ role'[u] = "owner" => Appointed
                    /\ role[u] = "owner" /\ role'[u] \notin {"owner", Absent} => Demoted
  OBVIOUS
<1>1. CASE role'[u] = role[u]
  BY <1>1
<1>2. CASE role'[u] # role[u]
  <2>1. PICK r \in Requests : Commit(r)
    <3>1. ASSUME NEW r \in Requests, Opens(r) PROVE role' = role
      BY <3>1, Opening, Opened
    <3>2. ASSUME NEW r \in Requests, Goes(r) PROVE role' = role
      BY <3>2, Going
    <3>3. ASSUME NEW v \in Users, Issue(v) \/ Expire(v) PROVE role' = role
      BY <3>3, Tokens
    <3> QED BY <1>2, <3>1, <3>2, <3>3, Steps
  <2>2. Commits(r)
    <3>1. IdleReq.pc = "idle"
      BY DEF IdleReq
    <3> QED BY <2>1, <3>1, Committing DEF Commits
  <2>3. u \in Writes(r) /\ req[r].pc = "commit" /\ req[r].kind # "none"
    BY <1>2, <2>1, Committing DEF TypeInv, Formed
  <2>4. req[r].kind \in {"found", "create", "remove", "update", "transfer"}
    BY <2>3 DEF TypeInv, TypeOK, Req, Inserts
  <2>5. CASE role'[u] = "owner"
    <3>1. req[r].want = "owner"
      BY <2>1, <2>3, <2>5, Committing
    <3>2. req[r].kind # "remove"
      BY <3>1, ConstAssumption DEF TypeInv, Formed, Roles, Staff
    <3> QED BY <2>2, <2>4, <2>5, <3>1, <3>2 DEF Appointed, Chiefs
  <2>6. CASE role[u] = "owner" /\ role'[u] \notin {"owner", Absent}
    <3>1. CASE req[r].kind \in {"found", "create"}
      <4>1. role[u] = Absent
        BY <2>3, <3>1, WritesFormed DEF LockInv, Inserting, Inserts
      <4> QED BY <2>6, <4>1, ConstAssumption DEF Roles, Staff
    <3>2. CASE req[r].kind = "remove"
      <4>1. u = req[r].target /\ req[r].want = Absent
        BY <2>3, <3>2 DEF Writes, TypeInv, Formed
      <4> QED BY <2>1, <2>3, <2>6, <4>1, Committing
    <3>3. CASE req[r].kind = "update"
      <4>1. u = req[r].target
        BY <2>3, <3>3 DEF Writes
      <4> QED BY <2>2, <2>6, <3>3, <4>1 DEF Demoted, Chiefs, Current
    <3>4. CASE req[r].kind = "transfer"
      <4>1. req[r].want = "owner"
        BY <3>4 DEF TypeInv, Formed
      <4>2. req[r].actor \in owned
        BY <3>4, <4>1 DEF Chiefs
      <4> QED BY <2>2, <2>6, <4>2 DEF Demoted
    <3> QED BY <2>4, <3>1, <3>2, <3>3, <3>4
  <2> QED BY <1>2, <2>5, <2>6
<1> QED BY <1>1, <1>2

\* Whoever becomes an owner founded the system or was appointed by one who had
\* been an owner; who is demoted was so by one, or by an overtaken role change.
THEOREM Ownership == Spec => OwnersDecide
<1>1. Init => Current /\ Chiefs
  <2>1. IdleReq.kind = "none"
    BY DEF IdleReq
  <2>2. Init => Owners = {}
    BY ConstAssumption DEF Init, Owners, Roles, Staff
  <2> QED BY <2>1, <2>2 DEF Init, Current, Chiefs
<1>2. TypeInv /\ LockInv /\ Current /\ Chiefs /\ [Next]_vars =>
        [\A u \in Users :
           /\ role[u] # "owner" /\ role'[u] = "owner" =>
                \E r \in Requests : /\ Commits(r)
                                    /\ req[r].kind = "found" \/ req[r].actor \in owned
           /\ role[u] = "owner" /\ role'[u] \notin {"owner", Absent} =>
                \E r \in Requests : Commits(r) /\ (req[r].actor \in owned \/ ~req[r].fresh)]_vars
  BY DecideStep DEF Appointed, Demoted
<1> QED BY TypeInit, TypeStep, LockInit, LockStep, <1>1, CurrentStep, ChiefStep, <1>2, PTL
        DEF Spec, OwnersDecide
=============================================================================
