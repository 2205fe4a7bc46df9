------------------------------ MODULE Accounts -------------------------------
(***************************************************************************)
(* Accounts and what proves that somebody has one: passwords, passkeys,    *)
(* accounts at OAuth providers, API keys and the second factor, with the   *)
(* settings of the providers.                                              *)
(*                                                                         *)
(* A request reads and checks, may come back to the database for a second  *)
(* look or to lock a row, and writes when it commits; other requests       *)
(* commit in between.  A ceremony of a passkey or of OAuth starts one      *)
(* request earlier, with a challenge kept in Redis.  A request that is     *)
(* answered with an error at its first look is no step.                    *)
(***************************************************************************)
EXTENDS Integers, FiniteSets, FiniteSetsExt

CONSTANTS
  AccountIds, Emails,
  Credentials,   \* the authenticators people have
  Keys,          \* API keys
  Subjects,      \* people as the OAuth providers know them
  Providers,
  ProviderOf, EmailOf, \* of a subject
  Enrolled,      \* the rows there are when the platform has been set up
  Requests, None, Fresh, Ended

\* The platform that is taken over is in order.
ASSUME EnrolledAssumption ==
  /\ \A a, b \in DOMAIN Enrolled.accounts :
       a # b => Enrolled.accounts[a].email # Enrolled.accounts[b].email
  /\ \A rows \in {Enrolled.passkeys, Enrolled.identities, Enrolled.keys} :
       /\ \A v, w \in rows : v[1] = w[1] => v = w
       /\ \A w \in rows : w[2] \in DOMAIN Enrolled.accounts

VARIABLES
  accounts,    \* the rows of the accounts there are
  passkeys,    \* the rows <<credential, account>>
  identities,  \* the rows <<subject, account>>
  keys,        \* the API keys and the accounts they act for
  mfa,         \* the second factor of every account
  settings,    \* how many rows there are for each of a provider's settings
  domain,      \* accounts may be made for strangers: no other domain is prescribed
  challenge,   \* the last ceremony that asked to enrol a passkey, by account
  requests,
  spent,       \* accounts, passkeys and API keys that have been deleted
  lateUse      \* credentials whose use was recorded after their deletion

accountVars == <<accounts, passkeys, identities, keys, mfa, settings, domain,
                 challenge, requests, spent, lateUse>>

Statuses == {"pending", "active", "disabled"}
Account == [email: Emails, password: BOOLEAN, role: {"owner", "administrator", "contributor"}]
SecondFactor == [methods: SUBSET (Nat \X Statuses), enabled: BOOLEAN, codes: BOOLEAN]
Ops == {"register", "setup", "enrol", "signin", "callback", "unlink", "use_key", "delete_key",
        "delete_passkey", "mfa_setup", "mfa_verify", "mfa_remove", "mfa_codes", "configure"}
Items == Emails \cup Credentials \cup Subjects \cup Keys \cup Providers

\* A request: what it does, with what, for whom, and what it has read.
Request == [op: Ops, at: {"asked", "read", "second", "recorded"}, account: AccountIds \cup {None},
            item: Items \cup {None}, seen: BOOLEAN, methods: SUBSET (Nat \X Statuses)]

AccountsTypeOK ==
  /\ DOMAIN accounts \subseteq AccountIds
  /\ \A a \in DOMAIN accounts : accounts[a] \in Account
  /\ passkeys \subseteq Credentials \X AccountIds
  /\ identities \subseteq Subjects \X AccountIds
  /\ keys \subseteq Keys \X AccountIds
  /\ mfa \in [AccountIds -> SecondFactor]
  /\ settings \in [Providers -> Nat]
  /\ domain \in BOOLEAN
  /\ challenge \in [AccountIds -> Requests \cup {None}]
  /\ \A r \in Requests : requests[r] \in Request \cup {Fresh, Ended}
  /\ spent \subseteq AccountIds \cup Credentials \cup Keys
  /\ lateUse \subseteq Credentials \cup Keys

\* Its rows have their types, and the ids of an account's second factors end.
ASSUME EnrolledTypesAssumption ==
  /\ DOMAIN Enrolled.accounts \subseteq AccountIds
  /\ \A a \in DOMAIN Enrolled.accounts : Enrolled.accounts[a] \in Account
  /\ Enrolled.passkeys \subseteq Credentials \X AccountIds
  /\ Enrolled.identities \subseteq Subjects \X AccountIds
  /\ Enrolled.keys \subseteq Keys \X AccountIds
  /\ Enrolled.mfa \in [AccountIds -> SecondFactor]
  /\ Enrolled.settings \in [Providers -> Nat]
  /\ \A a \in AccountIds :
       LET ids == {m[1] : m \in Enrolled.mfa[a].methods}
       IN ids # {} => \E last \in ids : \A id \in ids : id <= last

\* A subject whose provider tells no address is turned away at once.
ASSUME EmailOfAssumption == EmailOf \in [Subjects -> Emails]

NoFactor == [methods |-> {}, enabled |-> FALSE, codes |-> FALSE]
EmptyPlatform ==
  [accounts |-> [a \in {} |-> None], passkeys |-> {}, identities |-> {}, keys |-> {},
   mfa |-> [a \in AccountIds |-> NoFactor], settings |-> [p \in Providers |-> 0]]

AccountsInit ==
  /\ \E start \in {EmptyPlatform, Enrolled} :
       /\ accounts = start.accounts
       /\ passkeys = start.passkeys /\ identities = start.identities /\ keys = start.keys
       /\ mfa = start.mfa /\ settings = start.settings
  /\ domain = TRUE
  /\ challenge = [a \in AccountIds |-> None]
  /\ requests = [r \in Requests |-> Fresh]
  /\ spent = {} /\ lateUse = {}
-----------------------------------------------------------------------------
Present == DOMAIN accounts
With(email) == {a \in Present : accounts[a].email = email}
Of(rows, a) == {x[1] : x \in {row \in rows : row[2] = a}}
Owner(rows, x) == {row[2] : row \in {w \in rows : w[1] = x}}

Is(r, op, at) == requests[r] \notin {Fresh, Ended} /\ requests[r].op = op /\ requests[r].at = at
Enter(r, request) ==
  /\ requests[r] = Fresh /\ r = CHOOSE q \in Requests : requests[q] = Fresh
  /\ requests' = [requests EXCEPT ![r] = request]
Begin(r, op, at, a, x, seen) ==
  Enter(r, [op |-> op, at |-> at, account |-> a, item |-> x, seen |-> seen, methods |-> {}])
Move(r, at, a, seen) ==
  requests' = [requests EXCEPT ![r].at = at, ![r].account = a, ![r].seen = seen]
End(r) == requests' = [requests EXCEPT ![r] = Ended]

\* Slip: the time of the last use is not written, and nothing is locked.
LockedByNobody(x) == x \in {}

\* The row a request holds locked until it commits: it has been updated.
Locked(x) == \E r \in Requests : \E op \in {"signin", "use_key"} :
               Is(r, op, "second") /\ requests[r].item = x

\* Slip: no unique constraint.
EmailFreeOrNot(email) == email \in Emails

\* The unique columns of the tables.
EmailFree(email) == With(email) = {}
RowFree(rows, x) == Owner(rows, x) = {}
PasskeyFree(x) == RowFree(passkeys, x)
KeyFree(x) == RowFree(keys, x)
LinkFree(s) == RowFree(identities, s)

FreeIds == AccountIds \ (Present \cup spent)
NewId == CHOOSE b \in FreeIds : TRUE
Room == FreeIds # {}

\* A new row of users; the password and the role are the caller's.
Insert(email, password, role) ==
  LET row == [email |-> email, password |-> password, role |-> role]
  IN accounts' = [b \in Present \cup {NewId} |-> IF b = NewId THEN row ELSE accounts[b]]
-----------------------------------------------------------------------------
(* Registration, and the setup of a new platform with a passkey. *)

\* Open to the first user, and to everyone in development.
Register(r, email) ==
  /\ EmailFree(email)
  /\ Begin(r, "register", "read", None, email, Present = {})
  /\ UNCHANGED <<accounts, passkeys, identities, keys, mfa, settings, domain, challenge, spent, lateUse>>
CommitRegister(r) ==
  /\ Is(r, "register", "read") /\ Room
  /\ IF EmailFree(requests[r].item)
     THEN Insert(requests[r].item, TRUE, IF requests[r].seen THEN "owner" ELSE "contributor")
     ELSE UNCHANGED accounts
  /\ End(r)
  /\ UNCHANGED <<passkeys, identities, keys, mfa, settings, domain, challenge, spent, lateUse>>

SetupOptions(r, email) ==
  /\ Present = {}
  /\ Begin(r, "setup", "asked", None, email, FALSE)
  /\ UNCHANGED <<accounts, passkeys, identities, keys, mfa, settings, domain, challenge, spent, lateUse>>
VerifySetup(r) ==
  /\ Is(r, "setup", "asked")
  /\ IF Present = {} THEN Move(r, "read", None, TRUE) ELSE End(r)
  /\ UNCHANGED <<accounts, passkeys, identities, keys, mfa, settings, domain, challenge, spent, lateUse>>
CommitSetup(r) ==
  /\ Is(r, "setup", "read") /\ Room
  /\ \E x \in Credentials \ spent :
       IF EmailFree(requests[r].item) /\ PasskeyFree(x)
       THEN Insert(requests[r].item, FALSE, "owner") /\ passkeys' = passkeys \cup {<<x, NewId>>}
       ELSE UNCHANGED <<accounts, passkeys>>
  /\ End(r)
  /\ UNCHANGED <<identities, keys, mfa, settings, domain, challenge, spent, lateUse>>
-----------------------------------------------------------------------------
(* Passkeys. *)

\* A second ceremony for the account takes the first one's challenge away.
EnrolOptions(r, a) ==
  /\ a \in Present
  /\ Begin(r, "enrol", "asked", a, None, FALSE)
  /\ challenge' = [challenge EXCEPT ![a] = r]
  /\ UNCHANGED <<accounts, passkeys, identities, keys, mfa, settings, domain, spent, lateUse>>
VerifyEnrol(r) ==
  /\ Is(r, "enrol", "asked")
  /\ LET a == requests[r].account
     IN /\ IF challenge[a] = r /\ a \in Present THEN Move(r, "read", a, TRUE) ELSE End(r)
        /\ challenge' = [challenge EXCEPT ![a] = None]
  /\ UNCHANGED <<accounts, passkeys, identities, keys, mfa, settings, domain, spent, lateUse>>
CommitEnrol(r) ==
  /\ Is(r, "enrol", "read")
  /\ \E x \in Credentials \ spent :
       passkeys' = IF PasskeyFree(x) /\ requests[r].account \in Present
                   THEN passkeys \cup {<<x, requests[r].account>>} ELSE passkeys
  /\ End(r)
  /\ UNCHANGED <<accounts, identities, keys, mfa, settings, domain, challenge, spent, lateUse>>

\* Deletion waits for a transaction that has updated the row.
DeletePasskey(r, x) ==
  /\ ~PasskeyFree(x)
  /\ Begin(r, "delete_passkey", "read", None, x, FALSE)
  /\ UNCHANGED <<accounts, passkeys, identities, keys, mfa, settings, domain, challenge, spent, lateUse>>
CommitDeletePasskey(r) ==
  /\ Is(r, "delete_passkey", "read") /\ ~Locked(requests[r].item)
  /\ passkeys' = {row \in passkeys : row[1] # requests[r].item}
  /\ spent' = spent \cup {requests[r].item}
  /\ End(r)
  /\ UNCHANGED <<accounts, identities, keys, mfa, settings, domain, challenge, lateUse>>

\* A sign-in with a passkey, or a request made with an API key: the row is
\* read, and updated before anything is done in its name.
SignInOptions(r, x) ==
  /\ ~PasskeyFree(x)
  /\ Begin(r, "signin", "asked", None, x, FALSE)
  /\ UNCHANGED <<accounts, passkeys, identities, keys, mfa, settings, domain, challenge, spent, lateUse>>
VerifySignIn(r) ==
  /\ Is(r, "signin", "asked")
  /\ IF PasskeyFree(requests[r].item) THEN End(r) ELSE Move(r, "read", None, TRUE)
  /\ UNCHANGED <<accounts, passkeys, identities, keys, mfa, settings, domain, challenge, spent, lateUse>>
AuthenticateApiKey(r, x) ==
  /\ ~KeyFree(x)
  /\ Begin(r, "use_key", "read", None, x, TRUE)
  /\ UNCHANGED <<accounts, passkeys, identities, keys, mfa, settings, domain, challenge, spent, lateUse>>

Rows(op) == IF op = "signin" THEN passkeys ELSE keys
Touch(r) ==
  /\ \E op \in {"signin", "use_key"} :
       /\ Is(r, op, "read") /\ ~Locked(requests[r].item)
       /\ IF RowFree(Rows(op), requests[r].item) THEN End(r) ELSE Move(r, "second", None, TRUE)
  /\ UNCHANGED <<accounts, passkeys, identities, keys, mfa, settings, domain, challenge, spent, lateUse>>

\* The first commit of the request records the use and lets go of the row.
\* What follows is another transaction, and a deletion may come before it: for
\* a sign-in the tokens, for a key whatever its request does after it has
\* committed once.
CommitUse(r) ==
  /\ \E op \in {"signin", "use_key"} :
       /\ Is(r, op, "second")
       /\ lateUse' = IF RowFree(Rows(op), requests[r].item) THEN lateUse \cup {requests[r].item} ELSE lateUse
       /\ IF op = "signin" THEN Move(r, "recorded", None, TRUE) ELSE End(r)
  /\ UNCHANGED <<accounts, passkeys, identities, keys, mfa, settings, domain, challenge, spent>>

\* The time of the last sign-in is written to the account, which may be gone
\* like the passkey: then the write fails and no tokens are handed out.
IssueTokens(r) ==
  /\ Is(r, "signin", "recorded")
  /\ End(r)
  /\ UNCHANGED <<accounts, passkeys, identities, keys, mfa, settings, domain, challenge, spent, lateUse>>
-----------------------------------------------------------------------------
(* API keys. *)

CreateApiKey(a, x) ==
  /\ a \in Present /\ KeyFree(x) /\ x \notin spent
  /\ keys' = keys \cup {<<x, a>>}
  /\ UNCHANGED <<accounts, passkeys, identities, mfa, settings, domain, challenge, requests, spent, lateUse>>
DeleteApiKey(r, x) ==
  /\ ~KeyFree(x)
  /\ Begin(r, "delete_key", "read", None, x, FALSE)
  /\ UNCHANGED <<accounts, passkeys, identities, keys, mfa, settings, domain, challenge, spent, lateUse>>
CommitDeleteApiKey(r) ==
  /\ Is(r, "delete_key", "read") /\ ~Locked(requests[r].item)
  /\ keys' = {row \in keys : row[1] # requests[r].item}
  /\ spent' = spent \cup {requests[r].item}
  /\ End(r)
  /\ UNCHANGED <<accounts, passkeys, identities, mfa, settings, domain, challenge, lateUse>>
-----------------------------------------------------------------------------
(* Sign-in through a provider. *)

\* Two rows for one setting make every read of it an error.
Configured(p) == settings[p] = 1

\* What a provider tells of a subject: the address, taken as it is.
UserInfo(s) == EmailOf[s]
FindUserByOAuth(s) == Owner(identities, s)

InitOAuth(r, s) ==
  /\ Configured(ProviderOf[s])
  /\ Begin(r, "callback", "asked", None, s, FALSE)
  /\ UNCHANGED <<accounts, passkeys, identities, keys, mfa, settings, domain, challenge, spent, lateUse>>

\* The provider names the subject; the account is found by it, else by its
\* address, else one is to be made.
Callback(r) ==
  /\ Is(r, "callback", "asked")
  /\ LET s == requests[r].item
         found == FindUserByOAuth(s) \cup
                    (IF LinkFree(s) THEN With(UserInfo(s)) ELSE {})
     IN IF ~Configured(ProviderOf[s]) \/ (found = {} /\ ~domain)
        THEN End(r)
        ELSE Move(r, "read", IF found = {} THEN None ELSE CHOOSE a \in found : TRUE, FALSE)
  /\ UNCHANGED <<accounts, passkeys, identities, keys, mfa, settings, domain, challenge, spent, lateUse>>

\* link_oauth_account looks for the row again.
FindLink(r) ==
  /\ Is(r, "callback", "read")
  /\ Move(r, "second", requests[r].account, ~LinkFree(requests[r].item))
  /\ UNCHANGED <<accounts, passkeys, identities, keys, mfa, settings, domain, challenge, spent, lateUse>>

\* An update of a row that is gone, a second row for a subject or an address,
\* and a row for an account that is gone roll everything back.
CommitCallback(r) ==
  /\ Is(r, "callback", "second") /\ Room
  /\ LET s == requests[r].item
         a == requests[r].account
         link(b) == identities' = IF requests[r].seen THEN identities ELSE identities \cup {<<s, b>>}
         possible == requests[r].seen = ~LinkFree(s)
     IN IF ~possible \/ (a = None /\ ~EmailFree(UserInfo(s))) \/ (a # None /\ a \notin Present)
        THEN UNCHANGED <<accounts, identities>>
        ELSE IF a = None
        THEN Insert(UserInfo(s), FALSE, "contributor") /\ link(NewId)
        ELSE link(a) /\ UNCHANGED accounts
  /\ End(r)
  /\ UNCHANGED <<passkeys, keys, mfa, settings, domain, challenge, spent, lateUse>>

UnlinkOAuthAccount(r, a, p) ==
  /\ a \in Present
  /\ accounts[a].password \/ \E s \in Of(identities, a) : ProviderOf[s] # p
  /\ Begin(r, "unlink", "read", a, p, FALSE)
  /\ UNCHANGED <<accounts, passkeys, identities, keys, mfa, settings, domain, challenge, spent, lateUse>>
CommitUnlink(r) ==
  /\ Is(r, "unlink", "read")
  /\ identities' = {row \in identities : ~(row[2] = requests[r].account /\ ProviderOf[row[1]] = requests[r].item)}
  /\ End(r)
  /\ UNCHANGED <<accounts, passkeys, keys, mfa, settings, domain, challenge, spent, lateUse>>

\* An administrator's settings: read, then one row inserted or updated.
Configure(r, p) ==
  /\ settings[p] < 2
  /\ Begin(r, "configure", "read", None, p, settings[p] > 0)
  /\ UNCHANGED <<accounts, passkeys, identities, keys, mfa, settings, domain, challenge, spent, lateUse>>
\* No constraint keeps a second row for the same setting out.
SettingAdded(p) == [settings EXCEPT ![p] = @ + 1]
CommitConfigure(r) ==
  /\ Is(r, "configure", "read")
  /\ settings' = IF ~requests[r].seen THEN SettingAdded(requests[r].item) ELSE settings
  /\ End(r)
  /\ UNCHANGED <<accounts, passkeys, identities, keys, mfa, domain, challenge, spent, lateUse>>
DeleteProvider(p) ==
  /\ settings[p] > 0
  /\ settings' = [settings EXCEPT ![p] = 0]
  /\ UNCHANGED <<accounts, passkeys, identities, keys, mfa, domain, challenge, requests, spent, lateUse>>
SetDomain ==
  /\ domain' = ~domain
  /\ UNCHANGED <<accounts, passkeys, identities, keys, mfa, settings, challenge, requests, spent, lateUse>>
-----------------------------------------------------------------------------
(* The second factor.  Nothing but these endpoints looks at it. *)

Latest(a, status) == {m \in mfa[a].methods : m[2] = status /\
                        \A n \in mfa[a].methods : n[2] = status => n[1] <= m[1]}
Ids(methods) == {m[1] : m \in methods}

\* The rows that a setup in flight has deleted, and holds.
Doomed(a) == UNION {Ids(requests[r].methods) : r \in {q \in Requests : Is(q, "mfa_setup", "read") /\ requests[q].account = a}}
Blocked(r) == Ids(requests[r].methods) \cap Doomed(requests[r].account) # {}

\* A row that has been deleted since it was read rolls everything back.
Retained(r) == Ids(requests[r].methods) \subseteq Ids(mfa[requests[r].account].methods)
Restate(a, methods, status) ==
  {m \in mfa[a].methods : m[1] \notin Ids(methods)} \cup {<<m[1], status>> : m \in methods}

BeginMfa(r, op, a, methods) ==
  Enter(r, [op |-> op, at |-> "read", account |-> a, item |-> None, seen |-> TRUE, methods |-> methods])
MfaUnchanged == UNCHANGED <<accounts, passkeys, identities, keys, settings, domain, challenge, spent, lateUse>>

SetupMfa(r, a) ==
  /\ a \in Present
  /\ BeginMfa(r, "mfa_setup", a, mfa[a].methods)
  /\ UNCHANGED mfa /\ MfaUnchanged
CommitSetupMfa(r) ==
  /\ Is(r, "mfa_setup", "read")
  /\ LET a == requests[r].account
         deleted == Ids(requests[r].methods)
         id == 1 + Max(Ids(mfa[a].methods) \cup {0})
     IN mfa' = IF a \notin Present THEN mfa
               ELSE [mfa EXCEPT ![a].methods = {m \in @ : m[1] \notin deleted} \cup {<<id, "pending">>},
                                ![a].codes = TRUE]
  /\ End(r) /\ MfaUnchanged

VerifyMfa(r, a) ==
  /\ Latest(a, "pending") # {}
  /\ BeginMfa(r, "mfa_verify", a, Latest(a, "pending"))
  /\ UNCHANGED mfa /\ MfaUnchanged
CommitVerifyMfa(r) ==
  /\ Is(r, "mfa_verify", "read") /\ ~Blocked(r)
  /\ LET a == requests[r].account
     IN mfa' = IF ~Retained(r) THEN mfa
               ELSE [mfa EXCEPT ![a].methods = Restate(a, requests[r].methods, "active"), ![a].enabled = TRUE]
  /\ End(r) /\ MfaUnchanged

RemoveMfa(r, a) ==
  /\ Latest(a, "active") # {}
  /\ BeginMfa(r, "mfa_remove", a, Latest(a, "active"))
  /\ UNCHANGED mfa /\ MfaUnchanged
CommitRemoveMfa(r) ==
  /\ Is(r, "mfa_remove", "read") /\ ~Blocked(r)
  /\ LET a == requests[r].account
     IN mfa' = IF ~Retained(r) THEN mfa
               ELSE [mfa EXCEPT ![a].methods = Restate(a, requests[r].methods, "disabled"),
                                ![a].enabled = FALSE, ![a].codes = FALSE]
  /\ End(r) /\ MfaUnchanged

\* The method is looked for and not touched.
RegenerateBackupCodes(r, a) ==
  /\ Latest(a, "active") # {}
  /\ BeginMfa(r, "mfa_codes", a, Latest(a, "active"))
  /\ UNCHANGED mfa /\ MfaUnchanged
CommitRegenerate(r) ==
  /\ Is(r, "mfa_codes", "read")
  /\ mfa' = IF requests[r].account \in Present THEN [mfa EXCEPT ![requests[r].account].codes = TRUE] ELSE mfa
  /\ End(r) /\ MfaUnchanged
-----------------------------------------------------------------------------
\* An administrator removes another user.  The foreign keys keep an account
\* that has credentials of any kind.
RemoveAccount(a) ==
  /\ a \in Present /\ Cardinality(Present) > 1
  /\ accounts[a].role = "owner" => \E b \in Present \ {a} : accounts[b].role = "owner"
  /\ Of(passkeys, a) = {} /\ Of(keys, a) = {} /\ Of(identities, a) = {}
  /\ mfa[a].methods = {} /\ ~mfa[a].codes
  /\ accounts' = [b \in Present \ {a} |-> accounts[b]]
  /\ spent' = spent \cup {a}
  /\ UNCHANGED <<passkeys, identities, keys, mfa, settings, domain, challenge, requests, lateUse>>

\* The process dies and its transactions are rolled back; Redis keeps the
\* challenges, and the ceremonies that are with their users go on.
StopAccounts ==
  /\ requests' = [r \in Requests |->
       IF requests[r] \in {Fresh, Ended} THEN requests[r]
       ELSE IF requests[r].at = "asked" THEN requests[r] ELSE Ended]
  /\ UNCHANGED <<accounts, passkeys, identities, keys, mfa, settings, domain, challenge, spent, lateUse>>
-----------------------------------------------------------------------------
AccountsUser ==
  \/ \E r \in Requests :
       \/ \E email \in Emails : Register(r, email) \/ SetupOptions(r, email)
       \/ \E a \in AccountIds :
            \/ EnrolOptions(r, a) \/ SetupMfa(r, a) \/ VerifyMfa(r, a)
            \/ RemoveMfa(r, a) \/ RegenerateBackupCodes(r, a)
            \/ \E p \in Providers : UnlinkOAuthAccount(r, a, p)
       \/ \E x \in Credentials : DeletePasskey(r, x) \/ SignInOptions(r, x)
       \/ \E x \in Keys : AuthenticateApiKey(r, x) \/ DeleteApiKey(r, x)
       \/ \E s \in Subjects : InitOAuth(r, s)
       \/ \E p \in Providers : Configure(r, p)
  \/ \E a \in AccountIds, x \in Keys : CreateApiKey(a, x)
  \/ \E p \in Providers : DeleteProvider(p)
  \/ SetDomain
AccountsStep ==
  \E r \in Requests :
    \/ CommitRegister(r) \/ VerifySetup(r) \/ CommitSetup(r)
    \/ VerifyEnrol(r) \/ CommitEnrol(r) \/ CommitDeletePasskey(r)
    \/ VerifySignIn(r) \/ Touch(r) \/ CommitUse(r) \/ IssueTokens(r) \/ CommitDeleteApiKey(r)
    \/ Callback(r) \/ FindLink(r) \/ CommitCallback(r) \/ CommitUnlink(r) \/ CommitConfigure(r)
    \/ CommitSetupMfa(r) \/ CommitVerifyMfa(r) \/ CommitRemoveMfa(r) \/ CommitRegenerate(r)
AccountsNext ==
  AccountsUser \/ AccountsStep \/ StopAccounts \/ \E a \in AccountIds : RemoveAccount(a)
AccountsSpec == AccountsInit /\ [][AccountsNext]_accountVars
-----------------------------------------------------------------------------
\* Nobody's proof of identity opens two accounts, and none is left to open an
\* account that is gone: the address, the passkeys, the provider's subjects
\* and the keys lead to one account each, though every registration, callback
\* and enrolment looks for a row long before it inserts one.  And no use of a
\* passkey or an API key is recorded after its deletion: the time of the use is
\* written before anything else, so that the deletion waits for the first
\* commit of the request.  It does not wait for what the request does after
\* that: the tokens of a sign-in may be handed out when the passkey is gone.
CredentialsSound ==
  /\ \A a, b \in DOMAIN accounts : a # b => accounts[a].email # accounts[b].email
  /\ \A rows \in {passkeys, identities, keys} :
       /\ \A v, w \in rows : v[1] = w[1] => v = w
       /\ \A w \in rows : w[2] \in DOMAIN accounts
  /\ lateUse = {}
=============================================================================
