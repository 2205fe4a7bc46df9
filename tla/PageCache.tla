------------------------------ MODULE PageCache ------------------------------
(***************************************************************************)
(* What the pages show after the user's own changes.  Every list and every *)
(* detail page reads through one entry of the query cache, named by its    *)
(* key; every mutation hook names the entries that its success makes stale,*)
(* by the beginnings of their keys.  The tables below say, for each query, *)
(* what of the database it reads and, for each hook, what it changes and   *)
(* which entries it refreshes.                                             *)
(*                                                                         *)
(* A behaviour follows one entry and the user's changes that it reads.     *)
(* Changes of others are left out: no entry promises to show those.        *)
(***************************************************************************)
EXTENDS Integers, Sequences, SequencesExt, TLC

CONSTANTS MaxChanges, MaxTroubles

VARIABLES
  query,    \* the query whose entry is followed
  entry,    \* has data, of which changes; is stale; has a page that shows it
  fetch,    \* its request: not sent, sent, or the changes that it has read
  calls,    \* the user's changes, in the order of their sending
  troubles

cacheVars == <<query, entry, fetch, calls, troubles>>
-----------------------------------------------------------------------------
(* Facts: which rows a table has, which of them are enabled, what is in them. *)

Entities == {"passwords", "locations", "configurations", "documents", "custom_assets"}
Rows(t) == {<<t, "rows">>}
Enabled(t) == {<<t, "enabled">>}
Content(t) == {<<t, "values">>, <<t, "enabled">>}
Whole(t) == Rows(t) \cup Content(t)
All(tables) == UNION {Whole(t) : t \in tables}
Named(tables) == {<<t, "values">> : t \in tables}

\* What the endpoints read that put rows of several tables on one page.
GlobalPasswords == Whole("passwords") \cup Named({"organizations"})
GlobalConfigurations ==
  Whole("configurations")
  \cup Named({"organizations", "configuration_types", "configuration_statuses"})
GlobalLocations == Whole("locations") \cup Named({"organizations"})
GlobalDocuments == Whole("documents") \cup Named({"organizations"})
GlobalAssets == Whole("custom_assets") \cup Named({"organizations", "custom_asset_types"})
Counts ==
  UNION {Rows(t) \cup Enabled(t) : t \in Entities}
  \cup All({"configuration_types", "custom_asset_types"})
GlobalCounts == Counts
TextSearch == All(Entities) \cup Named({"organizations", "custom_asset_types"})
AuditLogs == All(Entities) \cup Named({"organizations", "users"})
RecentItems ==
  Rows("views") \cup All(Entities) \cup Named({"organizations", "custom_asset_types"})
RelatedItems ==
  Rows("relationships") \cup UNION {Content(t) : t \in Entities} \cup Named({"custom_asset_types"})
Favorites == Rows("favorites")
AISettings(parts) == {<<"ai-settings", s>> : s \in parts}

\* A hook that is answered only after its transaction is committed is early.
Hook(writes, refreshes) == [writes |-> writes, refreshes |-> refreshes, removes |-> {}, early |-> FALSE]
Early(hook) == [hook EXCEPT !.early = TRUE]
Query(key, reads) == [key |-> key, reads |-> reads]

\* The list of a kind of entity, its pages of details, and what changes them.
ListQuery(t, list) == <<"list", t>> :> Query(list \o <<"options">>, Whole(t))
OneQuery(t, one) == <<"one", t>> :> Query(one, Content(t))
EntityHooks(t, list, one) ==
  <<"create", t>> :> Hook(Rows(t), {list})
  @@ <<"update", t>> :> Hook(Content(t), {list, one})
  @@ <<"delete", t>> :> [Hook(Whole(t), {list, <<"sidebar", "org">>}) EXCEPT !.removes = {one}]
  @@ <<"toggle", t>> :> Early(Hook(Enabled(t), {list}))

PasswordHooks == EntityHooks("passwords", <<"passwords", "org">>, <<"password", "org", "x">>)
PasswordQueries == ListQuery("passwords", <<"passwords", "org">>) @@ OneQuery("passwords", <<"password", "org", "x">>)
LocationHooks == EntityHooks("locations", <<"locations", "org">>, <<"location", "org", "x">>)
LocationQueries == ListQuery("locations", <<"locations", "org">>) @@ OneQuery("locations", <<"location", "org", "x">>)

\* Configurations show the names of their types and statuses.
ConfigurationHooks ==
  EntityHooks("configurations", <<"configurations", "org">>, <<"configuration", "org", "x">>)
ConfigurationQueries ==
  LET names == {<<"configuration_types", "values">>, <<"configuration_statuses", "values">>}
  IN <<"list", "configurations">> :>
       Query(<<"configurations", "org", "options">>, Whole("configurations") \cup names)
     @@ <<"one", "configurations">> :>
       Query(<<"configuration", "org", "x">>, Content("configurations") \cup names)

\* Types: the sidebar lists them too, but not the statuses.
TypeHooks(t, refreshes) ==
  <<"create", t>> :> Hook(Rows(t), refreshes)
  @@ <<"update", t>> :> Hook(Content(t), refreshes)
  @@ <<"delete", t>> :> Hook(Rows(t), refreshes)
  @@ <<"activate", t>> :> Hook(Enabled(t), refreshes)
ConfigurationTypeHooks == TypeHooks("configuration_types", {<<"configuration-types">>, <<"sidebar">>})

\* A type or a status is answered with the number of the rows that have it,
\* the disabled ones too; an update can give a configuration another one.
HasConfigurations == Rows("configurations") \cup Named({"configurations"})
HasAssets == Rows("custom_assets")

ConfigurationTypeQueries ==
  <<"list", "configuration_types">> :>
    Query(<<"configuration-types", "options">>, Whole("configuration_types") \cup HasConfigurations)
StatusHooks == TypeHooks("configuration_statuses", {<<"configuration-statuses">>})
StatusQueries ==
  <<"list", "configuration_statuses">> :>
    Query(<<"configuration-statuses", "options">>, Whole("configuration_statuses") \cup HasConfigurations)

AssetTypeHooks ==
  LET all == {<<"custom-asset-types">>, <<"sidebar">>}
  IN <<"update", "custom_asset_types">> :>
       Hook(Content("custom_asset_types"), all \cup {<<"custom-asset-type", "type">>})
     @@ <<"reorder", "custom_asset_types">> :> Hook({<<"custom_asset_types", "values">>}, all)
     @@ TypeHooks("custom_asset_types", all)
AssetTypeQueries ==
  <<"list", "custom_asset_types">> :>
    Query(<<"custom-asset-types", "options">>, Whole("custom_asset_types") \cup HasAssets)
  @@ <<"one", "custom_asset_types">> :>
    Query(<<"custom-asset-type", "type">>, Content("custom_asset_types") \cup HasAssets)

\* Assets are shown by the fields of their type.
AssetHooks ==
  EntityHooks("custom_assets", <<"custom-assets", "org", "type">>, <<"custom-asset", "org", "type", "x">>)
AssetQueries ==
  ListQuery("custom_assets", <<"custom-assets", "org", "type">>)
  @@ OneQuery("custom_assets", <<"custom-asset", "org", "type", "x">>)

\* The key of a document begins like its list's; the deletion spares it.
DocumentHooks ==
  LET all == {<<"documents", "org">>}
  IN <<"create", "documents">> :> Hook(Rows("documents"), all)
     @@ <<"update", "documents">> :> Hook(Content("documents"), all)
     @@ <<"delete", "documents">> :>
          [Hook(Whole("documents"), {<<"documents", "org", "options">>, <<"sidebar", "org">>})
             EXCEPT !.removes = {<<"documents", "org", "detail", "x">>}]
DocumentBatchHooks ==
  LET all == {<<"documents", "org">>}
  IN <<"toggle", "documents">> :> Early(Hook(Enabled("documents"), all))
     @@ <<"paths", "documents">> :> Early(Hook({<<"documents", "values">>}, all))
     @@ <<"move", "documents">> :> Hook({<<"documents", "values">>}, all)
DocumentQueries ==
  ListQuery("documents", <<"documents", "org">>)
  @@ OneQuery("documents", <<"documents", "org", "detail", "x">>)
  @@ <<"folders">> :> Query(<<"documents", "folders", "org">>, Whole("documents"))

\* The chat's proposals: the document is refreshed only on its own page, and
\* the test for the page of an asset asks for a path that no page has.
ApplyHooks ==
  <<"apply", "documents", "here">> :>
     Early(Hook({<<"documents", "values">>}, {<<"documents", "org", "detail", "x">>}))
  @@ <<"apply", "documents", "elsewhere">> :> Early(Hook({<<"documents", "values">>}, {}))
  @@ <<"apply", "custom_assets">> :> Early(Hook({<<"custom_assets", "values">>}, {}))

OrganizationHooks ==
  <<"create", "organizations">> :> Hook(Rows("organizations"), {<<"organizations">>})
  @@ <<"update", "organizations">> :> Hook(Content("organizations"), {<<"organizations">>})
  @@ <<"delete", "organizations">> :>
       Hook(All(Entities \cup {"organizations"}), {<<"organizations">>})
OrganizationQueries ==
  ListQuery("organizations", <<"organizations">>) @@ OneQuery("organizations", <<"organization", "org">>)

SidebarQuery == <<"sidebar">> :> Query(<<"sidebar", "org">>, Counts)
GlobalReads ==
  [passwords |-> GlobalPasswords, configurations |-> GlobalConfigurations,
   locations |-> GlobalLocations, documents |-> GlobalDocuments, custom_assets |-> GlobalAssets]
GlobalQueries ==
  [q \in {<<"global", t>> : t \in Entities} |-> Query(q \o <<"options">>, GlobalReads[q[2]])]
  @@ <<"global", "sidebar">> :> Query(<<"global", "sidebar">>, GlobalCounts)
SearchQuery == <<"search">> :> Query(<<"search", "text", "org">>, TextSearch)
AuditQueries ==
  <<"audit", "org">> :> Query(<<"audit-logs", "org", "org">>, AuditLogs)
  @@ <<"audit", "global">> :> Query(<<"audit-logs", "global">>, AuditLogs \cup Whole("organizations"))

RelationshipHooks ==
  <<"relate">> :> Hook(Rows("relationships"), {<<"relationships", "org", "document", "x">>})
  @@ <<"unrelate">> :> Hook(Rows("relationships"), {<<"relationships", "org">>})
RelationshipQueries ==
  <<"related">> :> Query(<<"relationships", "org", "document", "x">>, RelatedItems)

FavoriteHooks ==
  <<"favor">> :> Hook(Favorites, {<<"favorites">>})
  @@ <<"disfavor", "id">> :> Hook(Favorites, {<<"favorites">>})
  @@ <<"disfavor", "entity">> :> Hook(Favorites, {<<"favorites">>, <<"favorite-check">>})
FavoriteQueries ==
  <<"favorites">> :> Query(<<"favorites", "limit">>, Favorites)
  @@ <<"favorite">> :> Query(<<"favorite-check", "org", "document", "x">>, Favorites)

\* A page of details is opened: the server notes the view, and the page asks
\* for the list of views again half a second later.
ViewHook == <<"view">> :> Hook(Rows("views"), {<<"recent">>})
RecentQuery == <<"recent">> :> Query(<<"recent", "limit">>, RecentItems)

AttachmentKey == <<"attachments", "org", "document", "x">>
AttachmentHooks ==
  <<"attach">> :> Hook(Rows("attachments"), {AttachmentKey})
  @@ <<"detach">> :> Hook(Rows("attachments"), {AttachmentKey})
AttachmentQueries == <<"attachments">> :> Query(AttachmentKey, Rows("attachments"))

ExportHooks ==
  <<"create", "exports">> :> Early(Hook(Rows("exports"), {<<"exports">>}))
  @@ <<"revoke", "exports">> :> Early(Hook({<<"exports", "values">>}, {<<"exports">>}))
ExportQueries ==
  <<"list", "exports">> :> Query(<<"exports">>, Whole("exports"))
  @@ OneQuery("exports", <<"exports", "x">>)
ApiKeyHooks ==
  <<"create", "api_keys">> :> Hook(Rows("api_keys"), {<<"api-keys">>})
  @@ <<"delete", "api_keys">> :> Hook(Rows("api_keys"), {<<"api-keys">>})
ApiKeyQueries == <<"list", "api_keys">> :> Query(<<"api-keys">>, Rows("api_keys"))
UpdateCompletions == Hook(AISettings({"completions"}), {<<"ai-settings">>})
UpdateEmbeddings == Hook(AISettings({"embeddings"}), {<<"ai-settings">>})
UpdateIndexing == Hook(AISettings({"indexing"}), {<<"ai-settings">>})
AISettingsHooks ==
  <<"configure", "completions">> :> UpdateCompletions
  @@ <<"configure", "embeddings">> :> UpdateEmbeddings
  @@ <<"configure", "indexing">> :> UpdateIndexing
AISettingsQueries ==
  <<"ai-settings">> :> Query(<<"ai-settings">>, AISettings({"completions", "embeddings", "indexing"}))

Providers == {"microsoft", "google", "oidc"}
OAuthHooks ==
  [h \in {<<"configure", p>> : p \in Providers} |->
     Early(Hook({<<"oauth", h[2]>>}, {<<"oauth-configs">>, <<"oauth-config", h[2]>>}))]
  @@ [h \in {<<"unset", p>> : p \in Providers} |->
     Early(Hook({<<"oauth", h[2]>>}, {<<"oauth-configs">>, <<"oauth-config">>}))]
  @@ <<"configure", "domain">> :> Early(Hook({<<"oauth", "domain">>}, {<<"oauth-domain-whitelist">>}))
OAuthQueries ==
  <<"oauth-configs">> :> Query(<<"oauth-configs">>, {<<"oauth", p>> : p \in Providers})
  @@ [q \in {<<"oauth-config", p>> : p \in Providers} |-> Query(q, {<<"oauth", q[2]>>})]
  @@ <<"oauth-domain">> :> Query(<<"oauth-domain-whitelist">>, {<<"oauth", "domain">>})

UserHooks ==
  <<"create", "users">> :> Early(Hook(Rows("users"), {<<"admin-users">>}))
  @@ <<"delete", "users">> :> Hook(Rows("users"), {<<"admin-users">>})
  @@ <<"transfer", "users">> :> Hook(Content("users"), {<<"admin-users">>})
UserQueries == <<"list", "users">> :> Query(<<"admin-users">>, Whole("users"))

\* The state of the second factor, and how many backup codes are left.
MfaHooks ==
  [h \in {"enable", "disable"} \X {"mfa"} |-> Hook(Content("mfa"), {<<"mfa-status">>})]
  @@ [h \in {"setup", "regenerate"} \X {"mfa"} |-> Hook(Content("mfa"), {})]
MfaQueries == <<"mfa">> :> Query(<<"mfa-status">>, Content("mfa"))
PasskeyHooks ==
  <<"create", "passkeys">> :> Early(Hook(Rows("passkeys"), {<<"passkeys">>}))
  @@ <<"delete", "passkeys">> :> Early(Hook(Rows("passkeys"), {<<"passkeys">>}))
PasskeyQueries == <<"list", "passkeys">> :> Query(<<"passkeys">>, Rows("passkeys"))

Queries ==
  PasswordQueries @@ LocationQueries @@ ConfigurationQueries @@ ConfigurationTypeQueries
  @@ StatusQueries @@ AssetTypeQueries @@ AssetQueries @@ DocumentQueries @@ OrganizationQueries
  @@ SidebarQuery @@ GlobalQueries @@ SearchQuery @@ AuditQueries @@ RelationshipQueries
  @@ FavoriteQueries @@ RecentQuery @@ AttachmentQueries @@ ExportQueries @@ ApiKeyQueries
  @@ AISettingsQueries @@ OAuthQueries @@ UserQueries @@ MfaQueries @@ PasskeyQueries
Hooks ==
  PasswordHooks @@ LocationHooks @@ ConfigurationHooks @@ ConfigurationTypeHooks @@ StatusHooks
  @@ AssetTypeHooks @@ AssetHooks @@ DocumentHooks @@ DocumentBatchHooks @@ ApplyHooks
  @@ OrganizationHooks @@ RelationshipHooks @@ FavoriteHooks @@ ViewHook @@ AttachmentHooks
  @@ ExportHooks @@ ApiKeyHooks @@ AISettingsHooks @@ OAuthHooks @@ UserHooks @@ MfaHooks @@ PasskeyHooks
-----------------------------------------------------------------------------
(* Queries that do not follow these changes: the page shows them only when  *)
(* it is opened again after the entry has become stale.                     *)

\* No hook names them.
Unattended == {<<"search">>, <<"folders">>, <<"audit", "org">>, <<"audit", "global">>, <<"global", "sidebar">>}
              \cup {<<"global", t>> : t \in Entities}

\* Only the changes of their own rows are named.
Narrow == {<<"recent">>, <<"related">>}

Overlooked(q, h) ==
  \/ q \in Unattended
  \/ q \in Narrow /\ h \notin {<<"view">>, <<"relate">>, <<"unrelate">>}
  \* The counts of the sidebar follow deletions only.
  \/ q = <<"sidebar">> /\ h \in {"create", "update", "toggle"} \X Entities
  \* The page of an organization, against its list.
  \/ q = <<"one", "organizations">>
  \* The star of an entity follows only its own removal.
  \/ q = <<"favorite">> /\ h \in {<<"favor">>, <<"disfavor", "id">>}
  \* A page of details, when its entity is switched in a list.
  \/ q \in {"one"} \X (Entities \ {"documents"}) /\ h = <<"toggle", q[2]>>
  \* The names of the types and statuses of configurations.
  \/ q \in {"list", "one"} \X {"configurations"}
     /\ h \in {"update"} \X {"configuration_types", "configuration_statuses"}
  \* The numbers of configurations and of assets beside their types.
  \/ q \in {"list"} \X {"configuration_types", "configuration_statuses"}
     /\ h \in {"create", "update", "delete"} \X {"configurations"}
  \/ q \in {"list", "one"} \X {"custom_asset_types"}
     /\ h \in {"create", "delete"} \X {"custom_assets"}
  \* The page of a type of assets, when it is switched in the list of types.
  \/ q = <<"one", "custom_asset_types">> /\ h[1] \in {"activate", "reorder"}
  \* The chat's changes, away from the document's page.
  \/ h[1] = "apply" /\ ~(q = <<"one", "documents">> /\ h = <<"apply", "documents", "here">>)
  \* What an organization takes with it.
  \/ h = <<"delete", "organizations">> /\ q # <<"list", "organizations">>
  \* The backup codes.
  \/ h \in {"setup", "regenerate"} \X {"mfa"}
-----------------------------------------------------------------------------
(* The entry and its request.  Changes are known by their numbers.          *)

Idle == [at |-> "idle", has |-> {}]
Fetching == [at |-> "sent", has |-> {}]
NoData == [filled |-> FALSE, has |-> {}, stale |-> FALSE, watched |-> FALSE]

\* What a hook means for the entry; the one hook with an onMutate forgets the
\* requests that are under way.
Under(q, prefixes) == \E p \in prefixes : IsPrefix(p, Queries[q].key)
Followed(q, h) == Hooks[h].writes \cap Queries[q].reads # {} /\ ~Overlooked(q, h)
Meaning(h) == [followed |-> Followed(query, h), early |-> Hooks[h].early,
               refreshes |-> Under(query, Hooks[h].refreshes), removes |-> Under(query, Hooks[h].removes),
               cancels |-> h = <<"reorder", "custom_asset_types">> /\ Under(query, Hooks[h].refreshes)]
Concerns(h) == Followed(query, h) \/ Under(query, Hooks[h].refreshes \cup Hooks[h].removes)

\* Every change that a page follows refreshes its entry or removes it: a fact
\* about the two tables, in which nothing is left open.
ASSUME Attended ==
  \A q \in DOMAIN Queries, h \in DOMAIN Hooks :
    Followed(q, h) => Under(q, Hooks[h].refreshes) \/ Under(q, Hooks[h].removes)

Committed == {n \in DOMAIN calls : calls[n].commit = "done"}
Trouble == troubles < MaxTroubles /\ troubles' = troubles + 1

\* Notes that the page may go without these changes.
Excusing(set) == [n \in DOMAIN calls |-> [calls[n] EXCEPT !.excused = @ \/ n \in set]]
-----------------------------------------------------------------------------
\* A page opens: it shows what there is, and asks for it if it is stale.
Mount ==
  /\ ~entry.watched
  /\ entry' = [entry EXCEPT !.watched = TRUE]
  /\ fetch' = IF fetch = Idle /\ (~entry.filled \/ entry.stale) THEN Fetching ELSE fetch
  /\ UNCHANGED <<query, calls, troubles>>

\* A page closes; its request goes on.
Unmount ==
  /\ entry.watched
  /\ entry' = [entry EXCEPT !.watched = FALSE]
  /\ UNCHANGED <<query, fetch, calls, troubles>>

\* An entry that no page shows is dropped after a while.
Collect ==
  /\ entry.filled /\ ~entry.watched /\ fetch = Idle
  /\ entry' = NoData
  /\ UNCHANGED <<query, fetch, calls, troubles>>

\* staleTime.
Expire ==
  /\ entry.filled /\ ~entry.stale
  /\ entry' = [entry EXCEPT !.stale = TRUE]
  /\ UNCHANGED <<query, fetch, calls, troubles>>

\* The refresh button, or the network comes back.
Refetch ==
  /\ entry.watched /\ (entry.filled \/ fetch = Idle)
  /\ fetch' = Fetching
  /\ UNCHANGED <<query, entry, calls, troubles>>

\* A change that is answered but not committed is not there to be read.
Read ==
  /\ fetch.at = "sent"
  /\ fetch' = [at |-> "read", has |-> Committed]
  /\ calls' = Excusing({n \in DOMAIN calls : calls[n].answer = "ok" /\ calls[n].commit = "open"})
  /\ UNCHANGED <<query, entry, troubles>>

\* The entry is fresh again, whatever was said of it since the request was sent.
AnswerFetch ==
  /\ fetch.at = "read"
  /\ entry' = [entry EXCEPT !.filled = TRUE, !.has = fetch.has, !.stale = FALSE]
  /\ fetch' = Idle
  /\ UNCHANGED <<query, calls, troubles>>

\* Both attempts fail: an open page keeps what it has, until it is opened again.
FailFetch ==
  /\ fetch # Idle /\ Trouble
  /\ fetch' = Idle
  /\ calls' = IF entry.watched THEN Excusing({n \in DOMAIN calls : calls[n].answer = "ok"}) ELSE calls
  /\ UNCHANGED <<query, entry>>
-----------------------------------------------------------------------------
(* The mutation hooks.                                                      *)

\* Slip: a request that is under way is left to answer for the new one.
Joined == entry.watched /\ fetch = Idle

\* An open page asks again, and what it has asked for before is forgotten,
\* unless it has nothing to show yet: then that request must do.
AsksAgain == entry.watched /\ (entry.filled \/ fetch = Idle)

Invalidate ==
  /\ entry' = [entry EXCEPT !.stale = @ \/ entry.filled]
  /\ fetch' = IF AsksAgain THEN Fetching ELSE fetch

\* A change that the request which must do has not read may go unseen.
Unseen(n) ==
  IF fetch.at = "read" /\ ~(entry.watched /\ entry.filled) /\ n \notin fetch.has THEN {n} ELSE {}

\* The page of what is deleted is left before its entry is removed.
Dropped == entry' = NoData /\ fetch' = Idle

\* onSuccess.
Succeed(n) ==
  IF calls[n].hook.removes THEN Dropped
  ELSE IF calls[n].hook.refreshes THEN Invalidate
  ELSE UNCHANGED <<entry, fetch>>

Start(h) ==
  /\ Len(calls) < MaxChanges /\ Concerns(h)
  /\ calls' = Append(calls, [hook |-> Meaning(h), commit |-> "open", answer |-> "open", excused |-> FALSE])
  /\ fetch' = IF Meaning(h).cancels THEN Idle ELSE fetch
  /\ UNCHANGED <<query, entry, troubles>>

\* The transaction ends after the handler: before its answer is out, or after.
Commit(n) ==
  /\ calls[n].commit = "open"
  /\ calls' = [calls EXCEPT ![n].commit = "done"]
  /\ UNCHANGED <<query, entry, fetch, troubles>>

Answer(n) ==
  /\ calls[n].answer = "open" /\ (calls[n].hook.early => calls[n].commit = "done")
  /\ calls' = [Excusing(Unseen(n)) EXCEPT ![n].answer = "ok"]
  /\ Succeed(n)
  /\ UNCHANGED <<query, troubles>>

\* onSettled of the hook with an onMutate refreshes after an error too.
Settled(n) == IF calls[n].hook.cancels THEN Invalidate ELSE UNCHANGED <<entry, fetch>>

\* The handler refuses.
Refuse(n) ==
  /\ calls[n].answer = "open" /\ calls[n].commit = "open"
  /\ calls' = [calls EXCEPT ![n].answer = "error", ![n].commit = "undone"]
  /\ Settled(n)
  /\ UNCHANGED <<query, troubles>>

\* The answer is lost, or what the hook does after it fails, or the user has
\* left the page of details before the half second is over.
LoseAnswer(n) ==
  /\ calls[n].answer = "open" /\ calls[n].commit = "done" /\ Trouble
  /\ calls' = [calls EXCEPT ![n].answer = "error"]
  /\ Settled(n)
  /\ UNCHANGED query

\* The commit fails after the answer.
LoseCommit(n) ==
  /\ calls[n].answer = "ok" /\ calls[n].commit = "open" /\ Trouble
  /\ calls' = [calls EXCEPT ![n].commit = "undone"]
  /\ UNCHANGED <<query, entry, fetch>>
-----------------------------------------------------------------------------
PageCacheNext ==
  \/ Mount \/ Unmount \/ Collect \/ Expire \/ Refetch
  \/ Read \/ AnswerFetch \/ FailFetch
  \/ \E h \in DOMAIN Hooks : Start(h)
  \/ \E n \in DOMAIN calls : Commit(n) \/ Answer(n) \/ Refuse(n) \/ LoseAnswer(n) \/ LoseCommit(n)
-----------------------------------------------------------------------------
\* When the user's changes are committed and answered and no request is under
\* way, every open page, and every entry that the cache takes for fresh, shows
\* them: in whatever order commits, answers and requests met, wherever the
\* user went meanwhile.  The exceptions are the pairs listed above; a commit
\* that came after the request it should have been seen by; a request that was
\* already answered by the server and could not be repeated; and one that failed.
OwnChangesShow ==
  (/\ fetch = Idle /\ entry.filled /\ (entry.watched \/ ~entry.stale)
   /\ \A n \in DOMAIN calls : calls[n].commit # "open" /\ calls[n].answer # "open")
  => \A n \in Committed :
       (calls[n].answer = "ok" /\ calls[n].hook.followed) => n \in entry.has \/ calls[n].excused
=============================================================================
