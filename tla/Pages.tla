-------------------------------- MODULE Pages --------------------------------
(***************************************************************************)
(* The pages and the query cache they share.  The entries do not meet, so  *)
(* a behaviour follows one of them: of a list, a page of details or a      *)
(* setting, which only requests fill, or of the preferences of a table,    *)
(* which the table itself writes before the server does.                   *)
(***************************************************************************)
EXTENDS PageCache, Columns

Preferences == <<"preferences", "passwords">>

Init ==
  /\ query \in DOMAIN Queries \cup {Preferences}
  /\ entry = NoData /\ fetch = Idle /\ calls = <<>> /\ troubles = 0
  /\ ColumnsInit

Next ==
  \/ query # Preferences /\ PageCacheNext /\ UNCHANGED columnsVars
  \/ query = Preferences /\ ColumnsNext /\ UNCHANGED cacheVars

Spec == Init /\ [][Next]_<<cacheVars, columnsVars>>
=============================================================================
