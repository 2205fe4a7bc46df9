------------------------------ MODULE MCImport ------------------------------
EXTENDS Import

CONSTANTS o1, o2, t1, s1, k1, l1, c1, a1, d1, d2, d3, p1, p2, p3, r1, r2, r3

MCOrgOf == [i \in Scoped |-> IF i \in {c1, l1, p1} THEN o2 ELSE o1]
MCTypeOf == (c1 :> t1) @@ (a1 :> k1)
MCStatusOf == (c1 :> s1)
MCNameOf == (d1 :> "same") @@ (d2 :> "same") @@ (d3 :> "other")
MCOwnerOf == (r1 :> p1) @@ (r2 :> p2) @@ (r3 :> p3)
MCTargetOf == (r1 :> c1) @@ (r2 :> a1) @@ (r3 :> a1)
MCKindOf == (r1 :> "configuration") @@ (r2 :> "row") @@ (r3 :> "cell")

MCRows ==
  [organizations |-> <<o1, o2>>, configuration_types |-> <<t1>>,
   configuration_statuses |-> <<s1>>, custom_asset_types |-> <<k1>>, locations |-> <<l1>>,
   configurations |-> <<c1>>, custom_assets |-> <<a1>>, documents |-> <<d1, d2, d3>>,
   passwords |-> <<p1, p2, p3>>, relationships |-> <<r1, r2, r3>>]

\* The lists of types have no place at all, those of organizations, of the
\* documents and of the passwords of an organization one, the others enough.
MCPlaces == [s \in DOMAIN MCRows |->
  CASE s \in {"configuration_types", "custom_asset_types"} -> 0
    [] s \in {"organizations", "documents", "passwords"} -> 1
    [] OTHER -> 3]
=============================================================================
