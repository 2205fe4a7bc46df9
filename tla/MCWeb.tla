-------------------------------- MODULE MCWeb --------------------------------
EXTENDS Web, TLC

CONSTANTS a1, a2, a3, m1, m2, m3, x1, x2, k1, k2, g1, o1, google, oidc

MCProviderOf == (g1 :> google) @@ (o1 :> oidc)
MCEmailOf == (g1 :> m3) @@ (o1 :> m1)
MCOwnerOf == [e \in ExportIds |-> a2]

\* A platform in use: its owner has a credential of every kind, and two
\* setups of a second factor have crossed each other.
MCEnrolled ==
  [accounts |-> (a1 :> [email |-> m1, password |-> TRUE, role |-> "owner"])
                @@ (a2 :> [email |-> m2, password |-> TRUE, role |-> "administrator"]),
   passkeys |-> {<<x1, a1>>}, identities |-> {<<o1, a1>>}, keys |-> {<<k1, a1>>},
   mfa |-> (a1 :> [methods |-> {<<1, "active">>, <<2, "pending">>}, enabled |-> TRUE, codes |-> TRUE])
           @@ (a2 :> NoFactor) @@ (a3 :> NoFactor),
   settings |-> (google :> 1) @@ (oidc :> 1)]

\* An answer that goes on after a proposed change, one with a change that is
\* proposed unannounced and cannot be shown, and one that breaks off.
MCScripts ==
  {<<"citations", "delta", "mutation_pending", "mutation_preview", "delta", "done">>,
   <<"citations", "delta", "mutation_error", "delta", "done">>,
   <<"citations", "delta", "delta", "error">>}
=============================================================================
