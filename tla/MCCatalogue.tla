---------------------------- MODULE MCCatalogue ----------------------------
EXTENDS Catalogue, TLC

CONSTANTS o1, o2, t1, t2, s1, k1, k2, l1, p1, d1, c1, a1, a2, r1, r2, m1, v1, n1, n2, f1, f2, u1, q1, q2

\* One organization with types, statuses, a configuration and a custom asset.
Typed ==
  (o1 :> [name |-> n1, enabled |-> TRUE])
  @@ (s1 :> [name |-> n1, active |-> TRUE])
  @@ (k1 :> [name |-> n1, active |-> TRUE,
             fields |-> (f1 :> "text") @@ (f2 :> "secret")])
  @@ (c1 :> [org |-> o1, enabled |-> TRUE, ctype |-> Null, status |-> s1])
  @@ (a1 :> [org |-> o1, enabled |-> TRUE, type |-> k1,
             values |-> (f1 :> "plain") @@ (f2 :> "cipher")])

\* One with a location, a document and an attachment, and no types.
Untyped ==
  (o1 :> [name |-> n1, enabled |-> TRUE])
  @@ (l1 :> [org |-> o1, enabled |-> TRUE])
  @@ (d1 :> [org |-> o1, enabled |-> TRUE])
  @@ (m1 :> [org |-> o1])

\* The uuids without a row are free.
MCStarts == {Typed, Untyped}

\* The requests in flight are interchangeable.
Interchangeable == Permutations(Requests)
=============================================================================
