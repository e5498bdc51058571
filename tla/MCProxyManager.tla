--------------------------- MODULE MCProxyManager ---------------------------
(***************************************************************************)
(* Instances of ProxyManager for TLC.                                      *)
(***************************************************************************)
EXTENDS ProxyManager, TLC

CONSTANTS k1, k2, u1, u2

OneCaller == {k1}
TwoCallers == {k1, k2}
TwoApps == {1, 2}
OneHost == {1}
TwoHosts == {1, 2}
TwoUpstreams == {u1, u2}

\* "/*", "/api/*", "/api/v1/*" and "/v1/*"
NestedPaths == {<<>>, <<"api">>, <<"api", "v1">>, <<"v1">>}
TwoSegments == {"api", "v1"}
NestedBytes == (<<>> :> 2) @@ (<<"api">> :> 6) @@ (<<"api", "v1">> :> 9) @@ (<<"v1">> :> 5)

At(domains, upstream) == [domains |-> domains, upstream |-> upstream]

\* The second application may want the first one's host, or a pattern that lies
\* between the first one's two.
Overlapping ==
    (1 :> {At({<<1, <<>>>>, <<1, <<"api", "v1">>>>}, u1), At({<<1, <<>>>>}, u1)}) @@
    (2 :> {At({<<1, <<"api">>>>, <<2, <<>>>>}, u2), At({<<1, <<>>>>}, u2)})

Disjoint == (1 :> {At({<<1, <<>>>>}, u1)}) @@ (2 :> {At({<<1, <<"api">>>>}, u2)})

=============================================================================
