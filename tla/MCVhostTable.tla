---------------------------- MODULE MCVhostTable ----------------------------
(* Hosts of one and of three labels, a wildcard and the route for          *)
(* everything; two nested paths; routes with and without a user.           *)
EXTENDS VhostTable

CONSTANTS c1, c2

Shop == Exact(<<"shop", "ex", "com">>)
Sub  == Wild(<<"ex", "com">>)

MCProxies ==
  {[name |-> "web", domains |-> <<Shop, Sub>>, locations |-> {<<"/">>}, user |-> NoUser, kind |-> "http"],
   [name |-> "web", domains |-> <<Shop>>, locations |-> {<<"/">>, <<"/", "api">>}, user |-> "ann", kind |-> "http"],
   [name |-> "all", domains |-> <<CatchAll, Shop>>, locations |-> {<<"/", "api">>}, user |-> NoUser, kind |-> "https"]}

MCQueries ==
  [host : {<<"shop", "ex", "com">>, <<"a", "shop", "ex", "com">>, <<"ex", "com">>},
   path : {<<"/", "api">>}, user : {NoUser, "ann"}, kind : {"http"}]
  \cup [host : {<<"shop", "ex", "com">>}, path : {<<"/">>}, user : {"ann", "bob"}, kind : {"http"}]
  \cup [host : {<<"shop", "ex", "com">>, <<"com">>}, path : {<<"/", "api">>}, user : {NoUser}, kind : {"https"}]

(* One domain for http and for https.                                      *)
MCKinds ==
  {[name |-> k, domains |-> <<Shop>>, locations |-> {<<"/">>}, user |-> NoUser, kind |-> k] : k \in {"http", "https"}}

MCSymmetry == Permutations(Clients)
=============================================================================
