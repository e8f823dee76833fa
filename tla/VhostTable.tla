----------------------------- MODULE VhostTable -----------------------------
(***************************************************************************)
(* The table of virtual hosts (vhost.rs) and the registration of proxies   *)
(* that live in it (register_vhost, close_proxy_by_name and the end of     *)
(* handle_control in serve.rs; add_proxy of admin.rs).                     *)
(*                                                                         *)
(* The table is locked for one domain at a time, so the domains of two     *)
(* registrations interleave.  A client's control loop and the panel's task *)
(* may each be registering a proxy on the same ClientState.                *)
(*                                                                         *)
(* A host is the sequence of its labels, a path a sequence of pieces; the  *)
(* list of a domain is the set of routes with that domain, and where the   *)
(* code takes the first of several in the list the model takes any.        *)
(***************************************************************************)
EXTENDS Integers, FiniteSets, SequencesExt

CONSTANTS
  Clients,     \* ClientStates, compared by identity
  Proxies,     \* what a client may ask to register
  Queries,     \* requests of visitors
  MaxPanel     \* registrations by the panel in one behaviour

Exact(labels) == [wild |-> FALSE, labels |-> labels]
Wild(labels)  == [wild |-> TRUE, labels |-> labels]
CatchAll      == Exact(<<"*">>)
NoUser        == ""

ASSUME VhostAssumption ==
  /\ IsFiniteSet(Clients)
  /\ \A p \in Proxies :
       /\ DOMAIN p = {"name", "domains", "locations", "user", "kind"}
       /\ p.domains \in Seq([wild : BOOLEAN, labels : Seq(STRING)]) /\ p.domains # <<>>
       /\ p.locations \subseteq Seq(STRING) /\ p.locations # {} /\ IsFiniteSet(p.locations)
  /\ \A q \in Queries :
       /\ DOMAIN q = {"host", "path", "user", "kind"}
       /\ q.host \in Seq(STRING) /\ q.path \in Seq(STRING)
  /\ MaxPanel \in Nat

Tasks == Clients \X {"loop", "panel"}
Client(t) == t[1]

VARIABLES
  routes,   \* the table
  proxies,  \* names in the table of each ClientState
  task,     \* registrations in progress: the proxy and the domains left, or none
  gone,     \* ClientStates that have been cleaned up
  refused,  \* <<client, name>> of refused registrations whose client has not
            \* closed the name or left since (history)
  panels    \* registrations by the panel so far

vars == <<routes, proxies, task, gone, refused, panels>>

Idle == [busy |-> FALSE]
Busy(p, rest) == [busy |-> TRUE, proxy |-> p, rest |-> rest]

-----------------------------------------------------------------------------
(* Routing.                                                                *)

Route(c, p, d) ==
  [owner |-> c, name |-> p.name, domain |-> d,
   locations |-> p.locations, user |-> p.user, kind |-> p.kind]

Matching(r, path) == {l \in r.locations : IsPrefix(l, path)}

Longest(paths) == {l \in paths : \A k \in paths : Len(k) <= Len(l)}
match_location(r, path) == Longest(Matching(r, path))

(* One of the two rounds over the list of a domain: first the routes of    *)
(* the visitor's user name, then those of no user name.                    *)
Candidates(d, q, exact_user) ==
  {r \in routes :
    /\ r.domain = d /\ r.kind = q.kind
    /\ IF exact_user THEN r.user # NoUser /\ r.user = q.user ELSE r.user = NoUser
    /\ Matching(r, q.path) # {}}

(* The route with the longest prefix of them all.                          *)
matched(d, q, exact_user) ==
  LET found == Candidates(d, q, exact_user)
      best  == Longest(UNION {Matching(r, q.path) : r \in found})
  IN  {r \in found : match_location(r, q.path) \cap best # {}}

in_table(d, q) ==
  IF matched(d, q, TRUE) # {} THEN matched(d, q, TRUE) ELSE matched(d, q, FALSE)

Suffix(host, i) == SubSeq(host, i + 1, Len(host))

(* Mutant of Hosts: the route for everything is asked before the           *)
(* wildcards.                                                              *)
HostsEarlyCatchAll(host) ==
  LET levels == IF Len(host) > 2 THEN Len(host) - 2 ELSE 0
  IN  <<CatchAll, Exact(host)>> \o [i \in 1..levels |-> Wild(Suffix(host, i))]

(* The host itself, then its suffixes of at least two labels as wildcards, *)
(* then the route for everything.                                          *)
Hosts(host) ==
  LET levels == IF Len(host) > 2 THEN Len(host) - 2 ELSE 0
  IN  <<Exact(host)>> \o [i \in 1..levels |-> Wild(Suffix(host, i))] \o <<CatchAll>>

lookup(q) ==
  LET hits == {i \in DOMAIN Hosts(q.host) : in_table(Hosts(q.host)[i], q) # {}}
  IN  IF hits = {} THEN {}
        ELSE in_table(Hosts(q.host)[CHOOSE i \in hits : \A j \in hits : i <= j], q)

-----------------------------------------------------------------------------
(* Registration.                                                           *)

Duplicate(r, s) == r.domain = s.domain /\ r.locations \cap s.locations # {}

(* Mutant of Conflict: a route is mine when it has my name.                *)
ConflictByName(existing, r) ==
  /\ existing.name # r.name
  /\ Duplicate(existing, r)
  /\ existing.owner # r.owner \/ existing.user = r.user

(* Routes with a common path on one domain exclude each other, unless they *)
(* belong to one proxy, or to one client and different users.              *)
Conflict(existing, r) ==
  /\ ~(existing.owner = r.owner /\ existing.name = r.name)
  /\ Duplicate(existing, r)
  /\ existing.owner # r.owner \/ existing.user = r.user

(* Mutant of WithoutProxy: routes are taken by name alone.                 *)
WithoutName(c, n) == {r \in routes : r.name # n}

(* remove_proxy.                                                           *)
WithoutProxy(c, n) == {r \in routes : ~(r.owner = c /\ r.name = n)}

(* register_proxy: what the ClientState has under that name goes first.    *)
Start(t, p) ==
  /\ ~task[t].busy
  /\ task' = [task EXCEPT ![t] = Busy(p, p.domains)]
  /\ IF p.name \in proxies[Client(t)]
       THEN /\ routes' = WithoutProxy(Client(t), p.name)
            /\ proxies' = [proxies EXCEPT ![Client(t)] = @ \ {p.name}]
       ELSE UNCHANGED <<routes, proxies>>
  /\ UNCHANGED <<gone, refused>>

LoopStart(c, p) == c \notin gone /\ Start(<<c, "loop">>, p) /\ UNCHANGED panels

(* The panel's task has been given the ClientState while it was online.    *)
PanelStart(c, p) ==
  /\ c \notin gone /\ panels < MaxPanel
  /\ Start(<<c, "panel">>, p)
  /\ panels' = panels + 1

(* VhostTable::register for the next domain of a registration.             *)
NextRoute(t) == Route(Client(t), task[t].proxy, Head(task[t].rest))

(* Mutant of Register: a domain that has been registered comes up again.   *)
RegisterAgain(t) ==
  /\ task[t].busy /\ task[t].rest # <<>>
  /\ \A e \in routes : ~Conflict(e, NextRoute(t))
  /\ routes' = routes \cup {NextRoute(t)}
  /\ task' = [task EXCEPT ![t].rest = Append(Tail(@), Head(@))]
  /\ UNCHANGED <<proxies, gone, refused, panels>>

Register(t) ==
  /\ task[t].busy /\ task[t].rest # <<>>
  /\ \A e \in routes : ~Conflict(e, NextRoute(t))
  /\ routes' = {e \in routes : ~(e.owner = Client(t) /\ e.name = task[t].proxy.name
                                   /\ e.domain = NextRoute(t).domain)} \cup {NextRoute(t)}
  /\ task' = [task EXCEPT ![t] = Busy(@.proxy, Tail(@.rest))]
  /\ UNCHANGED <<proxies, gone, refused, panels>>

(* The first conflict ends the registration; what it has done stays.       *)
Refuse(t) ==
  /\ task[t].busy /\ task[t].rest # <<>>
  /\ \E e \in routes : Conflict(e, NextRoute(t))
  /\ task' = [task EXCEPT ![t] = Idle]
  /\ refused' = refused \cup {<<Client(t), task[t].proxy.name>>}
  /\ UNCHANGED <<routes, proxies, gone, panels>>

Finish(t) ==
  /\ task[t].busy /\ task[t].rest = <<>>
  /\ task' = [task EXCEPT ![t] = Idle]
  /\ proxies' = [proxies EXCEPT ![Client(t)] = @ \cup {task[t].proxy.name}]
  /\ UNCHANGED <<routes, gone, refused, panels>>

(* Mutant of Close: the routes are left for the end of the session.        *)
CloseKeepsRoutes(c, n) ==
  /\ c \notin gone /\ ~task[<<c, "loop">>].busy
  /\ proxies' = [proxies EXCEPT ![c] = @ \ {n}]
  /\ refused' = refused \ {<<c, n>>}
  /\ UNCHANGED <<routes, task, gone, panels>>

(* CloseProxy of the client, in its control loop: the routes of that name  *)
(* go, whether or not the name is in its table.                            *)
Close(c, n) ==
  /\ c \notin gone /\ ~task[<<c, "loop">>].busy
  /\ routes' = WithoutProxy(c, n)
  /\ proxies' = [proxies EXCEPT ![c] = @ \ {n}]
  /\ refused' = refused \ {<<c, n>>}
  /\ UNCHANGED <<task, gone, panels>>

(* cleanup_client, when the loop has ended and no resumption is awaited.   *)
Leave(c) ==
  /\ c \notin gone /\ ~task[<<c, "loop">>].busy
  /\ gone' = gone \cup {c}
  /\ routes' = {r \in routes : r.owner # c}
  /\ proxies' = [proxies EXCEPT ![c] = {}]
  /\ refused' = {x \in refused : x[1] # c}
  /\ UNCHANGED <<task, panels>>

-----------------------------------------------------------------------------
Init ==
  /\ routes = {} /\ gone = {} /\ refused = {} /\ panels = 0
  /\ proxies = [c \in Clients |-> {}]
  /\ task = [t \in Tasks |-> Idle]

Next ==
  \/ \E c \in Clients, p \in Proxies : LoopStart(c, p) \/ PanelStart(c, p)
  \/ \E t \in Tasks : Register(t) \/ Refuse(t) \/ Finish(t)
  \/ \E c \in Clients : Leave(c) \/ \E n \in {p.name : p \in Proxies} : Close(c, n)

Spec == Init /\ [][Next]_vars

-----------------------------------------------------------------------------
(* Properties.                                                             *)

ProxyNames == {p.name : p \in Proxies}
AllDomains == UNION {ToSet(p.domains) : p \in Proxies}
LeftOf(p, k) == SubSeq(p.domains, k + 1, Len(p.domains))

(* Every route is one of a proxy some client may ask for.                  *)
TypeOK ==
  /\ \A r \in routes : \E c \in Clients, p \in Proxies, d \in AllDomains : r = Route(c, p, d)
  /\ proxies \in [Clients -> SUBSET ProxyNames]
  /\ task = [t \in Tasks |-> task[t]]
  /\ \A t \in Tasks :
       \/ task[t] = Idle
       \/ \E p \in Proxies : \E k \in 0..Len(p.domains) : task[t] = Busy(p, LeftOf(p, k))
  /\ gone \subseteq Clients
  /\ refused \subseteq Clients \X ProxyNames
  /\ panels \in 0..MaxPanel

(* At most one route answers a request: the order of registration never    *)
(* decides it, although lookup takes the first of the best (vhost.rs 352). *)
RoutesDecided == \A q \in Queries : Cardinality(lookup(q)) <= 1

(* What lookup answers is the most specific of all routes that match: by   *)
(* the host, then by the user, then by the path (vhost.rs 343).            *)
MatchesHost(d, host) ==
  \/ d = Exact(host)
  \/ d = CatchAll
  \/ d.wild /\ Len(d.labels) >= 2 /\ Len(d.labels) < Len(host) /\ IsSuffix(d.labels, host)
Specificity(d, host) ==
  IF d = Exact(host) THEN Len(host) + 1 ELSE IF d = CatchAll THEN 0 ELSE Len(d.labels)

Matches(q) ==
  {r \in routes : /\ MatchesHost(r.domain, q.host) /\ r.kind = q.kind
                  /\ r.user \in {NoUser, q.user} /\ Matching(r, q.path) # {}}
Prefers(q, r, s) ==
  LET rs == Specificity(r.domain, q.host)
      ss == Specificity(s.domain, q.host)
  IN  \/ rs > ss
      \/ rs = ss /\ r.user # NoUser /\ s.user = NoUser
      \/ rs = ss /\ r.user = s.user
           /\ \E l \in Matching(r, q.path) : \A k \in Matching(s, q.path) : Len(l) > Len(k)

LookupMostSpecific ==
  \A q \in Queries :
    lookup(q) = {r \in Matches(q) : \A s \in Matches(q) : ~Prefers(q, s, r)}

(* No name, domain or user a client chooses lets it take another's route   *)
(* (vhost.rs 176): a step of one client takes none of another's, and the   *)
(* route of a proxy in its client's table leaves only in a step of that    *)
(* client.  (A close of a name that is not in the table shows in no        *)
(* variable but routes.)                                                   *)
OwnStep(c) ==
  \/ proxies'[c] # proxies[c] \/ c \in gone' \ gone
  \/ \E n \in ProxyNames : <<c, n>> \in refused \ refused'
  \/ task'[<<c, "loop">>] # task[<<c, "loop">>] \/ task'[<<c, "panel">>] # task[<<c, "panel">>]
OthersUntouched ==
  [][\A r \in routes \ routes' :
       /\ \A c \in Clients \ {r.owner} : ~OwnStep(c)
       /\ r.name \in proxies[r.owner] => OwnStep(r.owner)]_vars

(* Routes that stand for no registered proxy are those of a registration   *)
(* in progress, or what a refused one has left behind (serve.rs 2503) and  *)
(* only until its client closes that name or leaves (serve.rs 1904).       *)
InProgress(r) ==
  \E t \in Tasks : Client(t) = r.owner /\ task[t].busy /\ task[t].proxy.name = r.name
LeftoversExplained ==
  \A r \in routes :
    \/ r.name \in proxies[r.owner]
    \/ InProgress(r)
    \/ <<r.owner, r.name>> \in refused

(* A client that has left has no route in the table (vhost.rs 329).        *)
GoneHasNoRoute == \A r \in routes : r.owner \in gone => InProgress(r)

(* A registration is refused only for a route some request could not tell  *)
(* from the new one (vhost.rs 200).                                        *)
RefusedForAmbiguity ==
  [][\A t \in Tasks :
       /\ task[t].busy /\ task[t].rest # <<>>
       /\ <<Client(t), task[t].proxy.name>> \in refused' \ refused
       => \E e \in routes : Conflict(e, NextRoute(t)) /\ e.kind = NextRoute(t).kind]_vars
=============================================================================
