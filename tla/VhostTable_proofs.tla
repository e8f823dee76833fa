------------------------- MODULE VhostTable_proofs -------------------------
(***************************************************************************)
(* Proofs about VhostTable, for every set of clients, proxies and          *)
(* requests.  That no request has two routes rests on one fact about the   *)
(* table: routes that share a path on a domain are of one client and of    *)
(* different users.  That lookup finds the most specific one is a fact     *)
(* about the search: candidates are tried from the exact name to the       *)
(* catch-all, and in each the longest location and the named user first.   *)
(***************************************************************************)
EXTENDS VhostTable, SequenceTheorems, FiniteSetTheorems, WellFoundedInduction, TLAPS

\* Two routes with a path in common on one domain.
Apart(r, s) == Duplicate(r, s) => r.owner = s.owner /\ r.user # s.user

NoClash == \A r, s \in routes : r # s => Apart(r, s)

Inv == TypeOK /\ NoClash

-----------------------------------------------------------------------------
\* What is left of a proxy's domains after the first k of them (register).
LEMMA RestOfList ==
  ASSUME NEW S, NEW d \in Seq(S), NEW k \in 0..Len(d)
  PROVE  /\ SubSeq(d, k + 1, Len(d)) \in Seq(S)
         /\ Len(SubSeq(d, k + 1, Len(d))) = Len(d) - k
<1>. DEFINE n == Len(d)
<1>1. n \in Int /\ k + 1 \in Int /\ k \in Int
  OBVIOUS
<1>2. \A i \in k + 1 .. n : d[i] \in S
  OBVIOUS
<1>3. k <= n
  OBVIOUS
<1>. HIDE DEF n
<1>4. /\ SubSeq(d, k + 1, n) \in Seq(S)
      /\ Len(SubSeq(d, k + 1, n)) = IF k + 1 <= n THEN n - (k + 1) + 1 ELSE 0
  BY <1>1, <1>2, SubSeqProperties
<1>5. Len(SubSeq(d, k + 1, n)) = n - k
  BY <1>1, <1>3, <1>4
<1>. QED BY <1>4, <1>5 DEF n

\* The domain a registration takes next is one of its proxy, and the rest
\* is again a rest.
LEMMA RestStep ==
  ASSUME NEW p \in Proxies, NEW k \in 0..Len(p.domains), LeftOf(p, k) # <<>>
  PROVE  /\ Head(LeftOf(p, k)) \in ToSet(p.domains)
         /\ k + 1 \in 0..Len(p.domains)
         /\ Tail(LeftOf(p, k)) = LeftOf(p, k + 1)
<1>. DEFINE d == p.domains
<1>1. d \in Seq([wild : BOOLEAN, labels : Seq(STRING)])
  BY VhostAssumption
<1>2. k < Len(d)
  <2>1. ASSUME k = Len(d) PROVE LeftOf(p, k) = <<>>
    BY <1>1, <2>1, SubSeqEmpty DEF LeftOf
  <2>. QED BY <1>1, <2>1
<1>3. k + 1 \in 1..Len(d) /\ k + 1 \in 0..Len(d) /\ k + 1 + 1 = k + 2
  BY <1>1, <1>2
<1>4. Head(SubSeq(d, k + 1, Len(d))) = d[k + 1]
  BY <1>1, <1>3
<1>5. Tail(SubSeq(d, k + 1, Len(d))) = SubSeq(d, k + 2, Len(d))
  BY <1>1, <1>3
<1>6. d[k + 1] \in ToSet(d)
  BY <1>1, <1>3 DEF ToSet
<1>. QED BY <1>3, <1>4, <1>5, <1>6 DEF LeftOf

\* A registration in progress has a route to offer that is of the right type.
LEMMA NextRouteType ==
  ASSUME TypeOK, NEW t \in Tasks, task[t].busy, task[t].rest # <<>>
  PROVE  \E p \in Proxies : \E k \in 0..Len(p.domains) :
           /\ task[t] = Busy(p, LeftOf(p, k))
           /\ k + 1 \in 0..Len(p.domains)
           /\ Busy(task[t].proxy, Tail(task[t].rest)) = Busy(p, LeftOf(p, k + 1))
           /\ Head(task[t].rest) \in AllDomains
           /\ NextRoute(t) = Route(Client(t), p, Head(task[t].rest))
<1>1. task[t] # Idle
  BY DEF Idle
<1>a. PICK p \in Proxies : \E k \in 0..Len(p.domains) : task[t] = Busy(p, LeftOf(p, k))
  BY <1>1 DEF TypeOK
<1>2. PICK k \in 0..Len(p.domains) : task[t] = Busy(p, LeftOf(p, k))
  BY <1>a
<1>3. LeftOf(p, k) # <<>>
  BY <1>2 DEF Busy
<1>4. /\ Head(LeftOf(p, k)) \in ToSet(p.domains)
      /\ k + 1 \in 0..Len(p.domains)
      /\ Tail(LeftOf(p, k)) = LeftOf(p, k + 1)
  BY <1>3, RestStep
<1>5. Head(task[t].rest) \in AllDomains
  BY <1>2, <1>4 DEF Busy, AllDomains
<1>6. Busy(task[t].proxy, Tail(task[t].rest)) = Busy(p, LeftOf(p, k + 1))
  <2>1. task[t].proxy = p /\ task[t].rest = LeftOf(p, k)
    BY <1>2 DEF Busy
  <2>. QED BY <2>1, <1>4
<1>7. NextRoute(t) = Route(Client(t), p, Head(task[t].rest))
  BY <1>2 DEF NextRoute, Busy
<1>. QED BY <1>2, <1>4, <1>5, <1>6, <1>7

\* Taking routes away breaks nothing.
LEMMA FewerRoutes ==
  ASSUME Inv, routes' \subseteq routes
  PROVE  /\ NoClash'
         /\ \A r \in routes' : \E c \in Clients, p \in Proxies, d \in AllDomains : r = Route(c, p, d)
BY DEF Inv, TypeOK, NoClash

\* A registration begins with all domains of its proxy.
LEMMA StartInv ==
  ASSUME Inv, NEW c \in Clients, NEW p \in Proxies, LoopStart(c, p) \/ PanelStart(c, p)
  PROVE  Inv'
<1>1. PICK t \in Tasks : Start(t, p) /\ Client(t) \in Clients
  BY DEF LoopStart, PanelStart, Tasks, Client
<1>2. panels' \in 0..MaxPanel
  BY VhostAssumption DEF LoopStart, PanelStart, Inv, TypeOK
<1>3. routes' \subseteq routes
  BY <1>1 DEF Start, WithoutProxy
<1>4. Busy(p, p.domains) = Busy(p, LeftOf(p, 0)) /\ 0 \in 0..Len(p.domains)
  <2>1. p.domains \in Seq([wild : BOOLEAN, labels : Seq(STRING)])
    BY VhostAssumption
  <2>2. Len(p.domains) \in Nat /\ 0 + 1 = 1
    BY <2>1
  <2>3. LeftOf(p, 0) = p.domains
    BY <2>1, <2>2, SubSeqFull DEF LeftOf
  <2>. QED BY <2>2, <2>3
<1>5. \A u \in Tasks : \/ task'[u] = Idle
                       \/ \E q \in Proxies : \E k \in 0..Len(q.domains) : task'[u] = Busy(q, LeftOf(q, k))
  BY <1>1, <1>4 DEF Start, Inv, TypeOK
<1>6. proxies' \in [Clients -> SUBSET ProxyNames] /\ task' = [u \in Tasks |-> task'[u]]
  BY <1>1 DEF Start, Inv, TypeOK
<1>7. UNCHANGED <<gone, refused>>
  BY <1>1 DEF Start
<1>. QED BY <1>2, <1>3, <1>5, <1>6, <1>7, FewerRoutes DEF Inv, TypeOK

\* The new route is apart from all that stay: a conflict would have refused it.
LEMMA RegisterInv ==
  ASSUME Inv, NEW t \in Tasks, Register(t)
  PROVE  Inv'
<1>. DEFINE n == NextRoute(t)
            kept == {e \in routes : ~(e.owner = Client(t) /\ e.name = task[t].proxy.name /\ e.domain = n.domain)}
<1>a. PICK p \in Proxies : \E k \in 0..Len(p.domains) :
        /\ task[t] = Busy(p, LeftOf(p, k))
        /\ k + 1 \in 0..Len(p.domains)
        /\ Busy(task[t].proxy, Tail(task[t].rest)) = Busy(p, LeftOf(p, k + 1))
        /\ Head(task[t].rest) \in AllDomains
        /\ n = Route(Client(t), p, Head(task[t].rest))
  BY NextRouteType DEF Register, Inv
<1>1. PICK k \in 0..Len(p.domains) :
        /\ task[t] = Busy(p, LeftOf(p, k))
        /\ k + 1 \in 0..Len(p.domains)
        /\ Busy(task[t].proxy, Tail(task[t].rest)) = Busy(p, LeftOf(p, k + 1))
        /\ Head(task[t].rest) \in AllDomains
        /\ n = Route(Client(t), p, Head(task[t].rest))
  BY <1>a
<1>2. Client(t) \in Clients
  BY DEF Tasks, Client
<1>3. routes' = kept \cup {n} /\ \A e \in routes : ~Conflict(e, n)
  BY DEF Register
<1>4. n.owner = Client(t) /\ n.name = task[t].proxy.name
  BY <1>1 DEF Route, Busy
<1>5. \A e \in kept : Apart(e, n) /\ Apart(n, e)
  BY <1>3, <1>4 DEF Conflict, Apart, Duplicate
<1>6. NoClash'
  BY <1>3, <1>5 DEF NoClash, Inv
<1>7. \A r \in routes' : \E c \in Clients, q \in Proxies, d \in AllDomains : r = Route(c, q, d)
  BY <1>1, <1>2, <1>3 DEF Inv, TypeOK
<1>8. \A u \in Tasks : \/ task'[u] = Idle
                       \/ \E q \in Proxies : \E j \in 0..Len(q.domains) : task'[u] = Busy(q, LeftOf(q, j))
  <2>1. task'[t] = Busy(p, LeftOf(p, k + 1))
    BY <1>1 DEF Register, Inv, TypeOK
  <2>2. \A u \in Tasks : u # t => task'[u] = task[u]
    BY DEF Register, Inv, TypeOK
  <2>. QED BY <1>1, <2>1, <2>2 DEF Inv, TypeOK
<1>. QED BY <1>6, <1>7, <1>8 DEF Inv, TypeOK, Register

\* A registration ends.
LEMMA EndInv ==
  ASSUME Inv, NEW t \in Tasks, Refuse(t) \/ Finish(t)
  PROVE  Inv'
<1>1. Client(t) \in Clients
  BY DEF Tasks, Client
<1>2. task[t].busy => task[t].proxy.name \in ProxyNames
  <2>. SUFFICES ASSUME task[t].busy PROVE task[t].proxy.name \in ProxyNames
    OBVIOUS
  <2>1. task[t] # Idle
    BY DEF Idle
  <2>. QED BY <2>1 DEF Inv, TypeOK, Busy, ProxyNames
<1>3. routes' \subseteq routes
  BY DEF Refuse, Finish
<1>4. \A u \in Tasks : task'[u] = Idle \/ task'[u] = task[u]
  BY DEF Refuse, Finish, Inv, TypeOK
<1>7. task' = [u \in Tasks |-> task'[u]]
  BY DEF Refuse, Finish, Inv, TypeOK
<1>8. \A u \in Tasks : \/ task'[u] = Idle
                       \/ \E q \in Proxies : \E k \in 0..Len(q.domains) : task'[u] = Busy(q, LeftOf(q, k))
  BY <1>4 DEF Inv, TypeOK
<1>5. proxies' \in [Clients -> SUBSET ProxyNames] /\ refused' \subseteq Clients \X ProxyNames
  BY <1>1, <1>2 DEF Refuse, Finish, Inv, TypeOK
<1>6. UNCHANGED <<gone, panels>>
  BY DEF Refuse, Finish
<1>. QED BY <1>3, <1>5, <1>6, <1>7, <1>8, FewerRoutes DEF Inv, TypeOK

\* A client closes a proxy or leaves.
LEMMA GoInv ==
  ASSUME Inv, NEW c \in Clients, NEW n, Close(c, n) \/ Leave(c)
  PROVE  Inv'
<1>1. routes' \subseteq routes
  BY DEF Close, Leave, WithoutProxy
<1>2. proxies' \in [Clients -> SUBSET ProxyNames]
  BY DEF Close, Leave, Inv, TypeOK
<1>3. gone' \subseteq Clients 
  BY DEF Close, Leave, Inv, TypeOK
<1>4. UNCHANGED <<task, panels>> /\ refused' \subseteq refused
  BY DEF Close, Leave
<1>. QED BY <1>1, <1>2, <1>3, <1>4, FewerRoutes DEF Inv, TypeOK

\* The invariant is inductive.
LEMMA InvStep == Inv /\ [Next]_vars => Inv'
<1>. SUFFICES ASSUME Inv, [Next]_vars PROVE Inv'
  OBVIOUS
<1>1. CASE UNCHANGED vars
  BY <1>1 DEF vars, Inv, TypeOK, NoClash
<1>2. CASE Next
  BY <1>2, StartInv, RegisterInv, EndInv, GoInv DEF Next
<1>. QED BY <1>1, <1>2

\* A route without a registered proxy stays explained in every step.
LEMMA LeftoversStep == Inv /\ LeftoversExplained /\ [Next]_vars => LeftoversExplained'
<1>. SUFFICES ASSUME Inv, LeftoversExplained, [Next]_vars, NEW r \in routes'
              PROVE  \/ r.name \in proxies'[r.owner]
                     \/ InProgress(r)'
                     \/ <<r.owner, r.name>> \in refused'
  BY DEF LeftoversExplained
<1>1. CASE UNCHANGED vars
  BY <1>1 DEF vars, LeftoversExplained, InProgress
<1>2. ASSUME NEW c \in Clients, NEW p \in Proxies, LoopStart(c, p) \/ PanelStart(c, p)
      PROVE  \/ r.name \in proxies'[r.owner]
             \/ InProgress(r)'
             \/ <<r.owner, r.name>> \in refused'
  <2>1. PICK t \in Tasks : Start(t, p) /\ Client(t) = c
    BY <1>2 DEF LoopStart, PanelStart, Tasks, Client
  <2>2. r \in routes
    BY <2>1 DEF Start, WithoutProxy
  <2>3. CASE r.name \in proxies[r.owner]
    <3>1. CASE r.owner = c /\ r.name = p.name
      BY <2>1, <2>3, <3>1 DEF Start, WithoutProxy
    <3>2. CASE ~(r.owner = c /\ r.name = p.name)
      <4>1. r.owner \in Clients
        BY <2>2 DEF Inv, TypeOK, Route
      <4>2. \/ proxies' = proxies
            \/ proxies' = [proxies EXCEPT ![c] = @ \ {p.name}]
        BY <2>1 DEF Start
      <4>. QED BY <2>3, <3>2, <4>1, <4>2 DEF Inv, TypeOK
    <3>. QED BY <3>1, <3>2
  <2>4. CASE InProgress(r)
    <3>1. PICK u \in Tasks : Client(u) = r.owner /\ task[u].busy /\ task[u].proxy.name = r.name
      BY <2>4 DEF InProgress
    <3>2. task'[u] = task[u]
      BY <2>1, <3>1 DEF Start, Inv, TypeOK
    <3>. QED BY <3>1, <3>2 DEF InProgress
  <2>. QED BY <2>1, <2>2, <2>3, <2>4 DEF LeftoversExplained, Start
<1>3. ASSUME NEW t \in Tasks, Register(t)
      PROVE  \/ r.name \in proxies'[r.owner]
             \/ InProgress(r)'
             \/ <<r.owner, r.name>> \in refused'
  <2>1. task'[t] = Busy(task[t].proxy, Tail(task[t].rest))
    BY <1>3 DEF Register, Inv, TypeOK
  <2>2. task'[t].busy /\ task'[t].proxy = task[t].proxy
    BY <2>1 DEF Busy
  <2>3. \A u \in Tasks : task[u].busy => task'[u].busy /\ task'[u].proxy = task[u].proxy
    BY <1>3, <2>2 DEF Register, Inv, TypeOK
  <2>4. CASE r = NextRoute(t)
    BY <1>3, <2>2, <2>4 DEF InProgress, NextRoute, Route, Register
  <2>5. CASE r # NextRoute(t)
    BY <1>3, <2>3, <2>5 DEF InProgress, Register, LeftoversExplained
  <2>. QED BY <2>4, <2>5
<1>4. ASSUME NEW t \in Tasks, Refuse(t) \/ Finish(t)
      PROVE  \/ r.name \in proxies'[r.owner]
             \/ InProgress(r)'
             \/ <<r.owner, r.name>> \in refused'
  <2>1. r \in routes /\ r.owner \in Clients
    BY <1>4 DEF Refuse, Finish, Inv, TypeOK, Route
  <2>2. CASE InProgress(r)
    <3>1. PICK u \in Tasks : Client(u) = r.owner /\ task[u].busy /\ task[u].proxy.name = r.name
      BY <2>2 DEF InProgress
    <3>2. CASE u = t
      BY <1>4, <2>1, <3>1, <3>2 DEF Refuse, Finish, Inv, TypeOK
    <3>3. CASE u # t
      <4>1. task'[u] = task[u]
        BY <1>4, <3>3 DEF Refuse, Finish, Inv, TypeOK
      <4>. QED BY <3>1, <4>1 DEF InProgress
    <3>. QED BY <3>2, <3>3
  <2>3. CASE r.name \in proxies[r.owner] \/ <<r.owner, r.name>> \in refused
    BY <1>4, <2>1, <2>3 DEF Refuse, Finish, Inv, TypeOK
  <2>. QED BY <2>1, <2>2, <2>3 DEF LeftoversExplained
<1>5. ASSUME NEW c \in Clients, NEW n, Close(c, n) \/ Leave(c)
      PROVE  \/ r.name \in proxies'[r.owner]
             \/ InProgress(r)'
             \/ <<r.owner, r.name>> \in refused'
  <2>1. r \in routes /\ (r.owner = c => ~Leave(c) /\ r.name # n)
    BY <1>5 DEF Close, Leave, WithoutProxy
  <2>2. r.name \in proxies[r.owner] => r.name \in proxies'[r.owner]
    <3>1. r.owner \in Clients
      BY <2>1 DEF Inv, TypeOK, Route
    <3>2. CASE Close(c, n)
      BY <2>1, <3>1, <3>2 DEF Close, Inv, TypeOK
    <3>3. CASE Leave(c)
      <4>1. r.owner # c
        BY <1>5, <2>1, <3>3 DEF Close, Leave
      <4>. QED BY <3>1, <3>3, <4>1 DEF Leave, Inv, TypeOK
    <3>. QED BY <1>5, <3>2, <3>3
  <2>3. task' = task /\ (<<r.owner, r.name>> \in refused => <<r.owner, r.name>> \in refused')
    BY <1>5, <2>1 DEF Close, Leave
  <2>4. InProgress(r) => InProgress(r)'
    BY <2>3 DEF InProgress
  <2>. QED BY <2>1, <2>2, <2>3, <2>4 DEF LeftoversExplained
<1>. QED BY <1>1, <1>2, <1>3, <1>4, <1>5 DEF Next

\* The empty table satisfies it.
LEMMA InitInv == Init => Inv
BY VhostAssumption DEF Init, Inv, TypeOK, NoClash

\* Two prefixes of one path that are as long as each other are the same.
LEMMA SamePrefix ==
  ASSUME NEW k \in Seq(STRING), NEW l \in Seq(STRING), NEW path \in Seq(STRING),
         IsPrefix(k, path), IsPrefix(l, path), Len(k) = Len(l)
  PROVE  k = l
BY SubSeqFull DEF IsPrefix

\* In one round over one domain only one route can win.
LEMMA OneWinner ==
  ASSUME Inv, NEW d, NEW q \in Queries, NEW exact_user,
         NEW r \in matched(d, q, exact_user), NEW s \in matched(d, q, exact_user)
  PROVE  r = s
<1>1. /\ r \in routes /\ s \in routes
      /\ r.domain = d /\ s.domain = d
      /\ r.user = s.user
  BY DEF matched, Candidates
<1>2. PICK l : /\ l \in Matching(r, q.path)
               /\ l \in Longest(UNION {Matching(o, q.path) : o \in Candidates(d, q, exact_user)})
  BY DEF matched, match_location, Longest
<1>3. PICK k : /\ k \in Matching(s, q.path)
               /\ k \in Longest(UNION {Matching(o, q.path) : o \in Candidates(d, q, exact_user)})
  BY DEF matched, match_location, Longest
<1>4. Len(k) <= Len(l) /\ Len(l) <= Len(k)
  BY <1>2, <1>3 DEF Longest
<1>5. /\ l \in r.locations /\ IsPrefix(l, q.path)
      /\ k \in s.locations /\ IsPrefix(k, q.path)
  BY <1>2, <1>3 DEF Matching
<1>6. r.locations \subseteq Seq(STRING) /\ s.locations \subseteq Seq(STRING)
  BY <1>1, VhostAssumption DEF Inv, TypeOK, Route
<1>7. q.path \in Seq(STRING)
  BY VhostAssumption
<1>8. l = k
  <2>1. Len(l) = Len(k)
    BY <1>4, <1>5, <1>6
  <2>. QED BY <1>5, <1>6, <1>7, <2>1, SamePrefix
<1>9. Duplicate(r, s)
  BY <1>1, <1>5, <1>8 DEF Duplicate
<1>. QED BY <1>1, <1>9 DEF Inv, NoClash, Apart

-----------------------------------------------------------------------------
(* The theorems *)

\* The table never holds two routes a request could not tell apart, whatever is
\* registered, refused, closed and left by loops and panel (vhost.rs 193).
THEOREM Invariance == Spec => []Inv
BY InitInv, InvStep, PTL DEF Spec

\* Every route is one of a proxy some client asked for (serve.rs 2503).
THEOREM TypeCorrect == Spec => []TypeOK
BY Invariance, PTL DEF Inv

\* At most one route answers a request, so that lookup's choice of the first of
\* the best never depends on the order of registration (vhost.rs 352).
THEOREM RoutesDecidedHolds == Spec => []RoutesDecided
<1>1. Inv => RoutesDecided
  <2>. SUFFICES ASSUME Inv, NEW q \in Queries PROVE Cardinality(lookup(q)) <= 1
    BY DEF RoutesDecided
  <2>1. PICK d : lookup(q) = {} \/ lookup(q) = in_table(d, q)
    BY DEF lookup
  <2>2. PICK round : in_table(d, q) = matched(d, q, round)
    BY DEF in_table
  <2>3. \A r, s \in lookup(q) : r = s
    BY <2>1, <2>2, OneWinner
  <2>4. lookup(q) = {} \/ \E r : lookup(q) = {r}
    BY <2>3
  <2>5. ASSUME NEW r, lookup(q) = {r} PROVE Cardinality(lookup(q)) = 1
    BY <2>5, FS_Singleton
  <2>6. lookup(q) = {} => Cardinality(lookup(q)) = 0
    BY FS_EmptySet
  <2>. QED BY <2>4, <2>5, <2>6
<1>. QED BY <1>1, Invariance, PTL

\* What OthersUntouched says of one route that leaves.
OthersStay(r) ==
  /\ \A c \in Clients \ {r.owner} : ~OwnStep(c)
  /\ r.name \in proxies[r.owner] => OwnStep(r.owner)

\* A step of one client shows on no other (vhost.rs 299, 316).
LEMMA StepShows ==
  ASSUME Inv, NEW c \in Clients,
         \/ \E p \in Proxies : LoopStart(c, p) \/ PanelStart(c, p)
         \/ \E t \in Tasks : Client(t) = c /\ Register(t)
         \/ \E n \in ProxyNames : Close(c, n)
         \/ Leave(c)
  PROVE  \A d \in Clients \ {c} : ~OwnStep(d)
<1>. SUFFICES ASSUME NEW d \in Clients \ {c} PROVE ~OwnStep(d)
  OBVIOUS
<1>1. CASE \E p \in Proxies : LoopStart(c, p) \/ PanelStart(c, p)
  <2>1. PICK t \in Tasks, p \in Proxies : Start(t, p) /\ Client(t) = c
    BY <1>1 DEF LoopStart, PanelStart, Tasks, Client
  <2>2. \A k \in {"loop", "panel"} : <<d, k>> \in Tasks /\ <<d, k>> # t
    BY <2>1 DEF Tasks, Client
  <2>3. \A u \in Tasks \ {t} : task'[u] = task[u]
    BY <2>1 DEF Start, Inv, TypeOK
  <2>4. proxies'[d] = proxies[d] /\ gone' = gone /\ refused' = refused
    BY <2>1 DEF Start, Inv, TypeOK
  <2>5. task'[<<d, "loop">>] = task[<<d, "loop">>] /\ task'[<<d, "panel">>] = task[<<d, "panel">>]
    BY <2>2, <2>3
  <2>. QED BY <2>4, <2>5 DEF OwnStep
<1>2. CASE \E t \in Tasks : Client(t) = c /\ Register(t)
  <2>1. PICK t \in Tasks : Client(t) = c /\ Register(t)
    BY <1>2
  <2>2. \A k \in {"loop", "panel"} : <<d, k>> \in Tasks /\ <<d, k>> # t
    BY <2>1 DEF Tasks, Client
  <2>3. \A u \in Tasks \ {t} : task'[u] = task[u]
    BY <2>1 DEF Register, Inv, TypeOK
  <2>4. proxies'[d] = proxies[d] /\ gone' = gone /\ refused' = refused
    BY <2>1 DEF Register, Inv, TypeOK
  <2>5. task'[<<d, "loop">>] = task[<<d, "loop">>] /\ task'[<<d, "panel">>] = task[<<d, "panel">>]
    BY <2>2, <2>3
  <2>. QED BY <2>4, <2>5 DEF OwnStep
<1>3. CASE \E n \in ProxyNames : Close(c, n)
  BY <1>3 DEF Close, OwnStep, Inv, TypeOK
<1>4. CASE Leave(c)
  BY <1>4 DEF Leave, OwnStep, Inv, TypeOK
<1>. QED BY <1>1, <1>2, <1>3, <1>4

\* No step of one client, refused registrations and their leftovers included,
\* takes a route of another (vhost.rs 299, 316).
THEOREM OthersUntouchedHolds == Spec => OthersUntouched
<1>1. Inv /\ [Next]_vars => [\A r \in routes \ routes' : OthersStay(r)]_vars
  <2>. SUFFICES ASSUME Inv, Next, NEW r \in routes \ routes' PROVE OthersStay(r)
    BY DEF vars
  <2>1. ASSUME NEW c \in Clients, NEW p \in Proxies, LoopStart(c, p) \/ PanelStart(c, p)
        PROVE  OthersStay(r)
    <3>1. PICK t \in Tasks : Start(t, p) /\ Client(t) = c
      BY <2>1 DEF LoopStart, PanelStart, Tasks, Client
    <3>2. r.owner = c /\ p.name \in proxies[c] /\ proxies' = [proxies EXCEPT ![c] = @ \ {p.name}]
      BY <3>1 DEF Start, WithoutProxy
    <3>3. proxies'[c] # proxies[c]
      BY <3>2 DEF Inv, TypeOK
    <3>. QED BY <2>1, <3>2, <3>3, StepShows DEF OthersStay, OwnStep
  <2>2. ASSUME NEW t \in Tasks, Register(t) PROVE OthersStay(r)
    <3>1. r.owner = Client(t)
      BY <2>2 DEF Register
    <3>2. task'[t] # task[t]
      <4>a. PICK p \in Proxies : \E k \in 0..Len(p.domains) :
              /\ task[t] = Busy(p, LeftOf(p, k)) /\ k + 1 \in 0..Len(p.domains)
              /\ Busy(task[t].proxy, Tail(task[t].rest)) = Busy(p, LeftOf(p, k + 1))
        BY <2>2, NextRouteType DEF Register, Inv
      <4>b. PICK k \in 0..Len(p.domains) :
              /\ task[t] = Busy(p, LeftOf(p, k)) /\ k + 1 \in 0..Len(p.domains)
              /\ Busy(task[t].proxy, Tail(task[t].rest)) = Busy(p, LeftOf(p, k + 1))
        BY <4>a
      <4>1. task'[t] = Busy(p, LeftOf(p, k + 1))
        BY <2>2, <4>b DEF Register, Inv, TypeOK
      <4>2. p.domains \in Seq([wild : BOOLEAN, labels : Seq(STRING)])
        BY VhostAssumption
      <4>3. LeftOf(p, k) \in Seq([wild : BOOLEAN, labels : Seq(STRING)])
        BY <4>2, RestOfList DEF LeftOf
      <4>4. task[t].rest = LeftOf(p, k) /\ task'[t].rest = LeftOf(p, k + 1)
        BY <4>1, <4>b DEF Busy
      <4>5. task[t].rest # <<>>
        BY <2>2 DEF Register
      <4>6. LeftOf(p, k + 1) = Tail(LeftOf(p, k))
        BY <4>4, <4>5, RestStep
      <4>7. Len(Tail(LeftOf(p, k))) = Len(LeftOf(p, k)) - 1 /\ Len(LeftOf(p, k)) \in Nat
        BY <4>3, <4>4, <4>5, HeadTailProperties
      <4>. DEFINE u == LeftOf(p, k)
      <4>8. LeftOf(p, k + 1) # u
        <5>1. Tail(u) # u
          <6>1. Len(Tail(u)) # Len(u)
            <7>. DEFINE n == Len(u)
            <7>1. n \in Nat /\ Len(Tail(u)) = n - 1
              BY <4>7
            <7>. HIDE DEF n
            <7>2. n - 1 # n
              BY <7>1
            <7>. QED BY <7>1, <7>2 DEF n
          <6>. QED BY <6>1
        <5>. QED BY <4>6, <5>1
      <4>9. task'[t].rest # task[t].rest
        BY <4>4, <4>8
      <4>. QED BY <4>9
    <3>3. t = <<r.owner, "loop">> \/ t = <<r.owner, "panel">>
      BY <3>1 DEF Tasks, Client
    <3>4. OwnStep(r.owner)
      BY <3>2, <3>3 DEF OwnStep
    <3>5. r.owner \in Clients
      BY <3>1 DEF Tasks, Client
    <3>. QED BY <2>2, <3>1, <3>4, <3>5, StepShows DEF OthersStay
  <2>3. ASSUME NEW t \in Tasks, Refuse(t) \/ Finish(t) PROVE OthersStay(r)
    BY <2>3 DEF Refuse, Finish
  <2>4. ASSUME NEW c \in Clients, NEW n \in ProxyNames, Close(c, n) PROVE OthersStay(r)
    <3>1. r.owner = c /\ r.name = n
      BY <2>4 DEF Close, WithoutProxy
    <3>2. n \in proxies[c] => proxies'[c] # proxies[c]
      BY <2>4 DEF Close, Inv, TypeOK
    <3>. QED BY <2>4, <3>1, <3>2, StepShows DEF OthersStay, OwnStep
  <2>5. ASSUME NEW c \in Clients, Leave(c) PROVE OthersStay(r)
    <3>1. r.owner = c /\ c \in gone' \ gone
      BY <2>5 DEF Leave
    <3>. QED BY <2>5, <3>1, StepShows DEF OthersStay, OwnStep
  <2>. QED BY <2>1, <2>2, <2>3, <2>4, <2>5 DEF Next, ProxyNames
<1>. QED BY <1>1, Invariance, PTL DEF Spec, OthersUntouched, OthersStay

\* A route without a registered proxy belongs to a registration in progress or to
\* a refused one, whatever loop and panel do at the same time (serve.rs 2503).
THEOREM LeftoversExplainedHolds == Spec => []LeftoversExplained
<1>1. Init => LeftoversExplained
  BY DEF Init, LeftoversExplained
<1>. QED BY <1>1, LeftoversStep, Invariance, PTL DEF Spec

-----------------------------------------------------------------------------
(* What lookup answers.                                                    *)

\* A non-empty set of numbers has a least one: lookup asks the domains of a host
\* in order and stops at the first (vhost.rs 350).
LEMMA LeastNat ==
  ASSUME NEW S \in SUBSET Nat, S # {}
  PROVE  \E n \in S : \A m \in S : n <= m
<1>. DEFINE Less == OpToRel(<, Nat)
<1>1. IsWellFoundedOn(Less, Nat)
  BY NatLessThanWellFounded
<1>2. \A m, n \in Nat : m < n => <<m, n>> \in Less
  BY DEF OpToRel
<1>. HIDE DEF Less
<1>3. PICK n \in S : \A m \in S : <<m, n>> \notin Less
  BY <1>1, WFMin
<1>4. \A m \in S : m \in Nat /\ n \in Nat /\ ~(m < n)
  BY <1>2, <1>3, Zenon
<1>. QED BY <1>4

\* Of paths that a request's path begins with, one is the longest
\* (match_location, vhost.rs 473).
LEMMA LongestExists ==
  ASSUME NEW path \in Seq(STRING), NEW S \in SUBSET Seq(STRING), S # {},
         \A l \in S : IsPrefix(l, path)
  PROVE  Longest(S) # {}
<1>. DEFINE Short == {Len(path) - Len(l) : l \in S}
<1>1. \A l \in S : Len(l) \in Nat /\ Len(l) <= Len(path)
  BY DEF IsPrefix
<1>2. Len(path) \in Nat
  OBVIOUS
<1>3. Short \in SUBSET Nat /\ Short # {}
  BY <1>1, <1>2
<1>4. PICK n \in Short : \A m \in Short : n <= m
  BY <1>3, LeastNat
<1>5. PICK l \in S : n = Len(path) - Len(l)
  BY <1>4
<1>6. ASSUME NEW k \in S PROVE Len(k) <= Len(l)
  <2>1. Len(path) - Len(l) <= Len(path) - Len(k)
    BY <1>4, <1>5
  <2>. QED BY <1>1, <1>2, <2>1
<1>. QED BY <1>5, <1>6 DEF Longest

\* The routes of the table have paths and domains of the right types.
LEMMA RouteTypes ==
  ASSUME TypeOK, NEW r \in routes
  PROVE  /\ r.locations \in SUBSET Seq(STRING)
         /\ r.domain \in [wild : BOOLEAN, labels : Seq(STRING)]
<1>1. PICK c \in Clients, p \in Proxies, d \in AllDomains : r = Route(c, p, d)
  BY DEF TypeOK
<1>2. PICK e \in Proxies : d \in ToSet(e.domains)
  BY DEF AllDomains
<1>3. e.domains \in Seq([wild : BOOLEAN, labels : Seq(STRING)])
  BY VhostAssumption
<1>4. d \in [wild : BOOLEAN, labels : Seq(STRING)]
  <2>1. \A S, s : s \in Seq(S) => \A i \in DOMAIN s : s[i] \in S
    OBVIOUS
  <2>2. PICK i \in DOMAIN e.domains : d = e.domains[i]
    BY <1>2 DEF ToSet
  <2>. QED BY <1>3, <2>1, <2>2
<1>5. p.locations \subseteq Seq(STRING)
  BY VhostAssumption
<1>. QED BY <1>1, <1>4, <1>5 DEF Route

\* A route has a path of the request longer than all of another's
\* (vhost.rs 398).
Longer(q, r, s) == \E l \in Matching(r, q.path) : \A k \in Matching(s, q.path) : Len(l) > Len(k)

\* What a round answers when it has the candidates C.
AnswerFrom(C, q) ==
  {r \in C : match_location(r, q.path) \cap Longest(UNION {Matching(o, q.path) : o \in C}) # {}}

\* One round over a domain answers with the candidates that no other candidate
\* has a longer path than, and with some if there are any (vhost.rs 384-402).
LEMMA RoundAnswer ==
  ASSUME TypeOK, NEW q \in Queries,
         NEW C \in SUBSET routes, \A r \in C : Matching(r, q.path) # {}
  PROVE  /\ AnswerFrom(C, q) = {r \in C : \A s \in C : ~Longer(q, s, r)}
         /\ C # {} => AnswerFrom(C, q) # {}
<1>. DEFINE All == UNION {Matching(r, q.path) : r \in C}
            M == AnswerFrom(C, q)
<1>1. q.path \in Seq(STRING)
  BY VhostAssumption
<1>2. \A r \in C : /\ r \in routes
                   /\ Matching(r, q.path) \in SUBSET Seq(STRING)
                   /\ Matching(r, q.path) # {}
                   /\ \A l \in Matching(r, q.path) : IsPrefix(l, q.path)
  BY RouteTypes DEF Matching
<1>3. \A r \in C : Longest(Matching(r, q.path)) # {}
  BY <1>1, <1>2, LongestExists
<1>4. /\ All \in SUBSET Seq(STRING)
      /\ \A l \in All : IsPrefix(l, q.path)
  BY <1>2
<1>5. M = {r \in C : Longest(Matching(r, q.path)) \cap Longest(All) # {}}
  BY DEF AnswerFrom, match_location
<1>. HIDE DEF M
<1>6. ASSUME NEW r \in M PROVE \A s \in C : ~Longer(q, s, r)
  <2>1. PICK l \in Matching(r, q.path) : l \in All /\ \A k \in All : Len(k) <= Len(l)
    BY <1>5 DEF Longest
  <2>2. ASSUME NEW s \in C, NEW k \in Matching(s, q.path) PROVE ~(Len(k) > Len(l))
    <3>1. k \in All
      BY <2>2
    <3>2. Len(k) <= Len(l) /\ Len(k) \in Nat /\ Len(l) \in Nat
      BY <1>4, <2>1, <3>1
    <3>. QED BY <3>2
  <2>. QED BY <2>1, <2>2 DEF Longer
<1>7. ASSUME NEW r \in C, \A s \in C : ~Longer(q, s, r) PROVE r \in M
  <2>1. PICK l \in Matching(r, q.path) : \A k \in Matching(r, q.path) : Len(k) <= Len(l)
    BY <1>3 DEF Longest
  <2>2. l \in All
    BY <2>1
  <2>3. ASSUME NEW s \in C, NEW k \in Matching(s, q.path) PROVE Len(k) <= Len(l)
    <3>1. PICK o \in Matching(r, q.path) : ~(Len(k) > Len(o))
      BY <1>7, <2>3 DEF Longer
    <3>2. /\ Len(o) <= Len(l) /\ k \in Seq(STRING) /\ o \in Seq(STRING) /\ l \in Seq(STRING)
      BY <1>2, <2>1, <3>1
    <3>3. Len(k) \in Nat /\ Len(o) \in Nat /\ Len(l) \in Nat
      BY <3>2
    <3>. QED BY <3>1, <3>2, <3>3
  <2>4. \A k \in All : Len(k) <= Len(l)
    BY <2>3
  <2>5. l \in Longest(Matching(r, q.path)) \cap Longest(All)
    BY <2>1, <2>2, <2>4 DEF Longest
  <2>. QED BY <1>5, <2>5
<1>8. M \subseteq C
  BY <1>5
<1>9. M = {r \in C : \A s \in C : ~Longer(q, s, r)}
  BY <1>6, <1>7, <1>8
<1>10. ASSUME C # {} PROVE M # {}
  <2>1. All # {}
    BY <1>2, <1>10
  <2>2. PICK l : l \in Longest(All)
    BY <1>1, <1>4, <2>1, LongestExists
  <2>3. PICK r \in C : l \in Matching(r, q.path)
    BY <2>2 DEF Longest
  <2>4. Matching(r, q.path) \subseteq All
    BY <2>3
  <2>5. l \in Longest(Matching(r, q.path))
    BY <2>2, <2>3, <2>4 DEF Longest
  <2>. QED BY <1>5, <2>2, <2>3, <2>5
<1>. QED BY <1>9, <1>10 DEF M

\* The routes of one domain that match a request.
MatchesOn(d, q) == {r \in Matches(q) : r.domain = d}

\* The last labels of a host are the only ones of their number it ends with
\* (the wildcard labels[i..], vhost.rs 399).
LEMMA SuffixUnique ==
  ASSUME NEW host \in Seq(STRING), NEW i \in 0 .. Len(host)
  PROVE  /\ Suffix(host, i) \in Seq(STRING)
         /\ Len(Suffix(host, i)) = Len(host) - i
         /\ IsSuffix(Suffix(host, i), host)
         /\ \A s \in Seq(STRING) :
              IsSuffix(s, host) /\ Len(s) = Len(host) - i => s = Suffix(host, i)
<1>. DEFINE n == Len(host)
            m == n - i
            x == Suffix(host, i)
            Tip(s) == SubSeq(Reverse(s), 1, m)
            Up(s, k) == s[(Len(s) - k) + 1]
<1>1. n \in Nat /\ i \in Nat /\ i <= n /\ m \in 0 .. n
  OBVIOUS
<1>2. /\ x \in Seq(STRING) /\ Len(x) = m
      /\ \A k \in 1 .. m : x[k] = host[i + k]
  <2>1. \A k \in (i + 1) .. n : host[k] \in STRING
    BY <1>1
  <2>2. /\ SubSeq(host, i + 1, n) \in Seq(STRING)
        /\ Len(SubSeq(host, i + 1, n)) = IF i + 1 <= n THEN n - (i + 1) + 1 ELSE 0
        /\ \A k \in 1 .. n - (i + 1) + 1 : SubSeq(host, i + 1, n)[k] = host[i + 1 + k - 1]
    BY <1>1, <2>1, SubSeqProperties
  <2>. QED BY <1>1, <2>2 DEF Suffix
<1>. HIDE DEF x, n, m
\* The tip of a sequence of at least m labels.
<1>3. ASSUME NEW s \in Seq(STRING), m <= Len(s)
      PROVE  /\ Tip(s) \in Seq(STRING) /\ Len(Tip(s)) = m
             /\ \A k \in 1 .. m : Tip(s)[k] = Up(s, k)
             /\ Len(Reverse(s)) = Len(s)
  <2>1. Len(s) \in Nat /\ m \in Nat
    BY <1>1
  <2>2. Reverse(s) = [k \in 1 .. Len(s) |-> Up(s, k)]
    BY DEF Reverse
  <2>3. Len(Reverse(s)) = Len(s)
    BY <2>1, <2>2
  <2>4. \A k \in 1 .. m : Reverse(s)[k] = Up(s, k) /\ Reverse(s)[k] \in STRING
    BY <1>3, <2>1, <2>2
  <2>5. /\ Tip(s) \in Seq(STRING)
        /\ Len(Tip(s)) = IF 1 <= m THEN m - 1 + 1 ELSE 0
        /\ \A k \in 1 .. m - 1 + 1 : Tip(s)[k] = Reverse(s)[1 + k - 1]
    BY <2>1, <2>4, SubSeqProperties
  <2>. QED BY <2>1, <2>3, <2>4, <2>5
<1>4. ASSUME NEW s \in Seq(STRING), Len(s) = m
      PROVE  IsSuffix(s, host) <=> Tip(s) = Tip(host)
  <2>1. Len(Reverse(s)) = m /\ Len(Reverse(host)) = n
    BY <1>1, <1>3, <1>4 DEF n
  <2>. QED BY <1>1, <2>1 DEF IsSuffix, IsPrefix
<1>5. ASSUME NEW k \in 1 .. m
      PROVE  Up(x, k) = Up(host, k)
  <2>1. (Len(x) - k) + 1 \in 1 .. m /\ i + ((m - k) + 1) = (n - k) + 1
    BY <1>1, <1>2 DEF m
  <2>. QED BY <1>2, <2>1 DEF n
<1>6. Tip(x) = Tip(host)
  <2>1. m \in Nat /\ m <= Len(x) /\ m <= Len(host)
    BY <1>1, <1>2 DEF n
  <2>2. /\ Tip(x) \in Seq(STRING) /\ Len(Tip(x)) = m
        /\ Tip(host) \in Seq(STRING) /\ Len(Tip(host)) = m
        /\ \A k \in 1 .. m : Tip(x)[k] = Up(x, k) /\ Tip(host)[k] = Up(host, k)
    BY <1>2, <1>3, <2>1
  <2>. HIDE DEF Tip, Up
  <2>3. \A k \in 1 .. m : Tip(x)[k] = Tip(host)[k]
    BY <1>5, <2>2
  <2>. QED BY <2>2, <2>3
<1>7. IsSuffix(x, host)
  BY <1>2, <1>4, <1>6
<1>8. ASSUME NEW s \in Seq(STRING), IsSuffix(s, host), Len(s) = m
      PROVE  s = x
  <2>1. Tip(s) = Tip(x)
    BY <1>4, <1>6, <1>8
  <2>2. \A k \in 1 .. m : Up(s, k) = Up(x, k)
    <3>1. m \in Nat /\ m <= Len(x) /\ m <= Len(s)
      BY <1>1, <1>2, <1>8
    <3>2. \A k \in 1 .. m : Tip(s)[k] = Up(s, k) /\ Tip(x)[k] = Up(x, k)
      BY <1>2, <1>3, <1>8, <3>1
    <3>. HIDE DEF Tip, Up
    <3>. QED BY <2>1, <3>2
  <2>3. ASSUME NEW k \in 1 .. m PROVE s[k] = x[k]
    <3>1. (m - k) + 1 \in 1 .. m /\ (m - ((m - k) + 1)) + 1 = k
      BY <1>1
    <3>. QED BY <1>2, <1>8, <2>2, <3>1
  <2>. QED BY <1>2, <1>8, <2>3
<1>. QED BY <1>2, <1>7, <1>8 DEF x, m, n

\* The domains lookup asks for a host are those that match it, from the most
\* specific to the least (vhost.rs 393-401).
LEMMA HostsInOrder ==
  ASSUME NEW host \in Seq(STRING)
  PROVE  /\ DOMAIN Hosts(host) \in SUBSET Nat
         /\ \A i \in DOMAIN Hosts(host) : /\ MatchesHost(Hosts(host)[i], host)
                                          /\ Specificity(Hosts(host)[i], host) \in Int
         /\ \A d \in [wild : BOOLEAN, labels : Seq(STRING)] :
              MatchesHost(d, host) => \E i \in DOMAIN Hosts(host) : d = Hosts(host)[i]
         /\ \A i, j \in DOMAIN Hosts(host) :
              i < j => \/ Hosts(host)[i] = Hosts(host)[j]
                       \/ Specificity(Hosts(host)[i], host) > Specificity(Hosts(host)[j], host)
<1>. DEFINE n == Len(host)
            lv == IF n > 2 THEN n - 2 ELSE 0
            H == Hosts(host)
            Spec0(d) == Specificity(d, host)
<1>1. n \in Nat /\ lv \in Nat
  OBVIOUS
<1>2. /\ DOMAIN H = 1 .. (lv + 2)
      /\ H[1] = Exact(host)
      /\ \A i \in 1 .. lv : H[i + 1] = Wild(Suffix(host, i))
      /\ H[lv + 2] = CatchAll
  <2>. DEFINE D == {Exact(host), CatchAll} \cup {Wild(Suffix(host, i)) : i \in 1 .. lv}
              a == <<Exact(host)>>
              b == [i \in 1 .. lv |-> Wild(Suffix(host, i))]
              c == <<CatchAll>>
  <2>1. /\ a \in Seq(D) /\ Len(a) = 1 /\ a[1] = Exact(host)
        /\ c \in Seq(D) /\ Len(c) = 1 /\ c[1] = CatchAll
    OBVIOUS
  <2>2. b \in Seq(D) /\ Len(b) = lv /\ \A i \in 1 .. lv : b[i] = Wild(Suffix(host, i))
    BY <1>1
  <2>3. H = (a \o b) \o c
    BY DEF Hosts
  <2>. HIDE DEF D, a, b, c, lv, H
  <2>4. /\ a \o b \in Seq(D) /\ Len(a \o b) = 1 + lv
        /\ \A i \in 1 .. 1 + lv : (a \o b)[i] = IF i <= 1 THEN a[i] ELSE b[i - 1]
    <3>1. /\ a \o b \in Seq(D)
          /\ Len(a \o b) = Len(a) + Len(b)
          /\ \A i \in 1 .. Len(a) + Len(b) : (a \o b)[i] = IF i <= Len(a) THEN a[i] ELSE b[i - Len(a)]
      BY <2>1, <2>2, ConcatProperties
    <3>. QED BY <2>1, <2>2, <3>1
  <2>5. /\ H \in Seq(D) /\ Len(H) = lv + 2
        /\ \A i \in 1 .. lv + 2 : H[i] = IF i <= 1 + lv THEN (a \o b)[i] ELSE c[i - (1 + lv)]
    <3>1. /\ (a \o b) \o c \in Seq(D)
          /\ Len((a \o b) \o c) = Len(a \o b) + Len(c)
          /\ \A i \in 1 .. Len(a \o b) + Len(c) :
               ((a \o b) \o c)[i] = IF i <= Len(a \o b) THEN (a \o b)[i] ELSE c[i - Len(a \o b)]
      BY <2>1, <2>4, ConcatProperties
    <3>2. Len(a \o b) + Len(c) = lv + 2
      BY <1>1, <2>1, <2>4
    <3>. QED BY <2>3, <2>4, <3>1, <3>2
  <2>6. H[1] = Exact(host)
    <3>1. 1 \in 1 .. lv + 2 /\ 1 \in 1 .. 1 + lv /\ 1 <= 1 + lv
      BY <1>1
    <3>2. H[1] = (a \o b)[1]
      BY <2>5, <3>1
    <3>3. (a \o b)[1] = a[1]
      BY <2>4, <3>1
    <3>. QED BY <2>1, <3>2, <3>3
  <2>7. ASSUME NEW i \in 1 .. lv PROVE H[i + 1] = Wild(Suffix(host, i))
    <3>1. /\ i + 1 \in 1 .. lv + 2 /\ i + 1 \in 1 .. 1 + lv
          /\ i + 1 <= 1 + lv /\ ~(i + 1 <= 1) /\ (i + 1) - 1 = i
      BY <1>1
    <3>2. H[i + 1] = (a \o b)[i + 1]
      BY <2>5, <3>1
    <3>3. (a \o b)[i + 1] = b[i]
      BY <2>4, <3>1
    <3>. QED BY <2>2, <3>2, <3>3
  <2>8. H[lv + 2] = CatchAll
    <3>1. lv + 2 \in 1 .. lv + 2 /\ ~(lv + 2 <= 1 + lv) /\ (lv + 2) - (1 + lv) = 1
      BY <1>1
    <3>. QED BY <2>1, <2>5, <3>1
  <2>9. DOMAIN H = 1 .. (lv + 2)
    BY <2>5
  <2>. QED BY <2>6, <2>7, <2>8, <2>9
<1>3. \A i \in 1 .. lv : /\ i \in 0 .. n /\ n - i >= 2 /\ n - i < n
                         /\ Suffix(host, i) \in Seq(STRING)
                         /\ Len(Suffix(host, i)) = n - i
                         /\ IsSuffix(Suffix(host, i), host)
  <2>1. \A i \in 1 .. lv : i \in 0 .. n /\ n - i >= 2 /\ n - i < n
    BY <1>1
  <2>. QED BY <2>1, SuffixUnique
<1>4. \A i \in 1 .. lv : /\ Spec0(Wild(Suffix(host, i))) = n - i
                         /\ MatchesHost(Wild(Suffix(host, i)), host)
  BY <1>3 DEF Specificity, MatchesHost, Wild, Exact, CatchAll
<1>5. /\ Spec0(Exact(host)) = n + 1 /\ MatchesHost(Exact(host), host)
      /\ Spec0(CatchAll) = (IF CatchAll = Exact(host) THEN n + 1 ELSE 0)
      /\ MatchesHost(CatchAll, host)
  BY DEF Specificity, MatchesHost
<1>. HIDE DEF H, Spec0, lv, n
<1>6. ASSUME NEW i \in DOMAIN H
      PROVE  i = 1 \/ (\E k \in 1 .. lv : i = k + 1) \/ i = lv + 2
  <2>1. i \in 1 .. lv + 2
    BY <1>2
  <2>2. CASE i = 1 \/ i = lv + 2
    BY <2>2
  <2>3. CASE i # 1 /\ i # lv + 2
    <3>1. i - 1 \in 1 .. lv /\ i = (i - 1) + 1
      BY <1>1, <2>1, <2>3
    <3>. QED BY <3>1
  <2>. QED BY <2>2, <2>3
<1>7. ASSUME NEW i \in DOMAIN H PROVE MatchesHost(H[i], host) /\ Spec0(H[i]) \in Int
  <2>1. CASE i = 1
    BY <1>1, <1>2, <1>5, <2>1
  <2>2. CASE i = lv + 2
    BY <1>1, <1>2, <1>5, <2>2
  <2>3. ASSUME NEW k \in 1 .. lv, i = k + 1 PROVE MatchesHost(H[i], host) /\ Spec0(H[i]) \in Int
    <3>1. H[i] = Wild(Suffix(host, k)) /\ n - k \in Int
      BY <1>1, <1>2, <2>3
    <3>. QED BY <1>4, <3>1
  <2>. QED BY <1>6, <2>1, <2>2, <2>3
<1>8. ASSUME NEW d \in [wild : BOOLEAN, labels : Seq(STRING)], MatchesHost(d, host)
      PROVE  \E i \in DOMAIN H : d = H[i]
  <2>1. CASE d = Exact(host)
    BY <1>1, <1>2, <2>1
  <2>2. CASE d = CatchAll
    BY <1>1, <1>2, <2>2
  <2>3. CASE d.wild /\ Len(d.labels) >= 2 /\ Len(d.labels) < n /\ IsSuffix(d.labels, host)
    <3>. DEFINE i == n - Len(d.labels)
    <3>1. d.labels \in Seq(STRING) /\ Len(d.labels) \in Nat
      OBVIOUS
    <3>2. i \in 0 .. n /\ i \in 1 .. lv /\ Len(d.labels) = n - i
      BY <1>1, <2>3, <3>1 DEF lv
    <3>3. d.labels = Suffix(host, i)
      BY <2>3, <3>1, <3>2, SuffixUnique DEF n
    <3>4. d = Wild(d.labels)
      BY <2>3 DEF Wild
    <3>5. i + 1 \in DOMAIN H /\ H[i + 1] = Wild(Suffix(host, i))
      BY <1>1, <1>2, <3>2
    <3>. QED BY <3>3, <3>4, <3>5
  <2>. QED BY <1>8, <2>1, <2>2, <2>3 DEF MatchesHost, n
<1>9. ASSUME NEW i \in DOMAIN H, NEW j \in DOMAIN H, i < j
      PROVE  H[i] = H[j] \/ Spec0(H[i]) > Spec0(H[j])
  <2>1. i \in 1 .. lv + 2 /\ j \in 1 .. lv + 2
    BY <1>2
  <2>2. CASE CatchAll = Exact(host)
    <3>1. host = <<"*">>
      BY <2>2 DEF CatchAll, Exact
    <3>2. lv = 0
      BY <3>1 DEF lv, n
    <3>. QED BY <1>2, <1>9, <2>1, <2>2, <3>2
  <2>3. CASE CatchAll # Exact(host)
    <3>1. Spec0(H[1]) = n + 1 /\ Spec0(H[lv + 2]) = 0
          /\ \A k \in 1 .. lv : Spec0(H[k + 1]) = n - k /\ n - k >= 2 /\ n - k < n
      BY <1>2, <1>3, <1>4, <1>5, <2>3
    <3>2. CASE i = 1 /\ j = lv + 2
      BY <1>1, <3>1, <3>2
    <3>3. ASSUME NEW k \in 1 .. lv, j = k + 1, i = 1 PROVE Spec0(H[i]) > Spec0(H[j])
      BY <1>1, <3>1, <3>3
    <3>4. ASSUME NEW k \in 1 .. lv, i = k + 1, j = lv + 2 PROVE Spec0(H[i]) > Spec0(H[j])
      BY <1>1, <3>1, <3>4
    <3>5. ASSUME NEW k \in 1 .. lv, NEW l \in 1 .. lv, i = k + 1, j = l + 1
          PROVE  Spec0(H[i]) > Spec0(H[j])
      BY <1>1, <1>9, <3>1, <3>5
    <3>6. j # 1 /\ i # lv + 2
      BY <1>1, <1>9, <2>1
    <3>. QED BY <1>6, <3>2, <3>3, <3>4, <3>5, <3>6
  <2>. QED BY <2>2, <2>3
<1>10. DOMAIN H \in SUBSET Nat
  BY <1>1, <1>2
<1>. QED BY <1>7, <1>8, <1>9, <1>10 DEF H, Spec0

\* The two rounds over one domain answer with the best of its routes: those of
\* the visitor's user before those of no user (vhost.rs 405).
LEMMA DomainAnswer ==
  ASSUME TypeOK, NEW q \in Queries, NEW d,
         MatchesHost(d, q.host), Specificity(d, q.host) \in Int
  PROVE  /\ in_table(d, q) = {r \in MatchesOn(d, q) : \A s \in MatchesOn(d, q) : ~Prefers(q, s, r)}
         /\ MatchesOn(d, q) # {} => in_table(d, q) # {}
<1>. DEFINE E == Candidates(d, q, TRUE)
            F == Candidates(d, q, FALSE)
            M == MatchesOn(d, q)
            Best(C) == {r \in C : \A s \in C : ~Longer(q, s, r)}
<1>1. M = E \cup F
  BY DEF MatchesOn, Matches, Candidates
<1>2. /\ \A r \in E : r.domain = d /\ r.user = q.user /\ r.user # NoUser
      /\ \A r \in F : r.domain = d /\ r.user = NoUser
  BY DEF Candidates
<1>3. /\ matched(d, q, TRUE) = Best(E) /\ (E # {} => Best(E) # {})
      /\ matched(d, q, FALSE) = Best(F) /\ (F # {} => Best(F) # {})
  <2>1. matched(d, q, TRUE) = AnswerFrom(E, q) /\ matched(d, q, FALSE) = AnswerFrom(F, q)
    BY DEF matched, AnswerFrom
  <2>2. /\ E \in SUBSET routes /\ \A r \in E : Matching(r, q.path) # {}
        /\ F \in SUBSET routes /\ \A r \in F : Matching(r, q.path) # {}
    BY DEF Candidates
  <2>. HIDE DEF E, F
  <2>3. AnswerFrom(E, q) = Best(E) /\ (E # {} => AnswerFrom(E, q) # {})
    BY <2>2, RoundAnswer
  <2>4. AnswerFrom(F, q) = Best(F) /\ (F # {} => AnswerFrom(F, q) # {})
    BY <2>2, RoundAnswer
  <2>. QED BY <2>1, <2>3, <2>4
<1>. HIDE DEF E, F, M
<1>4. in_table(d, q) = IF Best(E) # {} THEN Best(E) ELSE Best(F)
  BY <1>3 DEF in_table
<1>5. \A r, s \in M : Prefers(q, s, r) <=> (s \in E /\ r \in F) \/ (s.user = r.user /\ Longer(q, s, r))
  <2>1. \A r \in M : r.domain = d
    BY <1>1, <1>2
  <2>2. \A r, s \in M : s.user # NoUser /\ r.user = NoUser <=> s \in E /\ r \in F
    BY <1>1, <1>2
  <2>3. ~(Specificity(d, q.host) > Specificity(d, q.host))
    OBVIOUS
  <2>. QED BY <2>1, <2>2, <2>3 DEF Prefers, Longer
<1>6. CASE E = {}
  <2>1. M = F /\ in_table(d, q) = Best(F)
    BY <1>1, <1>4, <1>6
  <2>2. \A r, s \in F : Prefers(q, s, r) <=> Longer(q, s, r)
    BY <1>2, <1>5, <1>6, <2>1
  <2>. QED BY <1>3, <2>1, <2>2 DEF M
<1>7. CASE E # {}
  <2>1. in_table(d, q) = Best(E) /\ Best(E) # {}
    BY <1>3, <1>4, <1>7
  <2>2. ASSUME NEW r \in M
        PROVE  (\A s \in M : ~Prefers(q, s, r)) <=> r \in Best(E)
    <3>1. CASE r \in F
      <4>1. PICK s \in E : TRUE
        BY <1>7
      <4>2. Prefers(q, s, r) /\ s \in M
        BY <1>1, <1>5, <3>1, <4>1
      <4>3. r \notin E
        BY <1>2, <3>1
      <4>. QED BY <4>2, <4>3
    <3>2. CASE r \in E
      <4>1. \A s \in E : Prefers(q, s, r) <=> Longer(q, s, r)
        BY <1>1, <1>2, <1>5, <3>2
      <4>2. \A s \in F : ~Prefers(q, s, r)
        BY <1>1, <1>2, <1>5, <3>2
      <4>. QED BY <1>1, <3>2, <4>1, <4>2
    <3>. QED BY <1>1, <3>1, <3>2
  <2>3. Best(E) \subseteq M
    BY <1>1
  <2>. QED BY <2>1, <2>2, <2>3 DEF M
<1>. QED BY <1>6, <1>7

\* Lookup answers with the most specific of all matching routes, by host, then
\* user, then path, whatever the table holds: asking one domain and one round
\* after the other never hides a better route (vhost.rs 343).
THEOREM LookupMostSpecificHolds == Spec => []LookupMostSpecific
<1>1. TypeOK => LookupMostSpecific
  <2>. SUFFICES ASSUME TypeOK, NEW q \in Queries
                PROVE  lookup(q) = {r \in Matches(q) : \A s \in Matches(q) : ~Prefers(q, s, r)}
    BY DEF LookupMostSpecific
  <2>. DEFINE H == Hosts(q.host)
              Sp(d) == Specificity(d, q.host)
              hits == {i \in DOMAIN H : in_table(H[i], q) # {}}
              Best == {r \in Matches(q) : \A s \in Matches(q) : ~Prefers(q, s, r)}
  <2>1. q.host \in Seq(STRING)
    BY VhostAssumption
  <2>2. /\ DOMAIN H \in SUBSET Nat
        /\ \A i \in DOMAIN H : MatchesHost(H[i], q.host) /\ Sp(H[i]) \in Int
        /\ \A d \in [wild : BOOLEAN, labels : Seq(STRING)] :
             MatchesHost(d, q.host) => \E i \in DOMAIN H : d = H[i]
        /\ \A i, j \in DOMAIN H : i < j => H[i] = H[j] \/ Sp(H[i]) > Sp(H[j])
    BY <2>1, HostsInOrder
  <2>3. \A i \in DOMAIN H :
          /\ in_table(H[i], q) = {r \in MatchesOn(H[i], q) : \A s \in MatchesOn(H[i], q) : ~Prefers(q, s, r)}
          /\ MatchesOn(H[i], q) # {} => in_table(H[i], q) # {}
    BY <2>2, DomainAnswer
  <2>4. \A r \in Matches(q) : \E i \in DOMAIN H : r.domain = H[i] /\ r \in MatchesOn(H[i], q)
    <3>. SUFFICES ASSUME NEW r \in Matches(q)
                  PROVE  \E i \in DOMAIN H : r.domain = H[i] /\ r \in MatchesOn(H[i], q)
      OBVIOUS
    <3>1. r \in routes /\ MatchesHost(r.domain, q.host)
      BY DEF Matches
    <3>2. r.domain \in [wild : BOOLEAN, labels : Seq(STRING)]
      BY <3>1, RouteTypes
    <3>. QED BY <2>2, <3>1, <3>2 DEF MatchesOn
  <2>. HIDE DEF H, Sp
  <2>5. CASE hits = {}
    <3>1. lookup(q) = {}
      BY <2>5 DEF lookup, H
    <3>2. Matches(q) = {}
      BY <2>3, <2>4, <2>5
    <3>. QED BY <3>1, <3>2
  <2>6. CASE hits # {}
    <3>1. hits \in SUBSET Nat
      BY <2>2
    <3>2. \E i \in hits : \A j \in hits : i <= j
      BY <2>6, <3>1, LeastNat
    <3>3. PICK i \in hits : /\ \A j \in hits : i <= j
                            /\ lookup(q) = in_table(H[i], q)
      <4>1. lookup(q) = in_table(H[CHOOSE i \in hits : \A j \in hits : i <= j], q)
        BY <2>6 DEF lookup, H
      <4>. QED BY <3>2, <4>1
    <3>4. /\ i \in DOMAIN H /\ in_table(H[i], q) # {}
          /\ MatchesOn(H[i], q) \subseteq Matches(q)
          /\ MatchesOn(H[i], q) # {}
          /\ \A r \in MatchesOn(H[i], q) : r.domain = H[i]
      BY <2>3, <3>3 DEF MatchesOn
    \* A route of another domain is less specific than all of this one.
    <3>5. ASSUME NEW s \in Matches(q), s \notin MatchesOn(H[i], q)
          PROVE  Sp(H[i]) > Sp(s.domain) /\ Sp(s.domain) \in Int
      <4>1. PICK j \in DOMAIN H : s.domain = H[j] /\ s \in MatchesOn(H[j], q)
        BY <2>4
      <4>2. j \in hits /\ i <= j
        BY <2>3, <3>3, <4>1
      <4>3. H[i] # H[j] /\ i # j
        BY <3>5, <4>1
      <4>4. i \in Nat /\ j \in Nat
        BY <2>2, <3>4, <4>1
      <4>5. i < j
        BY <4>2, <4>3, <4>4
      <4>. QED BY <2>2, <3>4, <4>1, <4>3, <4>5
    <3>6. Sp(H[i]) \in Int
      BY <2>2, <3>4
    <3>7. ASSUME NEW r \in MatchesOn(H[i], q), NEW s \in Matches(q), s \notin MatchesOn(H[i], q)
          PROVE  ~Prefers(q, s, r) /\ Prefers(q, r, s)
      <4>1. Sp(r.domain) = Sp(H[i]) /\ Sp(H[i]) > Sp(s.domain)
        BY <3>4, <3>5, <3>7
      <4>2. Sp(s.domain) \in Int /\ Sp(H[i]) \in Int
        BY <3>5, <3>6, <3>7
      <4>3. Sp(r.domain) # Sp(s.domain) /\ ~(Sp(s.domain) > Sp(r.domain)) /\ Sp(r.domain) > Sp(s.domain)
        BY <4>1, <4>2
      <4>. QED BY <4>3 DEF Prefers, Sp
    <3>8. Best \subseteq MatchesOn(H[i], q)
      BY <3>4, <3>7
    <3>9. \A r \in MatchesOn(H[i], q) :
            (\A s \in Matches(q) : ~Prefers(q, s, r)) <=> \A s \in MatchesOn(H[i], q) : ~Prefers(q, s, r)
      BY <3>4, <3>7
    <3>. QED BY <2>3, <3>3, <3>4, <3>8, <3>9
  <2>. QED BY <2>5, <2>6
<1>. QED BY <1>1, TypeCorrect, PTL
=============================================================================
