------------------------- MODULE PortGroups_proofs -------------------------
(***************************************************************************)
(* Proofs about PortGroups, for every set of clients, tenants, proxies and *)
(* ports and every configuration.  What a port group promises depends on   *)
(* what a task that is still binding owns; Binding says it.                *)
(***************************************************************************)
EXTENDS PortGroups, TLAPS

\* A backend is on its own port, its client is online, and it matches the group.
Membership ==
  \A n \in Port : group[n] # None =>
     \A p \in group[n].members :
        /\ Conf[p].port = n
        /\ ClientOf(p) \in online
        /\ group[n].user = TenantOf(p)
        /\ group[n].name = Conf[p].group
        /\ group[n].key  = Conf[p].key
        /\ \A q \in group[n].members : p # q => group[n].name # None

\* The handle of a port is that of a loop on this port.
HandlePort ==
  \A n \in Port : group[n] # None /\ group[n].handle # None => Conf[group[n].handle].port = n

\* A task that binds does it for its own client, holds its reservation, finds
\* no listener on it, and is the only one that binds for that port.
Binding ==
  \A c \in Client : task[c] # None =>
     LET p == task[c] IN
     /\ ClientOf(p) = c
     /\ group[Conf[p].port] # None
     /\ p \in group[Conf[p].port].members
     /\ group[Conf[p].port].handle = None
     /\ p \notin registered
     /\ \A d \in Client : task[d] # None /\ Conf[task[d]].port = Conf[p].port => d = c

Inv == TypeOK /\ Membership /\ HandlePort /\ Binding /\ LoopsOwned /\ RegisteredIsBackend

-----------------------------------------------------------------------------
\* Removing backends leaves every other backend, and every loop whose port
\* still has one, as it was.
LEMMA RemoveEffect ==
  ASSUME Inv, NEW M \in SUBSET Proxy, RemoveBackends(M)
  PROVE  /\ group' \in [Port -> PortGroup \cup {None}]
         /\ loops' \subseteq loops
         /\ \A n \in Port : group'[n] # None =>
               /\ group[n] # None
               /\ group'[n].members = group[n].members \ M
               /\ group'[n].members # {}
               /\ group'[n].name = group[n].name /\ group'[n].key = group[n].key
               /\ group'[n].user = group[n].user /\ group'[n].handle = group[n].handle
         /\ \A n \in Port : group[n] # None /\ group[n].members \ M # {} => group'[n] # None
         /\ \A n \in Port : group'[n] = None => \A l \in loops' : Conf[l].port # n
         /\ \A l \in loops \ loops' : group'[Conf[l].port] = None
<1>. DEFINE left(n) == group[n].members \ M
            emptied == {n \in Port : group[n] # None /\ left(n) = {}}
<1>1. /\ group' = [n \in Port |-> IF group[n] = None \/ n \in emptied THEN None
                                  ELSE [group[n] EXCEPT !.members = left(n)]]
      /\ loops' = loops \ {group[n].handle : n \in emptied}
  BY DEF RemoveBackends
<1>2. ASSUME NEW n \in Port, group[n] # None, n \notin emptied
      PROVE  /\ group'[n] = [group[n] EXCEPT !.members = left(n)]
             /\ group'[n] \in PortGroup /\ group'[n] # None
             /\ group'[n].members = left(n) /\ left(n) # {}
             /\ group'[n].name = group[n].name /\ group'[n].key = group[n].key
             /\ group'[n].user = group[n].user /\ group'[n].handle = group[n].handle
  <2>1. group[n] \in PortGroup
    BY <1>2 DEF Inv, TypeOK
  <2>2. group'[n] = [group[n] EXCEPT !.members = left(n)]
    BY <1>1, <1>2
  <2>3. group'[n] \in PortGroup
    BY <2>1, <2>2 DEF PortGroup
  <2>. QED BY <1>2, <2>1, <2>2, <2>3, PortGroupsAssumption DEF PortGroup
<1>3. \A n \in Port : group[n] = None \/ n \in emptied => group'[n] = None
  BY <1>1
<1>4. group' \in [Port -> PortGroup \cup {None}]
  BY <1>1, <1>2, <1>3
<1>5. \A l \in loops : Conf[l].port \in Port /\ group[Conf[l].port] # None
                       /\ group[Conf[l].port].handle = l
  BY DEF Inv, LoopsOwned, Groups
<1>6. \A n \in Port : group'[n] = None => \A l \in loops' : Conf[l].port # n
  BY <1>1, <1>2, <1>5
<1>7. ASSUME NEW l \in loops \ loops' PROVE group'[Conf[l].port] = None
  <2>1. PICK n \in emptied : group[n].handle = l
    BY <1>1, <1>7
  <2>2. Conf[l].port = n
    BY <2>1, PortGroupsAssumption DEF Inv, TypeOK, HandlePort
  <2>. QED BY <2>1, <2>2, <1>3
<1>. QED BY <1>1, <1>2, <1>3, <1>4, <1>6, <1>7

\* What Conf says of a proxy has its type, and its new group is one.
LEMMA Configured ==
  ASSUME NEW p \in Proxy
  PROVE  /\ Conf[p].port \in Port /\ ClientOf(p) \in Client /\ TenantOf(p) \in User
         /\ NewGroup(p) \in PortGroup /\ NewGroup(p) # None
BY PortGroupsAssumption DEF ClientOf, TenantOf, NewGroup, PortGroup

\* reserve_port opens a group for a port that has none.
LEMMA FreshStep ==
  ASSUME Inv, NEW p \in Proxy, RegisterFresh(p)
  PROVE  Inv'
<1>. DEFINE n == Conf[p].port
            c == ClientOf(p)
<1>1. /\ n \in Port /\ c \in Client /\ NewGroup(p) \in PortGroup /\ NewGroup(p) # None
      /\ NewGroup(p).members = {p} /\ NewGroup(p).handle = None
      /\ NewGroup(p).user = TenantOf(p) /\ NewGroup(p).name = Conf[p].group
      /\ NewGroup(p).key = Conf[p].key
  BY Configured DEF NewGroup
<1>2. /\ c \in online /\ task[c] = None /\ p \notin registered /\ group[n] = None
      /\ \A m \in Port : group'[m] = IF m = n THEN NewGroup(p) ELSE group[m]
      /\ \A d \in Client : task'[d] = IF d = c THEN p ELSE task[d]
      /\ UNCHANGED <<loops, registered, online>>
  BY <1>1 DEF RegisterFresh, Idle, Inv, TypeOK
<1>3. TypeOK'
  BY <1>1, <1>2 DEF Inv, TypeOK, Groups, RegisterFresh
<1>4. Membership' /\ HandlePort'
  BY <1>1, <1>2 DEF Inv, Membership, HandlePort
<1>5. LoopsOwned' /\ RegisteredIsBackend'
  BY <1>1, <1>2 DEF Inv, LoopsOwned, RegisteredIsBackend, Groups
<1>6. Binding'
  <2>1. \A d \in Client : task[d] # None =>
           /\ Conf[task[d]].port \in Port /\ Conf[task[d]].port # n
           /\ group'[Conf[task[d]].port] = group[Conf[task[d]].port]
    BY <1>2, Configured DEF Inv, TypeOK, Binding
  <2>. QED BY <1>1, <1>2, <2>1 DEF Inv, Binding
<1>. QED BY <1>3, <1>4, <1>5, <1>6 DEF Inv

\* reserve_port lets a proxy join an existing group (PortClaim::Joined).
LEMMA JoinedStep ==
  ASSUME Inv, NEW p \in Proxy, RegisterJoined(p)
  PROVE  Inv'
<1>. DEFINE n == Conf[p].port
            g == group[n]
<1>1. /\ n \in Port /\ ClientOf(p) \in online /\ task[ClientOf(p)] = None
      /\ g # None /\ g \in PortGroup /\ Joinable(g, p)
  BY Configured DEF RegisterJoined, Idle, Inv, TypeOK
<1>2. /\ \A m \in Port : m # n => group'[m] = group[m]
      /\ group'[n] = [g EXCEPT !.members = @ \cup {p}]
      /\ registered' = registered \cup {p}
      /\ UNCHANGED <<loops, task, online>>
  BY <1>1 DEF RegisterJoined, Inv, TypeOK
<1>3. /\ group'[n] \in PortGroup /\ group'[n] # None
      /\ group'[n].members = g.members \cup {p} /\ group'[n].handle = g.handle
      /\ group'[n].user = g.user /\ group'[n].name = g.name /\ group'[n].key = g.key
  BY <1>1, <1>2, PortGroupsAssumption DEF PortGroup
<1>4. TypeOK'
  BY <1>1, <1>2, <1>3 DEF Inv, TypeOK, Groups, RegisterJoined
<1>5. HandlePort'
  <2>. SUFFICES ASSUME NEW m \in Port, group'[m] # None, group'[m].handle # None
               PROVE  Conf[group'[m].handle].port = m
    BY DEF HandlePort
  <2>1. CASE m = n
    <3>1. group[n] # None /\ group[n].handle = group'[m].handle
      BY <1>1, <1>3, <2>1
    <3>. QED BY <3>1, <2>1, <1>1 DEF Inv, HandlePort
  <2>2. CASE m # n
    BY <1>2, <2>2 DEF Inv, HandlePort
  <2>. QED BY <2>1, <2>2
<1>8. Membership'
  <2>1. /\ g.name # None /\ g.user = TenantOf(p) /\ g.name = Conf[p].group /\ g.key = Conf[p].key
    BY <1>1 DEF Joinable
  <2>2. \A m \in Port : m # n => (group'[m] # None <=> group[m] # None)
    BY <1>2
  <2>. HIDE DEF n, g
  <2>3. ASSUME NEW m \in Port, group'[m] # None, NEW q \in group'[m].members
        PROVE  /\ Conf[q].port = m
               /\ ClientOf(q) \in online'
               /\ group'[m].user = TenantOf(q)
               /\ group'[m].name = Conf[q].group
               /\ group'[m].key  = Conf[q].key
               /\ \A x \in group'[m].members : q # x => group'[m].name # None
    <3>1. CASE m # n
      BY <1>2, <2>3, <3>1 DEF Inv, Membership
    <3>2. CASE m = n /\ q # p
      <4>1. q \in g.members
        BY <1>3, <2>3, <3>2
      <4>. QED BY <1>1, <1>2, <1>3, <2>1, <3>2, <4>1 DEF Inv, Membership, g
    <3>3. CASE m = n /\ q = p
      BY <1>1, <1>2, <1>3, <2>1, <3>3 DEF n
    <3>. QED BY <3>1, <3>2, <3>3
  <2>. QED BY <2>3 DEF Membership
<1>6. LoopsOwned' /\ RegisteredIsBackend'
  <2>1. \A m \in Groups : /\ m \in Groups' /\ group'[m].handle = group[m].handle
                         /\ group[m].members \subseteq group'[m].members
    BY <1>1, <1>2, <1>3 DEF Groups
  <2>2. LoopsOwned'
    BY <1>2, <2>1 DEF Inv, LoopsOwned
  <2>3. RegisteredIsBackend'
    <3>1. n \in Groups' /\ p \in group'[n].members
      BY <1>1, <1>3 DEF Groups
    <3>. QED BY <1>2, <2>1, <3>1 DEF Inv, RegisteredIsBackend
  <2>. QED BY <2>2, <2>3
<1>7. Binding'
  <2>1. \A d \in Client : task[d] # None => task[d] # p /\ Conf[task[d]].port \in Port
    BY <1>1, Configured DEF Inv, TypeOK, Binding
  <2>2. \A m \in Port : group[m] # None =>
           /\ group'[m] # None /\ group[m].members \subseteq group'[m].members
           /\ group'[m].handle = group[m].handle
    BY <1>2, <1>3
  <2>. QED BY <1>2, <2>1, <2>2 DEF Inv, Binding
<1>. QED BY <1>4, <1>5, <1>6, <1>7, <1>8 DEF Inv

\* The socket is bound and attach_listener hands the loop to the group.
LEMMA BindOkStep ==
  ASSUME Inv, NEW c \in Client, BindOk(c)
  PROVE  Inv'
<1>. DEFINE p == task[c]
            n == Conf[p].port
            g == group[n]
<1>1. /\ p \in Proxy /\ p # None /\ n \in Port /\ g # None /\ g \in PortGroup
      /\ p \in g.members /\ g.handle = None
      /\ \A d \in Client : task[d] # None /\ Conf[task[d]].port = n => d = c
  <2>1. p # None /\ p \in Proxy /\ n \in Port
    BY Configured DEF BindOk, Inv, TypeOK
  <2>2. g # None /\ p \in g.members /\ g.handle = None
        /\ \A d \in Client : task[d] # None /\ Conf[task[d]].port = n => d = c
    BY <2>1 DEF Inv, Binding
  <2>3. g \in PortGroup
    BY <2>1, <2>2 DEF Inv, TypeOK
  <2>. QED BY <2>1, <2>2, <2>3
<1>2. /\ \A m \in Port : m # n => group'[m] = group[m]
      /\ group'[n] = [g EXCEPT !.handle = p]
      /\ loops' = loops \cup {p} /\ registered' = registered \cup {p}
      /\ \A d \in Client : task'[d] = IF d = c THEN None ELSE task[d]
      /\ UNCHANGED online
  BY <1>1 DEF BindOk, Inv, TypeOK
<1>3. /\ group'[n] \in PortGroup /\ group'[n] # None
      /\ group'[n].members = g.members /\ group'[n].handle = p
      /\ group'[n].user = g.user /\ group'[n].name = g.name /\ group'[n].key = g.key
  BY <1>1, <1>2, PortGroupsAssumption DEF PortGroup
<1>4. TypeOK'
  BY <1>1, <1>2, <1>3 DEF Inv, TypeOK, Groups, BindOk
<1>5. HandlePort'
  <2>1. Conf[p].port = n
    OBVIOUS
  <2>. HIDE DEF p, n, g
  <2>2. \A m \in Port : m # n => group'[m] = group[m]
    BY <1>2
  <2>3. group'[n].handle = p
    BY <1>3
  <2>. QED BY <2>1, <2>2, <2>3 DEF Inv, HandlePort
<1>9. Membership'
  <2>1. ASSUME NEW m \in Port, group'[m] # None
        PROVE  /\ group[m] # None /\ group'[m].members = group[m].members
               /\ group'[m].user = group[m].user /\ group'[m].name = group[m].name
               /\ group'[m].key = group[m].key
    <3>1. CASE m = n
      BY <1>1, <1>3, <3>1
    <3>2. CASE m # n
      BY <1>2, <2>1, <3>2
    <3>. QED BY <3>1, <3>2
  <2>. QED BY <1>2, <2>1 DEF Inv, Membership
<1>6. RegisteredIsBackend'
  <2>1. \A m \in Groups : m \in Groups' /\ group'[m].members = group[m].members
    BY <1>1, <1>2, <1>3 DEF Groups
  <2>2. n \in Groups' /\ p \in group'[n].members
    BY <1>1, <1>3 DEF Groups
  <2>. QED BY <1>2, <2>1, <2>2 DEF Inv, RegisteredIsBackend
<1>7. LoopsOwned'
  <2>1. \A l \in loops : Conf[l].port # n
    BY <1>1, PortGroupsAssumption DEF Inv, LoopsOwned, TypeOK
  <2>. QED BY <1>1, <1>2, <1>3, <2>1 DEF Inv, LoopsOwned, Groups
<1>8. Binding'
  <2>1. \A d \in Client : d # c /\ task[d] # None =>
           /\ Conf[task[d]].port \in Port /\ Conf[task[d]].port # n /\ task[d] # p
           /\ group'[Conf[task[d]].port] = group[Conf[task[d]].port]
    BY <1>1, <1>2, Configured DEF Inv, TypeOK, Binding
  <2>. QED BY <1>2, <2>1 DEF Inv, Binding
<1>. QED BY <1>4, <1>5, <1>6, <1>7, <1>8, <1>9 DEF Inv

\* Leaving the table with backends no other task binds for.
LEMMA RemovalStep ==
  ASSUME Inv, NEW M \in SUBSET Proxy, RemoveBackends(M),
         task' \in [Client -> Proxy \cup {None}],
         \A d \in Client : task'[d] # None => task'[d] = task[d] /\ task[d] \notin M,
         registered' \subseteq registered \ M, online' \subseteq online,
         \A n \in Port : group[n] # None =>
            \A p \in group[n].members \ M : ClientOf(p) \in online'
  PROVE  Inv'
<1>1. TypeOK'
  BY RemoveEffect DEF Inv, TypeOK, Groups
<1>2. Membership' /\ HandlePort'
  BY RemoveEffect DEF Inv, Membership, HandlePort
<1>3. LoopsOwned'
  BY RemoveEffect, Configured DEF Inv, TypeOK, LoopsOwned, Groups
<1>4. RegisteredIsBackend'
  BY RemoveEffect, Configured DEF Inv, TypeOK, RegisteredIsBackend, Groups
<1>5. Binding'
  BY RemoveEffect, Configured DEF Inv, TypeOK, Binding
<1>. QED BY <1>1, <1>2, <1>3, <1>4, <1>5 DEF Inv

\* The bind fails and release_port gives the reservation back.
LEMMA BindFailStep ==
  ASSUME Inv, NEW c \in Client, BindFail(c)
  PROVE  Inv'
<1>1. task[c] \in Proxy /\ task[c] \notin registered
  BY DEF BindFail, Inv, TypeOK, Binding
<1>2. \A d \in Client : task'[d] # None => task'[d] = task[d] /\ task[d] # task[c]
  BY DEF BindFail, Inv, TypeOK, Binding
<1>. QED BY <1>1, <1>2, RemovalStep DEF BindFail, Inv, TypeOK, Membership

\* A proxy is closed by its client (release_port).
LEMMA CloseStep ==
  ASSUME Inv, NEW p \in Proxy, Close(p)
  PROVE  Inv'
BY RemovalStep DEF Close, Inv, TypeOK, Membership, Binding

\* A client leaves and all its backends with it (release_ports_of).
LEMMA LeaveStep ==
  ASSUME Inv, NEW c \in Client, Leave(c)
  PROVE  Inv'
<1>1. \A d \in Client : task[d] # None => task[d] \in Proxy /\ ClientOf(task[d]) # c
  BY DEF Leave, Inv, TypeOK, Binding
<1>2. /\ {p \in Proxy : ClientOf(p) = c} \in SUBSET Proxy
      /\ registered' \subseteq registered \ {p \in Proxy : ClientOf(p) = c}
      /\ online' \subseteq online
      /\ task' = task /\ task' \in [Client -> Proxy \cup {None}]
      /\ RemoveBackends({p \in Proxy : ClientOf(p) = c})
  BY DEF Leave, Inv, TypeOK
<1>3. \A n \in Port : group[n] # None =>
         \A p \in group[n].members \ {q \in Proxy : ClientOf(q) = c} : ClientOf(p) \in online'
  <2>1. \A n \in Port : group[n] # None => group[n].members \subseteq Proxy
    BY DEF Inv, TypeOK, PortGroup
  <2>. QED BY <2>1 DEF Leave, Inv, Membership
<1>4. \A d \in Client : task'[d] # None =>
         task'[d] = task[d] /\ task[d] \notin {p \in Proxy : ClientOf(p) = c}
  BY <1>1, <1>2
<1>. QED BY <1>2, <1>3, <1>4, RemovalStep

\* Steps that end loops or tasks and touch no group.
LEMMA QuietStep ==
  ASSUME Inv, UNCHANGED <<group, registered, online>>, loops' \subseteq loops,
         task' \in [Client -> Proxy \cup {None}],
         \A d \in Client : task'[d] # None => task'[d] = task[d]
  PROVE  Inv'
<1>1. TypeOK' /\ Membership' /\ HandlePort' /\ RegisteredIsBackend' /\ LoopsOwned'
  BY DEF Inv, TypeOK, Membership, HandlePort, RegisteredIsBackend, LoopsOwned, Groups
<1>2. Binding'
  BY DEF Inv, Binding
<1>. QED BY <1>1, <1>2 DEF Inv

\* Every step keeps the invariant.
LEMMA InvStep == Inv /\ [Next]_vars => Inv'
<1>. SUFFICES ASSUME Inv, [Next]_vars PROVE Inv'
  OBVIOUS
<1>1. CASE UNCHANGED vars
  BY <1>1, QuietStep DEF vars, Inv, TypeOK
<1>2. ASSUME NEW c \in Client, ResolveFail(c) PROVE Inv'
  BY <1>2, QuietStep DEF ResolveFail, Inv, TypeOK
<1>3. ASSUME NEW l \in Proxy, AcceptFail(l) PROVE Inv'
  BY <1>3, QuietStep DEF AcceptFail, Inv, TypeOK
<1>. QED BY <1>1, <1>2, <1>3, FreshStep, JoinedStep, BindOkStep, BindFailStep, CloseStep, LeaveStep
         DEF Next

\* Before the first registration no port has a group.
LEMMA InitInv == Init => Inv
BY DEF Init, Inv, TypeOK, Groups, Membership, HandlePort, Binding, LoopsOwned, RegisteredIsBackend

-----------------------------------------------------------------------------
(* The theorems *)

\* Inv holds in every reachable state: the state of a port group, its listener and
\* its members always agree (registry.rs, the port table).
THEOREM Invariance == Spec => []Inv
BY InitInv, InvStep, PTL DEF Spec

\* The port table keeps its types, and no port stays reserved by nobody.
THEOREM TypeCorrect == Spec => []TypeOK
BY Invariance, PTL DEF Inv

\* Members of a port group are of one tenant, group and key (reserve_port).
THEOREM OneTenantHolds == Spec => []OneTenant
<1>1. Inv => OneTenant
  BY DEF Inv, TypeOK, PortGroup, OneTenant, Membership, Groups
<1>. QED BY <1>1, Invariance, PTL

\* Every accept loop is the one its port group will abort (attach_listener).
THEOREM LoopsOwnedHolds == Spec => []LoopsOwned
BY Invariance, PTL DEF Inv

\* A client that is gone is no backend (release_ports_of).
THEOREM GoneHoldNothingHolds == Spec => []GoneHoldNothing
<1>1. Inv => GoneHoldNothing
  BY DEF Inv, GoneHoldNothing, Membership, Groups
<1>. QED BY <1>1, Invariance, PTL

\* A registered proxy is a backend of its port (PortGroup::remove).
THEOREM RegisteredIsBackendHolds == Spec => []RegisteredIsBackend
BY Invariance, PTL DEF Inv

\* Accept loops, port groups, clients and their tables agree (registry.rs,
\* register_tcp, release_ports_of).
THEOREM TablesAgreeHolds == Spec => []TablesAgree
BY LoopsOwnedHolds, GoneHoldNothingHolds, RegisteredIsBackendHolds, PTL DEF TablesAgree

\* No step but a failing accept ends the loop of a port that keeps a backend.
THEOREM ListenerOutlivesCreatorHolds == Spec => ListenerOutlivesCreator
<1>1. Inv /\ [Next]_vars =>
        [\A l \in loops \ loops' :
            \/ group'[Conf[l].port] = None
            \/ "accept" \in Faults /\ UNCHANGED group]_vars
  <2>. SUFFICES ASSUME Inv, Next, NEW l \in loops \ loops'
               PROVE  group'[Conf[l].port] = None \/ ("accept" \in Faults /\ UNCHANGED group)
    BY DEF vars
  <2>1. ASSUME NEW M \in SUBSET Proxy, RemoveBackends(M) PROVE group'[Conf[l].port] = None
    BY <2>1, RemoveEffect
  <2>2. ASSUME NEW p \in Proxy, Close(p) PROVE group'[Conf[l].port] = None
    BY <2>1, <2>2 DEF Close
  <2>3. ASSUME NEW c \in Client, BindFail(c) PROVE group'[Conf[l].port] = None
    BY <2>1, <2>3 DEF BindFail, Inv, TypeOK
  <2>4. ASSUME NEW c \in Client, Leave(c) PROVE group'[Conf[l].port] = None
    BY <2>1, <2>4 DEF Leave
  <2>. QED BY <2>2, <2>3, <2>4
           DEF Next, RegisterFresh, RegisterJoined, BindOk, ResolveFail, AcceptFail
<1>. QED BY <1>1, Invariance, PTL DEF Spec, ListenerOutlivesCreator
=============================================================================
