----------------------------- MODULE PortGroups -----------------------------
(***************************************************************************)
(* Public ports and the groups of proxies that share them: the port table  *)
(* of Registry (registry.rs: reserve_port, attach_listener, release_port,  *)
(* release_ports_of) and the two callers that bind, register_tcp and       *)
(* register_udp (serve.rs).                                                *)
(*                                                                         *)
(* A client is one ClientState; its control task handles one registration  *)
(* at a time and waits only while it resolves and binds.  A proxy is the   *)
(* (client, proxy_name) pair that identifies a backend, with everything it *)
(* is configured with in Conf.  An accept loop is named by the proxy whose *)
(* registration bound its socket.                                          *)
(***************************************************************************)
EXTENDS FiniteSets

CONSTANTS
  Client,   \* ClientStates that may ever be online
  User,     \* tenants
  UserOf,   \* the tenant of a client
  Proxy,    \* backends that may be registered
  Port,     \* public ports
  Group,    \* group names
  Key,      \* group keys
  Conf,     \* client, port, kind, group and group_key of a proxy
  Faults,   \* which of "resolve" and "accept" may happen
  None      \* no group, no handle, no task, no port group

Kinds == {"tcp", "udp"}

PortGroup == [name : Group \cup {None}, key : Key, user : User,
              members : SUBSET Proxy, handle : Proxy \cup {None}]

ASSUME PortGroupsAssumption ==
  /\ None \notin Proxy \cup PortGroup
  /\ UserOf \in [Client -> User]
  /\ Conf \in [Proxy -> [client : Client, port : Port, kind : Kinds,
                         group : Group \cup {None}, key : Key]]
  /\ Faults \subseteq {"resolve", "accept"}

VARIABLES
  group,       \* Registry.ports: PortGroup of a port, or None
  loops,       \* accept loops (and UDP receive loops) that run
  task,        \* the proxy a control task is binding for, or None
  registered,  \* proxies in the table of their ClientState: told success
  online       \* clients not cleaned up

vars == <<group, loops, task, registered, online>>

-----------------------------------------------------------------------------
(* PortGroup *)

ClientOf(p) == Conf[p].client
TenantOf(p) == UserOf[Conf[p].client]

NewGroup(p) == [name |-> Conf[p].group, key |-> Conf[p].key,
                user |-> TenantOf(p), members |-> {p}, handle |-> None]

\* Mutant: the name and the key are all that is asked for.
JoinableByName(g, p) ==
  /\ g.name # None /\ Conf[p].group # None
  /\ g.name = Conf[p].group
  /\ g.key = Conf[p].key

\* Both sides name the same group, are of one tenant and have the key.
Joinable(g, p) ==
  /\ g.name # None /\ Conf[p].group # None
  /\ g.user = TenantOf(p)
  /\ g.name = Conf[p].group
  /\ g.key = Conf[p].key

\* Mutant: a port stays reserved after its last backend left.
RemoveKeepsEmpty(M) ==
  /\ group' = [n \in Port |-> IF group[n] = None THEN None
                              ELSE [group[n] EXCEPT !.members = @ \ M]]
  /\ UNCHANGED loops

\* Mutant: the accept loop is taken down with the member that made it.
RemoveAbortsCreator(M) ==
  LET left(n) == group[n].members \ M IN
  /\ group' = [n \in Port |-> IF group[n] = None \/ left(n) = {} THEN None
                              ELSE [group[n] EXCEPT !.members = left(n)]]
  /\ loops' = loops \ ({group[n].handle : n \in {m \in Port : group[m] # None /\ left(m) = {}}}
                        \cup M)

\* Backends M leave the port table; a group without backends is removed and its
\* accept loop, if it has a handle, aborted.
RemoveBackends(M) ==
  LET left(n) == group[n].members \ M
      emptied == {n \in Port : group[n] # None /\ left(n) = {}}
  IN
  /\ group' = [n \in Port |-> IF group[n] = None \/ n \in emptied THEN None
                              ELSE [group[n] EXCEPT !.members = left(n)]]
  /\ loops' = loops \ {group[n].handle : n \in emptied}

-----------------------------------------------------------------------------
(* NewProxy.  A registration of a name that is registered already closes it *)
(* first, as Close does.  A refused one changes nothing: wrong tenant,      *)
(* group or key, an exclusive port, a UDP proxy that would have to share    *)
(* (it joins and leaves again under its own name).                          *)

Idle(p) == ClientOf(p) \in online /\ task[ClientOf(p)] = None /\ p \notin registered

\* reserve_port finds the port vacant: the caller must bind.
RegisterFresh(p) ==
  /\ Idle(p)
  /\ group[Conf[p].port] = None
  /\ group' = [group EXCEPT ![Conf[p].port] = NewGroup(p)]
  /\ task'  = [task EXCEPT ![ClientOf(p)] = p]
  /\ UNCHANGED <<loops, registered, online>>

\* reserve_port lets a TCP proxy join: success at once, no bind.
RegisterJoined(p) ==
  /\ Idle(p) /\ Conf[p].kind = "tcp"
  /\ group[Conf[p].port] # None /\ Joinable(group[Conf[p].port], p)
  /\ group' = [group EXCEPT ![Conf[p].port].members = @ \cup {p}]
  /\ registered' = registered \cup {p}
  /\ UNCHANGED <<loops, task, online>>

\* bind succeeds when no other socket of ours has the port: the loop is spawned,
\* attach_listener keeps its handle if the port still has a group, add_proxy.
BindOk(c) ==
  LET p == task[c] IN
  /\ p # None
  /\ \A l \in loops : <<Conf[l].port, Conf[l].kind>> # <<Conf[p].port, Conf[p].kind>>
  /\ loops' = loops \cup {p}
  /\ group' = IF group[Conf[p].port] = None THEN group
              ELSE [group EXCEPT ![Conf[p].port].handle = p]
  /\ registered' = registered \cup {p}
  /\ task' = [task EXCEPT ![c] = None]
  /\ UNCHANGED online

\* bind fails, for whatever else has the port: release_port.
BindFail(c) ==
  /\ task[c] # None
  /\ RemoveBackends({task[c]})
  /\ task' = [task EXCEPT ![c] = None]
  /\ UNCHANGED <<registered, online>>

\* resolve_addr fails in register_tcp: "?" without release_port.
ResolveFail(c) ==
  /\ "resolve" \in Faults
  /\ task[c] # None /\ Conf[task[c]].kind = "tcp"
  /\ task' = [task EXCEPT ![c] = None]
  /\ UNCHANGED <<group, loops, registered, online>>

-----------------------------------------------------------------------------
(* Closing, leaving, failing *)

\* CloseProxy, or the same name registered again: stop_proxy, release_port.
Close(p) ==
  /\ ClientOf(p) \in online /\ task[ClientOf(p)] = None /\ p \in registered
  /\ RemoveBackends({p})
  /\ registered' = registered \ {p}
  /\ UNCHANGED <<task, online>>

\* Mutant: only what is in the proxy table is released.
LeaveByTable(c) ==
  /\ c \in online
  /\ task[c] = None
  /\ RemoveBackends({p \in registered : ClientOf(p) = c})
  /\ registered' = {p \in registered : ClientOf(p) # c}
  /\ online' = online \ {c}
  /\ UNCHANGED task

\* cleanup_client: release_ports_of, whatever the proxy table says.  The task
\* itself does it here; the panel's kick, which may hit a task that is binding,
\* is in Sessions.
Leave(c) ==
  /\ c \in online
  /\ task[c] = None
  /\ RemoveBackends({p \in Proxy : ClientOf(p) = c})
  /\ registered' = {p \in registered : ClientOf(p) # c}
  /\ online' = online \ {c}
  /\ UNCHANGED task

\* accept returns an error and proxy_accept_loop ends.
AcceptFail(l) ==
  /\ "accept" \in Faults
  /\ l \in loops /\ Conf[l].kind = "tcp"
  /\ loops' = loops \ {l}
  /\ UNCHANGED <<group, task, registered, online>>

-----------------------------------------------------------------------------
Init ==
  /\ group = [n \in Port |-> None]
  /\ loops = {}
  /\ task = [c \in Client |-> None]
  /\ registered = {}
  /\ online = Client

Next ==
  \/ \E p \in Proxy : RegisterFresh(p) \/ RegisterJoined(p) \/ Close(p) \/ AcceptFail(p)
  \/ \E c \in Client : BindOk(c) \/ BindFail(c) \/ ResolveFail(c) \/ Leave(c)

Spec == Init /\ [][Next]_vars

-----------------------------------------------------------------------------
(* Properties *)

Groups == {n \in Port : group[n] # None}

\* A port group exists exactly as long as it has a backend.
TypeOK ==
  /\ group \in [Port -> PortGroup \cup {None}]
  /\ \A n \in Groups : group[n].members # {}
  /\ loops \subseteq Proxy
  /\ task \in [Client -> Proxy \cup {None}]
  /\ registered \subseteq Proxy
  /\ online \subseteq Client

\* Whoever shares a port is of the tenant that opened it, under one group and
\* key, however often members come and go; a port without a group has one
\* backend (PortGroup.owner_user, reserve_port).
OneTenant ==
  \A n \in Groups : \A p, q \in group[n].members :
     /\ TenantOf(p) = TenantOf(q)
     /\ p # q => /\ Conf[p].group = Conf[q].group /\ Conf[p].group # None
                 /\ Conf[p].key = Conf[q].key

\* Every accept loop is the one its port group will abort: none is forgotten
\* (attach_listener, abort_listener).
LoopsOwned ==
  \A l \in loops : Conf[l].port \in Groups /\ group[Conf[l].port].handle = l

\* A client that is gone is no backend of any port (release_ports_of).
GoneHoldNothing ==
  \A n \in Groups : \A p \in group[n].members : ClientOf(p) \in online

\* A proxy its client believes registered is a backend of its port, whatever
\* its siblings on the port do (PortGroup::remove by client and proxy_name).
RegisteredIsBackend ==
  \A p \in registered : Conf[p].port \in Groups /\ p \in group[Conf[p].port].members

\* The four tables that change at different times, under different locks, tell
\* one story: accept loops, port groups, clients and the clients' own tables
\* (registry.rs 452-600, serve.rs 2341-2420).
TablesAgree == LoopsOwned /\ GoneHoldNothing /\ RegisteredIsBackend

\* A listener belongs to its port: it ends with the last backend, or because
\* accept failed, never with the member that created it (attach_listener).
ListenerOutlivesCreator ==
  [][\A l \in loops \ loops' :
        \/ group'[Conf[l].port] = None
        \/ "accept" \in Faults /\ UNCHANGED group]_vars

\* Joining a group means that its listener runs already (PortClaim::Joined).
JoinedIsServed ==
  \A p \in registered : Conf[p].kind = "tcp" /\ task = [c \in Client |-> None] =>
     \E l \in loops : Conf[l].port = Conf[p].port /\ Conf[l].kind = "tcp"
=============================================================================
