------------------------------ MODULE Sessions ------------------------------
(***************************************************************************)
(* The life of control sessions on the server: Registry (registry.rs), the *)
(* session part of handle_control (serve.rs), ClientGuard and the panel's  *)
(* kick (admin.rs).                                                        *)
(*                                                                         *)
(* A control connection r gets a fresh run_id and a fresh ClientState at   *)
(* login, so one element of Conn names the connection, its run_id and the  *)
(* ClientState made for it.  A connection that resumes a parked session    *)
(* serves an older ClientState under its own run_id.  A proxy stands for   *)
(* the one public claim its registration makes: a port when it is in       *)
(* Ported, a visitor name or a domain otherwise.                           *)
(*                                                                         *)
(* One action is one piece of code that runs without an await and without  *)
(* letting go of the lock another task needs; a phase is a place where the *)
(* task awaits or where another thread may run in between.                 *)
(***************************************************************************)
EXTENDS Integers, FiniteSets

CONSTANTS
  Conn,         \* control connections that may ever arrive (bounds the model)
  Session,      \* NLink connection ids, one per client process
  Ident,        \* (user, client_id) pairs
  Proxy,        \* proxies a client may register
  Ported,       \* those of them that claim a public port
  MaxClients,   \* max_clients of ServerLimits
  Panel,        \* the panel is enabled and roles allow it to manage clients
  SetupFaults,  \* a write to the new connection may fail before the loop
  None

ASSUME SessionsAssumption ==
  /\ IsFiniteSet(Conn) /\ IsFiniteSet(Session)
  /\ None \notin Conn \cup Session
  /\ Conn \cap Session = {}
  /\ Ported \subseteq Proxy
  /\ MaxClients \in Nat \ {0}
  /\ Panel \in BOOLEAN
  /\ SetupFaults \in BOOLEAN

VARIABLES
  phase,      \* where the task of a connection is
  sess,       \* the connection id its preamble carried
  ident,      \* the identity it logged in with, also that of its ClientState
  resumable,  \* CAP_RESUME agreed and resume asked for
  serves,     \* the ClientState the task works for
  pending,    \* the proxy whose listener the task is binding
  runId,      \* ClientState.run_id
  stopped,    \* ClientStates whose stop() ran
  proxies,    \* ClientState.proxies
  clients,    \* Registry.clients: run_id to ClientState
  waiting,    \* Registry.suspended: connection id to ClientState
  expired,    \* entries of it whose expires_at has passed
  slots,      \* holders of a LimitGuard: tasks and suspended entries
  free,       \* permits left in client_limit
  owner,      \* who holds the public claim of a proxy
  socket,     \* the accept loop of a ported proxy
  active      \* gauge clients_active

taskVars     == <<phase, sess, ident, resumable, serves, pending>>
stateVars    == <<runId, stopped, proxies>>
registryVars == <<clients, waiting, expired, slots, free>>
claimVars    == <<owner, socket>>
vars == <<taskVars, stateVars, registryVars, claimVars, active>>

Phases == {"new", "taken", "setup", "loop", "binding", "leaving", "detached", "done"}

-----------------------------------------------------------------------------
(* State predicates *)

Online  == {c \in Conn : \E r \in Conn : clients[r] = c}
Parked  == {c \in Conn : \E s \in Session : waiting[s] = c}
\* Held by a task only: taken out of one table and not yet put in the other.
Carried == {c \in Conn : \E r \in Conn :
               phase[r] \in {"taken", "detached"} /\ serves[r] = c}

-----------------------------------------------------------------------------
(* Registry operations *)

\* Mutant: the ports are not among what is reclaimed.
CleanupKeepsPorts(C) ==
  /\ stopped' = stopped \cup C
  /\ proxies' = [c \in Conn |-> IF c \in C THEN {} ELSE proxies[c]]
  /\ owner'   = [p \in Proxy |-> IF owner[p] \in C /\ p \notin Ported THEN None ELSE owner[p]]
  /\ UNCHANGED socket

\* cleanup_client for every client of C: stop() empties the proxy table, then
\* domains, visitor names and ports go, a port with its listener.
Cleanup(C) ==
  /\ stopped' = stopped \cup C
  /\ proxies' = [c \in Conn |-> IF c \in C THEN {} ELSE proxies[c]]
  /\ owner'  = [p \in Proxy |-> IF owner[p] \in C THEN None ELSE owner[p]]
  /\ socket' = [p \in Proxy |->
                  IF owner[p] \in C /\ socket[p] = "held" THEN "closed" ELSE socket[p]]

NoCleanup == UNCHANGED <<stopped, proxies, claimVars>>

\* remove: the entry of the online table, the gauge, then the cleanup.
Remove(r) ==
  IF clients[r] = None
  THEN NoCleanup /\ UNCHANGED <<clients, active>>
  ELSE /\ clients' = [clients EXCEPT ![r] = None]
       /\ active' = active - 1
       /\ Cleanup({clients[r]})

\* A LimitGuard moves with the session, if there is one.
MoveSlot(from, to, S) == IF from \in S THEN (S \ {from}) \cup {to} ELSE S

\* LimitGuards dropped by their holders.
DropSlots(H) ==
  /\ slots' = slots \ H
  /\ free'  = free + Cardinality(slots \cap H)

\* Mutant: the entries go, the resources of their clients stay.
SweepForgets ==
  LET gone == {s \in expired : waiting[s] # None} IN
  /\ waiting' = [s \in Session |-> IF s \in gone THEN None ELSE waiting[s]]
  /\ expired' = {}
  /\ DropSlots(gone)
  /\ NoCleanup

\* sweep_suspended: expired entries leave the table, their clients and slots
\* are reclaimed.
Swept == {s \in expired : waiting[s] # None}

SweepSuspended ==
  /\ waiting' = [s \in Session |-> IF s \in Swept THEN None ELSE waiting[s]]
  /\ expired' = {}
  /\ Cleanup({waiting[s] : s \in Swept})
  /\ DropSlots(Swept)

\* Mutant: the newcomer takes the place of whoever is parked under its id.
SuspendOverwrites(r, s, c) ==
  /\ waiting' = [[x \in Session |-> IF x \in Swept THEN None ELSE waiting[x]]
                    EXCEPT ![s] = c]
  /\ Cleanup({waiting[x] : x \in Swept})
  /\ slots' = MoveSlot(r, s, slots \ Swept)
  /\ free'  = free + Cardinality(slots \cap Swept)
  /\ expired' = {}

\* suspend(s, entry of c carried by task r): sweep first; another ClientState
\* under the same id keeps its place and the newcomer is reclaimed.
Suspend(r, s, c) ==
  LET kept   == [x \in Session |-> IF x \in Swept THEN None ELSE waiting[x]]
      swept  == {waiting[x] : x \in Swept}
  IN IF kept[s] \notin {None, c}
     THEN /\ waiting' = kept
          /\ Cleanup(swept \cup {c})
          /\ DropSlots(Swept \cup {r})
          /\ expired' = {}
     ELSE /\ waiting' = [kept EXCEPT ![s] = c]
          /\ Cleanup(swept)
          /\ slots' = MoveSlot(r, s, slots \ Swept)
          /\ free'  = free + Cardinality(slots \cap Swept)
          /\ expired' = {}

\* release_port / visitors.remove / remove_proxy: only the owner's claim goes.
Release(p, c) ==
  /\ owner'  = IF owner[p] = c THEN [owner EXCEPT ![p] = None] ELSE owner
  /\ socket' = IF owner[p] = c /\ socket[p] = "held"
               THEN [socket EXCEPT ![p] = "closed"] ELSE socket

-----------------------------------------------------------------------------
(* Login: the resume decision of handle_control, for a connection with      *)
(* connection id s and identity i that wants to resume or not.              *)

Arrive(r, s, i, wants) ==
  /\ phase[r] = "new"
  /\ sess'  = [sess EXCEPT ![r] = s]
  /\ ident' = [ident EXCEPT ![r] = i]
  /\ resumable' = [resumable EXCEPT ![r] = wants]

\* No resume: not asked for, its token refused, nothing parked under s, or an
\* entry of another identity, which stays where it is.
LoginFresh(r, s, i, wants, tokenOk) ==
  /\ Arrive(r, s, i, wants)
  /\ wants /\ tokenOk /\ waiting[s] # None =>
        s \notin expired /\ ident[waiting[s]] # i
  /\ phase'  = [phase EXCEPT ![r] = "setup"]
  /\ serves' = [serves EXCEPT ![r] = r]
  /\ UNCHANGED <<pending, stateVars, registryVars, claimVars, active>>

\* take_suspended_if finds the entry expired and reclaims it.
LoginFindsExpired(r, s, i) ==
  /\ Arrive(r, s, i, TRUE)
  /\ waiting[s] # None /\ s \in expired
  /\ waiting' = [waiting EXCEPT ![s] = None]
  /\ expired' = expired \ {s}
  /\ Cleanup({waiting[s]})
  /\ DropSlots({s})
  /\ phase'  = [phase EXCEPT ![r] = "setup"]
  /\ serves' = [serves EXCEPT ![r] = r]
  /\ UNCHANGED <<pending, runId, clients, active>>

\* Mutant: the entry is looked up, not taken.
LoginCopies(r, s, i) ==
  /\ Arrive(r, s, i, TRUE)
  /\ waiting[s] # None /\ s \notin expired
  /\ ident[waiting[s]] = i
  /\ slots'   = MoveSlot(s, r, slots)
  /\ phase'   = [phase EXCEPT ![r] = "taken"]
  /\ serves'  = [serves EXCEPT ![r] = waiting[s]]
  /\ UNCHANGED <<pending, stateVars, clients, waiting, expired, free, claimVars, active>>

\* take_suspended_if hands the entry, and the slot in it, to this task.
LoginTakes(r, s, i) ==
  /\ Arrive(r, s, i, TRUE)
  /\ waiting[s] # None /\ s \notin expired
  /\ ident[waiting[s]] = i
  /\ waiting' = [waiting EXCEPT ![s] = None]
  /\ slots'   = MoveSlot(s, r, slots)
  /\ phase'   = [phase EXCEPT ![r] = "taken"]
  /\ serves'  = [serves EXCEPT ![r] = waiting[s]]
  /\ UNCHANGED <<pending, stateVars, clients, expired, free, claimVars, active>>

\* Same transport: rebind_control gives the ClientState this run_id, reattach
\* puts it back online without a new permit.
Reattach(r) ==
  /\ phase[r] = "taken" /\ serves[r] \notin stopped
  /\ runId'   = [runId EXCEPT ![serves[r]] = r]
  /\ clients' = [clients EXCEPT ![r] = serves[r]]
  /\ active'  = active + 1
  /\ phase'   = [phase EXCEPT ![r] = "setup"]
  /\ NoCleanup
  /\ UNCHANGED <<sess, ident, resumable, serves, pending, waiting, expired, slots, free>>

\* Mutant: a session that cannot be resumed is dropped on the floor.
PutBackLost(r) ==
  /\ phase[r] = "taken"
  /\ DropSlots({r})
  /\ phase'  = [phase EXCEPT ![r] = "setup"]
  /\ serves' = [serves EXCEPT ![r] = r]
  /\ NoCleanup
  /\ UNCHANGED <<sess, ident, resumable, pending, runId, clients, active, waiting, expired>>

\* Another wire version, UDP codec or capability set: the session goes back
\* and the login continues as a fresh one.
PutBack(r) ==
  /\ phase[r] = "taken"
  /\ Suspend(r, sess[r], serves[r])
  /\ phase'  = [phase EXCEPT ![r] = "setup"]
  /\ serves' = [serves EXCEPT ![r] = r]
  /\ UNCHANGED <<sess, ident, resumable, pending, runId, clients, active>>

\* A failed write of ResumeResp or Identity ends handle_control with "?", and
\* no ClientGuard exists yet: only the locals, the slot among them, are dropped.
SetupFail(r) ==
  /\ SetupFaults
  /\ phase[r] = "setup"
  /\ DropSlots({r})
  /\ phase' = [phase EXCEPT ![r] = "done"]
  /\ UNCHANGED <<sess, ident, resumable, serves, pending, stateVars,
                 clients, waiting, expired, claimVars, active>>

\* Mutant: the permit is taken without asking whether one is left.
InsertUnchecked(r) ==
  /\ phase[r] = "setup" /\ serves[r] = r
  /\ free'    = free - 1
  /\ slots'   = slots \cup {r}
  /\ clients' = [clients EXCEPT ![r] = r]
  /\ active'  = active + 1
  /\ phase'   = [phase EXCEPT ![r] = "loop"]
  /\ NoCleanup
  /\ UNCHANGED <<sess, ident, resumable, serves, pending, runId, waiting, expired>>

\* A fresh login: insert takes a permit.
Insert(r) ==
  /\ phase[r] = "setup" /\ serves[r] = r /\ free > 0
  /\ free'    = free - 1
  /\ slots'   = slots \cup {r}
  /\ clients' = [clients EXCEPT ![r] = r]
  /\ active'  = active + 1
  /\ phase'   = [phase EXCEPT ![r] = "loop"]
  /\ NoCleanup
  /\ UNCHANGED <<sess, ident, resumable, serves, pending, runId, waiting, expired>>

InsertRejected(r) ==
  /\ phase[r] = "setup" /\ serves[r] = r /\ free = 0
  /\ phase' = [phase EXCEPT ![r] = "done"]
  /\ UNCHANGED <<sess, ident, resumable, serves, pending,
                 stateVars, registryVars, claimVars, active>>

\* A resumed login needs no permit: the guard is made and the loop begins.
EnterResumed(r) ==
  /\ phase[r] = "setup" /\ serves[r] # r
  /\ phase' = [phase EXCEPT ![r] = "loop"]
  /\ UNCHANGED <<sess, ident, resumable, serves, pending,
                 stateVars, registryVars, claimVars, active>>

-----------------------------------------------------------------------------
(* The control loop *)

\* NewProxy, as far as it goes without an await: close_proxy_by_name when the
\* name is registered already, then reserve_port or the table's register.
Claim(r, p) ==
  /\ phase[r] = "loop"
  /\ owner[p] = None \/ (owner[p] = serves[r] /\ p \in proxies[serves[r]])
  /\ owner' = [owner EXCEPT ![p] = serves[r]]

NewProxyRoute(r, p) ==
  /\ p \notin Ported /\ Claim(r, p)
  /\ proxies' = [proxies EXCEPT ![serves[r]] = @ \cup {p}]
  /\ UNCHANGED <<taskVars, runId, stopped, registryVars, socket, active>>

NewProxyPort(r, p) ==
  /\ p \in Ported /\ Claim(r, p)
  /\ socket'  = IF owner[p] # None /\ socket[p] = "held"
                THEN [socket EXCEPT ![p] = "closed"] ELSE socket
  /\ proxies' = [proxies EXCEPT ![serves[r]] = @ \ {p}]
  /\ pending' = [pending EXCEPT ![r] = p]
  /\ phase'   = [phase EXCEPT ![r] = "binding"]
  /\ UNCHANGED <<sess, ident, resumable, serves, runId, stopped, registryVars, active>>

\* bind returned a socket: spawn the accept loop, attach_listener (which keeps
\* the handle only if the port still has a group), add_proxy.
BindOk(r) ==
  LET p == pending[r] IN
  /\ phase[r] = "binding" /\ socket[p] = "closed"
  /\ socket'  = [socket EXCEPT ![p] = IF owner[p] # None THEN "held" ELSE "leaked"]
  /\ proxies' = [proxies EXCEPT ![serves[r]] = @ \cup {p}]
  /\ pending' = [pending EXCEPT ![r] = None]
  /\ phase'   = [phase EXCEPT ![r] = "loop"]
  /\ UNCHANGED <<sess, ident, resumable, serves, runId, stopped, registryVars, owner, active>>

\* bind failed (the address may be taken by anything): release_port.
BindFail(r) ==
  /\ phase[r] = "binding"
  /\ Release(pending[r], serves[r])
  /\ pending' = [pending EXCEPT ![r] = None]
  /\ phase'   = [phase EXCEPT ![r] = "loop"]
  /\ UNCHANGED <<sess, ident, resumable, serves, stateVars, registryVars, active>>

\* close_proxy_by_name: a resume that does not bring the proxy back, or a
\* re-registration whose new form is then refused.
CloseByName(r, p) ==
  /\ phase[r] = "loop" /\ p \in proxies[serves[r]]
  /\ Release(p, serves[r])
  /\ proxies' = [proxies EXCEPT ![serves[r]] = @ \ {p}]
  /\ UNCHANGED <<taskVars, runId, stopped, registryVars, active>>

\* CloseProxy from the client: names and domains go whatever the proxy table
\* says, the port only when stop_proxy returns one.
CloseProxy(r, p) ==
  /\ phase[r] = "loop"
  /\ p \in Ported => p \in proxies[serves[r]]
  /\ Release(p, serves[r])
  /\ proxies' = [proxies EXCEPT ![serves[r]] = @ \ {p}]
  /\ UNCHANGED <<taskVars, runId, stopped, registryVars, active>>

\* The peer closed the connection or stopped sending heartbeats.
PassiveEnd(r) ==
  /\ phase[r] = "loop"
  /\ phase' = [phase EXCEPT ![r] = "leaving"]
  /\ UNCHANGED <<sess, ident, resumable, serves, pending,
                 stateVars, registryVars, claimVars, active>>

\* The 5 s tick sees that the client was stopped.
StopNoticed(r) ==
  /\ phase[r] = "loop" /\ serves[r] \in stopped
  /\ phase' = [phase EXCEPT ![r] = "leaving"]
  /\ UNCHANGED <<sess, ident, resumable, serves, pending,
                 stateVars, registryVars, claimVars, active>>

-----------------------------------------------------------------------------
(* Leaving the loop *)

\* ClientGuard::drop, then the locals: remove(run_id) and the slot.
GuardDrop(r) ==
  /\ Remove(r)
  /\ DropSlots({r})
  /\ phase' = [phase EXCEPT ![r] = "done"]
  /\ UNCHANGED <<sess, ident, resumable, serves, pending, runId, waiting, expired>>

MayResume(r) == resumable[r] /\ serves[r] \notin stopped

\* detach: out of the online table, everything else kept.
Detach(r) ==
  /\ phase[r] = "leaving" /\ MayResume(r) /\ clients[r] # None
  /\ clients' = [clients EXCEPT ![r] = None]
  /\ active'  = active - 1
  /\ phase'   = [phase EXCEPT ![r] = "detached"]
  /\ NoCleanup
  /\ UNCHANGED <<sess, ident, resumable, serves, pending, runId,
                 waiting, expired, slots, free>>

\* suspend, then disarm; on a conflict the guard finds nothing left to remove.
SuspendDetached(r) ==
  /\ phase[r] = "detached"
  /\ Suspend(r, sess[r], serves[r])
  /\ phase' = [phase EXCEPT ![r] = "done"]
  /\ UNCHANGED <<sess, ident, resumable, serves, pending, runId, clients, active>>

\* The session may not be kept: the guard reclaims it.
Leave(r) ==
  /\ phase[r] = "leaving"
  /\ ~MayResume(r) \/ clients[r] = None
  /\ GuardDrop(r)

\* An I/O error ends the loop with "?", a refused heartbeat clears allow_resume.
FailEnd(r) ==
  /\ phase[r] = "loop"
  /\ GuardDrop(r)

-----------------------------------------------------------------------------
(* The panel and the clock *)

\* kick: remove(run_id), on the thread of the HTTP request.
Kick(r) ==
  /\ Panel
  /\ clients[r] # None
  /\ Remove(r)
  /\ UNCHANGED <<taskVars, runId, waiting, expired, slots, free>>

\* remove_proxy: what it takes away on the server, before it asks the client.
PanelRemove(r, p) ==
  LET c == clients[r] IN
  /\ Panel
  /\ c # None
  /\ p \in Ported => p \in proxies[c]
  /\ Release(p, c)
  /\ proxies' = [proxies EXCEPT ![c] = @ \ {p}]
  /\ UNCHANGED <<taskVars, runId, stopped, registryVars, active>>

\* expires_at passes.
Expire(s) ==
  /\ waiting[s] # None /\ s \notin expired
  /\ expired' = expired \cup {s}
  /\ UNCHANGED <<taskVars, stateVars, clients, waiting, slots, free, claimVars, active>>

\* The 5 s sweep ticker of the server.
SweepTick ==
  /\ Swept # {}
  /\ SweepSuspended
  /\ UNCHANGED <<taskVars, runId, clients, active>>

-----------------------------------------------------------------------------
(* Specification *)

Init ==
  /\ phase     = [r \in Conn |-> "new"]
  /\ sess      = [r \in Conn |-> None]
  /\ ident     = [r \in Conn |-> None]
  /\ resumable = [r \in Conn |-> FALSE]
  /\ serves    = [r \in Conn |-> None]
  /\ pending   = [r \in Conn |-> None]
  /\ runId     = [c \in Conn |-> c]
  /\ stopped   = {}
  /\ proxies   = [c \in Conn |-> {}]
  /\ clients   = [r \in Conn |-> None]
  /\ waiting   = [s \in Session |-> None]
  /\ expired   = {}
  /\ slots     = {}
  /\ free      = MaxClients
  /\ owner     = [p \in Proxy |-> None]
  /\ socket    = [p \in Proxy |-> "closed"]
  /\ active    = 0

Login(r) ==
  \E s \in Session, i \in Ident :
     \/ \E wants, tokenOk \in BOOLEAN : LoginFresh(r, s, i, wants, tokenOk)
     \/ LoginFindsExpired(r, s, i)
     \/ LoginTakes(r, s, i)

\* What the task of a connection does by itself, without a message or a fault.
Progress(r) ==
  \/ Reattach(r) \/ Insert(r) \/ InsertRejected(r) \/ EnterResumed(r)
  \/ BindOk(r) \/ BindFail(r)
  \/ Detach(r) \/ SuspendDetached(r) \/ Leave(r)

Messages(r) ==
  \E p \in Proxy : \/ NewProxyRoute(r, p) \/ NewProxyPort(r, p)
                   \/ CloseByName(r, p) \/ CloseProxy(r, p)
                   \/ PanelRemove(r, p)

Next ==
  \/ \E r \in Conn : \/ Login(r) \/ Progress(r) \/ Messages(r)
                     \/ PutBack(r) \/ SetupFail(r) \/ StopNoticed(r)
                     \/ PassiveEnd(r) \/ FailEnd(r) \/ Kick(r)
  \/ \E s \in Session : Expire(s)
  \/ SweepTick

Spec == Init /\ [][Next]_vars

\* Tasks that can run do run, time passes and the tickers tick.  The loop picks
\* at random among its ready branches (tokio::select!), so the 5 s tick is taken
\* eventually however busy the connection is: strong fairness.  Nothing is
\* assumed of clients: logins, messages, disconnections and kicks may not come.
Fairness ==
  /\ \A r \in Conn : WF_vars(Progress(r)) /\ SF_vars(StopNoticed(r))
  /\ \A s \in Session : WF_vars(Expire(s))
  /\ WF_vars(SweepTick)

FairSpec == Spec /\ Fairness

-----------------------------------------------------------------------------
(* Properties *)

\* Every variable keeps its type; the permits left are never negative nor too many.
TypeOK ==
  /\ phase     \in [Conn -> Phases]
  /\ sess      \in [Conn -> Session \cup {None}]
  /\ ident     \in [Conn -> Ident \cup {None}]
  /\ resumable \in [Conn -> BOOLEAN]
  /\ serves    \in [Conn -> Conn \cup {None}]
  /\ pending   \in [Conn -> Proxy \cup {None}]
  /\ runId     \in [Conn -> Conn]
  /\ stopped   \in SUBSET Conn
  /\ proxies   \in [Conn -> SUBSET Proxy]
  /\ clients   \in [Conn -> Conn \cup {None}]
  /\ waiting   \in [Session -> Conn \cup {None}]
  /\ expired   \in SUBSET Session
  /\ slots     \in SUBSET (Conn \cup Session)
  /\ free      \in 0 .. MaxClients
  /\ owner     \in [Proxy -> Conn \cup {None}]
  /\ socket    \in [Proxy -> {"closed", "held", "leaked"}]
  /\ active    \in Int

\* A ClientState is in one place: one entry of the online table (under its own
\* run_id, or work connections would not find it), or one entry of the suspended
\* table, or in the hands of one task; and a stopped one is in none
\* (Registry::detach, suspend, take_suspended_if, reattach, remove).
OneHome ==
  /\ \A r \in Conn : clients[r] # None =>
        /\ runId[clients[r]] = r
        /\ clients[r] \notin Parked \cup Carried
  /\ \A s, t \in Session : waiting[s] # None /\ waiting[s] = waiting[t] => s = t
  /\ Parked \cap Carried = {}
  /\ (Online \cup Parked \cup Carried) \cap stopped = {}

\* No two tasks ever run the control loop of one ClientState, however often its
\* client reconnects while the old connection is still draining.
OneServer ==
  \A r, t \in Conn :
     /\ {phase[r], phase[t]} \subseteq Phases \ {"new", "done"}
     /\ serves[r] = serves[t]
     => r = t

\* However breaks, drains, resumptions and sweeps interleave, a ClientState has
\* one place and one task (registry.rs 328-430, serve.rs 1363).
SingleHolder == OneHome /\ OneServer

\* max_clients bounds the sessions that hold server resources, the parked ones
\* included (the LimitGuard moves with the session: SuspendedSession.slot).
AdmissionBound == Cardinality(Online \cup Parked \cup Carried) <= MaxClients

\* Whatever is claimed in public belongs to a session that can still come back
\* or will still be cleaned up, and no accept loop outlives its port group
\* (ClientGuard: the exit of a control connection reclaims everything).
NoOrphanClaim ==
  /\ \A p \in Proxy : owner[p] # None => owner[p] \in Online \cup Parked \cup Carried
  /\ \A p \in Proxy : socket[p] # "leaked"

\* A claim is never handed from one client to another in one step, and it is
\* only given up while its owner is online or because its owner was stopped: a
\* lost connection, a login under the same connection id or somebody else's
\* CloseProxy never takes a parked client's port away (release_port,
\* VisitorTable::remove, detach).
ClaimsOutliveConnections ==
  [][\A p \in Proxy : owner[p] # None /\ owner'[p] # owner[p] =>
        /\ owner'[p] = None
        /\ owner[p] \in stopped' \cup Online]_vars

\* A parked session leaves the suspended table only by expiring or into the
\* hands of a login of its own identity (suspend and take_suspended_if refuse
\* to displace it).
ParkedLeavesToItsOwner ==
  [][\A s \in Session : waiting[s] # None /\ waiting'[s] # waiting[s] =>
        \/ s \in expired /\ waiting[s] \in stopped'
        \/ \E r \in Conn : /\ phase[r] = "new" /\ phase'[r] = "taken"
                            /\ serves'[r] = waiting[s]
                            /\ ident'[r] = ident[waiting[s]]]_vars

\* clients_active is the number of entries of the online table.
ActiveGaugeExact == active = Cardinality({r \in Conn : clients[r] # None})

\* When the task of a control connection has ended, its run_id is offline
\* (ClientGuard covers every way out of handle_control).
ExitTakesOffline == \A r \in Conn : phase[r] = "done" => clients[r] = None

\* What is parked is kept for its owner: the session and its claims alike.
ParkedKept == ClaimsOutliveConnections /\ ParkedLeavesToItsOwner

\* Permits, the gauge and public claims move along with the sessions, in nine
\* functions, and none drifts: the exit of a control connection leaves no entry
\* of the online table, no permit, no port of a client that cannot come back and
\* no accept loop without its group (registry.rs 240-400, 1002).
NothingLeaks == AdmissionBound /\ ActiveGaugeExact /\ NoOrphanClaim /\ ExitTakesOffline

\* A parked session does not keep its public claims for ever: its client comes
\* back, or they are released when the resume window closes.
ParkedClaimsReturn ==
  \A p \in Proxy, c \in Conn :
     (owner[p] = c /\ c \in Parked \cup Carried) ~> (owner[p] # c \/ c \in Online)

\* The same for every client that is not online, a kicked one included.
ClaimsReturn ==
  \A p \in Proxy, c \in Conn :
     (owner[p] = c /\ c \notin Online) ~> (owner[p] # c \/ c \in Online)

\* After a kick the control connection ends by itself.
KickEndsTask ==
  \A r \in Conn :
     (phase[r] = "loop" /\ serves[r] \in stopped) ~> (phase[r] = "done")

\* What a session holds returns in the end, after a break and after a kick
\* (registry.rs 376, serve.rs 2025).
EverythingReturns == ParkedClaimsReturn /\ KickEndsTask

-----------------------------------------------------------------------------
(* The abstract specification *)

LeaseState ==
  [c \in Conn |-> IF c \in stopped THEN "gone"
                  ELSE IF c \in Online THEN "online"
                  ELSE IF c \in Parked \cup Carried THEN "parked"
                  ELSE "absent"]

Lease == INSTANCE SessionLease
           WITH Client <- Conn, Max <- MaxClients, state <- LeaseState, holder <- owner

\* Every step of the server is a step of a lease or changes nothing in it:
\* admission within max_clients, claims that survive parking and die with their
\* session, no way back from the end.
ImplementsLease == Lease!Spec
=============================================================================
