-------------------------- MODULE Sessions_proofs --------------------------
(***************************************************************************)
(* Proofs about Sessions, for every number of connections, sessions and    *)
(* proxies and every max_clients.  IInv is the inductive invariant: Homes  *)
(* says who may hold a ClientState (OneHome and OneServer follow from it), *)
(* Permits says that no permit of max_clients is lost or made up.          *)
(* LoopOnline, Guarded and Claims say what a running loop can rely on: its *)
(* client is online, its guard will clean up, and a claim belongs to a     *)
(* client that somebody will clean up after.  Where a theorem assumes that *)
(* Panel or SetupFaults is FALSE, the run named in its comment shows the   *)
(* code break the property otherwise.  The last part maps each action to a *)
(* step of SessionLease or to none.                                        *)
(***************************************************************************)
EXTENDS Sessions, TLAPS, FiniteSetTheorems

\* The task of r is running.
Busy(r) == phase[r] \notin {"new", "done"}

\* r's own ClientState has not entered any table.
Unborn(r) == phase[r] \in {"new", "taken"} \/ (phase[r] = "setup" /\ serves[r] = r)

\* A running task has a session and a ClientState.
TaskHasSession ==
  \A r \in Conn : Busy(r) => sess[r] \in Session /\ serves[r] \in Conn

\* An online ClientState is served by the task under whose run_id it is
\* entered, and by no other.
OnlineServed ==
  \A r \in Conn : clients[r] # None =>
     /\ clients[r] = serves[r]
     /\ runId[clients[r]] = r
     /\ phase[r] \in {"setup", "loop", "binding", "leaving", "done"}
     /\ clients[r] \notin stopped
     /\ \A s \in Session : waiting[s] # clients[r]
     /\ \A t \in Conn : Busy(t) /\ serves[t] = clients[r] => t = r

\* A parked one is served by no task.
ParkedUnserved ==
  \A s \in Session : waiting[s] # None =>
     /\ waiting[s] \notin stopped
     /\ \A t \in Conn : Busy(t) => serves[t] # waiting[s]
     /\ \A x \in Session : waiting[x] = waiting[s] => x = s

\* One in the hands of a task is in no table.
CarriedApart ==
  \A r \in Conn : phase[r] \in {"taken", "detached"} =>
     /\ serves[r] \notin stopped
     /\ clients[r] = None
     /\ phase[r] = "taken" => serves[r] # r

\* A ClientState that was never used is used by nobody else.
UnbornUnused ==
  \A r \in Conn : Unborn(r) =>
     /\ clients[r] = None
     /\ runId[r] = r
     /\ r \notin stopped
     /\ \A s \in Session : waiting[s] # r
     /\ \A t \in Conn : Busy(t) /\ serves[t] = r => t = r

Homes == /\ TaskHasSession /\ OneServer
         /\ OnlineServed /\ ParkedUnserved /\ CarriedApart /\ UnbornUnused

\* Every permit is free or held once, by a running task or a parked session.
Permits ==
  /\ free + Cardinality(slots) = MaxClients
  /\ \A r \in Conn : r \in slots => Busy(r) /\ ~(phase[r] = "setup" /\ serves[r] = r)
  /\ \A s \in Session : s \in slots => waiting[s] # None

\* A task that binds knows for which proxy.
BindingProxy == \A r \in Conn : phase[r] = "binding" => pending[r] \in Proxy

IInv == TypeOK /\ Homes /\ Permits /\ BindingProxy

-----------------------------------------------------------------------------
(* Homes is inductive *)

\* suspend by a task that carries a ClientState: what it parks is that one or
\* what was parked before, what it stops is expired or that one, and it never
\* does both to one ClientState.
LEMMA SuspendEffect ==
  ASSUME TypeOK, Homes, NEW r \in Conn, phase[r] \in {"taken", "detached"},
         Suspend(r, sess[r], serves[r])
  PROVE  /\ stopped \subseteq stopped'
         /\ \A s \in Session : waiting'[s] # None =>
               /\ waiting'[s] \notin stopped'
               /\ \/ waiting'[s] = waiting[s]
                  \/ s = sess[r] /\ waiting'[s] = serves[r]
         /\ \A c \in stopped' \ stopped :
               c = serves[r] \/ \E s \in Session : waiting[s] = c /\ c # None
<1>. DEFINE kept  == [x \in Session |-> IF x \in Swept THEN None ELSE waiting[x]]
            swept == {waiting[x] : x \in Swept}
<1>1. /\ Swept \subseteq Session
      /\ \A s \in Session : kept[s] # None => kept[s] = waiting[s] /\ s \notin Swept
      /\ \A c \in swept : \E s \in Session : s \in Swept /\ waiting[s] = c /\ waiting[s] # None
  BY DEF Swept, TypeOK
<1>2. \A s \in Session : kept[s] # None => kept[s] \notin swept /\ kept[s] \notin stopped
  BY <1>1 DEF Homes, ParkedUnserved
<1>3. /\ serves[r] \in Conn /\ sess[r] \in Session
      /\ serves[r] \notin stopped
      /\ \A s \in Session : waiting[s] # None => waiting[s] # serves[r]
  BY DEF Homes, ParkedUnserved, CarriedApart, TaskHasSession, Busy
<1>4. CASE kept[sess[r]] \notin {None, serves[r]}
  <2>1. waiting' = kept /\ stopped' = stopped \cup (swept \cup {serves[r]})
    BY <1>4 DEF Suspend, Cleanup
  <2>. QED BY <2>1, <1>1, <1>2, <1>3
<1>5. CASE kept[sess[r]] \in {None, serves[r]}
  <2>1. waiting' = [kept EXCEPT ![sess[r]] = serves[r]] /\ stopped' = stopped \cup swept
    BY <1>5 DEF Suspend, Cleanup
  <2>2. \A s \in Session : waiting'[s] = IF s = sess[r] THEN serves[r] ELSE kept[s]
    BY <2>1, <1>3
  <2>3. serves[r] \notin swept
    BY <1>1, <1>3
  <2>. HIDE DEF kept, swept
  <2>. QED BY <2>1, <2>2, <2>3, <1>1, <1>2, <1>3
<1>. QED BY <1>4, <1>5

\* Steps that move no ClientState and leave each task where it is or among
\* the phases of a running loop.
LEMMA QuietHomes ==
  ASSUME Homes, UNCHANGED <<sess, serves, runId, stopped, clients, waiting>>,
         \A r \in Conn :
            \/ phase'[r] = phase[r]
            \/ /\ phase[r] \in {"loop", "binding"} \/ (phase[r] = "setup" /\ serves[r] # r)
               /\ phase'[r] \in {"loop", "binding", "leaving"}
  PROVE  Homes'
<1>1. \A r \in Conn : (Busy(r)' <=> Busy(r)) /\ (Unborn(r)' <=> Unborn(r))
  BY DEF Busy, Unborn
<1>2. TaskHasSession' /\ OneServer'
  BY <1>1 DEF Homes, TaskHasSession, OneServer, Busy, Phases
<1>. QED BY <1>1, <1>2 DEF Homes, OnlineServed, ParkedUnserved, CarriedApart, UnbornUnused

\* A fresh login serves the ClientState made for it, which nothing knew before
\* (handle_control, fresh_client).
LEMMA LoginFreshHomes ==
  ASSUME TypeOK, Homes, NEW r \in Conn, NEW q \in Session, NEW i \in Ident,
         NEW wants \in BOOLEAN, NEW tokenOk \in BOOLEAN, LoginFresh(r, q, i, wants, tokenOk)
  PROVE  Homes'
<1>1. /\ phase[r] = "new" /\ Unborn(r) /\ ~Busy(r)
      /\ \A t \in Conn : /\ phase'[t]  = IF t = r THEN "setup" ELSE phase[t]
                         /\ serves'[t] = IF t = r THEN r ELSE serves[t]
                         /\ sess'[t]   = IF t = r THEN q ELSE sess[t]
      /\ UNCHANGED <<clients, waiting, stopped, runId>>
  BY DEF LoginFresh, Arrive, TypeOK, Unborn, Busy, stateVars, registryVars
<1>2. \A t \in Conn : (Busy(t)' <=> Busy(t) \/ t = r) /\ (Unborn(t)' <=> Unborn(t))
  BY <1>1 DEF Busy, Unborn
<1>3. OneServer'
  BY <1>1 DEF Homes, OneServer, UnbornUnused, Busy, Phases
<1>. QED
  BY <1>1, <1>2, <1>3
  DEF Homes, TaskHasSession, OnlineServed, ParkedUnserved, CarriedApart, UnbornUnused

\* take_suspended_if finds an expired entry: it is reclaimed, nobody serves it.
LEMMA LoginFindsExpiredHomes ==
  ASSUME TypeOK, Homes, NEW r \in Conn,
         NEW q \in Session, NEW i \in Ident, LoginFindsExpired(r, q, i)
  PROVE  Homes'
BY SessionsAssumption
DEF LoginFindsExpired, Arrive, Cleanup, Homes, TaskHasSession, OneServer, OnlineServed,
    ParkedUnserved, CarriedApart, UnbornUnused, Busy, Unborn, Phases, TypeOK

\* take_suspended_if moves the parked ClientState into the hands of one task, which
\* cannot be one that served it before.
LEMMA LoginTakesHomes ==
  ASSUME TypeOK, Homes, NEW r \in Conn, NEW q \in Session, NEW i \in Ident,
         LoginTakes(r, q, i)
  PROVE  Homes'
<1>. DEFINE c == waiting[q]
<1>1. /\ phase[r] = "new" /\ Unborn(r) /\ ~Busy(r)
      /\ c \in Conn /\ c # None /\ clients[r] = None
      /\ \A t \in Conn : /\ phase'[t]  = IF t = r THEN "taken" ELSE phase[t]
                         /\ serves'[t] = IF t = r THEN c ELSE serves[t]
                         /\ sess'[t]   = IF t = r THEN q ELSE sess[t]
      /\ \A x \in Session : waiting'[x] = IF x = q THEN None ELSE waiting[x]
      /\ UNCHANGED <<clients, stopped, runId>>
  BY DEF LoginTakes, Arrive, TypeOK, Unborn, Busy, stateVars, Homes, UnbornUnused
<1>2. /\ c \notin stopped
      /\ \A x \in Session : waiting[x] = c => x = q
      /\ \A t \in Conn : Busy(t) => serves[t] # c
      /\ \A t \in Conn : clients[t] # c
      /\ \A t \in Conn : Unborn(t) => t # c
  BY <1>1 DEF Homes, ParkedUnserved, OnlineServed, UnbornUnused
<1>3. \A t \in Conn : (Busy(t)' <=> Busy(t) \/ t = r) /\ (Unborn(t)' <=> Unborn(t))
  BY <1>1 DEF Busy, Unborn
<1>4. OneServer'
  BY <1>1, <1>2 DEF Homes, OneServer, Busy, Phases
<1>. HIDE DEF c
<1>5. TaskHasSession' /\ OnlineServed'
  BY <1>1, <1>2, <1>3, SessionsAssumption DEF Homes, TaskHasSession, OnlineServed
<1>6. ParkedUnserved' /\ CarriedApart'
  BY <1>1, <1>2, <1>3 DEF Homes, ParkedUnserved, CarriedApart
<1>7. UnbornUnused'
  BY <1>1, <1>2, <1>3, SessionsAssumption DEF Homes, UnbornUnused
<1>. QED BY <1>4, <1>5, <1>6, <1>7 DEF Homes

\* reattach enters what the task carries under the task's own run_id.
LEMMA ReattachHomes ==
  ASSUME TypeOK, Homes, NEW r \in Conn,
         Reattach(r)
  PROVE  Homes'
BY SessionsAssumption
DEF Reattach, NoCleanup, Homes, TaskHasSession, OneServer, OnlineServed,
    ParkedUnserved, CarriedApart, UnbornUnused, Busy, Unborn, Phases, TypeOK

\* insert enters the login's own ClientState (Registry::insert).
LEMMA InsertHomes ==
  ASSUME TypeOK, Homes, NEW r \in Conn,
         Insert(r)
  PROVE  Homes'
BY SessionsAssumption
DEF Insert, NoCleanup, Homes, TaskHasSession, OneServer, OnlineServed,
    ParkedUnserved, CarriedApart, UnbornUnused, Busy, Unborn, Phases, TypeOK

\* A login refused by max_clients ends without entering anything.
LEMMA InsertRejectedHomes ==
  ASSUME TypeOK, Homes, NEW r \in Conn,
         InsertRejected(r)
  PROVE  Homes'
BY SessionsAssumption
DEF InsertRejected, stateVars, registryVars, Homes, TaskHasSession, OneServer, OnlineServed,
    ParkedUnserved, CarriedApart, UnbornUnused, Busy, Unborn, Phases, TypeOK

\* A failed write ends the task; what it had put online stays online, served by nobody.
LEMMA SetupFailHomes ==
  ASSUME TypeOK, Homes, NEW r \in Conn,
         SetupFail(r)
  PROVE  Homes'
BY SessionsAssumption
DEF SetupFail, stateVars, Homes, TaskHasSession, OneServer, OnlineServed,
    ParkedUnserved, CarriedApart, UnbornUnused, Busy, Unborn, Phases, TypeOK

\* detach takes the ClientState out of the online table into the hands of its task.
LEMMA DetachHomes ==
  ASSUME TypeOK, Homes, NEW r \in Conn,
         Detach(r)
  PROVE  Homes'
BY SessionsAssumption
DEF Detach, MayResume, NoCleanup, Homes, TaskHasSession, OneServer, OnlineServed,
    ParkedUnserved, CarriedApart, UnbornUnused, Busy, Unborn, Phases, TypeOK

\* ClientGuard's drop removes and stops the ClientState of its run_id.
LEMMA GuardDropHomes ==
  ASSUME TypeOK, Homes, NEW r \in Conn,
         /\ phase[r] \in {"loop", "leaving"}
         /\ GuardDrop(r)
  PROVE  Homes'
BY SessionsAssumption
DEF GuardDrop, Remove, Cleanup, NoCleanup, Homes, TaskHasSession, OneServer, OnlineServed,
    ParkedUnserved, CarriedApart, UnbornUnused, Busy, Unborn, Phases, TypeOK

\* kick removes and stops the ClientState while its task runs on.
LEMMA KickHomes ==
  ASSUME TypeOK, Homes, NEW r \in Conn,
         Kick(r)
  PROVE  Homes'
BY SessionsAssumption
DEF Kick, Remove, Cleanup, NoCleanup, taskVars, Homes, TaskHasSession, OneServer, OnlineServed,
    ParkedUnserved, CarriedApart, UnbornUnused, Busy, Unborn, Phases, TypeOK

\* A resumption refused for its transport gives the ClientState back (suspend).
LEMMA PutBackHomes ==
  ASSUME TypeOK, Homes, NEW r \in Conn, PutBack(r)
  PROVE  Homes'
<1>1. /\ phase[r] = "taken" /\ Busy(r) /\ Unborn(r)
      /\ serves[r] \in Conn \ {r} /\ sess[r] \in Session
      /\ \A t \in Conn : /\ phase'[t]  = IF t = r THEN "setup" ELSE phase[t]
                         /\ serves'[t] = IF t = r THEN r ELSE serves[t]
      /\ UNCHANGED <<sess, clients, runId>>
  BY DEF PutBack, TypeOK, Homes, CarriedApart, TaskHasSession, Busy, Unborn
<1>2. /\ stopped \subseteq stopped'
      /\ \A s \in Session : waiting'[s] # None =>
            /\ waiting'[s] \notin stopped'
            /\ waiting'[s] = waiting[s] \/ (s = sess[r] /\ waiting'[s] = serves[r])
      /\ \A c \in stopped' \ stopped : c = serves[r] \/ \E s \in Session : waiting[s] = c /\ c # None
  BY SuspendEffect DEF PutBack
<1>3. \A t \in Conn : (Busy(t)' <=> Busy(t)) /\ (Unborn(t)' <=> Unborn(t))
  BY <1>1 DEF Busy, Unborn
<1>4. /\ \A t \in Conn : clients[t] # r
      /\ \A t \in Conn : clients[t] # None => clients[t] # serves[r]
      /\ \A s \in Session : waiting[s] # serves[r] /\ waiting[s] # r
      /\ \A t \in Conn : Busy(t) /\ serves[t] \in {serves[r], r} => t = r
  BY <1>1, SessionsAssumption
  DEF Homes, OnlineServed, ParkedUnserved, CarriedApart, UnbornUnused, OneServer, Busy, Phases, TypeOK
<1>5. TaskHasSession' /\ OneServer'
  BY <1>1, <1>3 DEF Homes, TaskHasSession, OneServer, UnbornUnused, Busy, Phases
<1>6. OnlineServed'
  BY <1>1, <1>2, <1>3, <1>4, SessionsAssumption DEF Homes, OnlineServed, ParkedUnserved
<1>7. ParkedUnserved'
  BY <1>1, <1>2, <1>3, <1>4, SessionsAssumption DEF Homes, ParkedUnserved
<1>8. CarriedApart'
  BY <1>1, <1>2, <1>3, <1>4 DEF Homes, ParkedUnserved, CarriedApart, Busy
<1>9. UnbornUnused'
  BY <1>1, <1>2, <1>3, <1>4, SessionsAssumption
  DEF Homes, ParkedUnserved, UnbornUnused, OnlineServed
<1>. QED BY <1>5, <1>6, <1>7, <1>8, <1>9 DEF Homes

\* suspend parks what detach took out, or stops it when a session is parked already.
LEMMA SuspendDetachedHomes ==
  ASSUME TypeOK, Homes, NEW r \in Conn, SuspendDetached(r)
  PROVE  Homes'
<1>1. /\ phase[r] = "detached" /\ Busy(r) /\ ~Unborn(r)
      /\ serves[r] \in Conn /\ sess[r] \in Session
      /\ \A t \in Conn : phase'[t] = IF t = r THEN "done" ELSE phase[t]
      /\ UNCHANGED <<serves, sess, clients, runId>>
  BY DEF SuspendDetached, TypeOK, Homes, TaskHasSession, Busy, Unborn
<1>2. /\ stopped \subseteq stopped'
      /\ \A s \in Session : waiting'[s] # None =>
            /\ waiting'[s] \notin stopped'
            /\ waiting'[s] = waiting[s] \/ (s = sess[r] /\ waiting'[s] = serves[r])
      /\ \A c \in stopped' \ stopped : c = serves[r] \/ \E s \in Session : waiting[s] = c /\ c # None
  BY SuspendEffect DEF SuspendDetached
<1>3. \A t \in Conn : (Busy(t)' <=> Busy(t) /\ t # r) /\ (Unborn(t)' <=> Unborn(t))
  BY <1>1 DEF Busy, Unborn
<1>4. /\ \A t \in Conn : clients[t] # None => clients[t] # serves[r]
      /\ \A s \in Session : waiting[s] # serves[r]
      /\ \A t \in Conn : Unborn(t) => t # serves[r]
      /\ \A t \in Conn : Busy(t) /\ serves[t] = serves[r] => t = r
  BY <1>1, SessionsAssumption
  DEF Homes, OnlineServed, ParkedUnserved, CarriedApart, UnbornUnused, OneServer, Busy, Phases, TypeOK
<1>5. TaskHasSession' /\ OneServer'
  BY <1>1, <1>3 DEF Homes, TaskHasSession, OneServer, Busy, Phases
<1>6. OnlineServed'
  BY <1>1, <1>2, <1>3, <1>4, SessionsAssumption DEF Homes, OnlineServed, ParkedUnserved
<1>7. ParkedUnserved'
  BY <1>1, <1>2, <1>3, <1>4, SessionsAssumption DEF Homes, ParkedUnserved
<1>8. CarriedApart'
  BY <1>1, <1>2, <1>3, <1>4 DEF Homes, ParkedUnserved, CarriedApart, Busy
<1>9. UnbornUnused'
  BY <1>1, <1>2, <1>3, <1>4, SessionsAssumption DEF Homes, ParkedUnserved, UnbornUnused
<1>. QED BY <1>5, <1>6, <1>7, <1>8, <1>9 DEF Homes

\* A sweep stops expired sessions, which no task serves (sweep_suspended).
LEMMA SweepTickHomes ==
  ASSUME TypeOK, Homes, SweepTick
  PROVE  Homes'
<1>1. /\ UNCHANGED <<phase, serves, sess, clients, runId>>
      /\ \A s \in Session : waiting'[s] # None => waiting'[s] = waiting[s] /\ s \notin Swept
      /\ stopped \subseteq stopped'
      /\ \A c \in stopped' \ stopped :
            \E s \in Session : s \in Swept /\ waiting[s] = c /\ c # None
  BY DEF SweepTick, SweepSuspended, Swept, Cleanup, taskVars, TypeOK
<1>2. \A t \in Conn : (Busy(t)' <=> Busy(t)) /\ (Unborn(t)' <=> Unborn(t))
  BY <1>1 DEF Busy, Unborn
<1>3. TaskHasSession' /\ OneServer'
  BY <1>1, <1>2 DEF Homes, TaskHasSession, OneServer
<1>4. OnlineServed' /\ ParkedUnserved'
  BY <1>1, <1>2, SessionsAssumption DEF Homes, OnlineServed, ParkedUnserved
<1>5. CarriedApart' /\ UnbornUnused'
  BY <1>1, <1>2, SessionsAssumption DEF Homes, ParkedUnserved, CarriedApart, UnbornUnused, Busy
<1>. QED BY <1>3, <1>4, <1>5 DEF Homes

\* Every step keeps Homes.
LEMMA HomesStep ==
  ASSUME TypeOK, Homes, [Next]_vars
  PROVE  Homes'
<1>1. CASE UNCHANGED vars
  BY <1>1, QuietHomes DEF vars, taskVars, stateVars, registryVars
<1>2. ASSUME NEW r \in Conn, Login(r) PROVE Homes'
  BY <1>2, LoginFreshHomes, LoginFindsExpiredHomes, LoginTakesHomes DEF Login
<1>3. ASSUME NEW r \in Conn, Progress(r) PROVE Homes'
  <2>1. CASE EnterResumed(r) \/ BindOk(r) \/ BindFail(r)
    <3>1. /\ UNCHANGED <<sess, serves, runId, stopped, clients, waiting>>
          /\ \/ phase[r] = "binding" \/ (phase[r] = "setup" /\ serves[r] # r)
          /\ phase' = [phase EXCEPT ![r] = "loop"]
      BY <2>1 DEF EnterResumed, BindOk, BindFail, stateVars, registryVars
    <3>. QED BY <3>1, QuietHomes DEF TypeOK
  <2>2. CASE Leave(r)
    BY <2>2, GuardDropHomes DEF Leave
  <2>. QED BY <1>3, <2>1, <2>2, ReattachHomes, InsertHomes, InsertRejectedHomes,
              DetachHomes, SuspendDetachedHomes DEF Progress
<1>4. ASSUME NEW r \in Conn, Messages(r) PROVE Homes'
  <2>1. PICK p \in Proxy : \/ NewProxyRoute(r, p) \/ NewProxyPort(r, p)
                          \/ CloseByName(r, p) \/ CloseProxy(r, p) \/ PanelRemove(r, p)
    BY <1>4 DEF Messages
  <2>2. /\ UNCHANGED <<sess, serves, runId, stopped, clients, waiting>>
        /\ \/ phase' = phase
           \/ phase[r] = "loop" /\ phase' = [phase EXCEPT ![r] = "binding"]
    BY <2>1 DEF NewProxyRoute, NewProxyPort, Claim, CloseByName, CloseProxy, PanelRemove,
                taskVars, registryVars
  <2>. QED BY <2>2, QuietHomes DEF TypeOK
<1>5. ASSUME NEW r \in Conn, PassiveEnd(r) \/ StopNoticed(r) PROVE Homes'
  <2>1. /\ UNCHANGED <<sess, serves, runId, stopped, clients, waiting>>
        /\ phase[r] = "loop" /\ phase' = [phase EXCEPT ![r] = "leaving"]
    BY <1>5 DEF PassiveEnd, StopNoticed, stateVars, registryVars
  <2>. QED BY <2>1, QuietHomes DEF TypeOK
<1>6. ASSUME NEW r \in Conn, FailEnd(r) PROVE Homes'
  BY <1>6, GuardDropHomes DEF FailEnd
<1>7. ASSUME NEW s \in Session, Expire(s) PROVE Homes'
  BY <1>7, QuietHomes DEF Expire, taskVars, stateVars
<1>. QED
  BY <1>1, <1>2, <1>3, <1>4, <1>5, <1>6, <1>7, PutBackHomes, SetupFailHomes, KickHomes,
     SweepTickHomes DEF Next
-----------------------------------------------------------------------------
(* Permits is inductive *)

\* There are finitely many guards, so they can be counted.
LEMMA SlotsFinite ==
  ASSUME TypeOK
  PROVE  IsFiniteSet(slots) /\ Cardinality(slots) \in Nat
<1>1. IsFiniteSet(Conn \cup Session)
  BY FS_Union, SessionsAssumption
<1>2. slots \in SUBSET (Conn \cup Session)
  BY DEF TypeOK
<1>. QED BY <1>1, <1>2, FS_Subset, FS_CardinalityType

\* Dropped guards give back exactly what they held.
LEMMA DropBalance ==
  ASSUME NEW S, IsFiniteSet(S), NEW H, NEW f \in Int,
         f + Cardinality(S) = MaxClients
  PROVE  /\ IsFiniteSet(S \ H)
         /\ f + Cardinality(S \cap H) \in Int
         /\ f + Cardinality(S \cap H) + Cardinality(S \ H) = MaxClients
         /\ Cardinality(S \cap H) \in Nat
<1>1. IsFiniteSet(S \cap H) /\ IsFiniteSet(S \ H)
      /\ Cardinality(S \ H) = Cardinality(S) - Cardinality(S \cap H)
  BY FS_Difference, FS_Intersection
<1>2. Cardinality(S) \in Nat /\ Cardinality(S \cap H) \in Nat /\ Cardinality(S \ H) \in Nat
  BY <1>1, FS_CardinalityType
<1>. QED BY <1>1, <1>2

\* A guard that moves is still one guard.
LEMMA MoveBalance ==
  ASSUME NEW S, IsFiniteSet(S), NEW from, NEW to, to \notin S
  PROVE  Cardinality(MoveSlot(from, to, S)) = Cardinality(S)
<1>1. CASE from \notin S
  BY <1>1 DEF MoveSlot
<1>2. CASE from \in S
  <2>1. IsFiniteSet(S \ {from}) /\ Cardinality(S \ {from}) = Cardinality(S) - 1
    BY <1>2, FS_RemoveElement
  <2>2. Cardinality((S \ {from}) \cup {to}) = Cardinality(S \ {from}) + 1
    BY <2>1, FS_AddElement
  <2>3. Cardinality(S) \in Nat
    BY FS_CardinalityType
  <2>. QED BY <1>2, <2>1, <2>2, <2>3 DEF MoveSlot
<1>. QED BY <1>1, <1>2

\* Steps that touch no permit, and keep the holders what they were.
LEMMA QuietPermits ==
  ASSUME Permits, UNCHANGED <<slots, free>>,
         \A r \in Conn : r \in slots => Busy(r)' /\ ~(phase'[r] = "setup" /\ serves'[r] = r),
         \A s \in Session : s \in slots => waiting'[s] # None
  PROVE  Permits'
BY DEF Permits

\* Steps that drop guards.
LEMMA DropPermits ==
  ASSUME TypeOK, Permits, NEW H, DropSlots(H),
         \A r \in Conn : r \in slots \ H =>
            Busy(r)' /\ ~(phase'[r] = "setup" /\ serves'[r] = r),
         \A s \in Session : s \in slots \ H => waiting'[s] # None
  PROVE  Permits'
<1>1. free \in Int /\ free + Cardinality(slots) = MaxClients
  BY SessionsAssumption DEF Permits, TypeOK
<1>2. free' + Cardinality(slots') = MaxClients
  BY <1>1, SlotsFinite, DropBalance DEF DropSlots
<1>. QED BY <1>2 DEF Permits, DropSlots

\* suspend moves the guard of the session with it, or drops the one it does not
\* need (SuspendedSession.slot).
LEMMA SuspendPermits ==
  ASSUME TypeOK, Homes, Permits, NEW r \in Conn, phase[r] \in {"taken", "detached"},
         Suspend(r, sess[r], serves[r]), UNCHANGED sess,
         \A t \in Conn \ {r} : phase'[t] = phase[t] /\ serves'[t] = serves[t]
  PROVE  Permits'
<1>. DEFINE q    == sess[r]
            c    == serves[r]
            kept == [x \in Session |-> IF x \in Swept THEN None ELSE waiting[x]]
<1>1. /\ q \in Session /\ c \in Conn
      /\ kept[q] # c
      /\ Swept \subseteq Session /\ r \notin Swept
      /\ \A s \in Session : s \in slots \ Swept => kept[s] # None
      /\ \A t \in Conn : t \in slots /\ t # r =>
            Busy(t)' /\ ~(phase'[t] = "setup" /\ serves'[t] = t)
  BY SessionsAssumption
  DEF Homes, TaskHasSession, ParkedUnserved, Permits, Swept, TypeOK, Busy
<1>2. CASE kept[q] # None
  <2>1. waiting' = kept /\ DropSlots(Swept \cup {r})
    BY <1>1, <1>2 DEF Suspend
  <2>. QED BY <1>1, <2>1, DropPermits
<1>3. CASE kept[q] = None
  <2>1. /\ waiting' = [kept EXCEPT ![q] = c]
        /\ slots' = MoveSlot(r, q, slots \ Swept)
        /\ free'  = free + Cardinality(slots \cap Swept)
    BY <1>3 DEF Suspend
  <2>2. q \notin slots \ Swept
    BY <1>1, <1>3
  <2>3. free' + Cardinality(slots') = MaxClients
    <3>1. free \in Int /\ free + Cardinality(slots) = MaxClients
      BY SessionsAssumption DEF Permits, TypeOK
    <3>2. /\ IsFiniteSet(slots \ Swept)
          /\ free + Cardinality(slots \cap Swept) + Cardinality(slots \ Swept) = MaxClients
      BY <3>1, SlotsFinite, DropBalance
    <3>3. Cardinality(slots') = Cardinality(slots \ Swept)
      BY <2>1, <2>2, <3>2, MoveBalance
    <3>. QED BY <2>1, <3>2, <3>3
  <2>4. \A t \in Conn : t \in slots' => t \in slots /\ t # r
    BY <1>1, <2>1, SessionsAssumption DEF MoveSlot
  <2>5. \A s \in Session : s \in slots' => s = q \/ s \in slots \ Swept
    BY <2>1 DEF MoveSlot
  <2>6. \A s \in Session : s \in slots' => waiting'[s] # None
    BY <1>1, <2>1, <2>5, SessionsAssumption
  <2>. QED BY <1>1, <2>3, <2>4, <2>6 DEF Permits
<1>. QED BY <1>2, <1>3

\* Every step keeps the count of permits.
LEMMA PermitsStep ==
  ASSUME TypeOK, Homes, Permits, [Next]_vars
  PROVE  Permits'
<1>1. CASE UNCHANGED vars
  BY <1>1, QuietPermits DEF vars, taskVars, registryVars, Permits, Busy
<1>2. ASSUME NEW r \in Conn, NEW q \in Session, NEW i \in Ident,
             NEW wants \in BOOLEAN, NEW tokenOk \in BOOLEAN, LoginFresh(r, q, i, wants, tokenOk)
      PROVE  Permits'
  BY <1>2, QuietPermits DEF LoginFresh, Arrive, registryVars, Permits, Busy, TypeOK
<1>3. ASSUME NEW r \in Conn, NEW q \in Session, NEW i \in Ident, LoginFindsExpired(r, q, i)
      PROVE  Permits'
  BY <1>3, DropPermits DEF LoginFindsExpired, Arrive, Permits, Busy, TypeOK
<1>4. ASSUME NEW r \in Conn, NEW q \in Session, NEW i \in Ident, LoginTakes(r, q, i)
      PROVE  Permits'
  <2>1. /\ r \notin slots /\ free' = free /\ slots' = MoveSlot(q, r, slots)
    BY <1>4 DEF LoginTakes, Arrive, Permits, Busy
  <2>2. free' + Cardinality(slots') = MaxClients
    BY <2>1, SlotsFinite, MoveBalance DEF Permits
  <2>3. /\ \A t \in Conn : phase'[t] = IF t = r THEN "taken" ELSE phase[t]
        /\ \A t \in Conn : t # r => serves'[t] = serves[t]
        /\ \A s \in Session : s # q => waiting'[s] = waiting[s]
    BY <1>4 DEF LoginTakes, Arrive, TypeOK
  <2>4. /\ \A t \in Conn : t \in slots' => t = r \/ t \in slots
        /\ \A s \in Session : s \in slots' => s \in slots /\ s # q
    BY <2>1, SessionsAssumption DEF MoveSlot, Permits, LoginTakes
  <2>. QED BY <2>2, <2>3, <2>4 DEF Permits, Busy
<1>5. ASSUME NEW r \in Conn, Reattach(r) PROVE Permits'
  BY <1>5, QuietPermits DEF Reattach, Permits, Busy, TypeOK, Homes, CarriedApart
<1>6. ASSUME NEW r \in Conn, Insert(r) PROVE Permits'
  <2>1. r \notin slots
    BY <1>6 DEF Insert, Permits
  <2>2. Cardinality(slots') = Cardinality(slots) + 1 /\ free' = free - 1
    BY <1>6, <2>1, SlotsFinite, FS_AddElement DEF Insert
  <2>3. free' + Cardinality(slots') = MaxClients
    BY <2>2, SlotsFinite DEF Permits, TypeOK
  <2>. QED BY <1>6, <2>3, SessionsAssumption DEF Insert, Permits, Busy, TypeOK
<1>7. ASSUME NEW r \in Conn, InsertRejected(r) PROVE Permits'
  BY <1>7, QuietPermits DEF InsertRejected, registryVars, Permits, Busy, TypeOK
<1>8. ASSUME NEW r \in Conn, SetupFail(r) PROVE Permits'
  BY <1>8, DropPermits DEF SetupFail, Permits, Busy, TypeOK
<1>9. ASSUME NEW r \in Conn, GuardDrop(r) PROVE Permits'
  BY <1>9, DropPermits DEF GuardDrop, Permits, Busy, TypeOK
<1>10. ASSUME NEW r \in Conn, PutBack(r) PROVE Permits'
  BY <1>10, SuspendPermits DEF PutBack, TypeOK
<1>11. ASSUME NEW r \in Conn, SuspendDetached(r) PROVE Permits'
  BY <1>11, SuspendPermits DEF SuspendDetached, TypeOK
<1>12. ASSUME NEW r \in Conn, EnterResumed(r) \/ BindOk(r) \/ BindFail(r) \/ Detach(r)
                              \/ PassiveEnd(r) \/ StopNoticed(r)
       PROVE  Permits'
  <2>1. /\ UNCHANGED <<serves, slots, free, waiting>>
        /\ Busy(r)
        /\ phase' \in {[phase EXCEPT ![r] = x] : x \in {"loop", "leaving", "detached"}}
    BY <1>12 DEF EnterResumed, BindOk, BindFail, Detach, PassiveEnd, StopNoticed, registryVars, Busy
  <2>. QED BY <2>1, QuietPermits DEF Permits, Busy, TypeOK
<1>13. ASSUME NEW r \in Conn, Messages(r) PROVE Permits'
  <2>1. PICK p \in Proxy : \/ NewProxyRoute(r, p) \/ NewProxyPort(r, p)
                          \/ CloseByName(r, p) \/ CloseProxy(r, p) \/ PanelRemove(r, p)
    BY <1>13 DEF Messages
  <2>2. /\ UNCHANGED <<serves, slots, free, waiting>>
        /\ \/ phase' = phase
           \/ phase[r] = "loop" /\ phase' = [phase EXCEPT ![r] = "binding"]
    BY <2>1 DEF NewProxyRoute, NewProxyPort, Claim, CloseByName, CloseProxy, PanelRemove,
                taskVars, registryVars
  <2>. QED BY <2>2, QuietPermits DEF Permits, Busy, TypeOK
<1>14. ASSUME NEW r \in Conn, Kick(r) PROVE Permits'
  BY <1>14, QuietPermits DEF Kick, taskVars, Permits, Busy
<1>15. ASSUME NEW s \in Session, Expire(s) PROVE Permits'
  BY <1>15, QuietPermits DEF Expire, taskVars, Permits, Busy
<1>16. CASE SweepTick
  <2>1. DropSlots(Swept) /\ UNCHANGED <<phase, serves>>
        /\ \A s \in Session : s \notin Swept => waiting'[s] = waiting[s]
    BY <1>16 DEF SweepTick, SweepSuspended, taskVars
  <2>. QED BY <2>1, DropPermits DEF Permits, Busy
<1>. QED
  BY <1>1, <1>2, <1>3, <1>4, <1>5, <1>6, <1>7, <1>8, <1>9, <1>10, <1>11, <1>12, <1>13,
     <1>14, <1>15, <1>16 DEF Next, Login, Progress, Leave, FailEnd

-----------------------------------------------------------------------------
(* Types *)

\* What cleanup_client writes has its type.
LEMMA CleanupTypes ==
  ASSUME TypeOK, NEW C \in SUBSET Conn, Cleanup(C)
  PROVE  /\ stopped' \in SUBSET Conn
         /\ proxies' \in [Conn -> SUBSET Proxy]
         /\ owner'   \in [Proxy -> Conn \cup {None}]
         /\ socket'  \in [Proxy -> {"closed", "held", "leaked"}]
BY DEF TypeOK, Cleanup

\* What Registry::remove writes has its type.
LEMMA RemoveTypes ==
  ASSUME TypeOK, NEW r \in Conn, Remove(r)
  PROVE  /\ stopped' \in SUBSET Conn
         /\ proxies' \in [Conn -> SUBSET Proxy]
         /\ owner'   \in [Proxy -> Conn \cup {None}]
         /\ socket'  \in [Proxy -> {"closed", "held", "leaked"}]
         /\ clients' \in [Conn -> Conn \cup {None}]
         /\ active'  \in Int
<1>1. CASE clients[r] = None
  BY <1>1 DEF Remove, NoCleanup, claimVars, TypeOK
<1>2. CASE clients[r] # None
  <2>1. clients[r] \in Conn /\ Cleanup({clients[r]})
    BY <1>2 DEF Remove, TypeOK
  <2>2. clients' = [clients EXCEPT ![r] = None] /\ active' = active - 1
    BY <1>2 DEF Remove
  <2>. QED BY <2>1, <2>2, CleanupTypes DEF TypeOK
<1>. QED BY <1>1, <1>2

\* No permit is made up: free never exceeds max_clients.
LEMMA FreeBound ==
  ASSUME Permits', slots' \in SUBSET (Conn \cup Session), free' \in Nat
  PROVE  free' \in 0 .. MaxClients
<1>1. IsFiniteSet(slots')
  BY FS_Union, FS_Subset, SessionsAssumption
<1>2. Cardinality(slots') \in Nat
  BY <1>1, FS_CardinalityType
<1>. QED BY <1>2, SessionsAssumption DEF Permits

\* Dropped guards leave a type-correct count.
LEMMA DropTypes ==
  ASSUME TypeOK, NEW H, DropSlots(H)
  PROVE  slots' \in SUBSET (Conn \cup Session) /\ free' \in Nat
<1>1. Cardinality(slots \cap H) \in Nat
  BY SlotsFinite, FS_Intersection, FS_CardinalityType
<1>. QED BY <1>1, SessionsAssumption DEF DropSlots, TypeOK

\* What suspend writes has its type.
LEMMA SuspendTypes ==
  ASSUME TypeOK, NEW r \in Conn, NEW q \in Session, NEW c \in Conn, Suspend(r, q, c)
  PROVE  /\ stopped' \in SUBSET Conn
         /\ proxies' \in [Conn -> SUBSET Proxy]
         /\ owner'   \in [Proxy -> Conn \cup {None}]
         /\ socket'  \in [Proxy -> {"closed", "held", "leaked"}]
         /\ waiting' \in [Session -> Conn \cup {None}]
         /\ expired' \in SUBSET Session
         /\ slots'   \in SUBSET (Conn \cup Session)
         /\ free'    \in Nat
<1>. DEFINE kept  == [x \in Session |-> IF x \in Swept THEN None ELSE waiting[x]]
            swept == {waiting[x] : x \in Swept}
<1>1. /\ kept \in [Session -> Conn \cup {None}]
      /\ swept \in SUBSET Conn
      /\ swept \cup {c} \in SUBSET Conn
  BY DEF Swept, TypeOK
<1>2. CASE kept[q] \notin {None, c}
  <2>1. /\ waiting' = kept /\ Cleanup(swept \cup {c})
        /\ DropSlots(Swept \cup {r}) /\ expired' = {}
    BY <1>2 DEF Suspend
  <2>. QED BY <1>1, <2>1, CleanupTypes, DropTypes
<1>3. CASE kept[q] \in {None, c}
  <2>1. /\ waiting' = [kept EXCEPT ![q] = c] /\ Cleanup(swept) /\ expired' = {}
        /\ slots' = MoveSlot(r, q, slots \ Swept)
        /\ free'  = free + Cardinality(slots \cap Swept)
    BY <1>3 DEF Suspend
  <2>2. Cardinality(slots \cap Swept) \in Nat
    BY SlotsFinite, FS_Intersection, FS_CardinalityType
  <2>3. slots' \in SUBSET (Conn \cup Session) /\ free' \in Nat
    BY <2>1, <2>2, SessionsAssumption DEF MoveSlot, TypeOK
  <2>. HIDE DEF kept, swept
  <2>. QED BY <1>1, <2>1, <2>3, CleanupTypes
<1>. QED BY <1>2, <1>3

\* Every step keeps the types.
LEMMA TypeStep ==
  ASSUME TypeOK, Homes, BindingProxy, Permits', [Next]_vars
  PROVE  TypeOK'
<1>1. CASE UNCHANGED vars
  BY <1>1 DEF vars, taskVars, stateVars, registryVars, claimVars, TypeOK
<1>2. ASSUME NEW r \in Conn, NEW q \in Session, NEW i \in Ident,
             NEW wants \in BOOLEAN, NEW tokenOk \in BOOLEAN, LoginFresh(r, q, i, wants, tokenOk)
      PROVE  TypeOK'
  BY <1>2 DEF LoginFresh, Arrive, stateVars, registryVars, claimVars, TypeOK, Phases
<1>3. ASSUME NEW r \in Conn, NEW q \in Session, NEW i \in Ident, LoginFindsExpired(r, q, i)
      PROVE  TypeOK'
  <2>1. waiting[q] \in Conn /\ Cleanup({waiting[q]}) /\ DropSlots({q})
    BY <1>3 DEF LoginFindsExpired, TypeOK
  <2>2. free' \in 0 .. MaxClients /\ slots' \in SUBSET (Conn \cup Session)
    BY <2>1, DropTypes, FreeBound
  <2>. QED BY <1>3, <2>1, <2>2, CleanupTypes DEF LoginFindsExpired, Arrive, TypeOK, Phases
<1>4. ASSUME NEW r \in Conn, NEW q \in Session, NEW i \in Ident, LoginTakes(r, q, i)
      PROVE  TypeOK'
  BY <1>4 DEF LoginTakes, Arrive, MoveSlot, stateVars, claimVars, TypeOK, Phases
<1>5. ASSUME NEW r \in Conn, Reattach(r) PROVE TypeOK'
  BY <1>5 DEF Reattach, NoCleanup, claimVars, TypeOK, Phases, Homes, TaskHasSession, Busy
<1>6. ASSUME NEW r \in Conn, Insert(r) PROVE TypeOK'
  BY <1>6, SessionsAssumption DEF Insert, NoCleanup, claimVars, TypeOK, Phases
<1>7. ASSUME NEW r \in Conn, InsertRejected(r) \/ EnterResumed(r) \/ PassiveEnd(r) \/ StopNoticed(r)
      PROVE  TypeOK'
  BY <1>7 DEF InsertRejected, EnterResumed, PassiveEnd, StopNoticed,
              stateVars, registryVars, claimVars, TypeOK, Phases
<1>8. ASSUME NEW r \in Conn, SetupFail(r) PROVE TypeOK'
  <2>1. free' \in 0 .. MaxClients /\ slots' \in SUBSET (Conn \cup Session)
    BY <1>8, DropTypes, FreeBound DEF SetupFail
  <2>. QED BY <1>8, <2>1 DEF SetupFail, stateVars, claimVars, TypeOK, Phases
<1>9. ASSUME NEW r \in Conn, GuardDrop(r) PROVE TypeOK'
  <2>1. free' \in 0 .. MaxClients /\ slots' \in SUBSET (Conn \cup Session)
    BY <1>9, DropTypes, FreeBound DEF GuardDrop
  <2>. QED BY <1>9, <2>1, RemoveTypes DEF GuardDrop, TypeOK, Phases
<1>10. ASSUME NEW r \in Conn, PutBack(r) \/ SuspendDetached(r) PROVE TypeOK'
  <2>1. /\ sess[r] \in Session /\ serves[r] \in Conn /\ Suspend(r, sess[r], serves[r])
        /\ UNCHANGED <<sess, ident, resumable, pending, runId, clients, active>>
        /\ phase' \in [Conn -> Phases] /\ serves' \in [Conn -> Conn \cup {None}]
    BY <1>10 DEF PutBack, SuspendDetached, Homes, TaskHasSession, Busy, TypeOK, Phases
  <2>2. free' \in 0 .. MaxClients
    BY <2>1, SuspendTypes, FreeBound
  <2>. QED BY <2>1, <2>2, SuspendTypes DEF TypeOK
<1>11. ASSUME NEW r \in Conn, BindOk(r) PROVE TypeOK'
  BY <1>11 DEF BindOk, BindingProxy, registryVars, TypeOK, Phases, Homes, TaskHasSession, Busy
<1>12. ASSUME NEW r \in Conn, BindFail(r) PROVE TypeOK'
  BY <1>12 DEF BindFail, Release, stateVars, registryVars, TypeOK, Phases
<1>13. ASSUME NEW r \in Conn, Detach(r) PROVE TypeOK'
  BY <1>13 DEF Detach, NoCleanup, claimVars, TypeOK, Phases
<1>14. ASSUME NEW r \in Conn, NEW p \in Proxy, NewProxyRoute(r, p) PROVE TypeOK'
  BY <1>14 DEF NewProxyRoute, Claim, taskVars, registryVars, TypeOK, Homes, TaskHasSession, Busy
<1>15. ASSUME NEW r \in Conn, NEW p \in Proxy, NewProxyPort(r, p) PROVE TypeOK'
  BY <1>15 DEF NewProxyPort, Claim, registryVars, TypeOK, Phases, Homes, TaskHasSession, Busy
<1>16. ASSUME NEW r \in Conn, NEW p \in Proxy,
              CloseByName(r, p) \/ CloseProxy(r, p) \/ PanelRemove(r, p)
       PROVE  TypeOK'
  BY <1>16 DEF CloseByName, CloseProxy, PanelRemove, Release, taskVars, registryVars, TypeOK
<1>17. ASSUME NEW r \in Conn, Kick(r) PROVE TypeOK'
  BY <1>17, RemoveTypes DEF Kick, taskVars, TypeOK
<1>18. ASSUME NEW s \in Session, Expire(s) PROVE TypeOK'
  BY <1>18 DEF Expire, taskVars, stateVars, claimVars, TypeOK
<1>19. CASE SweepTick
  <2>1. /\ {waiting[s] : s \in Swept} \in SUBSET Conn
        /\ Cleanup({waiting[s] : s \in Swept}) /\ DropSlots(Swept)
    BY <1>19 DEF SweepTick, SweepSuspended, Swept, TypeOK
  <2>2. free' \in 0 .. MaxClients /\ slots' \in SUBSET (Conn \cup Session)
    BY <2>1, DropTypes, FreeBound
  <2>. QED BY <1>19, <2>1, <2>2, CleanupTypes DEF SweepTick, SweepSuspended, taskVars, TypeOK
<1>. QED
  BY <1>1, <1>2, <1>3, <1>4, <1>5, <1>6, <1>7, <1>8, <1>9, <1>10, <1>11, <1>12, <1>13,
     <1>14, <1>15, <1>16, <1>17, <1>18, <1>19 DEF Next, Login, Progress, Messages, Leave, FailEnd

\* Every step keeps BindingProxy: a task begins to bind only for a proxy.
LEMMA BindingStep ==
  ASSUME TypeOK, BindingProxy, [Next]_vars
  PROVE  BindingProxy'
<1>1. ASSUME NEW r \in Conn, NEW p \in Proxy, NewProxyPort(r, p) PROVE BindingProxy'
  BY <1>1 DEF NewProxyPort, BindingProxy, TypeOK
<1>2. CASE /\ \A r \in Conn : phase'[r] = "binding" => phase[r] = "binding"
           /\ \A r \in Conn : pending'[r] = pending[r] \/ phase'[r] # "binding"
  BY <1>2 DEF BindingProxy
<1>3. ASSUME NEW r \in Conn, Login(r) \/ Progress(r) PROVE BindingProxy'
  <2>1. CASE Login(r) \/ Reattach(r) \/ Insert(r) \/ InsertRejected(r)
    <3>1. /\ UNCHANGED pending
          /\ \E w \in {"setup", "taken", "loop", "done"} : phase' = [phase EXCEPT ![r] = w]
      BY <2>1 DEF Login, LoginFresh, LoginFindsExpired, LoginTakes, Reattach, Insert, InsertRejected
    <3>. QED BY <1>2, <3>1 DEF TypeOK
  <2>2. CASE ~(Login(r) \/ Reattach(r) \/ Insert(r) \/ InsertRejected(r))
    BY <1>2, <1>3, <2>2 DEF Progress, EnterResumed, BindOk, BindFail, Detach, SuspendDetached,
                            Leave, GuardDrop, TypeOK
  <2>. QED BY <2>1, <2>2
<1>4. ASSUME NEW r \in Conn, NEW p \in Proxy,
             \/ NewProxyRoute(r, p) \/ CloseByName(r, p) \/ CloseProxy(r, p) \/ PanelRemove(r, p)
      PROVE  BindingProxy'
  BY <1>2, <1>4 DEF NewProxyRoute, CloseByName, CloseProxy, PanelRemove, taskVars
<1>5. ASSUME NEW r \in Conn, \/ PutBack(r) \/ SetupFail(r) \/ StopNoticed(r)
                            \/ PassiveEnd(r) \/ FailEnd(r) \/ Kick(r)
      PROVE  BindingProxy'
  BY <1>2, <1>5 DEF PutBack, SetupFail, StopNoticed, PassiveEnd, FailEnd, GuardDrop, Kick, taskVars, TypeOK
<1>6. ASSUME NEW s \in Session, Expire(s) PROVE BindingProxy'
  BY <1>2, <1>6 DEF Expire, taskVars
<1>7. CASE SweepTick
  BY <1>2, <1>7 DEF SweepTick, taskVars
<1>8. CASE UNCHANGED vars
  BY <1>2, <1>8 DEF vars, taskVars
<1>. QED BY <1>1, <1>3, <1>4, <1>5, <1>6, <1>7, <1>8 DEF Next, Messages

-----------------------------------------------------------------------------
(* The theorems *)

\* Before the first connection every table is empty and every permit free.
LEMMA InitInv == Init => IInv
<1>1. ASSUME Init PROVE TypeOK
  BY <1>1, SessionsAssumption DEF Init, TypeOK, Phases
<1>2. ASSUME Init PROVE Homes
  BY <1>2, SessionsAssumption
  DEF Init, Homes, TaskHasSession, OneServer, OnlineServed, ParkedUnserved, CarriedApart,
      UnbornUnused, Busy, Unborn, Phases
<1>3. ASSUME Init PROVE Permits
  BY <1>3, FS_EmptySet, SessionsAssumption DEF Init, Permits
<1>4. ASSUME Init PROVE BindingProxy
  BY <1>4 DEF Init, BindingProxy
<1>. QED BY <1>1, <1>2, <1>3, <1>4 DEF IInv

\* The inductive invariant.
THEOREM Invariance == Spec => []IInv
<1>1. IInv /\ [Next]_vars => IInv'
  BY HomesStep, PermitsStep, BindingStep, TypeStep DEF IInv
<1>. QED BY InitInv, <1>1, PTL DEF Spec

\* Every variable keeps its type; in particular permits are neither lost nor
\* made up (free stays within 0 .. max_clients).
THEOREM TypeCorrect == Spec => []TypeOK
BY Invariance, PTL DEF IInv

\* A ClientState is never in two tables, in two entries of one, or in a table
\* and in the hands of a task, and a stopped one is in none (Registry).
THEOREM OneHomeHolds == Spec => []OneHome
<1>1. IInv => OneHome
  BY SessionsAssumption
  DEF IInv, Homes, OneHome, OnlineServed, ParkedUnserved, CarriedApart,
      TaskHasSession, Online, Parked, Carried, Busy, TypeOK
<1>. QED BY <1>1, Invariance, PTL

\* No two control loops run for one ClientState (handle_control).
THEOREM OneServerHolds == Spec => []OneServer
<1>1. IInv => OneServer
  BY DEF IInv, Homes
<1>. QED BY <1>1, Invariance, PTL

\* One place and one task for every ClientState, at any moment (Registry and
\* handle_control).
THEOREM SingleHolderHolds == Spec => []SingleHolder
BY OneHomeHolds, OneServerHolds, PTL DEF SingleHolder

-----------------------------------------------------------------------------
(* Online while served: a task that works for a ClientState has it online,   *)
(* unless the panel has taken it out from under the task.                    *)

Engaged(r) ==
  \/ phase[r] \in {"loop", "binding", "leaving"}
  \/ phase[r] = "setup" /\ serves[r] # r

LoopOnline ==
  \A r \in Conn : Engaged(r) => clients[r] = serves[r] \/ (Panel /\ serves[r] \in stopped)

\* stop() is for good.
LEMMA StoppedGrows == [Next]_vars => stopped \subseteq stopped'
<1>. SUFFICES ASSUME [Next]_vars PROVE stopped \subseteq stopped' OBVIOUS
<1>1. ASSUME NEW r \in Conn, Login(r) \/ Progress(r) PROVE stopped \subseteq stopped'
  BY <1>1
  DEF Login, Progress, LoginFresh, LoginFindsExpired, LoginTakes, Reattach, Insert, InsertRejected,
      EnterResumed, BindOk, BindFail, Detach, SuspendDetached, Leave, GuardDrop, Remove, Suspend,
      Cleanup, NoCleanup, stateVars
<1>2. ASSUME NEW r \in Conn, Messages(r) PROVE stopped \subseteq stopped'
  BY <1>2 DEF Messages, NewProxyRoute, NewProxyPort, CloseByName, CloseProxy, PanelRemove
<1>3. ASSUME NEW r \in Conn, \/ PutBack(r) \/ SetupFail(r) \/ StopNoticed(r)
                            \/ PassiveEnd(r) \/ FailEnd(r) \/ Kick(r)
      PROVE  stopped \subseteq stopped'
  BY <1>3 DEF PutBack, SetupFail, StopNoticed, PassiveEnd, FailEnd, Kick, GuardDrop, Remove,
              Suspend, Cleanup, NoCleanup, stateVars
<1>4. ASSUME NEW s \in Session, Expire(s) PROVE stopped \subseteq stopped'
  BY <1>4 DEF Expire, stateVars
<1>5. CASE SweepTick
  BY <1>5 DEF SweepTick, SweepSuspended, Cleanup
<1>6. CASE UNCHANGED vars
  BY <1>6 DEF vars, stateVars
<1>. QED BY <1>1, <1>2, <1>3, <1>4, <1>5, <1>6 DEF Next

\* One task moves, the others stay.
LEMMA EngagedFrame ==
  ASSUME LoopOnline, stopped \subseteq stopped', NEW r \in Conn,
         \A t \in Conn \ {r} : /\ phase'[t] = phase[t] /\ serves'[t] = serves[t]
                               /\ clients'[t] = clients[t],
         Engaged(r)' => clients'[r] = serves'[r] \/ (Panel /\ serves'[r] \in stopped')
  PROVE  LoopOnline'
BY DEF LoopOnline, Engaged

\* Every step keeps LoopOnline: reattach and insert make it true, and a task
\* that loses its entry leaves or was kicked.
LEMMA LoopOnlineStep ==
  ASSUME TypeOK, Homes, LoopOnline, [Next]_vars
  PROVE  LoopOnline'
<1>0. stopped \subseteq stopped'
  BY StoppedGrows
<1>1. ASSUME NEW r \in Conn, Login(r) PROVE LoopOnline'
  <2>1. /\ \A t \in Conn \ {r} : phase'[t] = phase[t] /\ serves'[t] = serves[t]
        /\ clients' = clients
        /\ phase'[r] = "taken" \/ (phase'[r] = "setup" /\ serves'[r] = r)
    BY <1>1 DEF Login, LoginFresh, LoginFindsExpired, LoginTakes, Arrive, registryVars, TypeOK
  <2>. QED BY <1>0, <2>1, EngagedFrame DEF Engaged
<1>2. ASSUME NEW r \in Conn, Reattach(r) \/ Insert(r) PROVE LoopOnline'
  <2>1. /\ \A t \in Conn \ {r} : /\ phase'[t] = phase[t] /\ serves'[t] = serves[t]
                                 /\ clients'[t] = clients[t]
        /\ clients'[r] = serves'[r]
    BY <1>2 DEF Reattach, Insert, TypeOK
  <2>. QED BY <1>0, <2>1, EngagedFrame
<1>3. ASSUME NEW r \in Conn, \/ InsertRejected(r) \/ SetupFail(r) \/ Detach(r) \/ SuspendDetached(r)
                            \/ PutBack(r) \/ GuardDrop(r)
      PROVE  LoopOnline'
  <2>1. /\ \A t \in Conn \ {r} : /\ phase'[t] = phase[t] /\ serves'[t] = serves[t]
                                 /\ clients'[t] = clients[t]
        /\ phase'[r] \in {"done", "detached"} \/ (phase'[r] = "setup" /\ serves'[r] = r)
    BY <1>3 DEF InsertRejected, SetupFail, Detach, SuspendDetached, PutBack, GuardDrop, Remove,
                registryVars, TypeOK
  <2>. QED BY <1>0, <2>1, EngagedFrame DEF Engaged
<1>4. ASSUME NEW r \in Conn, \/ EnterResumed(r) \/ BindOk(r) \/ BindFail(r) \/ PassiveEnd(r)
                            \/ StopNoticed(r) \/ Messages(r)
      PROVE  LoopOnline'
  <2>1. /\ \A t \in Conn \ {r} : phase'[t] = phase[t]
        /\ phase'[r] = phase[r] \/ Engaged(r)
        /\ UNCHANGED <<serves, clients, stopped>>
    BY <1>4 DEF EnterResumed, BindOk, BindFail, PassiveEnd, StopNoticed, Messages, NewProxyRoute,
                NewProxyPort, CloseByName, CloseProxy, PanelRemove, Claim, Engaged, taskVars,
                stateVars, registryVars, TypeOK
  <2>2. Engaged(r)' => Engaged(r)
    BY <2>1 DEF Engaged
  <2>. QED BY <1>0, <2>1, <2>2, EngagedFrame DEF LoopOnline
<1>5. ASSUME NEW r \in Conn, Kick(r) PROVE LoopOnline'
  <2>1. /\ Panel /\ clients[r] # None /\ clients[r] = serves[r]
        /\ \A t \in Conn \ {r} : clients'[t] = clients[t]
        /\ stopped' = stopped \cup {clients[r]} /\ UNCHANGED <<phase, serves>>
    BY <1>5 DEF Kick, Remove, Cleanup, taskVars, TypeOK, Homes, OnlineServed
  <2>. QED BY <2>1, EngagedFrame
<1>6. ASSUME UNCHANGED <<phase, serves, clients>> PROVE LoopOnline'
  BY <1>0, <1>6 DEF LoopOnline, Engaged
<1>7. ASSUME NEW s \in Session, Expire(s) PROVE LoopOnline'
  BY <1>6, <1>7 DEF Expire, taskVars
<1>8. CASE SweepTick
  BY <1>6, <1>8 DEF SweepTick, taskVars
<1>9. CASE UNCHANGED vars
  BY <1>6, <1>9 DEF vars, taskVars, registryVars
<1>. QED
  BY <1>1, <1>2, <1>3, <1>4, <1>5, <1>7, <1>8, <1>9 DEF Next, Progress, Leave, FailEnd

\* A ClientState is online while its task works for it, or was kicked.
THEOREM LoopOnlineHolds == Spec => []LoopOnline
<1>1. Init => LoopOnline
  BY DEF Init, LoopOnline, Engaged
<1>2. IInv /\ LoopOnline /\ [Next]_vars => LoopOnline'
  BY LoopOnlineStep DEF IInv
<1>. QED BY <1>1, <1>2, Invariance, PTL DEF Spec

-----------------------------------------------------------------------------
(* Public claims, step by step *)

\* What a step does to the claim of one proxy: nothing, or it ends with its
\* client, or a task releases it for its own client, or the panel does, or a task
\* claims what nobody held.
Ended(p)    == owner[p] \in stopped' /\ owner'[p] = None
Released(p) == /\ owner'[p] = None /\ UNCHANGED <<stopped, clients, waiting, serves>>
               /\ \/ \E t \in Conn : /\ phase[t] \in {"loop", "binding"} /\ serves[t] = owner[p]
                                     /\ phase'[t] = "loop"
                  \/ Panel /\ owner[p] \in Online
Claimed(p)  == /\ owner[p] = None /\ UNCHANGED <<stopped, clients, waiting, serves>>
               /\ \E t \in Conn : phase[t] = "loop" /\ owner'[p] = serves[t]

\* cleanup_client takes a claim only from those it stops.
LEMMA CleanupClaims ==
  ASSUME TypeOK, NEW p \in Proxy,
         (\E C : Cleanup(C)) \/ NoCleanup \/ UNCHANGED claimVars
  PROVE  owner'[p] = owner[p] \/ Ended(p)
BY DEF Cleanup, NoCleanup, claimVars, Ended, TypeOK

\* remove cleans up the one it takes out, or nothing.
LEMMA RemoveClaims ==
  ASSUME TypeOK, NEW p \in Proxy, NEW r \in Conn, Remove(r)
  PROVE  owner'[p] = owner[p] \/ Ended(p)
BY CleanupClaims DEF Remove

\* suspend cleans up what it swept, and the newcomer if it finds no place.
LEMMA SuspendClaims ==
  ASSUME TypeOK, NEW p \in Proxy, NEW r, NEW s, NEW c, Suspend(r, s, c)
  PROVE  owner'[p] = owner[p] \/ Ended(p)
<1>1. \E C : Cleanup(C)
  BY DEF Suspend
<1>. QED BY <1>1, CleanupClaims

\* release_port, visitors.remove and remove_proxy take a claim only from its owner.
LEMMA ReleaseClaims ==
  ASSUME TypeOK, NEW p \in Proxy, NEW q, NEW c, Release(q, c)
  PROVE  owner'[p] = owner[p] \/ (owner[p] = c /\ owner'[p] = None)
BY DEF Release, TypeOK

\* Nothing else happens to a claim.
LEMMA ClaimStep ==
  ASSUME TypeOK, Homes, [Next]_vars, NEW p \in Proxy
  PROVE  owner'[p] = owner[p] \/ Ended(p) \/ Released(p) \/ Claimed(p)
<1>1. ASSUME NEW r \in Conn, Login(r) PROVE owner'[p] = owner[p] \/ Ended(p)
  BY <1>1, CleanupClaims DEF Login, LoginFresh, LoginFindsExpired, LoginTakes
<1>2. ASSUME NEW r \in Conn, \/ Reattach(r) \/ Insert(r) \/ InsertRejected(r) \/ SetupFail(r)
                            \/ EnterResumed(r) \/ Detach(r) \/ PassiveEnd(r) \/ StopNoticed(r)
      PROVE  owner'[p] = owner[p] \/ Ended(p)
  BY <1>2, CleanupClaims DEF Reattach, Insert, InsertRejected, SetupFail, EnterResumed, Detach,
                             PassiveEnd, StopNoticed
<1>3. ASSUME NEW r \in Conn, PutBack(r) \/ SuspendDetached(r) PROVE owner'[p] = owner[p] \/ Ended(p)
  BY <1>3, SuspendClaims DEF PutBack, SuspendDetached
<1>4. ASSUME NEW r \in Conn, GuardDrop(r) \/ Kick(r) PROVE owner'[p] = owner[p] \/ Ended(p)
  BY <1>4, RemoveClaims DEF GuardDrop, Kick
<1>5. CASE SweepTick
  BY <1>5, CleanupClaims DEF SweepTick, SweepSuspended
<1>6. ASSUME NEW s \in Session, Expire(s) PROVE owner'[p] = owner[p] \/ Ended(p)
  BY <1>6, CleanupClaims DEF Expire
<1>7. CASE UNCHANGED vars
  BY <1>7 DEF vars, claimVars
<1>8. ASSUME NEW r \in Conn, BindOk(r) PROVE owner'[p] = owner[p]
  BY <1>8 DEF BindOk
<1>9. ASSUME NEW r \in Conn, BindFail(r) PROVE owner'[p] = owner[p] \/ Released(p)
  <2>1. Release(pending[r], serves[r]) /\ phase[r] = "binding" /\ phase'[r] = "loop"
    BY <1>9 DEF BindFail, TypeOK
  <2>. QED BY <1>9, <2>1, ReleaseClaims DEF BindFail, Released, stateVars, registryVars
<1>10. ASSUME NEW r \in Conn, NEW q \in Proxy, CloseByName(r, q) \/ CloseProxy(r, q)
       PROVE  owner'[p] = owner[p] \/ Released(p)
  <2>1. Release(q, serves[r]) /\ phase[r] = "loop" /\ phase'[r] = "loop"
    BY <1>10 DEF CloseByName, CloseProxy, taskVars
  <2>. QED BY <1>10, <2>1, ReleaseClaims DEF CloseByName, CloseProxy, Released, taskVars, registryVars
<1>11. ASSUME NEW r \in Conn, NEW q \in Proxy, PanelRemove(r, q)
       PROVE  owner'[p] = owner[p] \/ Released(p)
  <2>1. Panel /\ clients[r] # None /\ Release(q, clients[r])
    BY <1>11 DEF PanelRemove
  <2>2. clients[r] \in Online
    BY <2>1 DEF Online, TypeOK
  <2>. QED BY <1>11, <2>1, <2>2, ReleaseClaims DEF PanelRemove, Released, taskVars, registryVars
<1>12. ASSUME NEW r \in Conn, NEW q \in Proxy, NewProxyRoute(r, q) \/ NewProxyPort(r, q)
       PROVE  owner'[p] = owner[p] \/ Claimed(p)
  <2>1. /\ phase[r] = "loop" /\ owner[q] \in {None, serves[r]}
        /\ owner' = [owner EXCEPT ![q] = serves[r]]
        /\ UNCHANGED <<stopped, clients, waiting, serves>>
    BY <1>12 DEF NewProxyRoute, NewProxyPort, Claim, taskVars, registryVars
  <2>. QED BY <2>1 DEF Claimed, TypeOK
<1>. QED
  BY <1>1, <1>2, <1>3, <1>4, <1>5, <1>6, <1>7, <1>8, <1>9, <1>10, <1>11, <1>12
  DEF Next, Progress, Messages, Leave, FailEnd

\* A task that may register or close works for an online client or a kicked one.
LEMMA TaskOnline ==
  ASSUME TypeOK, Homes, LoopOnline, NEW t \in Conn, phase[t] \in {"loop", "binding"}
  PROVE  serves[t] \in Conn /\ (serves[t] \in Online \/ (Panel /\ serves[t] \in stopped))
BY DEF Homes, TaskHasSession, Busy, LoopOnline, Engaged, Online

-----------------------------------------------------------------------------
(* Parked sessions, step by step *)

\* suspend displaces nobody but what has expired.
LEMMA SuspendParked ==
  ASSUME TypeOK, NEW r, NEW q \in Session, NEW c, Suspend(r, q, c),
         NEW s \in Session, waiting[s] # None, waiting'[s] # waiting[s]
  PROVE  s \in expired /\ waiting[s] \in stopped'
<1>. DEFINE kept  == [x \in Session |-> IF x \in Swept THEN None ELSE waiting[x]]
            swept == {waiting[x] : x \in Swept}
<1>1. CASE s \in Swept
  <2>1. swept \subseteq stopped'
    BY DEF Suspend, Cleanup
  <2>. QED BY <1>1, <2>1 DEF Swept
<1>2. CASE s \notin Swept
  <2>1. kept[s] = waiting[s]
    BY <1>2
  <2>2. CASE kept[q] \notin {None, c}
    BY <2>1, <2>2 DEF Suspend
  <2>3. CASE kept[q] \in {None, c}
    <3>1. waiting' = [kept EXCEPT ![q] = c]
      BY <2>3 DEF Suspend
    <3>. HIDE DEF kept
    <3>2. kept = [x \in Session |-> kept[x]]
      BY DEF kept
    <3>3. s = q /\ waiting'[s] = c /\ kept[q] = None
      BY <2>1, <2>3, <3>1, <3>2
    <3>. QED BY <2>1, <3>3
  <2>. QED BY <2>2, <2>3
<1>. QED BY <1>1, <1>2

\* A parked session expires or goes to a login of its own identity.
LEMMA ParkedStep ==
  ASSUME TypeOK, Homes, [Next]_vars,
         NEW s \in Session, waiting[s] # None, waiting'[s] # waiting[s]
  PROVE  \/ s \in expired /\ waiting[s] \in stopped'
         \/ \E r \in Conn : /\ phase[r] = "new" /\ phase'[r] = "taken"
                            /\ serves'[r] = waiting[s] /\ ident'[r] = ident[waiting[s]]
<1>. DEFINE Goal == \/ s \in expired /\ waiting[s] \in stopped'
                    \/ \E r \in Conn : /\ phase[r] = "new" /\ phase'[r] = "taken"
                                       /\ serves'[r] = waiting[s] /\ ident'[r] = ident[waiting[s]]
<1>1. ASSUME NEW r \in Conn, NEW q \in Session, NEW i \in Ident, LoginTakes(r, q, i) PROVE Goal
  <2>1. /\ s = q /\ phase[r] = "new" /\ phase'[r] = "taken" /\ serves'[r] = waiting[s]
        /\ ident'[r] = i /\ ident[waiting[s]] = i
    BY <1>1 DEF LoginTakes, Arrive, TypeOK
  <2>. QED BY <2>1
<1>2. ASSUME NEW r \in Conn, NEW q \in Session, NEW i \in Ident, LoginFindsExpired(r, q, i) PROVE Goal
  BY <1>2 DEF LoginFindsExpired, Cleanup, TypeOK
<1>3. ASSUME NEW r \in Conn, PutBack(r) \/ SuspendDetached(r) PROVE Goal
  <2>1. Suspend(r, sess[r], serves[r]) /\ sess[r] \in Session
    BY <1>3 DEF PutBack, SuspendDetached, Homes, TaskHasSession, Busy
  <2>. QED BY <2>1, SuspendParked
<1>4. CASE SweepTick
  <2>1. s \in Swept /\ {waiting[x] : x \in Swept} \subseteq stopped'
    BY <1>4 DEF SweepTick, SweepSuspended, Cleanup
  <2>. QED BY <2>1 DEF Swept
<1>5. ASSUME UNCHANGED waiting PROVE FALSE
  BY <1>5
<1>6. ASSUME NEW r \in Conn, \/ Reattach(r) \/ Insert(r) \/ InsertRejected(r) \/ EnterResumed(r)
                            \/ BindOk(r) \/ BindFail(r) \/ Detach(r) \/ GuardDrop(r) \/ Messages(r)
                            \/ SetupFail(r) \/ StopNoticed(r) \/ PassiveEnd(r) \/ Kick(r)
      PROVE  FALSE
  BY <1>5, <1>6
  DEF Reattach, Insert, InsertRejected, EnterResumed, BindOk, BindFail, Detach, GuardDrop, Messages,
      NewProxyRoute, NewProxyPort, CloseByName, CloseProxy, PanelRemove, SetupFail, StopNoticed,
      PassiveEnd, Kick, registryVars
<1>7. ASSUME NEW r \in Conn, NEW q \in Session, NEW i \in Ident, NEW wants \in BOOLEAN,
             NEW tokenOk \in BOOLEAN, LoginFresh(r, q, i, wants, tokenOk) PROVE FALSE
  BY <1>5, <1>7 DEF LoginFresh, registryVars
<1>8. ASSUME NEW q \in Session, Expire(q) PROVE FALSE
  BY <1>5, <1>8 DEF Expire
<1>9. CASE UNCHANGED vars
  BY <1>5, <1>9 DEF vars, registryVars
<1>. QED
  BY <1>1, <1>2, <1>3, <1>4, <1>6, <1>7, <1>8, <1>9 DEF Next, Login, Progress, Leave, FailEnd

\* What is parked is kept for its owner, the panel's kicks and failing writes
\* included: claims change hands only through None and are given up only while
\* their client is online or because it was stopped, and a parked session goes to
\* its own identity or expires (Registry::suspend, take_suspended_if, release_port).
THEOREM ParkedKeptHolds == Spec => ParkedKept
<1>1. ASSUME IInv, LoopOnline, [Next]_vars
      PROVE  [\A p \in Proxy : owner[p] # None /\ owner'[p] # owner[p] =>
                /\ owner'[p] = None
                /\ owner[p] \in stopped' \cup Online]_vars
  <2>. SUFFICES ASSUME NEW p \in Proxy, owner[p] # None, owner'[p] # owner[p]
                PROVE  owner'[p] = None /\ owner[p] \in stopped' \cup Online
    OBVIOUS
  <2>1. Ended(p) \/ Released(p)
    BY <1>1, ClaimStep DEF IInv, Claimed
  <2>2. CASE Ended(p)
    BY <2>2 DEF Ended
  <2>3. CASE Released(p)
    BY <1>1, <2>3, TaskOnline, StoppedGrows DEF Released, IInv
  <2>. QED BY <2>1, <2>2, <2>3
<1>2. ASSUME IInv, LoopOnline, [Next]_vars
      PROVE  [\A s \in Session : waiting[s] # None /\ waiting'[s] # waiting[s] =>
                \/ s \in expired /\ waiting[s] \in stopped'
                \/ \E r \in Conn : /\ phase[r] = "new" /\ phase'[r] = "taken"
                                    /\ serves'[r] = waiting[s]
                                    /\ ident'[r] = ident[waiting[s]]]_vars
  BY <1>2, ParkedStep DEF IInv
<1>. QED
  BY <1>1, <1>2, Invariance, LoopOnlineHolds, PTL
  DEF Spec, ParkedKept, ClaimsOutliveConnections, ParkedLeavesToItsOwner

-----------------------------------------------------------------------------
(* The gauge of online clients *)

Entries == {r \in Conn : clients[r] # None}

\* insert and reattach add one entry and count it, detach and remove take one
\* out and count it, and nobody else touches either (registry.rs).
LEMMA GaugeStep ==
  ASSUME TypeOK, Homes, [Next]_vars, active = Cardinality(Entries)
  PROVE  active' = Cardinality(Entries')
<1>1. IsFiniteSet(Entries) /\ Cardinality(Entries) \in Nat
  BY SessionsAssumption, FS_Subset, FS_CardinalityType DEF Entries
<1>2. ASSUME NEW r \in Conn, NEW c \in Conn, clients[r] = None, active' = active + 1,
             clients' = [clients EXCEPT ![r] = c]
      PROVE  active' = Cardinality(Entries')
  <2>1. r \notin Entries /\ Entries' = Entries \cup {r}
    BY <1>2, SessionsAssumption DEF Entries, TypeOK
  <2>. QED BY <1>1, <1>2, <2>1, FS_AddElement
<1>3. ASSUME NEW r \in Conn, clients[r] # None, active' = active - 1,
             clients' = [clients EXCEPT ![r] = None]
      PROVE  active' = Cardinality(Entries')
  <2>1. r \in Entries /\ Entries' = Entries \ {r}
    BY <1>3 DEF Entries, TypeOK
  <2>. QED BY <1>1, <1>3, <2>1, FS_RemoveElement
<1>4. ASSUME UNCHANGED <<clients, active>> PROVE active' = Cardinality(Entries')
  BY <1>4 DEF Entries
<1>5. ASSUME NEW r \in Conn, Reattach(r) \/ Insert(r) PROVE active' = Cardinality(Entries')
  <2>1. clients[r] = None /\ serves[r] \in Conn
    BY <1>5 DEF Reattach, Insert, Homes, CarriedApart, UnbornUnused, Unborn, TaskHasSession, Busy
  <2>. QED BY <1>2, <1>5, <2>1 DEF Reattach, Insert
<1>6. ASSUME NEW r \in Conn, Detach(r) PROVE active' = Cardinality(Entries')
  BY <1>3, <1>6 DEF Detach
<1>7. ASSUME NEW r \in Conn, Remove(r) PROVE active' = Cardinality(Entries')
  BY <1>3, <1>4, <1>7 DEF Remove
<1>8. ASSUME NEW r \in Conn, \/ Login(r) \/ InsertRejected(r) \/ EnterResumed(r) \/ BindOk(r)
                            \/ BindFail(r) \/ SuspendDetached(r) \/ PutBack(r) \/ SetupFail(r)
      PROVE  active' = Cardinality(Entries')
  BY <1>4, <1>8
  DEF Login, LoginFresh, LoginFindsExpired, LoginTakes, InsertRejected, EnterResumed, BindOk,
      BindFail, SuspendDetached, PutBack, SetupFail, registryVars
<1>9. ASSUME NEW r \in Conn, Messages(r) \/ StopNoticed(r) \/ PassiveEnd(r)
      PROVE  active' = Cardinality(Entries')
  BY <1>4, <1>9
  DEF Messages, NewProxyRoute, NewProxyPort, CloseByName, CloseProxy, PanelRemove, StopNoticed,
      PassiveEnd, registryVars
<1>10. ASSUME NEW s \in Session, Expire(s) PROVE active' = Cardinality(Entries')
  BY <1>4, <1>10 DEF Expire
<1>11. CASE SweepTick
  BY <1>4, <1>11 DEF SweepTick
<1>12. CASE UNCHANGED vars
  BY <1>4, <1>12 DEF vars, registryVars
<1>. QED
  BY <1>5, <1>6, <1>7, <1>8, <1>9, <1>10, <1>11, <1>12
  DEF Next, Progress, Leave, FailEnd, Kick, GuardDrop

\* clients_active never drifts from the online table, kicks and failing writes
\* included: no interleaving of detach, reattach and remove counts an entry twice
\* or forgets one (metrics.rs, Registry).
THEOREM GaugeExact == Spec => []ActiveGaugeExact
<1>1. Init => ActiveGaugeExact
  <2>. SUFFICES ASSUME Init PROVE ActiveGaugeExact OBVIOUS
  <2>1. {r \in Conn : clients[r] # None} = {}
    BY DEF Init
  <2>. QED BY <2>1, FS_EmptySet DEF Init, ActiveGaugeExact
<1>2. IInv /\ ActiveGaugeExact /\ [Next]_vars => ActiveGaugeExact'
  BY GaugeStep DEF IInv, ActiveGaugeExact, Entries
<1>. QED BY <1>1, <1>2, Invariance, PTL DEF Spec

-----------------------------------------------------------------------------
(* Sessions, step by step: every step moves at most one session, or ends some *)

Away == Parked \cup Carried

Stays      == UNCHANGED <<stopped, Online, Away>>
Enters(c)  == /\ c \notin Online \cup Away \cup stopped
              /\ Online' = Online \cup {c} /\ UNCHANGED <<Away, stopped, owner>>
Returns(c) == /\ c \in Away
              /\ Online' = Online \cup {c} /\ Away' = Away \ {c} /\ UNCHANGED <<stopped, owner>>
Parks(c)   == /\ c \in Online
              /\ Online' = Online \ {c} /\ Away' = Away \cup {c} /\ UNCHANGED <<stopped, owner>>
Ends(C)    == /\ C \subseteq Online \cup Away /\ Cleanup(C)
              /\ Online' = Online \ C /\ Away' = Away \ C

\* The tables and the hands of the tasks are disjoint, and hold no ClientState twice.
LEMMA HomesApart ==
  ASSUME TypeOK, Homes
  PROVE  /\ Online \cap Away = {} /\ Parked \cap Carried = {}
         /\ (Online \cup Away) \cap stopped = {}
         /\ \A r, t \in Conn : clients[r] # None /\ clients[r] = clients[t] => r = t
         /\ \A s, t \in Session : waiting[s] # None /\ waiting[s] = waiting[t] => s = t
BY SessionsAssumption
DEF Homes, OnlineServed, ParkedUnserved, CarriedApart, TaskHasSession, Online, Parked, Carried,
    Away, Busy, TypeOK

\* A step that leaves the carrying tasks alone leaves what they carry alone.
LEMMA CarriedFrame ==
  ASSUME \A t \in Conn : /\ phase'[t] \in {"taken", "detached"} <=> phase[t] \in {"taken", "detached"}
                         /\ phase[t] \in {"taken", "detached"} => serves'[t] = serves[t]
  PROVE  Carried' = Carried
BY DEF Carried

\* A step that leaves both tables and the carrying tasks alone moves nobody.
LEMMA StaysFrame ==
  ASSUME UNCHANGED <<clients, waiting, stopped>>,
         \A t \in Conn : /\ phase'[t] \in {"taken", "detached"} <=> phase[t] \in {"taken", "detached"}
                         /\ phase[t] \in {"taken", "detached"} => serves'[t] = serves[t]
  PROVE  Stays
BY CarriedFrame DEF Stays, Online, Away, Parked

\* An entry that leaves the online table takes its ClientState off line.
LEMMA OnlineLoses ==
  ASSUME TypeOK, Homes, NEW r \in Conn, clients[r] # None,
         clients' = [clients EXCEPT ![r] = None]
  PROVE  clients[r] \in Online /\ Online' = Online \ {clients[r]}
BY HomesApart, SessionsAssumption DEF Online, TypeOK

\* An entry made in a free row puts its ClientState on line.
LEMMA OnlineGains ==
  ASSUME TypeOK, NEW r \in Conn, clients[r] = None, NEW c \in Conn,
         clients' = [clients EXCEPT ![r] = c]
  PROVE  Online' = Online \cup {c}
BY SessionsAssumption DEF Online, TypeOK

\* Entries of the suspended table that are taken out, and no others, leave it.
LEMMA ParkedLoses ==
  ASSUME TypeOK, Homes, NEW S, \A s \in S : s \in Session /\ waiting[s] # None,
         waiting' = [s \in Session |-> IF s \in S THEN None ELSE waiting[s]]
  PROVE  /\ {waiting[s] : s \in S} \subseteq Parked
         /\ Parked' = Parked \ {waiting[s] : s \in S}
<1>1. \A s \in Session : waiting'[s] = IF s \in S THEN None ELSE waiting[s]
  OBVIOUS
<1>. QED BY <1>1, HomesApart, SessionsAssumption DEF Parked, TypeOK

\* A task that stops carrying leaves its ClientState to whoever has it now.
LEMMA CarriedLoses ==
  ASSUME TypeOK, Homes, NEW r \in Conn, phase[r] \in {"taken", "detached"},
         phase'[r] \notin {"taken", "detached"},
         \A t \in Conn \ {r} : phase'[t] = phase[t] /\ serves'[t] = serves[t]
  PROVE  serves[r] \in Carried /\ Carried' = Carried \ {serves[r]}
BY DEF Carried, Homes, OneServer, TaskHasSession, Busy, Phases

\* suspend ends what it swept, and the session it was given too when another one
\* has its place; otherwise that one stays away (Registry::suspend).
LEMMA SuspendMoves ==
  ASSUME TypeOK, Homes, NEW r \in Conn, phase[r] \in {"taken", "detached"},
         Suspend(r, sess[r], serves[r]), UNCHANGED clients,
         phase'[r] \notin {"taken", "detached"},
         \A t \in Conn \ {r} : phase'[t] = phase[t] /\ serves'[t] = serves[t]
  PROVE  \E C \in SUBSET Conn : Ends(C)
<1>. DEFINE q    == sess[r]
            c    == serves[r]
            kept == [x \in Session |-> IF x \in Swept THEN None ELSE waiting[x]]
            swept == {waiting[x] : x \in Swept}
<1>1. /\ q \in Session /\ c \in Conn
      /\ \A x \in Swept : x \in Session /\ waiting[x] # None /\ waiting[x] \in Conn
      /\ \A x \in Session : kept[x] # None => kept[x] = waiting[x] /\ x \notin Swept
      /\ \A x \in Session : x \notin Swept => kept[x] = waiting[x]
  BY DEF Homes, TaskHasSession, Busy, Swept, TypeOK
<1>2. c \in Carried /\ Carried' = Carried \ {c} /\ c \notin Parked /\ c \notin Online
  BY CarriedLoses, HomesApart DEF Away
<1>3. swept \subseteq Parked
  BY <1>1 DEF Parked
<1>4. Online' = Online
  BY DEF Online
<1>5. CASE kept[q] \notin {None, c}
  <2>1. waiting' = kept /\ Cleanup(swept \cup {c})
    BY <1>5 DEF Suspend
  <2>2. Parked' = Parked \ swept
    BY <1>1, <2>1, ParkedLoses
  <2>3. Ends(swept \cup {c})
    BY <1>2, <1>3, <1>4, <2>1, <2>2, HomesApart DEF Ends, Away
  <2>4. swept \cup {c} \in SUBSET Conn
    BY <1>1
  <2>. QED BY <2>3, <2>4
<1>6. CASE kept[q] \in {None, c}
  <2>1. waiting' = [kept EXCEPT ![q] = c] /\ Cleanup(swept)
    BY <1>6 DEF Suspend
  <2>2. kept[q] = None
    BY <1>1, <1>2, <1>6 DEF Parked
  <2>3. \A x \in Session : waiting'[x] = IF x = q THEN c ELSE kept[x]
    BY <2>1
  <2>4. \A y \in Conn : y \in swept <=> \E x \in Session : x \in Swept /\ waiting[x] = y
    BY <1>1
  <2>5. \A x, z \in Session : x \in Swept /\ waiting[z] = waiting[x] => z = x
    BY <1>1, HomesApart
  <2>. HIDE DEF kept, swept
  <2>6. Parked' = (Parked \ swept) \cup {c}
    <3>1. ASSUME NEW y \in Parked' PROVE y \in (Parked \ swept) \cup {c}
      BY <1>1, <2>3, <2>4, <2>5, <3>1, SessionsAssumption DEF Parked
    <3>2. ASSUME NEW y \in Parked, y \notin swept PROVE y \in Parked'
      <4>1. PICK x \in Session : waiting[x] = y /\ x \notin Swept
        BY <2>4, <3>2 DEF Parked
      <4>2. x # q
        BY <1>1, <2>2, <4>1, SessionsAssumption DEF Parked
      <4>. QED BY <1>1, <2>3, <4>1, <4>2 DEF Parked
    <3>3. c \in Parked'
      BY <1>1, <2>3 DEF Parked
    <3>. QED BY <3>1, <3>2, <3>3
  <2>7. Ends(swept)
    BY <1>2, <1>3, <1>4, <2>1, <2>6, HomesApart DEF Ends, Away
  <2>8. swept \in SUBSET Conn
    BY <1>3 DEF Parked
  <2>. QED BY <2>7, <2>8
<1>. QED BY <1>5, <1>6

\* The same for one entry.
LEMMA ParkedLosesOne ==
  ASSUME TypeOK, Homes, NEW q \in Session, waiting[q] # None,
         waiting' = [waiting EXCEPT ![q] = None]
  PROVE  waiting[q] \in Parked /\ Parked' = Parked \ {waiting[q]}
<1>1. \A s \in Session : waiting'[s] = IF s = q THEN None ELSE waiting[s]
  BY DEF TypeOK
<1>. QED BY <1>1, HomesApart, SessionsAssumption DEF Parked, TypeOK

\* A login takes what was parked, ends it when it has expired, or moves nobody
\* (take_suspended_if).
LEMMA LoginMoves ==
  ASSUME TypeOK, Homes, NEW r \in Conn, NEW q \in Session, NEW i \in Ident
  PROVE  /\ LoginTakes(r, q, i) => Stays
         /\ LoginFindsExpired(r, q, i) => \E C \in SUBSET Conn : Ends(C)
         /\ \A wants, tokenOk \in BOOLEAN : LoginFresh(r, q, i, wants, tokenOk) => Stays
<1>1. ASSUME LoginTakes(r, q, i) PROVE Stays
  <2>1. /\ phase[r] = "new" /\ waiting[q] # None /\ waiting[q] \in Conn
        /\ \A t \in Conn : /\ phase'[t]  = IF t = r THEN "taken" ELSE phase[t]
                           /\ serves'[t] = IF t = r THEN waiting[q] ELSE serves[t]
        /\ waiting' = [waiting EXCEPT ![q] = None]
        /\ UNCHANGED <<clients, stopped>>
    BY <1>1 DEF LoginTakes, Arrive, stateVars, TypeOK
  <2>2. Parked' = Parked \ {waiting[q]} /\ waiting[q] \in Parked
    BY <2>1, ParkedLosesOne
  <2>3. Carried' = Carried \cup {waiting[q]}
    BY <2>1 DEF Carried
  <2>4. Away' = Away
    BY <2>2, <2>3 DEF Away
  <2>. QED BY <2>1, <2>4 DEF Stays, Online
<1>2. ASSUME LoginFindsExpired(r, q, i) PROVE \E C \in SUBSET Conn : Ends(C)
  <2>1. /\ phase[r] = "new" /\ waiting[q] # None /\ waiting[q] \in Conn
        /\ \A t \in Conn : /\ phase'[t]  = IF t = r THEN "setup" ELSE phase[t]
                           /\ serves'[t] = IF t = r THEN r ELSE serves[t]
        /\ waiting' = [waiting EXCEPT ![q] = None]
        /\ clients' = clients /\ Cleanup({waiting[q]})
    BY <1>2 DEF LoginFindsExpired, Arrive, TypeOK
  <2>2. Parked' = Parked \ {waiting[q]} /\ waiting[q] \in Parked
    BY <2>1, ParkedLosesOne
  <2>3. Carried' = Carried
    BY <2>1, CarriedFrame
  <2>4. Ends({waiting[q]})
    BY <2>1, <2>2, <2>3, HomesApart DEF Ends, Away, Online
  <2>. QED BY <2>1, <2>4
<1>3. ASSUME NEW wants \in BOOLEAN, NEW tokenOk \in BOOLEAN, LoginFresh(r, q, i, wants, tokenOk)
      PROVE  Stays
  BY <1>3, StaysFrame DEF LoginFresh, Arrive, stateVars, registryVars, TypeOK
<1>. QED BY <1>1, <1>2, <1>3

\* insert admits a client that nothing knew.
LEMMA InsertMoves ==
  ASSUME TypeOK, Homes, NEW r \in Conn, Insert(r)
  PROVE  Enters(r)
<1>1. /\ clients[r] = None /\ r \notin stopped
      /\ \A s \in Session : waiting[s] # r
      /\ \A t \in Conn : Busy(t) /\ serves[t] = r => t = r
      /\ \A t \in Conn : clients[t] # r
  BY SessionsAssumption DEF Insert, Homes, UnbornUnused, Unborn, OnlineServed
<1>2. /\ phase[r] = "setup"
      /\ \A t \in Conn : phase'[t] = IF t = r THEN "loop" ELSE phase[t]
      /\ clients' = [clients EXCEPT ![r] = r]
      /\ UNCHANGED <<serves, waiting, stopped, owner>>
  BY DEF Insert, NoCleanup, claimVars, TypeOK
<1>3. Online' = Online \cup {r}
  BY <1>1, <1>2, OnlineGains
<1>4. Carried' = Carried
  BY <1>2, CarriedFrame
<1>5. r \notin Online \cup Away
  BY <1>1, <1>2 DEF Online, Away, Parked, Carried, Busy
<1>. QED BY <1>1, <1>2, <1>3, <1>4, <1>5 DEF Enters, Away, Parked

\* reattach brings back what its task carries.
LEMMA ReattachMoves ==
  ASSUME TypeOK, Homes, NEW r \in Conn, Reattach(r)
  PROVE  Returns(serves[r])
<1>1. /\ phase[r] = "taken" /\ phase'[r] = "setup" /\ clients[r] = None /\ serves[r] \in Conn
      /\ \A t \in Conn \ {r} : phase'[t] = phase[t] /\ serves'[t] = serves[t]
      /\ clients' = [clients EXCEPT ![r] = serves[r]]
      /\ UNCHANGED <<waiting, stopped, owner>>
  BY DEF Reattach, NoCleanup, claimVars, TypeOK, Homes, CarriedApart, TaskHasSession, Busy
<1>2. Online' = Online \cup {serves[r]}
  BY <1>1, OnlineGains
<1>3. serves[r] \in Carried /\ Carried' = Carried \ {serves[r]}
  BY <1>1, CarriedLoses
<1>4. Parked' = Parked /\ serves[r] \notin Parked
  BY <1>1, <1>3, HomesApart DEF Parked
<1>. QED BY <1>1, <1>2, <1>3, <1>4 DEF Returns, Away

\* detach takes a client off line into the hands of its task.
LEMMA DetachMoves ==
  ASSUME TypeOK, Homes, NEW r \in Conn, Detach(r)
  PROVE  Parks(serves[r])
<1>1. /\ phase[r] = "leaving" /\ clients[r] # None /\ clients[r] = serves[r] /\ serves[r] \in Conn
      /\ \A t \in Conn : phase'[t] = IF t = r THEN "detached" ELSE phase[t]
      /\ clients' = [clients EXCEPT ![r] = None]
      /\ UNCHANGED <<serves, waiting, stopped, owner>>
  BY DEF Detach, NoCleanup, claimVars, TypeOK, Homes, OnlineServed, TaskHasSession, Busy
<1>2. serves[r] \in Online /\ Online' = Online \ {serves[r]}
  BY <1>1, OnlineLoses
<1>3. Carried' = Carried \cup {serves[r]}
  BY <1>1 DEF Carried
<1>. QED BY <1>1, <1>2, <1>3 DEF Parks, Away, Parked

\* remove ends the client of its row, if there is one.
LEMMA RemoveMoves ==
  ASSUME TypeOK, Homes, NEW r \in Conn, Remove(r), UNCHANGED <<waiting, serves>>,
         \A t \in Conn : phase'[t] \in {"taken", "detached"} <=> phase[t] \in {"taken", "detached"}
  PROVE  Stays \/ \E C \in SUBSET Conn : Ends(C)
<1>1. CASE clients[r] = None
  BY <1>1, StaysFrame DEF Remove, NoCleanup
<1>2. CASE clients[r] # None
  <2>1. clients' = [clients EXCEPT ![r] = None] /\ Cleanup({clients[r]}) /\ clients[r] \in Conn
    BY <1>2 DEF Remove, TypeOK
  <2>2. clients[r] \in Online /\ Online' = Online \ {clients[r]}
    BY <1>2, <2>1, OnlineLoses
  <2>3. Away' = Away
    BY CarriedFrame DEF Away, Parked
  <2>4. Ends({clients[r]})
    BY <2>1, <2>2, <2>3, HomesApart DEF Ends
  <2>. QED BY <2>1, <2>4
<1>. QED BY <1>1, <1>2

\* A sweep ends what has expired.
LEMMA SweepMoves ==
  ASSUME TypeOK, Homes, SweepTick
  PROVE  \E C \in SUBSET Conn : Ends(C)
<1>. DEFINE swept == {waiting[s] : s \in Swept}
<1>1. /\ \A s \in Swept : s \in Session /\ waiting[s] # None
      /\ waiting' = [s \in Session |-> IF s \in Swept THEN None ELSE waiting[s]]
      /\ Cleanup(swept) /\ UNCHANGED <<phase, serves, clients>>
  BY DEF SweepTick, SweepSuspended, Swept, taskVars, TypeOK
<1>2. swept \subseteq Parked /\ Parked' = Parked \ swept
  BY <1>1, ParkedLoses
<1>3. Carried' = Carried /\ Online' = Online
  BY <1>1, CarriedFrame DEF Online
<1>4. Ends(swept)
  BY <1>1, <1>2, <1>3, HomesApart DEF Ends, Away
<1>. QED BY <1>2, <1>4 DEF Parked

\* Nothing else moves a session.
LEMMA MovesStep ==
  ASSUME TypeOK, Homes, [Next]_vars
  PROVE  \/ Stays
         \/ \E r \in Conn : Insert(r) /\ Enters(r)
         \/ \E c \in Conn : Returns(c) \/ Parks(c)
         \/ \E C \in SUBSET Conn : Ends(C)
<1>1. ASSUME NEW r \in Conn, Login(r) PROVE Stays \/ \E C \in SUBSET Conn : Ends(C)
  BY <1>1, LoginMoves DEF Login
<1>2. ASSUME NEW r \in Conn, PutBack(r) \/ SuspendDetached(r) PROVE \E C \in SUBSET Conn : Ends(C)
  <2>1. /\ phase[r] \in {"taken", "detached"} /\ Suspend(r, sess[r], serves[r]) /\ UNCHANGED clients
        /\ phase'[r] \notin {"taken", "detached"}
        /\ \A t \in Conn \ {r} : phase'[t] = phase[t] /\ serves'[t] = serves[t]
    BY <1>2 DEF PutBack, SuspendDetached, TypeOK
  <2>. QED BY <2>1, SuspendMoves
<1>3. ASSUME NEW r \in Conn, Leave(r) \/ FailEnd(r) PROVE Stays \/ \E C \in SUBSET Conn : Ends(C)
  <2>1. /\ Remove(r) /\ UNCHANGED <<waiting, serves>>
        /\ \A t \in Conn : phase'[t] \in {"taken", "detached"} <=> phase[t] \in {"taken", "detached"}
    BY <1>3 DEF Leave, FailEnd, GuardDrop, TypeOK
  <2>. QED BY <2>1, RemoveMoves
<1>4. ASSUME NEW r \in Conn, Kick(r) PROVE Stays \/ \E C \in SUBSET Conn : Ends(C)
  BY <1>4, RemoveMoves DEF Kick, taskVars
<1>5. ASSUME NEW r \in Conn, \/ InsertRejected(r) \/ EnterResumed(r) \/ BindOk(r) \/ BindFail(r)
                            \/ SetupFail(r) \/ StopNoticed(r) \/ PassiveEnd(r)
      PROVE  Stays
  BY <1>5, StaysFrame
  DEF InsertRejected, EnterResumed, BindOk, BindFail, SetupFail, StopNoticed, PassiveEnd,
      stateVars, registryVars, TypeOK
<1>6. ASSUME NEW r \in Conn, Messages(r) PROVE Stays
  BY <1>6, StaysFrame
  DEF Messages, NewProxyRoute, NewProxyPort, Claim, CloseByName, CloseProxy, PanelRemove,
      taskVars, registryVars, TypeOK
<1>7. ASSUME NEW s \in Session, Expire(s) PROVE Stays
  BY <1>7, StaysFrame DEF Expire, taskVars, stateVars
<1>8. CASE UNCHANGED vars
  BY <1>8, StaysFrame DEF vars, taskVars, stateVars, registryVars
<1>9. ASSUME NEW r \in Conn, Reattach(r) \/ Detach(r) PROVE \E c \in Conn : Returns(c) \/ Parks(c)
  <2>1. serves[r] \in Conn
    BY <1>9 DEF Reattach, Detach, Homes, TaskHasSession, Busy
  <2>. QED BY <1>9, <2>1, ReattachMoves, DetachMoves
<1>. QED
  BY <1>1, <1>2, <1>3, <1>4, <1>5, <1>6, <1>7, <1>8, <1>9, InsertMoves, SweepMoves
  DEF Next, Progress

-----------------------------------------------------------------------------
(* Guards: while no write of the setup fails, whatever holds resources holds a *)
(* permit.  (A failed write leaves a resumed client online without its guard.) *)

Guarded ==
  /\ \A r \in Conn : clients[r] # None \/ phase[r] \in {"taken", "detached"} => r \in slots
  /\ \A s \in Session : waiting[s] # None => s \in slots

\* Steps that take no guard from anybody and put nobody anywhere.
LEMMA QuietGuarded ==
  ASSUME Guarded, UNCHANGED slots,
         \A r \in Conn : clients'[r] # None \/ phase'[r] \in {"taken", "detached"} =>
                         clients[r] # None \/ phase[r] \in {"taken", "detached"},
         \A s \in Session : waiting'[s] # None => waiting[s] # None
  PROVE  Guarded'
BY DEF Guarded

\* suspend hands over the guard with the session (SuspendedSession.slot).
LEMMA SuspendGuarded ==
  ASSUME TypeOK, Homes, Guarded, NEW r \in Conn, phase[r] \in {"taken", "detached"},
         Suspend(r, sess[r], serves[r]), UNCHANGED clients,
         phase'[r] \notin {"taken", "detached"},
         \A t \in Conn \ {r} : phase'[t] = phase[t]
  PROVE  Guarded'
<1>. DEFINE q    == sess[r]
            c    == serves[r]
            kept == [x \in Session |-> IF x \in Swept THEN None ELSE waiting[x]]
<1>1. /\ q \in Session /\ clients[r] = None /\ r \in slots /\ r \notin Session
      /\ Swept \subseteq Session
      /\ \A x \in Session : kept[x] # None => waiting[x] # None /\ x \notin Swept
      /\ \A t \in Conn : t \notin Session
  BY SessionsAssumption DEF Homes, TaskHasSession, CarriedApart, Guarded, Busy, Swept, TypeOK
<1>2. CASE kept[q] \notin {None, c}
  <2>1. waiting' = kept /\ slots' = slots \ (Swept \cup {r})
    BY <1>2 DEF Suspend, DropSlots
  <2>. QED BY <1>1, <2>1 DEF Guarded
<1>3. CASE kept[q] \in {None, c}
  <2>1. waiting' = [kept EXCEPT ![q] = c] /\ slots' = MoveSlot(r, q, slots \ Swept)
    BY <1>3 DEF Suspend
  <2>2. slots' = ((slots \ Swept) \ {r}) \cup {q}
    BY <1>1, <2>1 DEF MoveSlot
  <2>3. \A x \in Session : x # q => waiting'[x] = kept[x]
    BY <2>1
  <2>. HIDE DEF kept
  <2>. QED BY <1>1, <2>2, <2>3 DEF Guarded
<1>. QED BY <1>2, <1>3

\* Every step keeps Guarded.
LEMMA GuardedStep ==
  ASSUME SetupFaults = FALSE, TypeOK, Homes, Guarded, [Next]_vars
  PROVE  Guarded'
<1>1. ASSUME NEW r \in Conn, NEW q \in Session, NEW i \in Ident, LoginTakes(r, q, i)
      PROVE  Guarded'
  <2>1. /\ clients' = clients /\ q \in slots
        /\ \A t \in Conn \ {r} : phase'[t] = phase[t]
        /\ \A s \in Session : waiting'[s] = IF s = q THEN None ELSE waiting[s]
    BY <1>1 DEF LoginTakes, Arrive, TypeOK, Guarded
  <2>2. slots' = (slots \ {q}) \cup {r}
    BY <1>1, <2>1 DEF LoginTakes, MoveSlot
  <2>. QED BY <2>1, <2>2, SessionsAssumption DEF Guarded
<1>2. ASSUME NEW r \in Conn, NEW q \in Session, NEW i \in Ident, LoginFindsExpired(r, q, i)
      PROVE  Guarded'
  <2>1. /\ clients' = clients /\ slots' = slots \ {q}
        /\ \A t \in Conn : phase'[t] = IF t = r THEN "setup" ELSE phase[t]
        /\ \A s \in Session : waiting'[s] = IF s = q THEN None ELSE waiting[s]
    BY <1>2 DEF LoginFindsExpired, Arrive, DropSlots, TypeOK
  <2>. QED BY <2>1, SessionsAssumption DEF Guarded
<1>3. ASSUME NEW r \in Conn, NEW q \in Session, NEW i \in Ident,
             NEW wants \in BOOLEAN, NEW tokenOk \in BOOLEAN, LoginFresh(r, q, i, wants, tokenOk)
      PROVE  Guarded'
  BY <1>3, QuietGuarded DEF LoginFresh, Arrive, registryVars, TypeOK
<1>4. ASSUME NEW r \in Conn, Reattach(r) \/ Detach(r) PROVE Guarded'
  BY <1>4, QuietGuarded DEF Reattach, Detach, TypeOK
<1>5. ASSUME NEW r \in Conn, Insert(r) PROVE Guarded'
  BY <1>5 DEF Insert, Guarded, TypeOK
<1>6. ASSUME NEW r \in Conn, PutBack(r) \/ SuspendDetached(r) PROVE Guarded'
  <2>1. /\ phase[r] \in {"taken", "detached"} /\ Suspend(r, sess[r], serves[r]) /\ UNCHANGED clients
        /\ phase'[r] \notin {"taken", "detached"}
        /\ \A t \in Conn \ {r} : phase'[t] = phase[t]
    BY <1>6 DEF PutBack, SuspendDetached, TypeOK
  <2>. QED BY <2>1, SuspendGuarded
<1>7. ASSUME NEW r \in Conn, GuardDrop(r) PROVE Guarded'
  <2>1. /\ slots' = slots \ {r} /\ waiting' = waiting
        /\ \A t \in Conn : /\ phase'[t] = IF t = r THEN "done" ELSE phase[t]
                           /\ clients'[t] = IF t = r THEN None ELSE clients[t]
    BY <1>7 DEF GuardDrop, Remove, DropSlots, TypeOK
  <2>. QED BY <2>1, SessionsAssumption DEF Guarded
<1>8. ASSUME NEW r \in Conn, Kick(r) PROVE Guarded'
  BY <1>8, QuietGuarded DEF Kick, Remove, taskVars, TypeOK
<1>9. ASSUME NEW r \in Conn, \/ InsertRejected(r) \/ EnterResumed(r) \/ BindOk(r) \/ BindFail(r)
                            \/ StopNoticed(r) \/ PassiveEnd(r) \/ Messages(r)
      PROVE  Guarded'
  BY <1>9, QuietGuarded
  DEF InsertRejected, EnterResumed, BindOk, BindFail, StopNoticed, PassiveEnd, Messages,
      NewProxyRoute, NewProxyPort, Claim, CloseByName, CloseProxy, PanelRemove, taskVars,
      registryVars, TypeOK
<1>10. ASSUME NEW r \in Conn, SetupFail(r) PROVE Guarded'
  BY <1>10 DEF SetupFail
<1>11. ASSUME NEW s \in Session, Expire(s) PROVE Guarded'
  BY <1>11, QuietGuarded DEF Expire, taskVars
<1>12. CASE SweepTick
  <2>1. /\ slots' = slots \ Swept /\ Swept \subseteq Session /\ UNCHANGED <<phase, clients>>
        /\ \A s \in Session : waiting'[s] = IF s \in Swept THEN None ELSE waiting[s]
    BY <1>12 DEF SweepTick, SweepSuspended, DropSlots, Swept, taskVars, TypeOK
  <2>. QED BY <2>1, SessionsAssumption DEF Guarded
<1>13. CASE UNCHANGED vars
  BY <1>13, QuietGuarded DEF vars, taskVars, registryVars
<1>. QED
  BY <1>1, <1>2, <1>3, <1>4, <1>5, <1>6, <1>7, <1>8, <1>9, <1>10, <1>11, <1>12, <1>13
  DEF Next, Login, Progress, Leave, FailEnd

\* Permits are held by whatever holds resources.
THEOREM GuardedHolds ==
  ASSUME SetupFaults = FALSE
  PROVE  Spec => []Guarded
<1>1. Init => Guarded
  BY DEF Init, Guarded
<1>2. IInv /\ Guarded /\ [Next]_vars => Guarded'
  BY GuardedStep DEF IInv
<1>. QED BY <1>1, <1>2, Invariance, PTL DEF Spec

\* One permit stands for at most one session, so permits count sessions.
LEMMA SessionsCounted ==
  ASSUME TypeOK, Homes, Guarded
  PROVE  Cardinality(Online \cup Away) <= Cardinality(slots)
<1>. DEFINE Holds(x, c) == IF x \in Conn
                           THEN \/ clients[x] = c
                                \/ phase[x] \in {"taken", "detached"} /\ serves[x] = c
                           ELSE waiting[x] = c
            f == [c \in Online \cup Away |-> CHOOSE x \in slots : Holds(x, c)]
<1>1. ASSUME NEW c \in Online \cup Away PROVE c \in Conn /\ \E x \in slots : Holds(x, c)
  BY SessionsAssumption DEF Online, Away, Parked, Carried, Guarded
<1>2. ASSUME NEW x \in slots, NEW c \in Conn, NEW d \in Conn, Holds(x, c), Holds(x, d)
      PROVE  c = d
  BY <1>2, SessionsAssumption DEF Homes, CarriedApart, TypeOK
<1>. HIDE DEF Holds
<1>3. \A c \in Online \cup Away : f[c] \in slots /\ Holds(f[c], c)
  BY <1>1
<1>4. f \in [Online \cup Away -> slots]
  BY <1>3
<1>. HIDE DEF f
<1>5. \A c, d \in Online \cup Away : f[c] = f[d] => c = d
  BY <1>1, <1>2, <1>3
<1>6. f \in Injection(Online \cup Away, slots)
  BY <1>4, <1>5 DEF Injection, IsInjective
<1>. QED BY <1>6, SlotsFinite, FS_Injection

\* max_clients bounds the sessions that hold server resources, parked ones and
\* those in the hands of a task included, as long as no login dies between
\* reattach and its guard (LimitGuard, SuspendedSession.slot).
THEOREM AdmissionBounded ==
  ASSUME SetupFaults = FALSE
  PROVE  Spec => []AdmissionBound
<1>1. IInv /\ Guarded => AdmissionBound
  <2>. SUFFICES ASSUME IInv, Guarded PROVE AdmissionBound OBVIOUS
  <2>1. Cardinality(Online \cup Away) <= Cardinality(slots)
    BY SessionsCounted DEF IInv
  <2>2. Cardinality(slots) \in Nat /\ free \in Nat /\ free + Cardinality(slots) = MaxClients
    BY SlotsFinite, SessionsAssumption DEF IInv, TypeOK, Permits
  <2>3. IsFiniteSet(Online \cup Away) /\ Cardinality(Online \cup Away) \in Nat
    BY SessionsAssumption, FS_Subset, FS_CardinalityType DEF Online, Away, Parked, Carried
  <2>4. Cardinality(Online \cup Away) <= MaxClients
    BY <2>1, <2>2, <2>3, SessionsAssumption
  <2>5. Online \cup Parked \cup Carried = Online \cup Away
    BY DEF Away
  <2>. QED BY <2>4, <2>5, Zenon DEF AdmissionBound
<1>. QED BY <1>1, Invariance, GuardedHolds, PTL

\* When a control connection's task has ended, its run_id is off line, whichever
\* way it ended (ClientGuard).
THEOREM ExitTakenOffline ==
  ASSUME SetupFaults = FALSE
  PROVE  Spec => []ExitTakesOffline
<1>1. IInv /\ Guarded => ExitTakesOffline
  BY DEF IInv, Permits, Busy, Guarded, ExitTakesOffline
<1>. QED BY <1>1, Invariance, GuardedHolds, PTL

-----------------------------------------------------------------------------
(* Claims without a session: while the panel takes no client out from under its *)
(* task, a claim belongs to a session that holds resources.                     *)

\* A task that waits for bind still has the port it reserved: attach_listener
\* finds the group.
BindingOwns == \A r \in Conn : phase[r] = "binding" => owner[pending[r]] = serves[r]

Claims == NoOrphanClaim /\ BindingOwns

\* A session that ends takes its claims with it, and with them no listener of a
\* session that stays.
LEMMA EndsClaims ==
  ASSUME TypeOK, Claims, NEW C, Ends(C)
  PROVE  NoOrphanClaim'
BY DEF Ends, Cleanup, Claims, NoOrphanClaim, Away, TypeOK

\* A task that binds after a step has just reserved its port or was binding it before.
LEMMA BinderStep ==
  ASSUME TypeOK, Homes, [Next]_vars, NEW r \in Conn, phase'[r] = "binding"
  PROVE  \/ phase[r] = "binding" /\ pending'[r] = pending[r] /\ serves'[r] = serves[r]
         \/ owner'[pending'[r]] = serves'[r]
<1>. DEFINE Same == phase[r] = "binding" /\ pending'[r] = pending[r] /\ serves'[r] = serves[r]
<1>1. ASSUME NEW t \in Conn, NEW p \in Proxy, NewProxyPort(t, p)
      PROVE  Same \/ owner'[pending'[r]] = serves'[r]
  <2>1. CASE t = r
    <3>1. pending'[r] = p /\ owner'[p] = serves[r] /\ serves'[r] = serves[r]
      BY <1>1, <2>1 DEF NewProxyPort, Claim, TypeOK
    <3>. QED BY <3>1
  <2>2. CASE t # r
    BY <1>1, <2>2 DEF NewProxyPort, TypeOK
  <2>. QED BY <2>1, <2>2
<1>2. ASSUME NEW t \in Conn, Login(t) \/ Progress(t) PROVE Same
  <2>1. CASE Login(t) \/ Reattach(t) \/ Insert(t) \/ InsertRejected(t)
    <3>1. /\ UNCHANGED pending
          /\ \E w \in {"setup", "taken", "loop", "done"} : phase' = [phase EXCEPT ![t] = w]
          /\ serves' = serves \/ \E w : serves' = [serves EXCEPT ![t] = w]
      BY <2>1 DEF Login, LoginFresh, LoginFindsExpired, LoginTakes, Reattach, Insert, InsertRejected
    <3>. QED BY <3>1 DEF TypeOK
  <2>2. CASE ~(Login(t) \/ Reattach(t) \/ Insert(t) \/ InsertRejected(t))
    BY <1>2, <2>2 DEF Progress, EnterResumed, BindOk, BindFail, Detach, SuspendDetached,
                      Leave, GuardDrop, TypeOK
  <2>. QED BY <2>1, <2>2
<1>3. ASSUME NEW t \in Conn, NEW p \in Proxy,
             \/ NewProxyRoute(t, p) \/ CloseByName(t, p) \/ CloseProxy(t, p) \/ PanelRemove(t, p)
      PROVE  Same
  BY <1>3 DEF NewProxyRoute, CloseByName, CloseProxy, PanelRemove, taskVars
<1>4. ASSUME NEW t \in Conn, \/ PutBack(t) \/ SetupFail(t) \/ StopNoticed(t)
                            \/ PassiveEnd(t) \/ FailEnd(t) \/ Kick(t)
      PROVE  Same
  BY <1>4 DEF PutBack, SetupFail, StopNoticed, PassiveEnd, FailEnd, GuardDrop, Kick, taskVars, TypeOK
<1>5. ASSUME NEW s \in Session, Expire(s) PROVE Same
  BY <1>5 DEF Expire, taskVars
<1>6. CASE SweepTick
  BY <1>6 DEF SweepTick, taskVars
<1>7. CASE UNCHANGED vars
  BY <1>7 DEF vars, taskVars
<1>. QED BY <1>1, <1>2, <1>3, <1>4, <1>5, <1>6, <1>7 DEF Next, Messages

\* Only attach_listener without a group leaves a listener behind.
LEMMA SocketStep ==
  ASSUME TypeOK, [Next]_vars, NEW p \in Proxy, socket'[p] = "leaked"
  PROVE  \/ socket[p] = "leaked"
         \/ \E r \in Conn : phase[r] = "binding" /\ p = pending[r] /\ owner[p] = None
<1>. DEFINE Goal == \/ socket[p] = "leaked"
                    \/ \E r \in Conn : phase[r] = "binding" /\ p = pending[r] /\ owner[p] = None
<1>1. ASSUME (\E C : Cleanup(C)) \/ NoCleanup \/ UNCHANGED claimVars PROVE Goal
  BY <1>1 DEF Cleanup, NoCleanup, claimVars, TypeOK
<1>2. ASSUME NEW q, NEW c, Release(q, c) PROVE Goal
  BY <1>2 DEF Release, TypeOK
<1>3. ASSUME NEW r \in Conn, Login(r) PROVE Goal
  BY <1>1, <1>3 DEF Login, LoginFresh, LoginFindsExpired, LoginTakes
<1>4. ASSUME NEW r \in Conn, \/ Reattach(r) \/ Insert(r) \/ InsertRejected(r) \/ SetupFail(r)
                            \/ EnterResumed(r) \/ Detach(r) \/ PassiveEnd(r) \/ StopNoticed(r)
      PROVE  Goal
  BY <1>1, <1>4 DEF Reattach, Insert, InsertRejected, SetupFail, EnterResumed, Detach, PassiveEnd,
                    StopNoticed
<1>5. ASSUME NEW r \in Conn, PutBack(r) \/ SuspendDetached(r) PROVE Goal
  BY <1>1, <1>5 DEF PutBack, SuspendDetached, Suspend
<1>6. ASSUME NEW r \in Conn, GuardDrop(r) \/ Kick(r) PROVE Goal
  BY <1>1, <1>6 DEF GuardDrop, Kick, Remove
<1>7. CASE SweepTick
  BY <1>1, <1>7 DEF SweepTick, SweepSuspended
<1>8. ASSUME NEW s \in Session, Expire(s) PROVE Goal
  BY <1>1, <1>8 DEF Expire
<1>9. CASE UNCHANGED vars
  BY <1>1, <1>9 DEF vars
<1>10. ASSUME NEW r \in Conn, BindOk(r) PROVE Goal
  BY <1>10 DEF BindOk, TypeOK
<1>11. ASSUME NEW r \in Conn, BindFail(r) PROVE Goal
  BY <1>2, <1>11 DEF BindFail
<1>12. ASSUME NEW r \in Conn, NEW q \in Proxy, CloseByName(r, q) \/ CloseProxy(r, q) \/ PanelRemove(r, q)
       PROVE  Goal
  BY <1>2, <1>12 DEF CloseByName, CloseProxy, PanelRemove
<1>13. ASSUME NEW r \in Conn, NEW q \in Proxy, NewProxyRoute(r, q) \/ NewProxyPort(r, q) PROVE Goal
  BY <1>13 DEF NewProxyRoute, NewProxyPort, TypeOK
<1>. QED
  BY <1>3, <1>4, <1>5, <1>6, <1>7, <1>8, <1>9, <1>10, <1>11, <1>12, <1>13
  DEF Next, Progress, Messages, Leave, FailEnd

\* Every step keeps the claims with their sessions.
LEMMA ClaimsStep ==
  ASSUME Panel = FALSE, IInv, LoopOnline, Claims, [Next]_vars
  PROVE  Claims'
<1>1. TypeOK /\ Homes /\ TypeOK' /\ Homes' /\ LoopOnline'
  BY HomesStep, PermitsStep, BindingStep, TypeStep, LoopOnlineStep DEF IInv
<1>2. ASSUME NEW r \in Conn, phase'[r] = "binding" PROVE owner'[pending'[r]] = serves'[r]
  <2>1. CASE phase[r] = "binding" /\ pending'[r] = pending[r] /\ serves'[r] = serves[r]
    <3>. DEFINE p == pending[r]
    <3>1. p \in Proxy /\ serves[r] \in Conn /\ owner[p] = serves[r]
      BY <1>1, <2>1 DEF IInv, BindingProxy, Homes, TaskHasSession, Busy, Claims, BindingOwns
    <3>2. serves[r] \notin stopped'
      BY <1>1, <1>2, <2>1, <3>1, SessionsAssumption
      DEF LoopOnline, Engaged, Homes, OnlineServed
    <3>3. ~Ended(p) /\ ~Claimed(p)
      BY <3>1, <3>2, SessionsAssumption DEF Ended, Claimed
    <3>4. ~Released(p)
      <4>1. ASSUME NEW t \in Conn, phase[t] \in {"loop", "binding"}, serves[t] = owner[p]
            PROVE  t = r
        BY <1>1, <2>1, <3>1, <4>1 DEF Homes, OneServer, Phases
      <4>. QED BY <1>2, <4>1 DEF Released
    <3>5. owner'[p] = owner[p] \/ Ended(p) \/ Released(p) \/ Claimed(p)
      BY <1>1, <3>1, ClaimStep
    <3>. HIDE DEF p
    <3>6. owner'[p] = serves'[r]
      BY <2>1, <3>1, <3>3, <3>4, <3>5
    <3>. QED BY <2>1, <3>6 DEF p
  <2>. QED BY <1>1, <1>2, <2>1, BinderStep
<1>3. ASSUME NEW p \in Proxy PROVE socket'[p] # "leaked"
  <2>1. socket[p] # "leaked"
    BY DEF Claims, NoOrphanClaim
  <2>2. ASSUME NEW r \in Conn, phase[r] = "binding", p = pending[r] PROVE owner[p] # None
    BY <1>1, <2>2, SessionsAssumption DEF Claims, BindingOwns, Homes, TaskHasSession, Busy
  <2>. QED BY <1>1, <2>1, <2>2, SocketStep
<1>4. ASSUME NEW p \in Proxy, owner'[p] # None, ~ \E C \in SUBSET Conn : Ends(C)
      PROVE  owner'[p] \in Online' \cup Away'
  <2>1. CASE owner'[p] = owner[p]
    <3>1. owner[p] \in Online \cup Away
      BY <1>4, <2>1 DEF Claims, NoOrphanClaim, Away
    <3>. QED BY <1>1, <1>4, <2>1, <3>1, MovesStep DEF Stays, Enters, Returns, Parks
  <2>2. CASE Claimed(p)
    <3>1. PICK t \in Conn : phase[t] = "loop" /\ owner'[p] = serves[t]
      BY <2>2 DEF Claimed
    <3>2. serves[t] \in Online
      BY <1>1, <3>1, TaskOnline
    <3>3. Online' = Online
      BY <2>2 DEF Claimed, Online
    <3>. QED BY <3>1, <3>2, <3>3
  <2>. QED BY <1>1, <1>4, <2>1, <2>2, ClaimStep DEF Ended, Released
<1>5. CASE \E C \in SUBSET Conn : Ends(C)
  BY <1>1, <1>2, <1>5, EndsClaims DEF Claims, BindingOwns
<1>6. CASE ~ \E C \in SUBSET Conn : Ends(C)
  BY <1>2, <1>3, <1>4, <1>6 DEF Claims, BindingOwns, NoOrphanClaim, Away
<1>. QED BY <1>5, <1>6

\* While the panel manages no clients, a public claim belongs to a session that can
\* come back or will be cleaned up, and no listener outlives its group, failing
\* writes of the setup included (cleanup_client, attach_listener, release_port).
THEOREM NoOrphans ==
  ASSUME Panel = FALSE
  PROVE  Spec => []NoOrphanClaim
<1>1. Init => Claims
  BY DEF Init, Claims, NoOrphanClaim, BindingOwns
<1>2. IInv /\ LoopOnline /\ Claims /\ [Next]_vars => Claims'
  BY ClaimsStep
<1>3. Claims => NoOrphanClaim
  BY DEF Claims
<1>. QED BY <1>1, <1>2, <1>3, Invariance, LoopOnlineHolds, PTL DEF Spec

\* Permits, the gauge and claims move along with the sessions and none drifts,
\* while nothing but the clients themselves ends a session and every login that
\* reattaches lives to make its guard (Registry, ClientGuard).
THEOREM NothingLeaksHolds ==
  ASSUME Panel = FALSE, SetupFaults = FALSE
  PROVE  Spec => []NothingLeaks
BY AdmissionBounded, GaugeExact, NoOrphans, ExitTakenOffline, PTL DEF NothingLeaks

-----------------------------------------------------------------------------
(* Sessions implements SessionLease *)

\* The abstract state of a session, told by where it is.
LEMMA LeaseStateIs ==
  ASSUME TypeOK, Homes, NEW c \in Conn
  PROVE  LeaseState[c] = IF c \in stopped THEN "gone" ELSE IF c \in Online THEN "online"
                         ELSE IF c \in Away THEN "parked" ELSE "absent"
BY DEF LeaseState, Away

\* The sessions that are alive in the abstract are those the tables and tasks hold.
LEMMA LeaseAlive ==
  ASSUME TypeOK, Homes
  PROVE  Lease!Alive = Online \cup Away
<1>1. Online \subseteq Conn /\ Away \subseteq Conn
  BY DEF Online, Away, Parked, Carried
<1>. QED BY <1>1, LeaseStateIs, HomesApart DEF Lease!Alive

\* The instance counts as this module does.
LEMMA LeaseCardinality ==
  ASSUME NEW S
  PROVE  Lease!Cardinality(S) = Cardinality(S)
BY DEF Lease!Cardinality, Cardinality

\* Nothing is admitted, parked or claimed at the start.
LEMMA LeaseInit ==
  ASSUME Init
  PROVE  Lease!Init
<1>1. Online = {} /\ Parked = {} /\ Carried = {} /\ stopped = {}
  BY SessionsAssumption DEF Init, Online, Parked, Carried
<1>. QED BY <1>1 DEF Init, Lease!Init, LeaseState

\* A step changes one claim at most, unless it ends sessions.
LEMMA OneClaim ==
  ASSUME TypeOK, [Next]_vars, NEW p \in Proxy, NEW q \in Proxy,
         owner'[p] # owner[p], owner'[q] # owner[q],
         ~ \E C : Cleanup(C)
  PROVE  p = q
<1>1. ASSUME NoCleanup \/ UNCHANGED claimVars \/ UNCHANGED owner PROVE FALSE
  BY <1>1 DEF NoCleanup, claimVars
<1>2. ASSUME NEW x, NEW c, Release(x, c) PROVE p = q
  BY <1>2 DEF Release, TypeOK
<1>3. ASSUME NEW r \in Conn, Login(r) PROVE FALSE
  BY <1>1, <1>3 DEF Login, LoginFresh, LoginFindsExpired, LoginTakes
<1>4. ASSUME NEW r \in Conn, \/ Reattach(r) \/ Insert(r) \/ InsertRejected(r) \/ SetupFail(r)
                            \/ EnterResumed(r) \/ Detach(r) \/ PassiveEnd(r) \/ StopNoticed(r)
                            \/ BindOk(r)
      PROVE  FALSE
  BY <1>1, <1>4 DEF Reattach, Insert, InsertRejected, SetupFail, EnterResumed, Detach, PassiveEnd,
                    StopNoticed, BindOk
<1>5. ASSUME NEW r \in Conn, PutBack(r) \/ SuspendDetached(r) PROVE FALSE
  BY <1>5 DEF PutBack, SuspendDetached, Suspend
<1>6. ASSUME NEW r \in Conn, GuardDrop(r) \/ Kick(r) PROVE FALSE
  BY <1>1, <1>6 DEF GuardDrop, Kick, Remove
<1>7. CASE SweepTick
  BY <1>7 DEF SweepTick, SweepSuspended
<1>8. ASSUME NEW s \in Session, Expire(s) PROVE FALSE
  BY <1>1, <1>8 DEF Expire
<1>9. CASE UNCHANGED vars
  BY <1>1, <1>9 DEF vars
<1>10. ASSUME NEW r \in Conn, BindFail(r) PROVE p = q
  BY <1>2, <1>10 DEF BindFail
<1>11. ASSUME NEW r \in Conn, NEW x \in Proxy, CloseByName(r, x) \/ CloseProxy(r, x) \/ PanelRemove(r, x)
       PROVE  p = q
  BY <1>2, <1>11 DEF CloseByName, CloseProxy, PanelRemove
<1>12. ASSUME NEW r \in Conn, NEW x \in Proxy, NewProxyRoute(r, x) \/ NewProxyPort(r, x) PROVE p = q
  <2>1. owner' = [owner EXCEPT ![x] = serves[r]]
    BY <1>12 DEF NewProxyRoute, NewProxyPort, Claim
  <2>. QED BY <2>1 DEF TypeOK
<1>. QED
  BY <1>3, <1>4, <1>5, <1>6, <1>7, <1>8, <1>9, <1>10, <1>11, <1>12
  DEF Next, Progress, Messages, Leave, FailEnd

\* A step that moves no session is a claim, a release, or nothing to the leases.
LEMMA StaysIsLease ==
  ASSUME Panel = FALSE, TypeOK, Homes, TypeOK', LoopOnline, NoOrphanClaim, [Next]_vars, Stays
  PROVE  [Lease!Next]_Lease!vars
<1>1. UNCHANGED LeaseState
  BY DEF Stays, LeaseState, Away
<1>2. ASSUME NEW p \in Proxy, owner[p] # None PROVE owner[p] \notin stopped'
  BY <1>2, HomesApart DEF NoOrphanClaim, Stays, Away
<1>3. CASE \A p \in Proxy : owner'[p] = owner[p]
  <2>1. owner' = owner
    BY <1>3 DEF TypeOK
  <2>. QED BY <1>1, <2>1 DEF Lease!vars
<1>4. CASE \E p \in Proxy : owner'[p] # owner[p]
  <2>1. PICK p \in Proxy : owner'[p] # owner[p]
    BY <1>4
  <2>2. owner' = [owner EXCEPT ![p] = owner'[p]]
    <3>1. ASSUME NEW C PROVE ~Cleanup(C)
      BY <1>2, <2>1 DEF Cleanup, TypeOK, Stays
    <3>. QED BY <2>1, <3>1, OneClaim DEF TypeOK
  <2>3. CASE Claimed(p)
    <3>1. PICK t \in Conn : phase[t] = "loop" /\ owner'[p] = serves[t]
      BY <2>3 DEF Claimed
    <3>2. serves[t] \in Conn /\ serves[t] \in Online /\ serves[t] \notin stopped
      BY <3>1, TaskOnline, HomesApart
    <3>3. LeaseState[serves[t]] = "online"
      BY <3>2, LeaseStateIs
    <3>4. Lease!Claim(serves[t], p)
      BY <1>1, <2>2, <2>3, <3>1, <3>3 DEF Lease!Claim, Claimed
    <3>. QED BY <3>2, <3>4 DEF Lease!Next
  <2>4. CASE Released(p)
    <3>1. owner[p] \in Online /\ owner[p] \in Conn
      BY <2>4, TaskOnline DEF Released, Online
    <3>2. LeaseState[owner[p]] = "online"
      BY <3>1, LeaseStateIs, HomesApart
    <3>3. Lease!GiveUp(owner[p], p)
      BY <1>1, <2>2, <2>4, <3>2 DEF Lease!GiveUp, Released
    <3>. QED BY <3>1, <3>3 DEF Lease!Next
  <2>5. ~Ended(p)
    BY <1>2, <2>1 DEF Ended
  <2>. QED BY <2>1, <2>3, <2>4, <2>5, ClaimStep
<1>. QED BY <1>3, <1>4

\* Sessions that end, end as leases: their claims go with them.
LEMMA EndsIsLease ==
  ASSUME TypeOK, Homes, TypeOK', Homes', NEW C \in SUBSET Conn, Ends(C)
  PROVE  [Lease!Next]_Lease!vars
<1>1. /\ \A c \in Conn : c \in stopped' <=> c \in stopped \cup C
      /\ owner' = [p \in Proxy |-> IF owner[p] \in C THEN None ELSE owner[p]]
  BY DEF Ends, Cleanup
<1>2. \A c \in Conn : LeaseState'[c] = IF c \in C THEN "gone" ELSE LeaseState[c]
  BY <1>1, LeaseStateIs DEF Ends, LeaseState, Away
<1>3. LeaseState' = [c \in Conn |-> IF c \in C THEN "gone" ELSE LeaseState[c]]
  BY <1>2 DEF LeaseState
<1>4. CASE C = {}
  <2>1. LeaseState' = LeaseState
    BY <1>3, <1>4 DEF LeaseState
  <2>2. owner' = owner
    BY <1>1, <1>4 DEF TypeOK
  <2>. QED BY <2>1, <2>2 DEF Lease!vars
<1>5. CASE C # {}
  <2>1. C \subseteq Lease!Alive
    BY LeaseAlive DEF Ends
  <2>2. Lease!End(C)
    BY <1>1, <1>3, <1>5, <2>1 DEF Lease!End
  <2>. QED BY <2>2 DEF Lease!Next
<1>. QED BY <1>4, <1>5

\* A login is admitted only while fewer than max_clients sessions hold resources,
\* because every one of them holds a permit.
LEMMA InsertIsLease ==
  ASSUME IInv, Guarded, NEW r \in Conn, Insert(r), Enters(r)
  PROVE  [Lease!Next]_Lease!vars
<1>1. Cardinality(Online \cup Away) < MaxClients
  <2>1. Cardinality(Online \cup Away) <= Cardinality(slots)
    BY SessionsCounted DEF IInv
  <2>2. /\ Cardinality(slots) \in Nat /\ free \in Nat /\ free > 0
        /\ free + Cardinality(slots) = MaxClients
    BY SlotsFinite, SessionsAssumption DEF IInv, TypeOK, Permits, Insert
  <2>3. IsFiniteSet(Online \cup Away) /\ Cardinality(Online \cup Away) \in Nat
    BY SessionsAssumption, FS_Subset, FS_CardinalityType DEF Online, Away, Parked, Carried
  <2>. QED BY <2>1, <2>2, <2>3, SessionsAssumption
<1>2. Lease!Cardinality(Lease!Alive) < MaxClients
  <2>1. Lease!Alive = Online \cup Away
    BY LeaseAlive DEF IInv
  <2>. QED BY <1>1, <2>1, LeaseCardinality
<1>3. LeaseState[r] = "absent"
  BY LeaseStateIs DEF IInv, Enters
<1>4. LeaseState' = [LeaseState EXCEPT ![r] = "online"]
  BY DEF Enters, LeaseState, Away
<1>5. Lease!Admit(r)
  BY <1>2, <1>3, <1>4 DEF Lease!Admit, Enters
<1>. QED BY <1>5 DEF Lease!Next

\* What detach and reattach do is to park and to resume.
LEMMA ParkIsLease ==
  ASSUME TypeOK, Homes, NEW c \in Conn, Parks(c) \/ Returns(c)
  PROVE  [Lease!Next]_Lease!vars
<1>1. CASE Parks(c)
  <2>1. LeaseState[c] = "online"
    BY <1>1, LeaseStateIs, HomesApart DEF Parks
  <2>2. LeaseState' = [LeaseState EXCEPT ![c] = "parked"]
    <3>1. \A d \in Conn : LeaseState'[d] = IF d = c THEN "parked" ELSE LeaseState[d]
      BY <1>1, HomesApart DEF Parks, LeaseState, Away
    <3>. QED BY <3>1 DEF LeaseState
  <2>3. Lease!Park(c)
    BY <1>1, <2>1, <2>2 DEF Lease!Park, Parks
  <2>. QED BY <2>3 DEF Lease!Next
<1>2. CASE Returns(c)
  <2>1. LeaseState[c] = "parked"
    BY <1>2, LeaseStateIs, HomesApart DEF Returns
  <2>2. LeaseState' = [LeaseState EXCEPT ![c] = "online"]
    <3>1. \A d \in Conn : LeaseState'[d] = IF d = c THEN "online" ELSE LeaseState[d]
      BY <1>2, HomesApart DEF Returns, LeaseState, Away
    <3>. QED BY <3>1 DEF LeaseState
  <2>3. Lease!Resume(c)
    BY <1>2, <2>1, <2>2 DEF Lease!Resume, Returns
  <2>. QED BY <2>3 DEF Lease!Next
<1>. QED BY <1>1, <1>2

\* Every step of the server is a step of the abstract leases or none at all:
\* admission within max_clients, claims made and given up only on line and kept
\* while parked, and no way back from the end.
THEOREM LeaseImplemented ==
  ASSUME Panel = FALSE, SetupFaults = FALSE
  PROVE  Spec => ImplementsLease
<1>1. Init => Lease!Init
  BY LeaseInit
<1>2. IInv /\ IInv' /\ LoopOnline /\ Guarded /\ NoOrphanClaim /\ [Next]_vars
      => [Lease!Next]_Lease!vars
  <2>. SUFFICES ASSUME IInv, IInv', LoopOnline, Guarded, NoOrphanClaim, [Next]_vars
                PROVE  [Lease!Next]_Lease!vars
    OBVIOUS
  <2>1. TypeOK /\ Homes /\ TypeOK' /\ Homes'
    BY DEF IInv
  <2>. QED BY <2>1, MovesStep, StaysIsLease, InsertIsLease, ParkIsLease, EndsIsLease
<1>. QED
  BY <1>1, <1>2, Invariance, LoopOnlineHolds, GuardedHolds, NoOrphans, PTL
  DEF Spec, ImplementsLease, Lease!Spec
=============================================================================
