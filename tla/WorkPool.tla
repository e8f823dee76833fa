------------------------------ MODULE WorkPool ------------------------------
(***************************************************************************)
(* The work-connection pool of one ClientState (pool.rs) and everybody who *)
(* touches it: accept loops that queue user connections (serve.rs          *)
(* admit_user, submit_user), tasks that wait for a work connection (vhost, *)
(* visitors, UDP: acquire_work_conn), the control loop that asks the       *)
(* client for more, and the tasks that bring new work connections          *)
(* (handle_work, submit_work).                                             *)
(*                                                                         *)
(* Steps are cut where another thread can come between: the tests of       *)
(* suspended and stopped precede the pool's lock, a user is queued before  *)
(* a work connection is asked for, a work connection is pooled before a    *)
(* waiter is notified, and a waiter asks before it listens.                *)
(***************************************************************************)
EXTENDS Naturals, Sequences, FiniteSets

CONSTANTS
  User,    \* user connections, each made once
  Waiter,  \* calls of acquire_work_conn, each made once
  Configs  \* the configurations and environments considered

FaultKinds == {"link",     \* the control connection breaks, may be resumed
               "stop",     \* the client is kicked or cleaned up
               "silent",   \* the client does not open a work connection
               "late",     \* the three timeouts elapse
               "slots"}    \* connection slots run out

Config == [backlog : Nat,    \* max_pending_per_client; 0 is no limit
           maxPool : Nat,    \* max_pool_count; 0 is no limit
           batch   : Nat,    \* nlink_batch; below 2 is off
           prewarm : Nat,    \* work connections the client opens unasked
           callers : SUBSET Waiter,  \* who may call acquire_work_conn
           faults  : SUBSET FaultKinds]

ASSUME WorkPoolAssumption ==
  /\ Configs \subseteq Config
  /\ IsFiniteSet(User) /\ IsFiniteSet(Waiter)
  /\ User \cap Waiter = {}

VARIABLES
  config,     \* chosen once
  link,       \* "up": the control loop runs; "ended": it has returned, the
              \* client is still registered; "parked": suspended;
              \* "gone": stopped
  users,      \* PoolState.users
  late,       \* queued users past user_conn_timeout
  idle,       \* PoolState.work: for each idle connection, is it too old
  upc,        \* where a user connection is
  asking,     \* users queued, their RequestWork still to be sent
  queueHeld,  \* users holding a permit of backlog_limit
  wpc,        \* where an acquire_work_conn is
  listeners,  \* waiters parked in work_notify, in order
  permit,     \* work_notify's stored permit
  notifying,  \* submit_works that have pooled and not notified yet
  idleHeld,   \* transfers on a connection that holds an idle_work_limit permit
  cmds,       \* RequestWorks in the control loop's channel
  asked,      \* work connections the client is to open
  arriving    \* handle_works past registry.get, before submit_work

userVars   == <<users, late, upc, asking, queueHeld>>
waiterVars == <<wpc, listeners>>
clientVars == <<cmds, asked, arriving>>
vars == <<config, link, userVars, idle, waiterVars, permit, notifying,
          idleHeld, clientVars>>

May(f) == f \in config.faults

-----------------------------------------------------------------------------
(* PoolState and its limits *)

\* ClientState::new: the smaller of the two limits that are set.
IdleCap ==
  LET caps == {config.backlog, config.maxPool} \ {0}
  IN  IF caps = {} THEN 0 ELSE CHOOSE c \in caps : \A d \in caps : c <= d

InUse(holders, cap) == cap > 0 /\ Cardinality(holders) >= cap

\* How many at the front are overdue: reap stops at the first that is not.
Overdue(old) ==
  CHOOSE n \in 0..Len(old) :
    /\ \A i \in 1..n : old[i]
    /\ n < Len(old) => ~old[n + 1]

Drop(s, n) == SubSeq(s, n + 1, Len(s))

OldUsers == [i \in 1..Len(users) |-> users[i] \in late]
ReapedUsers == {users[i] : i \in 1..Overdue(OldUsers)}
KeptUsers == Drop(users, Overdue(OldUsers))
KeptIdle  == Drop(idle, Overdue(idle))

\* Each reaped user is dropped, and its permit with it.
Reap(next) == [u \in User |-> IF u \in ReapedUsers THEN "reaped" ELSE next[u]]

Queue(q) == /\ users' = q
            /\ late' = late \cap {q[i] : i \in 1..Len(q)}

Unavailable == link \in {"parked", "gone"}

\* request_work_conn: nothing while suspended, and a control loop that has
\* returned has dropped the receiving end.
Request == cmds' = IF link = "up" THEN cmds + 1 ELSE cmds

-----------------------------------------------------------------------------
(* User connections: proxy_accept_loop, admit_user, submit_user *)

\* No ConnSlot: refused before the pool sees it.
NoSlot(u) ==
  /\ May("slots") /\ upc[u] = "away"
  /\ upc' = [upc EXCEPT ![u] = "refused"]
  /\ UNCHANGED <<config, link, users, late, idle, asking, queueHeld, waiterVars,
                 permit, notifying, idleHeld, clientVars>>

Check(u) ==
  /\ upc[u] = "away"
  /\ upc' = [upc EXCEPT ![u] = IF Unavailable THEN "refused" ELSE "checked"]
  /\ UNCHANGED <<config, link, users, late, idle, asking, queueHeld, waiterVars,
                 permit, notifying, idleHeld, clientVars>>

SubmitPaired(u) ==
  /\ upc[u] = "checked" /\ KeptIdle # <<>>
  /\ upc' = Reap([upc EXCEPT ![u] = "served"])
  /\ Queue(KeptUsers)
  /\ queueHeld' = queueHeld \ ReapedUsers
  /\ idle' = Tail(KeptIdle)
  /\ idleHeld' = idleHeld \cup {u}
  /\ UNCHANGED <<config, link, asking, waiterVars, permit, notifying, clientVars>>

\* Mutant: push_front.
EnqueuedFirst(u) == <<u>> \o KeptUsers

Enqueued(u) == Append(KeptUsers, u)

SubmitQueued(u) ==
  /\ upc[u] = "checked" /\ KeptIdle = <<>>
  /\ ~InUse(queueHeld \ ReapedUsers, config.backlog)
  /\ upc' = Reap([upc EXCEPT ![u] = "queued"])
  /\ Queue(Enqueued(u))
  /\ queueHeld' = (queueHeld \ ReapedUsers) \cup {u}
  /\ asking' = asking \cup {u}
  /\ idle' = KeptIdle
  /\ UNCHANGED <<config, link, waiterVars, permit, notifying, idleHeld, clientVars>>

SubmitFull(u) ==
  /\ upc[u] = "checked" /\ KeptIdle = <<>>
  /\ InUse(queueHeld \ ReapedUsers, config.backlog)
  /\ upc' = Reap([upc EXCEPT ![u] = "refused"])
  /\ Queue(KeptUsers)
  /\ queueHeld' = queueHeld \ ReapedUsers
  /\ idle' = KeptIdle
  /\ UNCHANGED <<config, link, asking, waiterVars, permit, notifying, idleHeld,
                 clientVars>>

Submit(u) == SubmitPaired(u) \/ SubmitQueued(u) \/ SubmitFull(u)

\* admit_user, after Queued: whatever has become of the user meanwhile.
Ask(u) ==
  /\ u \in asking
  /\ asking' = asking \ {u}
  /\ Request
  /\ UNCHANGED <<config, link, users, late, upc, queueHeld, idle, waiterVars,
                 permit, notifying, idleHeld, asked, arriving>>

\* bridge returns: the rest of PendingUser and of WorkItem is dropped now,
\* queue_permit and idle_permit with it.
EndTransfer(u) ==
  /\ upc[u] = "served"
  /\ upc' = [upc EXCEPT ![u] = "done"]
  /\ queueHeld' = queueHeld \ {u}
  /\ idleHeld' = idleHeld \ {u}
  /\ UNCHANGED <<config, link, users, late, asking, idle, waiterVars, permit,
                 notifying, clientVars>>

-----------------------------------------------------------------------------
(* acquire_work_conn_within *)

Begin(w) ==
  /\ wpc[w] = "away" /\ w \in config.callers
  /\ wpc' = [wpc EXCEPT ![w] = IF Unavailable THEN "failed" ELSE "checked"]
  /\ UNCHANGED <<config, link, userVars, idle, listeners, permit, notifying,
                 idleHeld, clientVars>>

\* The first look at the pool, and the one after each wake-up: no reaping.
Take(w) ==
  /\ wpc[w] \in {"checked", "woken"}
  /\ IF idle # <<>>
     THEN /\ wpc' = [wpc EXCEPT ![w] = "served"]
          /\ idle' = Tail(idle)
          /\ idleHeld' = idleHeld \cup {w}
     ELSE /\ wpc' = [wpc EXCEPT ![w] = "loop"]
          /\ UNCHANGED <<idle, idleHeld>>
  /\ UNCHANGED <<config, link, userVars, listeners, permit, notifying, clientVars>>

AskAgain(w) ==
  /\ wpc[w] = "loop"
  /\ IF link = "gone"
     THEN /\ wpc' = [wpc EXCEPT ![w] = "failed"]
          /\ UNCHANGED cmds
     ELSE /\ wpc' = [wpc EXCEPT ![w] = "asked"]
          /\ Request
  /\ UNCHANGED <<config, link, userVars, idle, listeners, permit, notifying,
                 idleHeld, asked, arriving>>

\* The first poll of notified(): a stored permit lets it through.
Listen(w) ==
  /\ wpc[w] = "asked"
  /\ IF permit
     THEN /\ permit' = FALSE
          /\ wpc' = [wpc EXCEPT ![w] = "woken"]
          /\ UNCHANGED listeners
     ELSE /\ listeners' = Append(listeners, w)
          /\ wpc' = [wpc EXCEPT ![w] = "listening"]
          /\ UNCHANGED permit
  /\ UNCHANGED <<config, link, userVars, idle, notifying, idleHeld, clientVars>>

\* Mutant: the waiter stays in the notifier's list.
GiveUpListed(w) ==
  /\ May("late") /\ wpc[w] \in {"loop", "listening"}
  /\ wpc' = [wpc EXCEPT ![w] = "failed"]
  /\ UNCHANGED <<config, link, userVars, idle, listeners, permit, notifying, idleHeld,
                 clientVars>>

GiveUp(w) ==
  /\ May("late")
  /\ \/ wpc[w] = "loop" /\ UNCHANGED listeners
     \/ /\ wpc[w] = "listening"
        /\ \E i \in 1..Len(listeners) :
             /\ listeners[i] = w
             /\ listeners' = SubSeq(listeners, 1, i - 1) \o SubSeq(listeners, i + 1, Len(listeners))
  /\ wpc' = [wpc EXCEPT ![w] = "failed"]
  /\ UNCHANGED <<config, link, userVars, idle, permit, notifying, idleHeld, clientVars>>

EndUse(w) ==
  /\ wpc[w] = "served"
  /\ wpc' = [wpc EXCEPT ![w] = "done"]
  /\ idleHeld' = idleHeld \ {w}
  /\ UNCHANGED <<config, link, userVars, idle, listeners, permit, notifying, clientVars>>

-----------------------------------------------------------------------------
(* The control loop, the client and handle_work *)

\* One ReqWorkConn, or one BatchReq for several: the 250 ms between batches
\* are a choice.
BatchSizes ==
  IF config.batch < 2 \/ Len(users) < 2 THEN {}
  ELSE {IF config.batch < Len(users) THEN config.batch ELSE Len(users)}

SendRequest ==
  /\ link = "up" /\ cmds > 0
  /\ cmds' = cmds - 1
  /\ \E n \in {1} \cup BatchSizes : asked' = asked + n
  /\ UNCHANGED <<config, link, userVars, idle, waiterVars, permit, notifying,
                 idleHeld, arriving>>

\* The client opens a connection and handle_work finds its run_id.
Open ==
  /\ asked > 0 /\ link \in {"up", "ended"}
  /\ asked' = asked - 1
  /\ arriving' = arriving + 1
  /\ UNCHANGED <<config, link, userVars, idle, waiterVars, permit, notifying,
                 idleHeld, cmds>>

\* It cannot, or the handshake of the connection fails.
Silent ==
  /\ May("silent") /\ asked > 0
  /\ asked' = asked - 1
  /\ UNCHANGED <<config, link, userVars, idle, waiterVars, permit, notifying,
                 idleHeld, cmds, arriving>>

\* Mutant: a waiter that listens comes before the queue.
ListenersFirst == KeptUsers # <<>> /\ listeners = <<>>

SomebodyQueues == KeptUsers # <<>>

\* A permit is held by what lies in the pool and by what left it and still runs.
IdleRoom == IdleCap = 0 \/ Len(KeptIdle) + Cardinality(idleHeld) < IdleCap

\* submit_work, stopped or not: the longest queued user, else the pool, else
\* nobody.
Deliver ==
  /\ arriving > 0
  /\ arriving' = arriving - 1
  /\ queueHeld' = queueHeld \ ReapedUsers
  /\ IF SomebodyQueues
     THEN /\ upc' = Reap([upc EXCEPT ![Head(KeptUsers)] = "served"])
          /\ Queue(Tail(KeptUsers))
          /\ idle' = KeptIdle
          /\ UNCHANGED notifying
     ELSE /\ upc' = Reap(upc)
          /\ Queue(KeptUsers)
          /\ IF IdleRoom
             THEN /\ idle' = Append(KeptIdle, FALSE)
                  /\ notifying' = notifying + 1
             ELSE /\ idle' = KeptIdle
                  /\ UNCHANGED notifying
  /\ UNCHANGED <<config, link, asking, waiterVars, permit, idleHeld, cmds, asked>>

\* Mutant: notify_waiters wakes who listens and stores nothing.
NotifyWaiters ==
  /\ notifying > 0
  /\ notifying' = notifying - 1
  /\ wpc' = [w \in Waiter |-> IF wpc[w] = "listening" THEN "woken" ELSE wpc[w]]
  /\ listeners' = <<>>
  /\ UNCHANGED <<config, link, userVars, idle, permit, idleHeld, clientVars>>

\* notify_one: the first listener, or a permit that is stored once.
Notify ==
  /\ notifying > 0
  /\ notifying' = notifying - 1
  /\ IF listeners # <<>>
     THEN /\ wpc' = [wpc EXCEPT ![Head(listeners)] = "woken"]
          /\ listeners' = Tail(listeners)
          /\ UNCHANGED permit
     ELSE /\ permit' = TRUE
          /\ UNCHANGED waiterVars
  /\ UNCHANGED <<config, link, userVars, idle, idleHeld, clientVars>>

-----------------------------------------------------------------------------
(* Time and the session's end *)

UserLate(u) ==
  /\ May("late") /\ upc[u] = "queued" /\ u \notin late
  /\ late' = late \cup {u}
  /\ UNCHANGED <<config, link, users, upc, asking, queueHeld, idle, waiterVars,
                 permit, notifying, idleHeld, clientVars>>

WorkOld(i) ==
  /\ May("late") /\ ~idle[i]
  /\ idle' = [idle EXCEPT ![i] = TRUE]
  /\ UNCHANGED <<config, link, userVars, waiterVars, permit, notifying, idleHeld,
                 clientVars>>

\* handle_control leaves its loop: what is in its channel is lost.
LoopEnds ==
  /\ May("link") /\ link = "up"
  /\ link' = "ended"
  /\ cmds' = 0
  /\ UNCHANGED <<config, userVars, idle, waiterVars, permit, notifying, idleHeld,
                 asked, arriving>>

\* detach and set_suspended(true): the old run_id no longer resolves.
Park ==
  /\ link = "ended"
  /\ link' = "parked"
  /\ asked' = 0
  /\ UNCHANGED <<config, userVars, idle, waiterVars, permit, notifying, idleHeld,
                 cmds, arriving>>

\* rebind_control: a new channel, and the client opens its reserve again.
Resume ==
  /\ link = "parked"
  /\ link' = "up"
  /\ cmds' = 0
  /\ asked' = config.prewarm
  /\ UNCHANGED <<config, userVars, idle, waiterVars, permit, notifying, idleHeld,
                 arriving>>

\* ClientState::stop after the client has left the registry: queued users stay.
Stop ==
  /\ May("stop") /\ link # "gone"
  /\ link' = "gone"
  /\ idle' = <<>>
  /\ wpc' = [w \in Waiter |-> IF wpc[w] = "listening" THEN "woken" ELSE wpc[w]]
  /\ listeners' = <<>>
  /\ cmds' = 0 /\ asked' = 0
  /\ UNCHANGED <<config, userVars, permit, notifying, idleHeld, arriving>>

-----------------------------------------------------------------------------

Init ==
  /\ config \in Configs
  /\ link = "up"
  /\ users = <<>> /\ late = {} /\ idle = <<>>
  /\ upc = [u \in User |-> "away"]
  /\ asking = {} /\ queueHeld = {} /\ idleHeld = {}
  /\ wpc = [w \in Waiter |-> "away"]
  /\ listeners = <<>> /\ permit = FALSE /\ notifying = 0
  /\ cmds = 0 /\ asked = config.prewarm /\ arriving = 0

UserStep(u) == NoSlot(u) \/ Check(u) \/ Submit(u) \/ Ask(u) \/ EndTransfer(u) \/ UserLate(u)

WaiterStep(w) == Begin(w) \/ Take(w) \/ AskAgain(w) \/ Listen(w) \/ GiveUp(w) \/ EndUse(w)

Next ==
  \/ \E u \in User : UserStep(u)
  \/ \E w \in Waiter : WaiterStep(w)
  \/ SendRequest \/ Open \/ Silent \/ Deliver \/ Notify
  \/ \E i \in 1..Len(idle) : WorkOld(i)
  \/ LoopEnds \/ Park \/ Resume \/ Stop

Spec == Init /\ [][Next]_vars

\* Tasks of the server that are ready to run do run, time passes, and a
\* client that is not silent opens what it was asked for.  Nothing obliges
\* users to come or transfers to end.
FairSpec ==
  /\ Spec
  /\ \A u \in User : WF_vars(Submit(u)) /\ WF_vars(Ask(u)) /\ WF_vars(UserLate(u))
  /\ \A w \in Waiter :
       WF_vars(Take(w)) /\ WF_vars(AskAgain(w)) /\ WF_vars(Listen(w)) /\ WF_vars(GiveUp(w))
  /\ WF_vars(SendRequest) /\ WF_vars(Open) /\ WF_vars(Deliver) /\ WF_vars(Notify)

-----------------------------------------------------------------------------
(* Properties *)

Injective(s) == \A i, j \in 1..Len(s) : s[i] = s[j] => i = j

\* Types; the queue and the listeners hold each once, and upc and wpc say so.
TypeOK ==
  /\ config \in Configs
  /\ link \in {"up", "ended", "parked", "gone"}
  /\ users \in Seq(User) /\ Injective(users)
  /\ \A u \in User : upc[u] = "queued" <=> \E i \in 1..Len(users) : users[i] = u
  /\ upc \in [User -> {"away", "checked", "queued", "served", "done", "refused", "reaped"}]
  /\ late \subseteq {u \in User : upc[u] = "queued"}
  /\ idle \in Seq(BOOLEAN)
  /\ asking \subseteq User /\ queueHeld \subseteq User
  /\ idleHeld \subseteq User \cup Waiter
  /\ wpc \in [Waiter -> {"away", "checked", "loop", "asked", "listening", "woken",
                         "served", "done", "failed"}]
  /\ listeners \in Seq(Waiter) /\ Injective(listeners)
  /\ \A w \in Waiter : wpc[w] = "listening" <=> \E i \in 1..Len(listeners) : listeners[i] = w
  /\ permit \in BOOLEAN
  /\ notifying \in Nat /\ cmds \in Nat /\ asked \in Nat /\ arriving \in Nat

\* A user never queues beside an idle work connection: submit_user and
\* submit_work test each other's deque under one lock (pool.rs 886, 929).
NoIdleWhileQueued == users = <<>> \/ idle = <<>>

\* While nothing goes wrong, a work connection is on its way for every queued
\* user, although waiters and newcomers compete for what arrives (pool.rs 894
\* Queued, serve.rs 2685).
QueueCovered ==
  config.faults = {} => Len(users) <= Cardinality(asking) + cmds + asked + arriving

\* No queued user is forgotten: nothing idle is kept from it, and what will
\* serve it is on its way (pool.rs 880-960).
NoUserForgotten == NoIdleWhileQueued /\ QueueCovered

\* max_pending_per_client bounds the queue, and the smaller limit the pool,
\* although permits come back only when whoever holds them is dropped
\* (pool.rs 889-893, 928-946).
WithinLimits ==
  /\ config.backlog > 0 => Len(users) <= config.backlog
  /\ IdleCap > 0 => Len(idle) <= IdleCap

\* The pool forgets nobody and keeps its limits (pool.rs 880-960).
PoolSound == NoUserForgotten /\ WithinLimits

\* u is queued before v is.
Ahead(u, v) ==
  \E i \in 1..Len(users) :
    users[i] = u /\ (upc[v] = "checked" \/ \E j \in i+1..Len(users) : users[j] = v)

\* Nobody who comes later is served, or queued, in front of a queued user
\* (pool.rs push_back, pop_front; serve.rs 2680-2685).
FirstComeFirstServed ==
  [][\A u, v \in User :
       Ahead(u, v) /\ upc'[u] = "queued" =>
         upc'[v] # "served" /\ (upc'[v] = "queued" => Ahead(u, v)')]_vars

\* With a client that answers, a queued user is served (admit_user, Queued).
UsersServed ==
  \A u \in User : (config.faults = {} /\ upc[u] = "queued") ~> (upc[u] = "served")

\* With a client that answers and an unlimited pool, acquire_work_conn gets a
\* connection; notify_one keeps the wake-up of a waiter that asked and does
\* not listen yet (pool.rs 951-960).
Undisturbed == config.faults = {} /\ IdleCap = 0
Waits(w) == Undisturbed /\ wpc[w] = "checked"
WaitersServed == \A w \in Waiter : Waits(w) ~> (wpc[w] = "served")

\* A wake-up comes while another is stored, and calls V have asked and do not
\* listen yet: they share one stored permit.
Meeting(V) == permit /\ notifying > 0 /\ \A v \in V : wpc[v] = "asked"

\* Whoever asks gets a connection, through the queue or by notification, in
\* competition with users and other calls; what leaves a call without one is
\* that two wake-ups meet while it and another have asked and do not listen yet,
\* and nothing else; and of two that meet one is served (pool.rs 858, 880-960).
LeftOnlyByMeeting ==
  /\ UsersServed
  /\ \A w \in Waiter :
       Waits(w) ~> (wpc[w] = "served" \/ \E v \in Waiter \ {w} : Meeting({v, w}))
  /\ \A V \in {W \in SUBSET Waiter : Cardinality(W) = 2} :
       Undisturbed /\ Meeting(V) ~> \E w \in V : wpc[w] = "served"

\* "Queue full" is said only when max_pending_per_client users are queued: the
\* permit is given back when a user is paired or reaped (pool.rs 601).
QueueRoom ==
  [][\A u \in User :
       upc[u] = "checked" /\ upc'[u] = "refused" => Len(users') >= config.backlog]_vars

\* A user that waits past userConnTimeout is closed (common/src/config.rs 453-457).
UsersLeave == \A u \in User : u \in late ~> u \notin late
=============================================================================
