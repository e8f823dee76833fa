----------------------------- MODULE Forwarding -----------------------------
(***************************************************************************)
(* From an accepted connection to the end of its forwarding: which backend *)
(* of a public port it goes to (registry.rs: PortGroup::pick, hold), the   *)
(* tokens it carries (LoadGuard; the two permits of a ConnSlot, pool.rs),  *)
(* and where they come back.                                               *)
(*                                                                         *)
(* One port with an accept loop and the backends of its group; beside it   *)
(* visitors (stcp, sudp) and virtual hosts (http), which forward through   *)
(* the same clients.  All tokens come back by drop, so a step that ends a  *)
(* connection gives back whatever it holds.  Steps are cut where another   *)
(* task can come between: the loads are read one by one while connections  *)
(* end, a backend is picked under the port table's lock and held after it, *)
(* and the permits are taken one after the other.                          *)
(***************************************************************************)
EXTENDS Naturals, Sequences, FiniteSets

CONSTANTS
  Conn,      \* connections that may arrive, each made once
  KindOf,    \* "tcp" through the port; "stcp", "sudp", "http" past it
  TargetOf,  \* the client a connection past the port is for
  Client,    \* ClientStates
  Proxy,     \* backends of the port
  ClientOf,  \* the client of a backend
  MaxLives,  \* bound: the largest bound on registrations of one backend
  Configs,   \* the configurations considered
  None       \* no scan, no guard

Kinds == {"tcp", "stcp", "sudp", "http"}

Config == [policy : {"roundrobin", "leastconn"},
           total  : Nat,   \* max_total_conns; 0 is no limit
           own    : Nat,   \* max_conns_per_client; 0 is no limit
           comes  : SUBSET Conn,      \* bound: the connections that arrive
           again  : 1 .. MaxLives]    \* bound: registrations of one backend

\* A Backend with its Load: every registration makes a new one.
Backends == Proxy \X (1 .. MaxLives)

ASSUME ForwardingAssumption ==
  /\ IsFiniteSet(Conn) /\ MaxLives \in Nat
  /\ KindOf \in [Conn -> Kinds] /\ TargetOf \in [Conn -> Client]
  /\ ClientOf \in [Proxy -> Client]
  /\ Configs \subseteq Config
  /\ None \notin Backends

VARIABLES
  config,    \* chosen once
  members,   \* PortGroup.members
  lives,     \* registrations of each backend so far
  cursor,    \* PortGroup.cursor
  inflight,  \* Load.inflight
  pick,      \* the accept loop between accept and hold, or None
  conn,      \* each connection: where it is, and the tokens it carries
  total,     \* permits left of Registry.conn_limit
  own,       \* permits left of each ClientState.conn_limit
  share      \* history: turns of each member since members changed

tokens == <<inflight, total, own>>
vars == <<config, members, lives, cursor, inflight, pick, conn, total, own, share>>

Stages == {"new", "picking", "held", "total", "slotted", "queued", "bridge", "done"}

-----------------------------------------------------------------------------
(* Tokens *)

ClientFor(c) == IF conn[c].load # None THEN ClientOf[conn[c].load[1]] ELSE TargetOf[c]

\* Mutant: one permit more than there are.
GrantsOneMore(limit, left) == limit = 0 \/ left >= 0

\* Limit::try_acquire: without a limit everything is granted and nothing counted.
Grants(limit, left) == limit = 0 \/ left > 0

\* Mutant: the permit of all connections is forgotten when the client's fails.
EndKeepsTotal(c) ==
  LET t == conn[c]
      b == t.load IN
  /\ conn' = [conn EXCEPT ![c] = [@ EXCEPT !.at = "done", !.load = None, !.total = FALSE, !.own = FALSE]]
  /\ inflight' = IF b = None \/ inflight[b] = 0 THEN inflight ELSE [inflight EXCEPT ![b] = @ - 1]
  /\ total' = IF t.total /\ t.own THEN total + 1 ELSE total
  /\ own' = IF t.own THEN [own EXCEPT ![ClientFor(c)] = @ + 1] ELSE own
  /\ UNCHANGED <<config, members, lives, cursor, pick, share>>

\* The connection and everything it carries are dropped; a LoadGuard never
\* takes a load below zero.
End(c) ==
  LET t == conn[c]
      b == t.load IN
  /\ conn' = [conn EXCEPT ![c] = [@ EXCEPT !.at = "done", !.load = None, !.total = FALSE, !.own = FALSE]]
  /\ inflight' = IF b = None \/ inflight[b] = 0 THEN inflight ELSE [inflight EXCEPT ![b] = @ - 1]
  /\ total' = IF t.total THEN total + 1 ELSE total
  /\ own' = IF t.own THEN [own EXCEPT ![ClientFor(c)] = @ + 1] ELSE own
  /\ UNCHANGED <<config, members, lives, cursor, pick, share>>

Moves(c, from, to) ==
  /\ conn[c].at = from
  /\ conn' = [conn EXCEPT ![c].at = to]
  /\ UNCHANGED <<config, members, lives, cursor, pick, share, tokens>>

-----------------------------------------------------------------------------
(* The port's group: reserve_port and release_port wait for a pick to end.  *)

Locked == pick # None /\ pick.rest # <<>>
Fresh  == [b \in Backends |-> 0]

\* reserve_port: a new group, or one more member; in both cases a new Load.
Register(p) ==
  /\ ~Locked
  /\ \A i \in DOMAIN members : members[i][1] # p
  /\ lives[p] < config.again
  /\ members' = Append(members, <<p, lives[p] + 1>>)
  /\ lives' = [lives EXCEPT ![p] = @ + 1]
  /\ share' = Fresh
  /\ UNCHANGED <<config, cursor, pick, conn, tokens>>

\* release_port: the last member takes the group, and its cursor, along.
Remove(p) ==
  /\ ~Locked
  /\ \E i \in DOMAIN members :
        /\ members[i][1] = p
        /\ members' = SubSeq(members, 1, i - 1) \o SubSeq(members, i + 1, Len(members))
  /\ cursor' = IF members' = <<>> THEN 0 ELSE cursor
  /\ share' = Fresh
  /\ UNCHANGED <<config, lives, pick, conn, tokens>>

-----------------------------------------------------------------------------
(* PortGroup::pick and hold *)

\* The members from place i on, once around.
Ring(i) == SubSeq(members, i, Len(members)) \o SubSeq(members, 1, i - 1)

\* Mutant: the comparison starts with the first member and leaves out the
\* one the cursor points to.
FirstOf(ring) == members[1]

\* The member a comparison starts with.
Leader(ring) == ring[1]

\* One connection at a time is between accept and admit_user.
LoopFree ==
  /\ pick = None
  /\ \A d \in Conn : KindOf[d] = "tcp" => conn[d].at \notin {"picking", "held", "total", "slotted"}

\* accept, and pick up to its first reading of a load; by turns the member the
\* cursor points to is the answer.  The next connection starts one place
\* further, whatever is picked.
Accept(c) ==
  LET i == (cursor % Len(members)) + 1
      ring == Ring(i) IN
  /\ KindOf[c] = "tcp" /\ conn[c].at = "new"
  /\ LoopFree
  /\ members # <<>>
  /\ cursor' = cursor + 1
  /\ pick' = IF config.policy = "roundrobin"
             THEN [conn |-> c, best |-> ring[1], seen |-> 0, rest |-> <<>>, before |-> inflight, ring |-> ring]
             ELSE [conn |-> c, best |-> Leader(ring), seen |-> inflight[Leader(ring)],
                   rest |-> Tail(ring), before |-> inflight, ring |-> ring]
  /\ conn' = [conn EXCEPT ![c].at = "picking"]
  /\ share' = [share EXCEPT ![ring[1]] = @ + 1]
  /\ UNCHANGED <<config, members, lives, tokens>>

\* The last member left while the connection was accepted.
AcceptInVain(c) ==
  /\ KindOf[c] = "tcp" /\ conn[c].at = "new"
  /\ LoopFree
  /\ members = <<>>
  /\ End(c)

\* The next load is read; only a smaller one changes the choice.
Compare ==
  LET b == Head(pick.rest) IN
  /\ Locked
  /\ pick' = IF inflight[b] < pick.seen
             THEN [pick EXCEPT !.best = b, !.seen = inflight[b], !.rest = Tail(@)]
             ELSE [pick EXCEPT !.rest = Tail(@)]
  /\ UNCHANGED <<config, members, lives, cursor, conn, tokens, share>>

\* The lock is gone; the load of whoever was picked goes up.
Hold ==
  /\ pick # None /\ pick.rest = <<>>
  /\ inflight' = [inflight EXCEPT ![pick.best] = @ + 1]
  /\ conn' = [conn EXCEPT ![pick.conn].at = "held", ![pick.conn].load = pick.best]
  /\ pick' = None
  /\ UNCHANGED <<config, members, lives, cursor, total, own, share>>

-----------------------------------------------------------------------------
(* ConnSlot::acquire, admit_user, the visitors and the virtual hosts *)

MayTakeSlot(c) ==
  \/ conn[c].at = "held"
  \/ conn[c].at = "new" /\ KindOf[c] \in {"stcp", "sudp"}

TakeTotal(c) ==
  /\ MayTakeSlot(c)
  /\ Grants(config.total, total)
  /\ conn' = [conn EXCEPT ![c].at = "total", ![c].total = config.total # 0]
  /\ total' = IF config.total = 0 THEN total ELSE total - 1
  /\ UNCHANGED <<config, members, lives, cursor, inflight, pick, own, share>>

\* The limit of all connections is reached: refused.
RefuseTotal(c) ==
  /\ MayTakeSlot(c)
  /\ ~Grants(config.total, total)
  /\ End(c)

TakeOwn(c) ==
  /\ conn[c].at = "total"
  /\ Grants(config.own, own[ClientFor(c)])
  /\ conn' = [conn EXCEPT ![c].at = "slotted", ![c].own = config.own # 0]
  /\ own' = IF config.own = 0 THEN own ELSE [own EXCEPT ![ClientFor(c)] = @ - 1]
  /\ UNCHANGED <<config, members, lives, cursor, inflight, pick, total, share>>

\* The client's limit is reached: refused, the other permit is given back.
RefuseOwn(c) ==
  /\ conn[c].at = "total"
  /\ ~Grants(config.own, own[ClientFor(c)])
  /\ End(c)

\* submit_user pairs, queues or refuses.
Submit(c) ==
  /\ KindOf[c] = "tcp"
  /\ \/ Moves(c, "slotted", "bridge")
     \/ Moves(c, "slotted", "queued")
     \/ conn[c].at = "slotted" /\ End(c)

\* A work connection comes for a queued user, or it is reaped or cleared.
Served(c) ==
  \/ Moves(c, "queued", "bridge")
  \/ conn[c].at = "queued" /\ End(c)

\* acquire_work_conn answers a visitor: the bridge of an stcp connection takes
\* the slot along, that of a sudp connection starts as the handler returns and
\* drops it.
VisitorPaired(c) ==
  /\ KindOf[c] \in {"stcp", "sudp"} /\ conn[c].at = "slotted"
  /\ \/ KindOf[c] = "stcp" /\ Moves(c, "slotted", "bridge")
     \/ /\ KindOf[c] = "sudp"
        /\ conn' = [conn EXCEPT ![c] = [@ EXCEPT !.at = "bridge", !.total = FALSE, !.own = FALSE]]
        /\ total' = IF conn[c].total THEN total + 1 ELSE total
        /\ own' = IF conn[c].own THEN [own EXCEPT ![ClientFor(c)] = @ + 1] ELSE own
        /\ UNCHANGED <<config, members, lives, cursor, inflight, pick, share>>

\* acquire_work_conn gives up, or the visitor cannot be answered.
VisitorFails(c) ==
  /\ KindOf[c] \in {"stcp", "sudp"} /\ conn[c].at = "slotted"
  /\ End(c)

\* A request of a virtual host gets its work connection without a slot.
VhostPaired(c) == KindOf[c] = "http" /\ Moves(c, "new", "bridge")

\* bridge returns, in whichever way.
BridgeEnds(c) == conn[c].at = "bridge" /\ End(c)

-----------------------------------------------------------------------------
At(stage) == [at |-> stage, load |-> None, total |-> FALSE, own |-> FALSE]

Init ==
  /\ config \in Configs
  /\ members = <<>> /\ lives = [p \in Proxy |-> 0] /\ cursor = 0
  /\ inflight = [b \in Backends |-> 0]
  /\ pick = None
  /\ conn = [c \in Conn |-> At(IF c \in config.comes THEN "new" ELSE "done")]
  /\ total = config.total
  /\ own = [k \in Client |-> config.own]
  /\ share = Fresh

Next ==
  \/ \E p \in Proxy : Register(p) \/ Remove(p)
  \/ Compare \/ Hold
  \/ \E c \in Conn :
       \/ Accept(c) \/ AcceptInVain(c)
       \/ TakeTotal(c) \/ RefuseTotal(c) \/ TakeOwn(c) \/ RefuseOwn(c)
       \/ Submit(c) \/ Served(c) \/ VisitorPaired(c) \/ VisitorFails(c) \/ VhostPaired(c)
       \/ BridgeEnds(c)

Spec == Init /\ [][Next]_vars

-----------------------------------------------------------------------------
(* Properties *)

Picks == [conn : Conn, best : Backends, seen : Nat, rest : Seq(Backends),
          before : [Backends -> Nat], ring : Seq(Backends)]

TypeOK ==
  /\ config \in Configs
  /\ members \in Seq(Backends)
  /\ lives \in [Proxy -> 0 .. MaxLives]
  /\ cursor \in Nat
  /\ inflight \in [Backends -> Nat]
  /\ pick \in Picks \cup {None}
  /\ conn \in [Conn -> [at : Stages, load : Backends \cup {None}, total : BOOLEAN, own : BOOLEAN]]
  /\ total \in Nat /\ own \in [Client -> Nat]
  /\ share \in [Backends -> Nat]

\* Who must hold its permits: a queued connection, one that has just taken them,
\* and one being forwarded by a tcp or stcp proxy. The relays of sudp visitors
\* (serve.rs 3227-3230) and of virtual hosts run without permits and are left out.
Counted(c) == conn[c].at \in {"slotted", "queued"} \/ (conn[c].at = "bridge" /\ KindOf[c] \in {"tcp", "stcp"})

\* No way out of forwarding, and there are many, keeps or returns a token twice:
\* what the two limits and the loads say is what connections carry, and no tcp
\* or stcp connection is forwarded without its permits; relays of sudp visitors
\* and of virtual hosts take none, which Forwarding_total.cfg shows (pool.rs
\* 144-158, registry.rs 711-735).
CountsExact ==
  /\ total + Cardinality({c \in Conn : conn[c].total}) = config.total
  /\ \A k \in Client : own[k] + Cardinality({c \in Conn : conn[c].own /\ ClientFor(c) = k}) = config.own
  /\ \A b \in Backends : inflight[b] = Cardinality({c \in Conn : conn[c].load = b})
  /\ \A c \in Conn : Counted(c) => (config.total # 0 => conn[c].total) /\ (config.own # 0 => conn[c].own)

\* By turns: since the group last changed no member was picked twice more often
\* than another (registry.rs 885-889: strictly 1/N).
EvenShare ==
  config.policy = "roundrobin" =>
    \A i, j \in DOMAIN members : share[members[i]] <= share[members[j]] + 1

\* By load: although connections end while the loads are read, the one that is
\* picked is no busier than any other was at the start (registry.rs 903-917).
LeastChosen ==
  config.policy = "leastconn" /\ pick # None /\ pick.rest = <<>> =>
    \A i \in DOMAIN pick.ring : inflight[pick.best] <= pick.before[pick.ring[i]]

FairPick == EvenShare /\ LeastChosen

\* Everything that is forwarded counts against max_total_conns (config.rs 627).
TotalBounded ==
  config.total # 0 => Cardinality({c \in Conn : conn[c].at = "bridge"}) <= config.total
=============================================================================
