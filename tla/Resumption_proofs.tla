------------------------- MODULE Resumption_proofs -------------------------
(***************************************************************************)
(* Proofs about a session that is resumed: what both sides know of each    *)
(* other's proxies when it is (ProxySync), and the token it is resumed     *)
(* with (ResumeTokens).  The two modules share nothing here but the page.  *)
(*                                                                         *)
(* ProxySync, for any names, versions, files and bounds.  That reconciling *)
(* takes exactly what was not reported follows from what the queues may    *)
(* hold of the client's list while it is on its way (Reported, Announcing, *)
(* Answered), per session.  That no open port is without a backend follows *)
(* from two more facts: an unexplained registration is asked for once and  *)
(* answered before it is removed (Backed), and the panel's command numbers *)
(* let it register only what the client has in its table and has no older  *)
(* command to take out (Numbered, Agreement).                              *)
(*                                                                         *)
(* ResumeTokens, for any connections, sessions and lifetimes.  A token is  *)
(* accepted only as the one that waits for its session; so it is enough    *)
(* that no waiting token has been used and that no two sessions wait for   *)
(* the same one.  That both sides hold the same token follows from where   *)
(* the session's only login stands (Sync): before it is checked the client *)
(* shows its own token, after that its token is spent, and the new one is  *)
(* expected.                                                               *)
(***************************************************************************)
EXTENDS ResumeTokens, ProxySync, FiniteSetTheorems, SequenceTheorems, TLAPS

-----------------------------------------------------------------------------
(* The invariant.                                                          *)

Stages  == {"idle", "add", "register", "undo", "remove"}
Entry   == [sig : Versions \cup {0}, seen : 0..MaxResumes]
Part    == [idx : Nat, names : SUBSET Names]
State   == [link : {"none", "up", "parked", "gone"}, nlink : BOOLEAN, boot : Nat,
            resumed : BOOLEAN, epoch : 0..MaxResumes, table : [Names -> Entry],
            asm : [total : Nat, parts : SUBSET Part], said : SUBSET Names]
Process == [phase : {"off", "down", "reg", "ready", "adding"}, cur : Sessions \cup {NoConn},
            pending : SUBSET Names, adding : Names \cup {0},
            fallback : BOOLEAN, commits : BOOLEAN,
            withdrawn : SUBSET Names, misled : SUBSET Names, uiRemoved : SUBSET Names]
Request == [stage : Stages, s : Sessions \cup {NoConn},
            name : Names \cup {NoRequest.name}, sig : Versions \cup {0}]

SyncTypes ==
  /\ proc \in Process
  /\ proc.cur # NoConn <=> proc.phase \in {"reg", "ready", "adding"}
  /\ proc.adding \in Names <=> proc.phase = "adding"
  /\ file \in Files /\ store \in Listing /\ boot \in Listing
  /\ local \in [Names -> [sig : Versions \cup {0}, dynamic : BOOLEAN]]
  /\ srv \in [Sessions -> State]
  /\ \A s \in Sessions : srv[s].said \subseteq Named(srv[s].table)
  /\ up \in [Sessions -> Seq(Messages)] /\ down \in [Sessions -> Seq(Messages)]
  /\ panel \in Request
  /\ panel.stage # "idle" => panel.s \in Sessions /\ panel.name \in Names
  /\ panel.stage \in {"add", "register"} => panel.sig \in Versions
  /\ active \in Int
  /\ count \in [logins : 0..MaxLogins, boots : Nat, cmds : Nat, ui : Nat]

\* What may be used is there, and no registration is younger than its connection.
Ages ==
  /\ \A s \in Sessions :
       /\ count.logins < s => srv[s].link = "none"
       /\ srv[s].link = "none" => Named(srv[s].table) = {}
       /\ srv[s].boot <= count.boots
       /\ \A n \in Names : srv[s].table[n].seen <= srv[s].epoch
       /\ \A n \in srv[s].said : srv[s].table[n].seen = srv[s].epoch
  /\ proc.cur # NoConn => srv[proc.cur].link # "none" /\ srv[proc.cur].boot = count.boots
  /\ panel.stage # "idle" => srv[panel.s].link # "none"

\* The frames of a list, and what the assembler may have of them.
FramesOf(L) == {CommitFrames(L)[i] : i \in DOMAIN CommitFrames(L)}
Partial(asm, L) ==
  \/ asm = IdleAsm
  \/ /\ asm.total = Len(CommitFrames(L))
     /\ asm.parts \subseteq {[idx |-> f.idx, names |-> f.names] : f \in FramesOf(L)}

\* What a queue says of a list L: its frames are those of L, and what is
\* announced before one of them is on the list.
QueueListed(q, L) ==
  \A j \in DOMAIN q : q[j].type = "commit" =>
    q[j] \in FramesOf(L) /\ \A i \in 1..j-1 : q[i].type = "new" => q[i].name \in L
Commits(q) == \E j \in DOMAIN q : q[j].type = "commit"

\* The commit on its way is that of a list L; what was registered before it is
\* on the list, and what is on the list is not left over.
Reported(s, L) ==
  /\ proc.cur = s => L = Listed(boot)
  /\ QueueListed(up[s], L)
  /\ Commits(up[s]) => srv[s].said \subseteq L /\ (MaxProxies = 0 => L \cap Stale(s) = {})
  /\ srv[s].resumed => Partial(srv[s].asm, L)

\* Until the client has all answers it has sent nothing but its list.
Announcing(s) ==
  proc.cur = s /\ proc.phase = "reg" =>
    /\ \A j \in DOMAIN up[s] : up[s][j].type = "new" /\ up[s][j].name \in Listed(boot)
    /\ srv[s].said \subseteq Listed(boot)
    /\ srv[s].resumed => srv[s].asm = IdleAsm
    /\ MaxProxies = 0 => (Listed(boot) \ proc.pending) \cap Stale(s) = {}

\* What has been answered is not left over.
Answered(s) ==
  MaxProxies = 0 =>
    \A i \in DOMAIN down[s] : down[s][i].type = "resp" => down[s][i].name \notin Stale(s)

\* What a reconciliation has left over is on the client's list.
LeftoverListed(s) ==
  ~srv[s].resumed =>
    /\ MaxProxies = 0 => Stale(s) = {}
    /\ proc.cur = s => Stale(s) \subseteq Listed(boot)

Reconciles(s) ==
  (\E L \in SUBSET Names : Reported(s, L)) /\ Announcing(s) /\ Answered(s) /\ LeftoverListed(s)
Reconciling == \A s \in Sessions : srv[s].link = "up" => Reconciles(s)

\* The local interface adds nothing that is there.
AddingOwn ==
  proc.phase = "adding" =>
    local[proc.adding].sig # 0 /\ proc.adding \notin Listed(file) \ proc.uiRemoved

Live(s)      == proc.cur = s /\ srv[s].link = "up"
Fresh(s, n)  == n \in Named(srv[s].table) /\ srv[s].table[n].seen = srv[s].epoch
Explained(n) == n \in Listed(boot) \cup proc.withdrawn \cup proc.misled
Adding(n)    == proc.phase = "adding" /\ proc.adding = n

\* What a queue holds about a name: requests to register it, answers to them,
\* commands to remove it, each of which comes before an answer.
IsNew(m, n)    == m.type = "new" /\ m.name = n
IsResp(m, n)   == m.type = "resp" /\ m.name = n
IsRemove(m, n) == m.type = "cmd" /\ m.op = "remove" /\ m.name = n
NoNew(q, n)    == \A i \in DOMAIN q : ~IsNew(q[i], n)
NoResp(q, n)   == \A i \in DOMAIN q : ~IsResp(q[i], n)
OneNew(q, n)   == \A i, j \in DOMAIN q : IsNew(q[i], n) /\ IsNew(q[j], n) => i = j
OneResp(q, n)  == \A i, j \in DOMAIN q : IsResp(q[i], n) /\ IsResp(q[j], n) => i = j
RemovedBefore(q, n) ==
  \A i \in DOMAIN q : IsRemove(q[i], n) => \E j \in DOMAIN q : i < j /\ IsResp(q[j], n)

\* An unexplained registration is asked for once, by an add that still waits; a
\* command to remove what is registered again comes before the answer to that;
\* and the client knows what is registered.
AskedOnce(s, n) ==
  /\ OneNew(up[s], n) /\ OneResp(down[s], n)
  /\ NoNew(up[s], n) \/ NoResp(down[s], n)
  /\ (NoNew(up[s], n) /\ NoResp(down[s], n)) \/ Adding(n)
Backs(s, n) ==
  /\ AskedOnce(s, n)
  /\ Fresh(s, n) => RemovedBefore(down[s], n) /\ local[n].sig # 0
Backed == \A s \in Sessions, n \in Names : Live(s) /\ ~Explained(n) => Backs(s, n)

\* Commands and their acknowledgements are numbered; the last one is the panel's.
AcksUpTo(q, k) == \A i \in DOMAIN q : q[i].type = "ack" => q[i].id <= k
CmdsUpTo(q, k) ==
  \A i \in DOMAIN q : q[i].type = "cmd" =>
    /\ q[i].id <= k
    /\ q[i].op = "add" => q[i].sig \in Versions
    /\ \A j \in DOMAIN q : j < i /\ q[j].type = "cmd" => q[j].id < q[i].id
LastAdds(q, k, n) ==
  \A i \in DOMAIN q : q[i].type = "cmd" /\ q[i].id = k => q[i].op = "add" /\ q[i].name = n
Numbered ==
  \A s \in Sessions :
    /\ AcksUpTo(up[s], count.cmds) /\ CmdsUpTo(down[s], count.cmds)
    /\ panel.stage = "add" => LastAdds(down[s], count.cmds, panel.name)

\* The client has agreed to the panel's add.
AckFor(q, k) == \E i \in DOMAIN q : q[i].type = "ack" /\ q[i].id = k /\ q[i].ok
NoCmd(q)     == \A i \in DOMAIN q : q[i].type # "cmd"
Agreed ==
  \/ panel.stage = "register"
  \/ panel.stage = "add" /\ \E s \in Sessions : AckFor(up[s], count.cmds)

\* Then it has no command left to read, and it knows what the panel is about to
\* register.
Agreement ==
  Agreed =>
    /\ proc.cur # NoConn => NoCmd(down[proc.cur])
    /\ proc.phase # "off" /\ srv[panel.s].boot = count.boots /\ ~Explained(panel.name) =>
         local[panel.name].sig # 0 /\ proc.adding # panel.name

SyncIInv ==
  /\ SyncTypes /\ Ages /\ Reconciling /\ ConfigKept /\ AddingOwn
  /\ Backed /\ Numbered /\ Agreement /\ GaugeNotLow
USE SyncAssumption, NoNameIsZero

-----------------------------------------------------------------------------
(* Lists of names and their frames.                                        *)

\* The sequence of a finite set holds each element once (the order in which a
\* list is announced and cut up).
LEMMA ListOf ==
  ASSUME NEW S, IsFiniteSet(S)
  PROVE  /\ Cardinality(S) \in Nat
         /\ SetToSeq(S) \in [1..Cardinality(S) -> S]
         /\ \A i, j \in 1..Cardinality(S) : SetToSeq(S)[i] = SetToSeq(S)[j] => i = j
         /\ \A x \in S : \E i \in 1..Cardinality(S) : SetToSeq(S)[i] = x
<1>. DEFINE n == Cardinality(S)
            q == SetToSeq(S)
<1>1. n \in Nat /\ ExistsBijection(1..n, S)
  BY FS_CardinalityType
<1>2. \E f \in [1..n -> S] : IsInjective(f)
  BY <1>1 DEF ExistsBijection, Bijection, Injection, Surjection, IsInjective
<1>3. q \in [1..n -> S] /\ IsInjective(q)
  BY <1>2 DEF SetToSeq
<1>4. q \in Injection(1..n, S)
  BY <1>3 DEF Injection
<1>5. Cardinality(1..n) = n
  BY <1>1, FS_Interval
<1>6. q \in Surjection(1..n, S)
  <2>. HIDE DEF n, q
  <2>. QED BY <1>1, <1>4, <1>5, FS_Injection DEF n
<1>. QED BY <1>1, <1>3, <1>6 DEF IsInjective, Surjection

\* Dividing keeps the order.
LEMMA DivMonotone ==
  ASSUME NEW b \in Nat \ {0}, NEW a \in Nat, NEW c \in Nat, a <= c
  PROVE  a \div b \in Nat /\ c \div b \in Nat /\ a \div b <= c \div b
<1>. DEFINE q == a \div b
            r == c \div b
<1>1. q \in Nat /\ r \in Nat /\ b * q <= a /\ c < b * (r + 1)
  OBVIOUS
<1>. HIDE DEF q, r
<1>2. ASSUME q >= r + 1 PROVE FALSE
  <2>1. b * q >= b * (r + 1)
    BY <1>1, <1>2
  <2>2. b * q \in Int /\ b * (r + 1) \in Int
    BY <1>1
  <2>. QED BY <1>1, <2>1, <2>2
<1>3. q <= r
  BY <1>1, <1>2
<1>. QED BY <1>1, <1>3 DEF q, r

\* The frames of a list are numbered from 0, and together they hold the list
\* (split_commit_names).
LEMMA FramesFacts ==
  ASSUME NEW L \in SUBSET Names
  PROVE  /\ CommitFrames(L) \in Seq(Messages)
         /\ Len(CommitFrames(L)) \in Nat \ {0}
         /\ DOMAIN CommitFrames(L) = 1..Len(CommitFrames(L))
         /\ \A i \in 1..Len(CommitFrames(L)) :
              /\ CommitFrames(L)[i].type = "commit"
              /\ CommitFrames(L)[i].idx = i - 1
              /\ CommitFrames(L)[i].total = Len(CommitFrames(L))
              /\ CommitFrames(L)[i].names \subseteq L
         /\ \A n \in L : \E i \in 1..Len(CommitFrames(L)) : n \in CommitFrames(L)[i].names
<1>. DEFINE n == Cardinality(L)
            list == SetToSeq(L)
            total == IF L = {} THEN 1 ELSE ((n - 1) \div ChunkCap) + 1
            piece(i) == {list[j] : j \in {k \in 1..n : (k - 1) \div ChunkCap = i - 1}}
<1>1. IsFiniteSet(L) /\ (L # {} => n # 0)
  BY FS_Subset, FS_EmptySet
<1>2. n \in Nat /\ list \in [1..n -> L] /\ \A x \in L : \E i \in 1..n : list[i] = x
  BY <1>1, ListOf
<1>3. DOMAIN list = 1..n /\ list \in Seq(L) /\ Len(list) = n
  <2>. HIDE DEF n, list
  <2>. QED BY <1>2
<1>4. CommitFrames(L) = [i \in 1..total |-> CommitFrame(i - 1, total, piece(i))]
  <2>. HIDE DEF n
  <2>. QED BY <1>3, Zenon DEF CommitFrames
<1>5. total \in Nat \ {0}
  <2>1. CASE L = {} BY <2>1
  <2>2. CASE L # {}
    <3>. HIDE DEF n
    <3>1. n - 1 \in Nat BY <1>1, <1>2, <2>2
    <3>. QED BY <3>1, <2>2, DivMonotone
  <2>. QED BY <2>1, <2>2
<1>6. \A i \in 1..total : piece(i) \subseteq L
  <2>. HIDE DEF n, list, total
  <2>. QED BY <1>2
<1>7. \A x \in L : \E i \in 1..total : x \in piece(i)
  <2>. SUFFICES ASSUME NEW x \in L PROVE \E i \in 1..total : x \in piece(i)
    OBVIOUS
  <2>1. PICK k \in 1..n : list[k] = x
    BY <1>2
  <2>. DEFINE i == ((k - 1) \div ChunkCap) + 1
  <2>2. k - 1 \in Nat /\ n - 1 \in Nat /\ k - 1 <= n - 1
    <3>. HIDE DEF n
    <3>. QED BY <1>2
  <2>3. i \in 1..total
    <3>1. (k - 1) \div ChunkCap \in Nat /\ (n - 1) \div ChunkCap \in Nat
            /\ (k - 1) \div ChunkCap <= (n - 1) \div ChunkCap
      <4>. HIDE DEF n
      <4>. QED BY <2>2, DivMonotone
    <3>2. total = ((n - 1) \div ChunkCap) + 1
      OBVIOUS
    <3>. HIDE DEF n, total
    <3>. QED BY <3>1, <3>2
  <2>4. x \in piece(i)
    <3>1. (k - 1) \div ChunkCap = i - 1
      <4>1. (k - 1) \div ChunkCap \in Nat
        BY <2>2, DivMonotone
      <4>. QED BY <4>1
    <3>. QED BY <2>1, <3>1
  <2>. QED BY <2>3, <2>4
<1>. HIDE DEF n, list, total, piece
<1>8. /\ DOMAIN CommitFrames(L) = 1..total
      /\ \A i \in 1..total : CommitFrames(L)[i] = CommitFrame(i - 1, total, piece(i))
  BY <1>4
<1>9. \A i \in 1..total : CommitFrames(L)[i] \in Messages
  <2>. SUFFICES ASSUME NEW i \in 1..total PROVE CommitFrames(L)[i] \in Messages
    OBVIOUS
  <2>1. i - 1 \in Nat /\ total \in Nat /\ piece(i) \in SUBSET Names
    BY <1>5, <1>6
  <2>. QED BY <1>8, <2>1 DEF CommitFrame, Messages
<1>10. CommitFrames(L) \in Seq(Messages) /\ Len(CommitFrames(L)) = total
  BY <1>4, <1>5, <1>8, <1>9
<1>. QED BY <1>5, <1>6, <1>7, <1>8, <1>10 DEF CommitFrame
-----------------------------------------------------------------------------
(* What the server's functions make of a ClientState.                      *)

\* stop_proxy on some names: their entries and reports go, all else stays.
LEMMA StateWithoutFacts ==
  ASSUME SyncTypes, NEW s \in Sessions, NEW X
  PROVE  /\ StateWithout(s, X) \in State
         /\ StateWithout(s, X).said = srv[s].said \ X
         /\ \A n \in Names :
              StateWithout(s, X).table[n] = IF n \in X THEN NoEntry ELSE srv[s].table[n]
         /\ Named(StateWithout(s, X).table) = Named(srv[s].table) \ X
         /\ StateWithout(s, X).link = srv[s].link
         /\ StateWithout(s, X).nlink = srv[s].nlink
         /\ StateWithout(s, X).boot = srv[s].boot
         /\ StateWithout(s, X).resumed = srv[s].resumed
         /\ StateWithout(s, X).epoch = srv[s].epoch
         /\ StateWithout(s, X).asm = srv[s].asm
<1>1. srv[s] \in State
  BY DEF SyncTypes
<1>2. NoEntry \in Entry
  BY DEF NoEntry, Entry
<1>3. [n \in Names |-> IF n \in X THEN NoEntry ELSE srv[s].table[n]] \in [Names -> Entry]
  BY <1>1, <1>2 DEF State
<1>4. /\ StateWithout(s, X) \in State
      /\ StateWithout(s, X).said = srv[s].said \ X
      /\ StateWithout(s, X).table = [n \in Names |-> IF n \in X THEN NoEntry ELSE srv[s].table[n]]
      /\ StateWithout(s, X).link = srv[s].link
      /\ StateWithout(s, X).nlink = srv[s].nlink
      /\ StateWithout(s, X).boot = srv[s].boot
      /\ StateWithout(s, X).resumed = srv[s].resumed
      /\ StateWithout(s, X).epoch = srv[s].epoch
      /\ StateWithout(s, X).asm = srv[s].asm
  BY <1>1, <1>3 DEF StateWithout, State
<1>5. \A n \in Names :
        StateWithout(s, X).table[n] = IF n \in X THEN NoEntry ELSE srv[s].table[n]
  BY <1>4
<1>6. Named(StateWithout(s, X).table) = Named(srv[s].table) \ X
  BY <1>5 DEF Named, NoEntry
<1>. QED BY <1>4, <1>5, <1>6

\* A ClientState in which only one name was registered anew, kept or dropped.
Entered(s, n, v, done, new) ==
  /\ new \in State
  /\ new.link = srv[s].link /\ new.nlink = srv[s].nlink /\ new.boot = srv[s].boot
  /\ new.resumed = srv[s].resumed /\ new.epoch = srv[s].epoch /\ new.asm = srv[s].asm
  /\ \A k \in Names \ {n} : new.table[k] = srv[s].table[k]
  /\ done => new.table[n] = [sig |-> v, seen |-> srv[s].epoch]
  /\ ~done => new.table[n] = NoEntry
  /\ \A k \in Names \ {n} : k \in new.said <=> k \in srv[s].said
  /\ new.said \subseteq Named(new.table) /\ new.said \subseteq srv[s].said

\* register_proxy touches one name, and says truly by how much the number of
\* registrations changes.
LEMMA RegisteredFacts ==
  ASSUME SyncTypes, NEW s \in Sessions, NEW n \in Names, NEW v \in Versions,
         NEW r \in Registered(s, n, v)
  PROVE  /\ r.ok \in BOOLEAN
         /\ Entered(s, n, v, r.ok, r.state)
         /\ r.diff = (IF n \in Named(r.state.table) THEN 1 ELSE 0)
                     - (IF n \in Named(srv[s].table) THEN 1 ELSE 0)
<1>. DEFINE entry == [sig |-> v, seen |-> srv[s].epoch]
            bare == StateWithout(s, {n})
            held == IF n \in Named(srv[s].table) THEN 1 ELSE 0
<1>1. srv[s] \in State /\ srv[s].said \subseteq Named(srv[s].table)
  BY DEF SyncTypes
<1>2. entry \in Entry /\ entry.sig # 0 /\ entry.sig = v
  BY <1>1 DEF Entry, State
<1>3. CASE r = [ok |-> TRUE, state |-> [srv[s] EXCEPT !.table[n] = entry], diff |-> 0] /\ Reusable(s, n, v)
  <2>. DEFINE new == [srv[s] EXCEPT !.table[n] = entry]
  <2>1. /\ new \in State /\ new.table = [srv[s].table EXCEPT ![n] = entry]
        /\ new.link = srv[s].link /\ new.nlink = srv[s].nlink /\ new.boot = srv[s].boot
        /\ new.resumed = srv[s].resumed /\ new.epoch = srv[s].epoch /\ new.asm = srv[s].asm
        /\ new.said = srv[s].said
    BY <1>1, <1>2 DEF State
  <2>2. srv[s].table \in [Names -> Entry]
    BY <1>1 DEF State
  <2>3. new.table[n] = entry /\ \A k \in Names \ {n} : new.table[k] = srv[s].table[k]
    BY <2>1, <2>2
  <2>4. Named(new.table) = Named(srv[s].table) /\ n \in Named(srv[s].table)
    BY <1>2, <1>3, <2>3 DEF Named, Reusable
  <2>5. r.ok = TRUE /\ r.state = new /\ r.diff = 0
    BY <1>3
  <2>6. new.said \subseteq Named(new.table)
    BY <1>1, <2>1, <2>4
  <2>. HIDE DEF new
  <2>7. Entered(s, n, v, r.ok, r.state)
    BY <2>1, <2>3, <2>5, <2>6 DEF Entered
  <2>8. n \in Named(r.state.table) /\ n \in Named(srv[s].table)
    BY <2>4, <2>5
  <2>9. r.ok \in BOOLEAN /\ r.diff = 0
    BY <2>5
  <2>. QED BY <2>7, <2>8, <2>9
<1>4. CASE r = [ok |-> FALSE, state |-> bare, diff |-> -held]
  <2>1. r.ok = FALSE /\ r.state = bare /\ r.diff = -held
    BY <1>4
  <2>2. n \notin Named(bare.table) /\ bare.said \subseteq Named(bare.table)
    BY <1>1, StateWithoutFacts
  <2>3. Entered(s, n, v, FALSE, bare)
    BY <2>2, StateWithoutFacts DEF Entered
  <2>4. Entered(s, n, v, r.ok, r.state)
    <3>. HIDE DEF bare
    <3>. QED BY <2>1, <2>3 DEF Entered
  <2>5. r.diff = 0 - held
    <3>. HIDE DEF bare
    <3>. QED BY <2>1
  <2>. HIDE DEF bare
  <2>. QED BY <2>1, <2>2, <2>4, <2>5
<1>5. CASE r = [ok |-> TRUE, state |-> [bare EXCEPT !.table[n] = entry], diff |-> 1 - held]
  <2>. DEFINE new == [bare EXCEPT !.table[n] = entry]
  <2>1. bare \in State
    BY StateWithoutFacts
  <2>a. /\ bare.link = srv[s].link /\ bare.nlink = srv[s].nlink /\ bare.boot = srv[s].boot
        /\ bare.resumed = srv[s].resumed /\ bare.epoch = srv[s].epoch /\ bare.asm = srv[s].asm
        /\ bare.said = srv[s].said \ {n}
        /\ \A k \in Names \ {n} : bare.table[k] = srv[s].table[k]
    BY StateWithoutFacts
  <2>. HIDE DEF bare
  <2>2. /\ new \in State /\ new.table = [bare.table EXCEPT ![n] = entry]
        /\ new.link = bare.link /\ new.nlink = bare.nlink /\ new.boot = bare.boot
        /\ new.resumed = bare.resumed /\ new.epoch = bare.epoch /\ new.asm = bare.asm
        /\ new.said = bare.said
    BY <1>2, <2>1 DEF State
  <2>3. bare.table \in [Names -> Entry]
    BY <2>1 DEF State
  <2>4. new.table[n] = entry /\ \A k \in Names \ {n} : new.table[k] = srv[s].table[k]
    BY <2>2, <2>3, <2>a
  <2>5. n \in Named(new.table) /\ \A k \in Names \ {n} : k \in Named(new.table) <=> k \in Named(srv[s].table)
    BY <1>2, <2>4 DEF Named
  <2>6. new.said \subseteq Named(new.table) /\ new.said \subseteq srv[s].said
    BY <1>1, <2>2, <2>5, <2>a DEF Named
  <2>7. r.ok = TRUE /\ r.state = new /\ r.diff = 1 - held
    BY <1>5
  <2>. HIDE DEF new
  <2>. QED BY <2>2, <2>4, <2>5, <2>6, <2>7, <2>a DEF Entered
<1>. QED BY <1>3, <1>4, <1>5 DEF Registered
-----------------------------------------------------------------------------
(* What a step of the server does to the tables.                           *)

\* The entries and reports X of s go; what else changes is said beside it.
Trimmed(s, X) ==
  /\ srv' \in [Sessions -> State]
  /\ \A t \in Sessions \ {s} : srv'[t] = srv[t]
  /\ srv'[s].nlink = srv[s].nlink /\ srv'[s].boot = srv[s].boot
  /\ srv'[s].epoch = srv[s].epoch
  /\ \A n \in Names : srv'[s].table[n] = IF n \in X THEN NoEntry ELSE srv[s].table[n]
  /\ Named(srv'[s].table) = Named(srv[s].table) \ X
  /\ srv'[s].said = srv[s].said \ X

\* The name n of s is registered with version v, or taken out.
Touched(s, n, v, done) ==
  /\ srv' \in [Sessions -> State]
  /\ \A t \in Sessions \ {s} : srv'[t] = srv[t]
  /\ srv'[s].link = srv[s].link /\ srv'[s].nlink = srv[s].nlink /\ srv'[s].boot = srv[s].boot
  /\ srv'[s].resumed = srv[s].resumed /\ srv'[s].epoch = srv[s].epoch /\ srv'[s].asm = srv[s].asm
  /\ \A k \in Names \ {n} : srv'[s].table[k] = srv[s].table[k]
  /\ done => srv'[s].table[n] = [sig |-> v, seen |-> srv[s].epoch]
  /\ ~done => srv'[s].table[n] = NoEntry
  /\ \A k \in Names \ {n} : k \in srv'[s].said <=> k \in srv[s].said
  /\ srv'[s].said \subseteq Named(srv'[s].table)
  /\ active' = active + ((IF n \in Named(srv'[s].table) THEN 1 ELSE 0)
                         - (IF n \in Named(srv[s].table) THEN 1 ELSE 0))

\* A message of a type has the fields of that type.
LEMMA MessageFields ==
  ASSUME NEW m \in Messages
  PROVE  /\ m.type \in {"commit", "new", "close", "resp", "cmd", "ack"}
         /\ m.type = "commit" => m.idx \in Nat /\ m.total \in Nat /\ m.names \subseteq Names
         /\ m.type = "new" => m.name \in Names /\ m.sig \in Versions
         /\ m.type = "close" => m.name \in Names
         /\ m.type = "resp" => m.name \in Names /\ m.ok \in BOOLEAN
         /\ m.type = "cmd" => /\ m.op \in {"add", "remove"} /\ m.name \in Names
                              /\ m.sig \in Versions \cup {0} /\ m.id \in Nat
         /\ m.type = "ack" => m.id \in Nat /\ m.ok \in BOOLEAN
  BY DEF Messages

\* What is made to be sent is a message.
LEMMA MessagesMade ==
  /\ \A n \in Names, v \in Versions : NewProxy(n, v) \in Messages
  /\ \A n \in Names : CloseProxy(n) \in Messages
  /\ \A n \in Names, done \in BOOLEAN : NewProxyResp(n, done) \in Messages
  /\ \A op \in {"add", "remove"}, n \in Names, v \in Versions \cup {0}, id \in Nat :
       ServerCmd(op, n, v, id) \in Messages
  /\ \A id \in Nat, done \in BOOLEAN : ServerCmdResp(id, done) \in Messages
  BY DEF Messages, NewProxy, CloseProxy, NewProxyResp, ServerCmd, ServerCmdResp

\* What is left of a queue when its head is taken.
LEMMA TailFacts ==
  ASSUME NEW S, NEW q \in Seq(S), q # <<>>
  PROVE  /\ Head(q) \in S /\ Head(q) = q[1] /\ 1 \in 1..Len(q)
         /\ Tail(q) \in Seq(S) /\ Len(q) \in Nat /\ Len(Tail(q)) = Len(q) - 1
         /\ DOMAIN q = 1..Len(q) /\ DOMAIN Tail(q) = 1..Len(q) - 1
         /\ \A i \in 1..Len(q) - 1 : Tail(q)[i] = q[i + 1] /\ i + 1 \in 1..Len(q)
         /\ \A i \in 1..Len(q) : i = 1 \/ (i - 1 \in 1..Len(q) - 1 /\ q[i] = Tail(q)[i - 1])
<1>1. Len(q) \in Nat /\ Len(q) # 0
  BY EmptySeq
<1>2. /\ Head(q) \in S /\ Head(q) = q[1] /\ Tail(q) \in Seq(S) /\ Len(Tail(q)) = Len(q) - 1
      /\ \A i \in 1..Len(Tail(q)) : Tail(q)[i] = q[i + 1]
  BY HeadTailProperties
<1>3. DOMAIN q = 1..Len(q) /\ DOMAIN Tail(q) = 1..Len(Tail(q))
  BY <1>2, LenProperties
<1>. DEFINE l == Len(q)
<1>4. l \in Nat /\ l # 0 BY <1>1
<1>. HIDE DEF l
<1>5. /\ 1 \in 1..l /\ \A i \in 1..l - 1 : i + 1 \in 1..l
      /\ \A i \in 1..l : i = 1 \/ (i - 1 \in 1..l - 1 /\ (i - 1) + 1 = i)
  BY <1>4
<1>. QED BY <1>1, <1>2, <1>3, <1>5 DEF l

\* A queue with one message more.
LEMMA LongerFacts ==
  ASSUME NEW S, NEW q \in Seq(S), NEW m \in S
  PROVE  /\ Append(q, m) \in Seq(S) /\ Len(q) \in Nat /\ Len(Append(q, m)) = Len(q) + 1
         /\ DOMAIN q = 1..Len(q) /\ DOMAIN Append(q, m) = 1..Len(q) + 1
         /\ \A i \in 1..Len(q) : Append(q, m)[i] = q[i] /\ i \in 1..Len(q) + 1
         /\ Append(q, m)[Len(q) + 1] = m /\ Len(q) + 1 \in 1..Len(q) + 1
         /\ \A i \in 1..Len(q) + 1 : i \in 1..Len(q) \/ i = Len(q) + 1
<1>1. /\ Append(q, m) \in Seq(S) /\ Len(q) \in Nat /\ Len(Append(q, m)) = Len(q) + 1
      /\ \A i \in 1..Len(q) : Append(q, m)[i] = q[i]
      /\ Append(q, m)[Len(q) + 1] = m
  BY AppendProperties
<1>2. DOMAIN q = 1..Len(q) /\ DOMAIN Append(q, m) = 1..Len(q) + 1
  BY <1>1, LenProperties
<1>. DEFINE l == Len(q)
<1>3. l \in Nat BY <1>1
<1>. HIDE DEF l
<1>4. /\ \A i \in 1..l : i \in 1..l + 1
      /\ l + 1 \in 1..l + 1 /\ \A i \in 1..l + 1 : i \in 1..l \/ i = l + 1
  BY <1>3
<1>. QED BY <1>1, <1>2, <1>4 DEF l

\* Messages sent to a server that is there are added; otherwise they are lost.
LEMMA SentFacts ==
  ASSUME SyncTypes, NEW s \in Sessions, NEW p \in Seq(Messages)
  PROVE  /\ Sent(s, p) \in [Sessions -> Seq(Messages)]
         /\ \A t \in Sessions \ {s} : Sent(s, p)[t] = up[t]
         /\ srv[s].link # "up" => Sent(s, p)[s] = up[s]
         /\ srv[s].link = "up" =>
              /\ Len(up[s]) \in Nat /\ Len(p) \in Nat /\ Len(Sent(s, p)[s]) = Len(up[s]) + Len(p)
              /\ DOMAIN up[s] = 1..Len(up[s])
              /\ DOMAIN Sent(s, p)[s] = 1..Len(up[s]) + Len(p)
              /\ \A i \in 1..Len(up[s]) : Sent(s, p)[s][i] = up[s][i]
              /\ \A i \in 1..Len(up[s]) + Len(p) :
                   i \in 1..Len(up[s])
                     \/ (i - Len(up[s]) \in 1..Len(p) /\ Sent(s, p)[s][i] = p[i - Len(up[s])])
<1>1. up \in [Sessions -> Seq(Messages)] /\ up[s] \in Seq(Messages)
  BY DEF SyncTypes
<1>2. up[s] \o p \in Seq(Messages)
  BY <1>1, ConcatProperties
<1>3. /\ Sent(s, p) \in [Sessions -> Seq(Messages)]
      /\ \A t \in Sessions \ {s} : Sent(s, p)[t] = up[t]
      /\ Sent(s, p)[s] = IF srv[s].link = "up" THEN up[s] \o p ELSE up[s]
  BY <1>1, <1>2 DEF Sent
<1>4. /\ Len(up[s]) \in Nat /\ Len(p) \in Nat /\ Len(up[s] \o p) = Len(up[s]) + Len(p)
      /\ \A i \in 1..Len(up[s] \o p) :
           (up[s] \o p)[i] = IF i <= Len(up[s]) THEN up[s][i] ELSE p[i - Len(up[s])]
  BY <1>1, ConcatProperties, LenProperties
<1>5. DOMAIN up[s] = 1..Len(up[s]) /\ DOMAIN (up[s] \o p) = 1..Len(up[s]) + Len(p)
  BY <1>1, <1>2, <1>4, LenProperties
<1>. DEFINE l == Len(up[s])
            w == Len(p)
<1>6. l \in Nat /\ w \in Nat BY <1>4
<1>. HIDE DEF l, w
<1>7. /\ \A i \in 1..l : i \in 1..l + w /\ i <= l
      /\ \A i \in 1..l + w : i \in 1..l \/ (i - l \in 1..w /\ ~(i <= l))
  BY <1>6
<1>. QED BY <1>3, <1>4, <1>5, <1>7 DEF l, w

\* What is sent to one session reaches no other.
LEMMA SentElsewhere ==
  ASSUME SyncTypes, NEW s \in Sessions, NEW t \in Sessions, t # s, NEW p
  PROVE  Sent(s, p)[t] = up[t]
<1>1. up \in [Sessions -> Seq(Messages)]
  BY DEF SyncTypes
<1>. QED BY <1>1 DEF Sent
-----------------------------------------------------------------------------
(* The steps of the server, one by one.                                    *)

\* The session and message a server step is about.
Serving(s, type) ==
  /\ srv[s].link = "up" /\ up[s] # <<>> /\ Head(up[s]) \in Messages /\ Head(up[s]).type = type
  /\ up' = [up EXCEPT ![s] = Tail(up[s])]
  /\ UNCHANGED processVars /\ UNCHANGED count

\* What handle_control has before it when it handles a message of a type.
LEMMA HeardFacts ==
  ASSUME SyncTypes, NEW s \in Sessions, NEW type, Heard(s, type)
  PROVE  /\ srv[s].link = "up" /\ up[s] # <<>>
         /\ Head(up[s]) \in Messages /\ Head(up[s]).type = type
<1>1. up[s] \in Seq(Messages) BY DEF SyncTypes
<1>. QED BY <1>1, TailFacts DEF Heard

\* Replacing the ClientState of s by one with names taken out.
LEMMA TrimmedBy ==
  ASSUME SyncTypes, NEW s \in Sessions, NEW X, NEW new \in State,
         srv' = [srv EXCEPT ![s] = new],
         new.nlink = srv[s].nlink, new.boot = srv[s].boot, new.epoch = srv[s].epoch,
         new.table = StateWithout(s, X).table, new.said = StateWithout(s, X).said
  PROVE  Trimmed(s, X) /\ srv'[s] = new
<1>1. srv \in [Sessions -> State] BY DEF SyncTypes
<1>2. srv' \in [Sessions -> State] /\ srv'[s] = new /\ \A t \in Sessions \ {s} : srv'[t] = srv[t]
  BY <1>1
<1>. QED BY <1>2, StateWithoutFacts DEF Trimmed

\* handle_control on NewProxy.
LEMMA HandleNewProxyEffect ==
  ASSUME SyncTypes, NEW s \in Sessions, HandleNewProxy(s)
  PROVE  LET m == Head(up[s]) IN
         /\ Serving(s, "new") /\ panel' = panel /\ m.name \in Names /\ m.sig \in Versions
         /\ \E done \in BOOLEAN :
              /\ down' = [down EXCEPT ![s] = Append(down[s], NewProxyResp(m.name, done))]
              /\ \/ done /\ Touched(s, m.name, m.sig, TRUE)
                 \/ ~done /\ Touched(s, m.name, m.sig, FALSE)
                 \/ ~done /\ QuotaFull(s) /\ UNCHANGED <<srv, active>>
<1>. DEFINE m == Head(up[s])
<1>1. Serving(s, "new") /\ panel' = panel /\ m.name \in Names /\ m.sig \in Versions
  BY HeardFacts, MessageFields DEF HandleNewProxy, Serving
<1>2. CASE QuotaFull(s)
  <2>1. down' = [down EXCEPT ![s] = Append(down[s], NewProxyResp(m.name, FALSE))] /\ UNCHANGED <<srv, active>>
    BY <1>2 DEF HandleNewProxy
  <2>. QED BY <1>1, <1>2, <2>1
<1>3. CASE ~QuotaFull(s)
  <2>1. PICK r \in Registered(s, m.name, m.sig) :
          /\ srv' = [srv EXCEPT ![s] =
                       IF r.ok THEN [r.state EXCEPT !.said = r.state.said \cup {m.name}] ELSE r.state]
          /\ active' = active + r.diff
          /\ down' = [down EXCEPT ![s] = Append(down[s], NewProxyResp(m.name, r.ok))]
    BY <1>3 DEF HandleNewProxy
  <2>2. /\ r.ok \in BOOLEAN
        /\ Entered(s, m.name, m.sig, r.ok, r.state)
        /\ r.diff = (IF m.name \in Named(r.state.table) THEN 1 ELSE 0)
                     - (IF m.name \in Named(srv[s].table) THEN 1 ELSE 0)
    BY <1>1, <2>1, RegisteredFacts
  <2>. DEFINE new == IF r.ok THEN [r.state EXCEPT !.said = r.state.said \cup {m.name}] ELSE r.state
              n == m.name
              v == m.sig
  <2>3. n \in Names /\ v \in Versions BY <1>1
  <2>. HIDE DEF m, n, v
  <2>4. r.state \in State BY <2>2 DEF Entered
  <2>5. /\ new \in State /\ new.table = r.state.table
        /\ new.link = r.state.link /\ new.nlink = r.state.nlink /\ new.boot = r.state.boot
        /\ new.resumed = r.state.resumed /\ new.epoch = r.state.epoch /\ new.asm = r.state.asm
        /\ new.said = IF r.ok THEN r.state.said \cup {n} ELSE r.state.said
    BY <2>3, <2>4 DEF State, n
  <2>6. srv \in [Sessions -> State] BY DEF SyncTypes
  <2>7. srv' \in [Sessions -> State] /\ srv'[s] = new /\ \A t \in Sessions \ {s} : srv'[t] = srv[t]
    BY <2>1, <2>5, <2>6 DEF n, m
  <2>. HIDE DEF new
  <2>8. r.ok => n \in Named(r.state.table)
    BY <2>2, <2>3 DEF Entered, Named, n, v
  <2>9. srv'[s].said \subseteq Named(srv'[s].table)
    BY <2>2, <2>5, <2>7, <2>8 DEF Entered, Named
  <2>10. CASE r.ok
    <3>1. Touched(s, n, v, TRUE)
      BY <2>1, <2>2, <2>3, <2>5, <2>7, <2>9, <2>10 DEF Entered, Touched, n, v
    <3>. QED BY <1>1, <2>1, <2>2, <2>10, <3>1 DEF n, v, m
  <2>11. CASE ~r.ok
    <3>1. Touched(s, n, v, FALSE)
      BY <2>1, <2>2, <2>3, <2>5, <2>7, <2>9, <2>11 DEF Entered, Touched, n, v
    <3>. QED BY <1>1, <2>1, <2>2, <2>11, <3>1 DEF n, v, m
  <2>. QED BY <2>10, <2>11
<1>. QED BY <1>2, <1>3

\* handle_control on CloseProxy.
LEMMA HandleCloseProxyEffect ==
  ASSUME SyncTypes, NEW s \in Sessions, HandleCloseProxy(s)
  PROVE  /\ Serving(s, "close") /\ UNCHANGED <<down, panel>>
         /\ Trimmed(s, {Head(up[s]).name})
         /\ srv'[s].link = srv[s].link /\ srv'[s].resumed = srv[s].resumed
         /\ srv'[s].asm = srv[s].asm
         /\ active' \in {active, active - 1}
         /\ active' = active \/ Head(up[s]).name \in Named(srv[s].table)
<1>. DEFINE n == Head(up[s]).name
<1>1. Serving(s, "close") /\ UNCHANGED <<down, panel>>
  BY HeardFacts DEF HandleCloseProxy, Serving
<1>2. srv' = [srv EXCEPT ![s] = StateWithout(s, {n})]
  BY DEF HandleCloseProxy
<1>3. /\ Trimmed(s, {n}) /\ srv'[s] = StateWithout(s, {n})
  <2>. DEFINE X    == {n}
              bare == StateWithout(s, X)
  <2>1. srv' = [srv EXCEPT ![s] = bare]
    BY <1>2
  <2>2. /\ bare \in State
        /\ bare.nlink = srv[s].nlink /\ bare.boot = srv[s].boot /\ bare.epoch = srv[s].epoch
    <3>. HIDE DEF X
    <3>. QED BY StateWithoutFacts
  <2>3. bare.table = StateWithout(s, X).table /\ bare.said = StateWithout(s, X).said
    OBVIOUS
  <2>. HIDE DEF bare, X
  <2>4. Trimmed(s, X) /\ srv'[s] = bare
    BY <2>1, <2>2, <2>3, TrimmedBy
  <2>. QED BY <2>4 DEF bare, X
<1>4. active \in Int BY DEF SyncTypes
<1>5. active' = active - (IF n \in Named(srv[s].table) \cap Ported THEN 1 ELSE 0)
  BY DEF HandleCloseProxy
<1>. HIDE DEF n
<1>6. active' \in {active, active - 1} /\ (active' = active \/ n \in Named(srv[s].table))
  BY <1>4, <1>5
<1>. QED BY <1>1, <1>3, <1>6, StateWithoutFacts DEF n

\* handle_control on ResumeCommit: ignored, collected, or settled.
LEMMA HandleCommitEffect ==
  ASSUME SyncTypes, NEW s \in Sessions, HandleCommit(s)
  PROVE  LET f    == Head(up[s])
             asm  == Assembled(srv[s].asm, f)
             gone == Named(srv[s].table) \ Wanted(asm)
         IN
         /\ Serving(s, "commit") /\ UNCHANGED <<down, panel>>
         /\ asm \in [total : Nat, parts : SUBSET Part]
         /\ \/ ~srv[s].resumed /\ UNCHANGED <<srv, active>>
            \/ /\ srv[s].resumed /\ Complete(asm) /\ Trimmed(s, gone)
               /\ srv'[s].link = "up" /\ srv'[s].resumed = FALSE /\ srv'[s].asm = IdleAsm
               /\ active' = active - Cardinality(gone)
            \/ /\ srv[s].resumed /\ ~Complete(asm) /\ Trimmed(s, {})
               /\ srv'[s].link = "up" /\ srv'[s].resumed = TRUE /\ srv'[s].asm = asm
               /\ active' = active
<1>. DEFINE f    == Head(up[s])
            asm  == Assembled(srv[s].asm, f)
            gone == Named(srv[s].table) \ Wanted(asm)
            Asm  == [total : Nat, parts : SUBSET Part]
<1>1. Serving(s, "commit") /\ UNCHANGED <<down, panel>> /\ srv[s].link = "up"
  BY HeardFacts DEF HandleCommit, Serving
<1>2. f \in Messages /\ f.type = "commit" /\ f.idx \in Nat /\ f.total \in Nat /\ f.names \subseteq Names
  BY <1>1, MessageFields DEF Serving
<1>3. srv[s] \in State BY DEF SyncTypes
<1>4. asm \in Asm
  <2>. HIDE DEF f
  <2>1. srv[s].asm \in Asm BY <1>3 DEF State
  <2>2. [idx |-> f.idx, names |-> f.names] \in Part BY <1>2 DEF Part
  <2>. QED BY <1>2, <2>1, <2>2 DEF Assembled
<1>5. CASE ~srv[s].resumed
  BY <1>1, <1>4, <1>5 DEF HandleCommit
<1>6. CASE srv[s].resumed /\ Complete(asm)
  <2>1. srv' = [srv EXCEPT ![s] = Reconciled(s, gone)] /\ active' = active - Cardinality(gone)
    BY <1>6 DEF HandleCommit
  <2>. DEFINE bare == StateWithout(s, gone)
              new == [bare EXCEPT !.resumed = FALSE, !.asm = IdleAsm]
  <2>2. bare \in State
    BY StateWithoutFacts
  <2>b. bare.nlink = srv[s].nlink /\ bare.boot = srv[s].boot /\ bare.epoch = srv[s].epoch /\ bare.link = srv[s].link
    BY StateWithoutFacts
  <2>3. IdleAsm \in Asm BY DEF IdleAsm
  <2>4. /\ new \in State /\ new.nlink = bare.nlink /\ new.boot = bare.boot /\ new.epoch = bare.epoch
        /\ new.table = bare.table /\ new.said = bare.said
        /\ new.link = bare.link /\ new.resumed = FALSE /\ new.asm = IdleAsm
    <3>. HIDE DEF bare
    <3>. QED BY <2>2, <2>3 DEF State
  <2>5. srv' = [srv EXCEPT ![s] = new]
    BY <2>1 DEF Reconciled
  <2>. DEFINE X == gone
  <2>6. new.table = StateWithout(s, X).table /\ new.said = StateWithout(s, X).said
    BY <2>4
  <2>a. new \in State /\ new.nlink = srv[s].nlink /\ new.boot = srv[s].boot /\ new.epoch = srv[s].epoch
    <3>. HIDE DEF bare, new
    <3>. QED BY <2>4, <2>b
  <2>7. Trimmed(s, X) /\ srv'[s] = new
    <3>. HIDE DEF new, X, bare, gone, asm
    <3>. QED BY <2>5, <2>6, <2>a, TrimmedBy
  <2>. HIDE DEF new, X
  <2>8. Trimmed(s, gone)
    BY <2>7 DEF X
  <2>. QED BY <1>1, <1>4, <1>6, <2>1, <2>4, <2>7, <2>8, <2>b
<1>7. CASE srv[s].resumed /\ ~Complete(asm)
  <2>1. srv' = [srv EXCEPT ![s].asm = asm] /\ active' = active
    BY <1>7 DEF HandleCommit
  <2>. DEFINE new == [srv[s] EXCEPT !.asm = asm]
              X == {}
  <2>2. /\ new \in State /\ new.nlink = srv[s].nlink /\ new.boot = srv[s].boot /\ new.epoch = srv[s].epoch
        /\ new.table = srv[s].table /\ new.said = srv[s].said
        /\ new.link = srv[s].link /\ new.resumed = srv[s].resumed /\ new.asm = asm
    <3>. HIDE DEF asm
    <3>. QED BY <1>3, <1>4 DEF State
  <2>3. srv' = [srv EXCEPT ![s] = new]
    BY <2>1
  <2>. HIDE DEF new, asm
  <2>4. srv \in [Sessions -> State] BY DEF SyncTypes
  <2>5. srv' \in [Sessions -> State] /\ srv'[s] = new /\ \A t \in Sessions \ {s} : srv'[t] = srv[t]
    BY <2>2, <2>3, <2>4
  <2>6. Trimmed(s, {})
    BY <2>2, <2>5 DEF Trimmed
  <2>7. srv[s].resumed = TRUE /\ srv'[s].resumed = TRUE /\ srv'[s].link = "up" /\ srv'[s].asm = asm
    BY <1>1, <1>3, <1>7, <2>2, <2>5 DEF State
  <2>. QED BY <1>1, <1>4, <1>7, <2>1, <2>6, <2>7 DEF asm
<1>. QED BY <1>5, <1>6, <1>7
\* The five-second tick after the grace period.
LEMMA GraceExpiresEffect ==
  ASSUME SyncTypes, NEW s \in Sessions, GraceExpires(s)
  PROVE  /\ srv[s].link = "up" /\ srv[s].resumed
         /\ Trimmed(s, Stale(s))
         /\ srv'[s].link = "up" /\ srv'[s].resumed = FALSE /\ srv'[s].asm = srv[s].asm
         /\ active' = active - Cardinality(Stale(s))
         /\ UNCHANGED processVars /\ UNCHANGED <<up, down, panel, count>>
<1>1. /\ srv[s].link = "up" /\ srv[s].resumed
      /\ srv' = [srv EXCEPT ![s] = [StateWithout(s, Stale(s)) EXCEPT !.resumed = FALSE]]
      /\ active' = active - Cardinality(Stale(s))
      /\ UNCHANGED processVars /\ UNCHANGED <<up, down, panel, count>>
  BY DEF GraceExpires
<1>. DEFINE X    == Stale(s)
            bare == StateWithout(s, X)
            new  == [bare EXCEPT !.resumed = FALSE]
<1>2. /\ bare \in State /\ bare.asm = srv[s].asm /\ bare.link = srv[s].link
      /\ bare.nlink = srv[s].nlink /\ bare.boot = srv[s].boot /\ bare.epoch = srv[s].epoch
  <2>. HIDE DEF X
  <2>. QED BY StateWithoutFacts
<1>3. bare.table = StateWithout(s, X).table /\ bare.said = StateWithout(s, X).said
  OBVIOUS
<1>4. srv' = [srv EXCEPT ![s] = new]
  BY <1>1
<1>. HIDE DEF bare
<1>5. /\ new \in State /\ new.nlink = bare.nlink /\ new.boot = bare.boot /\ new.epoch = bare.epoch
      /\ new.table = bare.table /\ new.said = bare.said
      /\ new.link = bare.link /\ new.resumed = FALSE /\ new.asm = bare.asm
  BY <1>2 DEF State
<1>a. /\ new \in State /\ new.nlink = srv[s].nlink /\ new.boot = srv[s].boot /\ new.epoch = srv[s].epoch
      /\ new.table = StateWithout(s, X).table /\ new.said = StateWithout(s, X).said
  <2>. HIDE DEF new, X
  <2>. QED BY <1>2, <1>3, <1>5
<1>. HIDE DEF new, X
<1>6. Trimmed(s, X) /\ srv'[s] = new
  BY <1>4, <1>a, TrimmedBy, ZenonT(60)
<1>. QED BY <1>1, <1>2, <1>5, <1>6 DEF X

\* cleanup_client: all names go and the ClientState is gone.
LEMMA GoneBy ==
  ASSUME SyncTypes, NEW s \in Sessions,
         srv' = [srv EXCEPT ![s] = [StateWithout(s, Names) EXCEPT !.link = "gone"]]
  PROVE  /\ Trimmed(s, Names) /\ srv'[s].link = "gone"
         /\ srv'[s].resumed = srv[s].resumed /\ srv'[s].asm = srv[s].asm
<1>. DEFINE bare == StateWithout(s, Names)
            new  == [bare EXCEPT !.link = "gone"]
<1>2. /\ bare \in State /\ bare.asm = srv[s].asm /\ bare.resumed = srv[s].resumed
      /\ bare.nlink = srv[s].nlink /\ bare.boot = srv[s].boot /\ bare.epoch = srv[s].epoch
  BY StateWithoutFacts
<1>3. bare.table = StateWithout(s, Names).table /\ bare.said = StateWithout(s, Names).said
  OBVIOUS
<1>4. srv' = [srv EXCEPT ![s] = new]
  OBVIOUS
<1>. HIDE DEF bare
<1>5. /\ new \in State /\ new.nlink = bare.nlink /\ new.boot = bare.boot /\ new.epoch = bare.epoch
      /\ new.table = bare.table /\ new.said = bare.said
      /\ new.link = "gone" /\ new.resumed = bare.resumed /\ new.asm = bare.asm
  BY <1>2 DEF State
<1>. HIDE DEF new
<1>a. /\ new \in State /\ new.nlink = srv[s].nlink /\ new.boot = srv[s].boot /\ new.epoch = srv[s].epoch
      /\ new.table = StateWithout(s, Names).table /\ new.said = StateWithout(s, Names).said
  BY <1>2, <1>3, <1>5
<1>6. Trimmed(s, Names) /\ srv'[s] = new
  BY <1>4, <1>a, TrimmedBy, ZenonT(60)
<1>. QED BY <1>2, <1>5, <1>6

\* A change of the link alone takes no name.
LEMMA LinkOnly ==
  ASSUME SyncTypes, NEW s \in Sessions, srv' = [srv EXCEPT ![s].link = "parked"]
  PROVE  /\ Trimmed(s, {}) /\ srv'[s].link = "parked"
         /\ srv'[s].resumed = srv[s].resumed /\ srv'[s].asm = srv[s].asm
<1>1. srv \in [Sessions -> State] /\ srv[s] \in State
  BY DEF SyncTypes
<1>. DEFINE new == [srv[s] EXCEPT !.link = "parked"]
<1>2. /\ new \in State /\ new.nlink = srv[s].nlink /\ new.boot = srv[s].boot /\ new.epoch = srv[s].epoch
      /\ new.table = srv[s].table /\ new.said = srv[s].said
      /\ new.link = "parked" /\ new.resumed = srv[s].resumed /\ new.asm = srv[s].asm
  BY <1>1 DEF State
<1>3. srv' = [srv EXCEPT ![s] = new]
  OBVIOUS
<1>. HIDE DEF new
<1>4. srv' \in [Sessions -> State] /\ srv'[s] = new /\ \A t \in Sessions \ {s} : srv'[t] = srv[t]
  BY <1>1, <1>2, <1>3
<1>. QED BY <1>2, <1>4 DEF Trimmed

\* The control loop ends: the session is parked or gone, its channels are empty
\* and the panel waits no longer for this connection.
LEMMA LinkEndsEffect ==
  ASSUME SyncTypes, NEW s \in Sessions, LinkEnds(s)
  PROVE  /\ srv[s].link = "up"
         /\ \/ Trimmed(s, {}) /\ srv'[s].link = "parked" /\ active' = active
            \/ /\ Trimmed(s, Names) /\ srv'[s].link = "gone"
               /\ active' = active - Cardinality(Named(srv[s].table))
         /\ srv'[s].resumed = srv[s].resumed /\ srv'[s].asm = srv[s].asm
         /\ up' = [up EXCEPT ![s] = <<>>] /\ down' = [down EXCEPT ![s] = <<>>]
         /\ panel' = panel \/ (panel.stage # "idle" /\ panel' = [panel EXCEPT !.stage = "idle"])
         /\ UNCHANGED processVars /\ UNCHANGED count
<1>1. /\ srv[s].link = "up"
      /\ up' = [up EXCEPT ![s] = <<>>] /\ down' = [down EXCEPT ![s] = <<>>]
      /\ panel' = panel \/ (panel.stage # "idle" /\ panel' = [panel EXCEPT !.stage = "idle"])
      /\ UNCHANGED processVars /\ UNCHANGED count
  BY DEF LinkEnds, Waits
<1>2. CASE Parks(s)
  <2>1. srv' = [srv EXCEPT ![s].link = "parked"] /\ active' = active
    BY <1>2 DEF LinkEnds
  <2>. QED BY <1>1, <2>1, LinkOnly
<1>3. CASE ~Parks(s)
  <2>1. /\ srv' = [srv EXCEPT ![s] = [StateWithout(s, Names) EXCEPT !.link = "gone"]]
        /\ active' = active - Cardinality(Named(srv[s].table))
    BY <1>3 DEF LinkEnds
  <2>. QED BY <1>1, <2>1, GoneBy
<1>. QED BY <1>2, <1>3

\* A parked session expires.
LEMMA ParkExpiresEffect ==
  ASSUME SyncTypes, NEW s \in Sessions, ParkExpires(s)
  PROVE  /\ srv[s].link = "parked"
         /\ Trimmed(s, Names) /\ srv'[s].link = "gone"
         /\ srv'[s].resumed = srv[s].resumed /\ srv'[s].asm = srv[s].asm
         /\ active' = active - Cardinality(Named(srv[s].table))
         /\ UNCHANGED processVars /\ UNCHANGED <<up, down, panel, count>>
  BY GoneBy DEF ParkExpires

\* The panel asks: one command more, with the next number.
LEMMA AsksEffect ==
  ASSUME SyncTypes, NEW s \in Sessions, NEW stage, NEW op, NEW n, NEW v, Asks(s, stage, op, n, v)
  PROVE  /\ panel' = [stage |-> stage, s |-> s, name |-> n, sig |-> v]
         /\ panel'.stage = stage /\ panel'.s = s /\ panel'.name = n /\ panel'.sig = v
         /\ count'.cmds = count.cmds + 1 /\ count'.logins = count.logins /\ count'.boots = count.boots
         /\ count' \in [logins : 0..MaxLogins, boots : Nat, cmds : Nat, ui : Nat]
         /\ down' = [down EXCEPT ![s] = Append(down[s], ServerCmd(op, n, v, count.cmds + 1))]
<1>1. count \in [logins : 0..MaxLogins, boots : Nat, cmds : Nat, ui : Nat]
  BY DEF SyncTypes
<1>2. /\ panel' = [stage |-> stage, s |-> s, name |-> n, sig |-> v]
      /\ count' = [count EXCEPT !.cmds = count.cmds + 1]
      /\ down' = [down EXCEPT ![s] = Append(down[s], ServerCmd(op, n, v, count.cmds + 1))]
  BY DEF Asks
<1>3. panel'.stage = stage /\ panel'.s = s /\ panel'.name = n /\ panel'.sig = v
  BY <1>2
<1>4. /\ count'.cmds = count.cmds + 1 /\ count'.logins = count.logins /\ count'.boots = count.boots
      /\ count' \in [logins : 0..MaxLogins, boots : Nat, cmds : Nat, ui : Nat]
  BY <1>1, <1>2, SMTT(40)
<1>. QED BY <1>2, <1>3, <1>4

\* remove_proxy of the panel: the server lets go, then asks.
LEMMA PanelRemoveEffect ==
  ASSUME SyncTypes, NEW s \in Sessions, NEW n \in Names, PanelRemove(s, n)
  PROVE  /\ panel.stage = "idle" /\ srv[s].link = "up"
         /\ Trimmed(s, {n}) /\ srv'[s].link = srv[s].link
         /\ srv'[s].resumed = srv[s].resumed /\ srv'[s].asm = srv[s].asm
         /\ active' \in {active, active - 1}
         /\ active' = active \/ n \in Named(srv[s].table)
         /\ Asks(s, "remove", "remove", n, 0)
         /\ UNCHANGED processVars /\ UNCHANGED up
<1>1. /\ panel.stage = "idle" /\ srv[s].link = "up"
      /\ Asks(s, "remove", "remove", n, 0)
      /\ UNCHANGED processVars /\ UNCHANGED up
  BY DEF PanelRemove
<1>. DEFINE X    == {n}
            bare == StateWithout(s, X)
<1>2. srv' = [srv EXCEPT ![s] = bare]
  BY DEF PanelRemove
<1>3. /\ bare \in State /\ bare.asm = srv[s].asm /\ bare.link = srv[s].link
      /\ bare.resumed = srv[s].resumed
      /\ bare.nlink = srv[s].nlink /\ bare.boot = srv[s].boot /\ bare.epoch = srv[s].epoch
  <2>. HIDE DEF X
  <2>. QED BY StateWithoutFacts
<1>4. bare.table = StateWithout(s, X).table /\ bare.said = StateWithout(s, X).said
  OBVIOUS
<1>. HIDE DEF bare, X
<1>5. Trimmed(s, X) /\ srv'[s] = bare
  BY <1>2, <1>3, <1>4, TrimmedBy, ZenonT(60)
<1>6. active \in Int /\ active' = active - (IF n \in Named(srv[s].table) \cap Ported THEN 1 ELSE 0)
  BY DEF SyncTypes, PanelRemove
<1>7. active' \in {active, active - 1} /\ (active' = active \/ n \in Named(srv[s].table))
  BY <1>6
<1>. QED BY <1>1, <1>3, <1>5, <1>7 DEF X

\* The panel's own task registers what the client has agreed to.
LEMMA PanelRegistersEffect ==
  ASSUME SyncTypes, PanelRegisters
  PROVE  /\ panel.stage = "register" /\ panel.s \in Sessions
         /\ panel.name \in Names /\ panel.sig \in Versions
         /\ \/ /\ Touched(panel.s, panel.name, panel.sig, TRUE)
               /\ panel' = [panel EXCEPT !.stage = "idle"] /\ UNCHANGED <<down, count>>
            \/ /\ Touched(panel.s, panel.name, panel.sig, FALSE) /\ srv[panel.s].link # "up"
               /\ panel' = [panel EXCEPT !.stage = "idle"] /\ UNCHANGED <<down, count>>
            \/ /\ Touched(panel.s, panel.name, panel.sig, FALSE)
               /\ Asks(panel.s, "undo", "remove", panel.name, 0)
         /\ srv'[panel.s].said \subseteq srv[panel.s].said
         /\ UNCHANGED processVars /\ UNCHANGED up
<1>. DEFINE s == panel.s
            n == panel.name
            v == panel.sig
<1>1. /\ panel.stage = "register" /\ s \in Sessions /\ n \in Names /\ v \in Versions
      /\ UNCHANGED processVars /\ UNCHANGED up
  BY DEF PanelRegisters, SyncTypes
<1>2. PICK r \in Registered(s, n, v) :
        /\ srv' = [srv EXCEPT ![s] = r.state]
        /\ active' = active + r.diff
        /\ IF r.ok \/ srv[s].link # "up"
             THEN panel' = [panel EXCEPT !.stage = "idle"] /\ UNCHANGED <<down, count>>
             ELSE Asks(s, "undo", "remove", n, 0)
  BY DEF PanelRegisters
<1>. HIDE DEF s, n, v
<1>3. /\ r.ok \in BOOLEAN
      /\ Entered(s, n, v, r.ok, r.state)
      /\ r.diff = (IF n \in Named(r.state.table) THEN 1 ELSE 0)
                   - (IF n \in Named(srv[s].table) THEN 1 ELSE 0)
  BY <1>1, <1>2, RegisteredFacts
<1>4. srv \in [Sessions -> State] /\ r.state \in State
  BY <1>3 DEF SyncTypes, Entered
<1>5. srv' \in [Sessions -> State] /\ srv'[s] = r.state /\ \A t \in Sessions \ {s} : srv'[t] = srv[t]
  BY <1>1, <1>2, <1>4
<1>8. srv'[s].said \subseteq srv[s].said
  BY <1>3, <1>5 DEF Entered
<1>6. CASE r.ok
  <2>1. Touched(s, n, v, TRUE)
    BY <1>2, <1>3, <1>5, <1>6 DEF Entered, Touched
  <2>. QED BY <1>1, <1>2, <1>6, <1>8, <2>1 DEF s, n, v
<1>7. CASE ~r.ok
  <2>1. Touched(s, n, v, FALSE)
    BY <1>2, <1>3, <1>5, <1>7 DEF Entered, Touched
  <2>. QED BY <1>1, <1>2, <1>7, <1>8, <2>1 DEF s, n, v
<1>. QED BY <1>3, <1>6, <1>7
-----------------------------------------------------------------------------
(* The steps of the client.                                                *)

\* What a login sends: one NewProxy for each name of the list.
LEMMA AnnounceEffect ==
  ASSUME SyncTypes, NEW s \in Sessions, Announce(s)
  PROVE  /\ proc' = [proc EXCEPT !.phase = "reg", !.cur = s, !.pending = Listed(boot)]
         /\ up' \in [Sessions -> Seq(Messages)]
         /\ \A t \in Sessions \ {s} : up'[t] = up[t]
         /\ \A j \in DOMAIN up'[s] : up'[s][j].type = "new" /\ up'[s][j].name \in Listed(boot)
         /\ down' \in [Sessions -> Seq(Messages)]
         /\ \A t \in Sessions \ {s} : down'[t] = down[t]
         /\ down'[s] = <<>>
         /\ UNCHANGED <<file, store, boot, local, panel, active>>
<1>. DEFINE L == Listed(boot)
            n == Cardinality(L)
            q == SetToSeq(L)
            new == [i \in 1..n |-> NewProxy(q[i], boot[q[i]])]
<1>1. /\ proc' = [proc EXCEPT !.phase = "reg", !.cur = s, !.pending = L]
      /\ up' = [up EXCEPT ![s] = new] /\ down' = [down EXCEPT ![s] = <<>>]
      /\ UNCHANGED <<file, store, boot, local, panel, active>>
  BY DEF Announce
<1>2. /\ up \in [Sessions -> Seq(Messages)] /\ down \in [Sessions -> Seq(Messages)]
      /\ boot \in [Names -> Versions \cup {0}]
  BY DEF SyncTypes, Listing
<1>3. IsFiniteSet(L) /\ L \subseteq Names /\ \A k \in L : boot[k] \in Versions
  <2>1. L \subseteq Names BY DEF Listed
  <2>. QED BY <1>2, <2>1, FS_Subset DEF Listed
<1>. HIDE DEF L
<1>4. n \in Nat /\ q \in [1..n -> L]
  BY <1>3, ListOf
<1>. HIDE DEF n, q
<1>5. \A i \in 1..n : new[i] = NewProxy(q[i], boot[q[i]]) /\ q[i] \in L /\ new[i] \in Messages
  BY <1>3, <1>4, MessagesMade
<1>6. DOMAIN new = 1..n /\ new \in Seq(Messages)
  BY <1>4, <1>5
<1>. HIDE DEF new
<1>7. \A j \in DOMAIN new : new[j].type = "new" /\ new[j].name \in L
  BY <1>5, <1>6 DEF NewProxy
<1>8. <<>> \in Seq(Messages)
  BY EmptySeq
<1>. QED BY <1>1, <1>2, <1>6, <1>7, <1>8 DEF L

\* A fresh login has the next ClientState, and it holds nothing.
LEMMA LogInEffect ==
  ASSUME SyncTypes, LogIn
  PROVE  \E s \in Sessions :
           /\ s = count.logins + 1 /\ count.logins < s /\ proc.phase = "down"
           /\ count'.logins = s /\ count'.cmds = count.cmds /\ count'.boots = count.boots
           /\ count' \in [logins : 0..MaxLogins, boots : Nat, cmds : Nat, ui : Nat]
           /\ srv' \in [Sessions -> State]
           /\ \A t \in Sessions \ {s} : srv'[t] = srv[t]
           /\ srv'[s].link = "up" /\ srv'[s].boot = count.boots
           /\ srv'[s].resumed = FALSE /\ srv'[s].epoch = 0
           /\ \A n \in Names : srv'[s].table[n] = NoEntry
           /\ Named(srv'[s].table) = {} /\ srv'[s].said = {}
           /\ Announce(s)
<1>. DEFINE s == count.logins + 1
            new == FreshState(~proc.fallback, count.boots)
<1>1. /\ proc.phase = "down" /\ count.logins < MaxLogins /\ Announce(s)
      /\ count' = [count EXCEPT !.logins = count.logins + 1]
      /\ srv' = [srv EXCEPT ![s] = new]
  BY DEF LogIn
<1>2. /\ count \in [logins : 0..MaxLogins, boots : Nat, cmds : Nat, ui : Nat]
      /\ MaxLogins \in Nat /\ MaxResumes \in Nat /\ proc \in Process
      /\ srv \in [Sessions -> State]
  BY DEF SyncTypes
<1>3. count.logins \in 0..MaxLogins /\ s \in 1..MaxLogins /\ count.logins < s
  BY <1>1, <1>2
<1>4. /\ count'.logins = s /\ count'.cmds = count.cmds /\ count'.boots = count.boots
      /\ count' \in [logins : 0..MaxLogins, boots : Nat, cmds : Nat, ui : Nat]
  BY <1>1, <1>2, <1>3
<1>5. /\ new \in State /\ new.link = "up" /\ new.boot = count.boots
      /\ new.resumed = FALSE /\ new.epoch = 0 /\ new.said = {}
      /\ \A n \in Names : new.table[n] = NoEntry
  <2>1. NoEntry \in Entry BY <1>2 DEF NoEntry, Entry
  <2>2. [n \in Names |-> NoEntry] \in [Names -> Entry] BY <2>1
  <2>3. IdleAsm \in [total : Nat, parts : SUBSET Part] BY DEF IdleAsm
  <2>4. count.boots \in Nat /\ 0 \in 0..MaxResumes
    BY <1>2
  <2>5. (~proc.fallback) \in BOOLEAN
    OBVIOUS
  <2>. QED BY <2>2, <2>3, <2>4, <2>5 DEF FreshState, State
<1>6. Named(new.table) = {}
  BY <1>5 DEF Named, NoEntry
<1>. HIDE DEF new
<1>7. s \in Sessions BY <1>3 DEF Sessions
<1>. HIDE DEF s
<1>8. srv' \in [Sessions -> State] /\ srv'[s] = new /\ \A t \in Sessions \ {s} : srv'[t] = srv[t]
  BY <1>1, <1>2, <1>5, <1>7
<1>9. s = count.logins + 1 BY DEF s
<1>. QED BY <1>1, <1>3, <1>4, <1>5, <1>6, <1>7, <1>8, <1>9

\* A resumption keeps the table and forgets what was reported (rebind_control).
LEMMA ResumeEffect ==
  ASSUME SyncTypes, NEW s \in Sessions, Resume(s)
  PROVE  /\ proc.phase = "down" /\ srv[s].link = "parked" /\ srv[s].boot = count.boots
         /\ count' = count
         /\ srv' \in [Sessions -> State]
         /\ \A t \in Sessions \ {s} : srv'[t] = srv[t]
         /\ srv'[s].link = "up" /\ srv'[s].boot = srv[s].boot
         /\ srv'[s].resumed = TRUE /\ srv'[s].epoch = srv[s].epoch + 1
         /\ srv[s].epoch \in Nat
         /\ srv'[s].table = srv[s].table /\ srv'[s].said = {} /\ srv'[s].asm = IdleAsm
         /\ Announce(s)
<1>. DEFINE new == [srv[s] EXCEPT !.link = "up", !.resumed = TRUE, !.epoch = srv[s].epoch + 1,
                                  !.asm = IdleAsm, !.said = {}]
<1>1. /\ proc.phase = "down" /\ srv[s].link = "parked" /\ srv[s].boot = count.boots
      /\ srv[s].epoch < MaxResumes /\ count' = count /\ Announce(s)
      /\ srv' = [srv EXCEPT ![s] = new]
  BY DEF Resume
<1>2. srv \in [Sessions -> State] /\ srv[s] \in State /\ MaxResumes \in Nat
  BY DEF SyncTypes
<1>3. srv[s].epoch \in 0..MaxResumes BY <1>2 DEF State
<1>4. srv[s].epoch + 1 \in 0..MaxResumes BY <1>1, <1>2, <1>3
<1>5. IdleAsm \in [total : Nat, parts : SUBSET Part] BY DEF IdleAsm
<1>6. /\ new \in State /\ new.link = "up" /\ new.boot = srv[s].boot /\ new.resumed = TRUE
      /\ new.epoch = srv[s].epoch + 1 /\ new.table = srv[s].table /\ new.said = {}
      /\ new.asm = IdleAsm
  BY <1>2, <1>4, <1>5 DEF State
<1>. HIDE DEF new
<1>7. srv' \in [Sessions -> State] /\ srv'[s] = new /\ \A t \in Sessions \ {s} : srv'[t] = srv[t]
  BY <1>1, <1>2, <1>6
<1>. QED BY <1>1, <1>3, <1>6, <1>7

\* The client takes a message from its connection.
LEMMA ReceivesFacts ==
  ASSUME SyncTypes, NEW type, Receives(type), Taken
  PROVE  /\ proc.cur \in Sessions /\ down[proc.cur] # <<>>
         /\ Head(down[proc.cur]) \in Messages /\ Head(down[proc.cur]).type = type
         /\ down' \in [Sessions -> Seq(Messages)]
         /\ \A t \in Sessions \ {proc.cur} : down'[t] = down[t]
         /\ down'[proc.cur] = Tail(down[proc.cur])
<1>1. proc.cur \in Sessions /\ down \in [Sessions -> Seq(Messages)]
  BY DEF Receives, SyncTypes, Process
<1>2. down[proc.cur] \in Seq(Messages) /\ down[proc.cur] # <<>>
  BY <1>1 DEF Receives
<1>3. Head(down[proc.cur]) \in Messages /\ Tail(down[proc.cur]) \in Seq(Messages)
  BY <1>2, TailFacts
<1>. QED BY <1>1, <1>2, <1>3 DEF Receives, Taken
-----------------------------------------------------------------------------
(* Types.                                                                  *)

\* The types of what the client process has.
ProcessTypes ==
  /\ proc \in Process
  /\ proc.cur # NoConn <=> proc.phase \in {"reg", "ready", "adding"}
  /\ proc.adding \in Names <=> proc.phase = "adding"
  /\ file \in Files /\ store \in Listing /\ boot \in Listing
  /\ local \in [Names -> [sig : Versions \cup {0}, dynamic : BOOLEAN]]

\* The types of what the server has and of what is on its way.
ServerTypes ==
  /\ srv \in [Sessions -> State]
  /\ \A s \in Sessions : srv[s].said \subseteq Named(srv[s].table)
  /\ up \in [Sessions -> Seq(Messages)] /\ down \in [Sessions -> Seq(Messages)]
  /\ panel \in Request
  /\ panel.stage # "idle" => panel.s \in Sessions /\ panel.name \in Names
  /\ panel.stage \in {"add", "register"} => panel.sig \in Versions
  /\ active \in Int
  /\ count \in [logins : 0..MaxLogins, boots : Nat, cmds : Nat, ui : Nat]

\* The types are those of the client process and those of the server with its
\* connections; a step disturbs one half at a time.
LEMMA TwoTypes == SyncTypes <=> ProcessTypes /\ ServerTypes
  BY DEF SyncTypes, ProcessTypes, ServerTypes

\* What trimming and touching leave of the types.
LEMMA TableTypes ==
  ASSUME ServerTypes, NEW s \in Sessions,
         \/ \E X : Trimmed(s, X)
         \/ \E n \in Names : \E v : Touched(s, n, v, TRUE) \/ Touched(s, n, v, FALSE)
  PROVE  srv' \in [Sessions -> State] /\ \A t \in Sessions : srv'[t].said \subseteq Named(srv'[t].table)
<1>1. \A t \in Sessions : srv[t].said \subseteq Named(srv[t].table)
  BY DEF ServerTypes
<1>2. CASE \E X : Trimmed(s, X)
  <2>1. PICK X : Trimmed(s, X) BY <1>2
  <2>2. \A t \in Sessions \ {s} : srv'[t] = srv[t]
    BY <2>1 DEF Trimmed
  <2>3. srv'[s].said \subseteq Named(srv'[s].table) /\ srv' \in [Sessions -> State]
    BY <1>1, <2>1 DEF Trimmed
  <2>. QED BY <1>1, <2>2, <2>3
<1>3. CASE \E n \in Names : \E v : Touched(s, n, v, TRUE) \/ Touched(s, n, v, FALSE)
  <2>1. /\ \A t \in Sessions \ {s} : srv'[t] = srv[t]
        /\ srv'[s].said \subseteq Named(srv'[s].table) /\ srv' \in [Sessions -> State]
    BY <1>3 DEF Touched
  <2>. QED BY <1>1, <2>1
<1>. QED BY <1>2, <1>3

\* Types through the steps of the server.
LEMMA ServerStepTypes ==
  ASSUME SyncTypes, NEW s \in Sessions, ServerStep(s)
  PROVE  SyncTypes'
<1>0. ProcessTypes /\ ServerTypes BY TwoTypes
<1>q. ProcessTypes' /\ ServerTypes' => SyncTypes'
  BY DEF SyncTypes, ProcessTypes, ServerTypes
<1>p. UNCHANGED processVars => ProcessTypes'
  BY <1>0 DEF ProcessTypes, processVars
<1>t. /\ up \in [Sessions -> Seq(Messages)] /\ down \in [Sessions -> Seq(Messages)]
      /\ up[s] \in Seq(Messages) /\ down[s] \in Seq(Messages) /\ panel \in Request
      /\ active \in Int
  BY <1>0 DEF ServerTypes
<1>u. up[s] # <<>> => [up EXCEPT ![s] = Tail(up[s])] \in [Sessions -> Seq(Messages)]
  BY <1>t, TailFacts
<1>e. /\ [up EXCEPT ![s] = <<>>] \in [Sessions -> Seq(Messages)]
      /\ [down EXCEPT ![s] = <<>>] \in [Sessions -> Seq(Messages)]
  <2>1. <<>> \in Seq(Messages) BY EmptySeq
  <2>. QED BY <1>t, <2>1
<1>d. \A m \in Messages : [down EXCEPT ![s] = Append(down[s], m)] \in [Sessions -> Seq(Messages)]
  BY <1>t, LongerFacts
<1>i. panel' = [panel EXCEPT !.stage = "idle"] => panel' \in Request /\ panel'.stage = "idle"
  BY <1>t DEF Request, Stages
<1>c. \A X \in SUBSET Names : Cardinality(X) \in Nat
  BY FS_Subset, FS_CardinalityType
<1>n. Stale(s) \subseteq Names /\ Named(srv[s].table) \subseteq Names
  BY DEF Stale, Named
<1>1. CASE HandleNewProxy(s)
  <2>1. PICK n \in Names, v \in Versions, done \in BOOLEAN :
          /\ Serving(s, "new") /\ panel' = panel
          /\ down' = [down EXCEPT ![s] = Append(down[s], NewProxyResp(n, done))]
          /\ \/ Touched(s, n, v, TRUE) \/ Touched(s, n, v, FALSE)
             \/ UNCHANGED <<srv, active>>
    BY <1>1, HandleNewProxyEffect
  <2>2. down' \in [Sessions -> Seq(Messages)] /\ up' \in [Sessions -> Seq(Messages)]
    BY <1>d, <1>u, <2>1, MessagesMade DEF Serving
  <2>3. srv' \in [Sessions -> State] /\ \A t \in Sessions : srv'[t].said \subseteq Named(srv'[t].table)
    BY <1>0, <2>1, TableTypes DEF ServerTypes
  <2>4. active' \in Int
    BY <1>t, <2>1 DEF Touched
  <2>5. ServerTypes'
    BY <1>0, <2>1, <2>2, <2>3, <2>4 DEF ServerTypes, Serving
  <2>. QED BY <1>p, <2>1, <2>5, <1>q DEF Serving
<1>2. CASE HandleCloseProxy(s)
  <2>1. /\ Serving(s, "close") /\ UNCHANGED <<down, panel>> /\ \E X : Trimmed(s, X)
        /\ active' \in {active, active - 1}
    BY <1>2, HandleCloseProxyEffect
  <2>2. srv' \in [Sessions -> State] /\ \A t \in Sessions : srv'[t].said \subseteq Named(srv'[t].table)
    BY <1>0, <2>1, TableTypes
  <2>3. active' \in Int /\ up' \in [Sessions -> Seq(Messages)]
    BY <1>t, <1>u, <2>1 DEF Serving
  <2>4. ServerTypes'
    BY <1>0, <2>1, <2>2, <2>3 DEF ServerTypes, Serving
  <2>. QED BY <1>p, <2>1, <2>4, <1>q DEF Serving
<1>3. CASE HandleCommit(s)
  <2>. DEFINE gone == Named(srv[s].table) \ Wanted(Assembled(srv[s].asm, Head(up[s])))
  <2>a. gone \in SUBSET Names
    BY <1>n
  <2>b. /\ Serving(s, "commit") /\ UNCHANGED <<down, panel>>
        /\ \/ UNCHANGED <<srv, active>>
           \/ Trimmed(s, gone) /\ active' = active - Cardinality(gone)
           \/ Trimmed(s, {}) /\ active' = active
    BY <1>3, HandleCommitEffect
  <2>. HIDE DEF gone
  <2>1. /\ Serving(s, "commit") /\ UNCHANGED <<down, panel>>
        /\ \/ UNCHANGED <<srv, active>>
           \/ /\ \E X : Trimmed(s, X)
              /\ active' = active \/ \E X \in SUBSET Names : active' = active - Cardinality(X)
    BY <2>a, <2>b
  <2>2. srv' \in [Sessions -> State] /\ \A t \in Sessions : srv'[t].said \subseteq Named(srv'[t].table)
    BY <1>0, <2>1, TableTypes DEF ServerTypes
  <2>3. active' \in Int
    <3>1. CASE active' = active BY <1>t, <3>1
    <3>2. CASE \E X \in SUBSET Names : active' = active - Cardinality(X)
      <4>1. PICK X \in SUBSET Names : active' = active - Cardinality(X) BY <3>2
      <4>2. Cardinality(X) \in Nat BY <1>c
      <4>. QED BY <1>t, <4>1, <4>2
    <3>. QED BY <2>1, <3>1, <3>2
  <2>4. ServerTypes'
    BY <1>0, <1>t, <1>u, <2>1, <2>2, <2>3 DEF ServerTypes, Serving
  <2>. QED BY <1>p, <2>1, <2>4, <1>q DEF Serving
<1>4. CASE HandleServerCmdResp(s)
  <2>1. /\ up' = [up EXCEPT ![s] = Tail(up[s])] /\ up[s] # <<>>
        /\ UNCHANGED processVars /\ UNCHANGED <<srv, down, active, count>>
        /\ \/ panel' = panel
           \/ panel' = [panel EXCEPT !.stage = "idle"]
           \/ panel.stage = "add" /\ panel' = [panel EXCEPT !.stage = "register"]
    BY <1>4 DEF HandleServerCmdResp, Heard
  <2>2. /\ panel' \in Request
        /\ panel'.stage # "idle" => panel'.s \in Sessions /\ panel'.name \in Names
        /\ panel'.stage \in {"add", "register"} => panel'.sig \in Versions
    BY <1>0, <1>t, <1>i, <2>1 DEF ServerTypes, Request, Stages
  <2>3. ServerTypes'
    BY <1>0, <1>u, <2>1, <2>2 DEF ServerTypes
  <2>. QED BY <1>p, <2>1, <2>3, <1>q
<1>5. CASE GraceExpires(s) \/ ParkExpires(s)
  <2>1. /\ \E X : Trimmed(s, X)
        /\ \E X \in SUBSET Names : active' = active - Cardinality(X)
        /\ UNCHANGED processVars /\ UNCHANGED <<up, down, panel, count>>
    BY <1>5, <1>n, GraceExpiresEffect, ParkExpiresEffect
  <2>2. srv' \in [Sessions -> State] /\ \A t \in Sessions : srv'[t].said \subseteq Named(srv'[t].table)
    BY <1>0, <2>1, TableTypes
  <2>3. active' \in Int
    <3>1. CASE active' = active BY <1>t, <3>1
    <3>2. CASE \E X \in SUBSET Names : active' = active - Cardinality(X)
      <4>1. PICK X \in SUBSET Names : active' = active - Cardinality(X) BY <3>2
      <4>2. Cardinality(X) \in Nat BY <1>c
      <4>. QED BY <1>t, <4>1, <4>2
    <3>. QED BY <2>1, <3>1, <3>2
  <2>4. ServerTypes'
    BY <1>0, <2>1, <2>2, <2>3 DEF ServerTypes
  <2>. QED BY <1>p, <2>1, <2>4, <1>q
<1>6. CASE LinkEnds(s)
  <2>1. /\ \E X : Trimmed(s, X)
        /\ active' = active \/ \E X \in SUBSET Names : active' = active - Cardinality(X)
        /\ up' = [up EXCEPT ![s] = <<>>] /\ down' = [down EXCEPT ![s] = <<>>]
        /\ panel' = panel \/ panel' = [panel EXCEPT !.stage = "idle"]
        /\ UNCHANGED processVars /\ UNCHANGED count
    BY <1>6, <1>n, LinkEndsEffect
  <2>2. srv' \in [Sessions -> State] /\ \A t \in Sessions : srv'[t].said \subseteq Named(srv'[t].table)
    BY <1>0, <2>1, TableTypes
  <2>3. active' \in Int
    <3>1. CASE active' = active BY <1>t, <3>1
    <3>2. CASE \E X \in SUBSET Names : active' = active - Cardinality(X)
      <4>1. PICK X \in SUBSET Names : active' = active - Cardinality(X) BY <3>2
      <4>2. Cardinality(X) \in Nat BY <1>c
      <4>. QED BY <1>t, <4>1, <4>2
    <3>. QED BY <2>1, <3>1, <3>2
  <2>4. ServerTypes'
    BY <1>0, <1>e, <1>i, <2>1, <2>2, <2>3 DEF ServerTypes
  <2>. QED BY <1>p, <2>1, <2>4, <1>q
<1>. QED BY <1>1, <1>2, <1>3, <1>4, <1>5, <1>6 DEF ServerStep

\* Types through the steps of the client.
LEMMA ClientStepTypes ==
  ASSUME SyncTypes, ClientStep
  PROVE  SyncTypes'
<1>0. ProcessTypes /\ ServerTypes
  BY TwoTypes
<1>q. ProcessTypes' /\ ServerTypes' => SyncTypes'
  BY DEF SyncTypes, ProcessTypes, ServerTypes
<1>s. /\ UNCHANGED <<srv, panel, active>>
      /\ up' \in [Sessions -> Seq(Messages)] /\ down' \in [Sessions -> Seq(Messages)]
      /\ count' \in [logins : 0..MaxLogins, boots : Nat, cmds : Nat, ui : Nat]
      => ServerTypes'
  BY <1>0 DEF ServerTypes
<1>t. /\ up \in [Sessions -> Seq(Messages)] /\ down \in [Sessions -> Seq(Messages)]
      /\ count \in [logins : 0..MaxLogins, boots : Nat, cmds : Nat, ui : Nat]
  BY <1>0 DEF ServerTypes
<1>p. /\ proc \in Process /\ store \in Listing /\ boot \in Listing /\ file \in Files
      /\ local \in [Names -> [sig : Versions \cup {0}, dynamic : BOOLEAN]]
      /\ proc.cur # NoConn <=> proc.phase \in {"reg", "ready", "adding"}
      /\ proc.adding \in Names <=> proc.phase = "adding"
  BY <1>0 DEF ProcessTypes
<1>z. 0 \notin Names /\ NoConn \notin Sessions
  BY NoNameIsZero DEF NoConn, Sessions
<1>l. \A n \in Names : Lost(n) \in [Names -> [sig : Versions \cup {0}, dynamic : BOOLEAN]]
  BY <1>p DEF Lost, Unknown
<1>k. /\ [count EXCEPT !.ui = count.ui + 1]
             \in [logins : 0..MaxLogins, boots : Nat, cmds : Nat, ui : Nat]
      /\ [count EXCEPT !.boots = count.boots + 1]
             \in [logins : 0..MaxLogins, boots : Nat, cmds : Nat, ui : Nat]
  <2>1. count.ui + 1 \in Nat /\ count.boots + 1 \in Nat
    BY <1>t
  <2>. QED BY <1>t, <2>1
<1>c. \A m \in Messages : <<m>> \in Seq(Messages)
  OBVIOUS
<1>n. Listed(boot) \in SUBSET Names
  BY DEF Listed
<1>off. Off \in Process /\ Off.cur = NoConn /\ Off.adding = 0 /\ Off.phase = "off"
  BY DEF Off, Process
<1>a. ASSUME NEW s \in Sessions, Announce(s), proc.phase = "down" PROVE ProcessTypes'
  <2>1. /\ proc' = [proc EXCEPT !.phase = "reg", !.cur = s, !.pending = Listed(boot)]
        /\ UNCHANGED <<file, store, boot, local>>
    BY <1>a, AnnounceEffect
  <2>2. s # NoConn
    BY <1>z
  <2>3. proc' \in Process /\ proc'.cur = s /\ proc'.phase = "reg" /\ proc'.adding = proc.adding
    BY <1>n, <1>p, <2>1 DEF Process
  <2>4. proc.adding \notin Names
    BY <1>a, <1>p
  <2>. QED BY <1>p, <2>1, <2>2, <2>3, <2>4 DEF ProcessTypes
<1>1. ASSUME NEW f \in Files, NEW commits \in BOOLEAN, Boot(f, commits) PROVE SyncTypes'
  <2>1. f \in Listing
    BY SyncAssumption DEF Listing
  <2>2. Merged(f, store) \in Listing
    BY <1>p, <2>1 DEF Merged, Listing
  <2>3. local' \in [Names -> [sig : Versions \cup {0}, dynamic : BOOLEAN]]
    BY <1>1, <2>2 DEF Boot, Listing
  <2>4. /\ proc' \in Process /\ proc'.cur = NoConn /\ proc'.adding = 0 /\ proc'.phase = "down"
    BY <1>1, <1>off DEF Boot, Process
  <2>5. ProcessTypes'
    BY <1>1, <1>p, <1>z, <2>2, <2>3, <2>4 DEF Boot, ProcessTypes
  <2>. QED BY <1>1, <1>k, <1>q, <1>s, <1>t, <2>5 DEF Boot
<1>2. CASE Exit
  <2>1. down' \in [Sessions -> Seq(Messages)]
    <3>1. <<>> \in Seq(Messages) BY EmptySeq
    <3>. QED BY <1>2, <1>t, <3>1 DEF Exit
  <2>2. ProcessTypes'
    BY <1>2, <1>off, <1>p, <1>z DEF Exit, ProcessTypes
  <2>. QED BY <1>2, <1>q, <1>s, <1>t, <2>1, <2>2 DEF Exit
<1>3. CASE FallBack
  <2>1. proc' \in Process /\ proc'.phase = proc.phase /\ proc'.cur = proc.cur /\ proc'.adding = proc.adding
    BY <1>3, <1>p DEF FallBack, Process
  <2>2. ProcessTypes'
    BY <1>3, <1>p, <2>1 DEF FallBack, ProcessTypes
  <2>. QED BY <1>3, <1>q, <1>s, <1>t, <2>2 DEF FallBack
<1>4. CASE LogIn
  <2>1. PICK s \in Sessions :
          /\ count' \in [logins : 0..MaxLogins, boots : Nat, cmds : Nat, ui : Nat]
          /\ srv' \in [Sessions -> State]
          /\ \A t \in Sessions \ {s} : srv'[t] = srv[t]
          /\ srv'[s].said = {} /\ Announce(s) /\ proc.phase = "down"
    BY <1>4, LogInEffect
  <2>2. /\ up' \in [Sessions -> Seq(Messages)] /\ down' \in [Sessions -> Seq(Messages)]
        /\ UNCHANGED <<panel, active>>
    BY <2>1, AnnounceEffect
  <2>3. ServerTypes'
    BY <1>0, <2>1, <2>2 DEF ServerTypes
  <2>. QED BY <1>a, <1>q, <2>1, <2>3
<1>5. ASSUME NEW s \in Sessions, Resume(s) PROVE SyncTypes'
  <2>1. /\ count' = count
        /\ srv' \in [Sessions -> State]
        /\ \A t \in Sessions \ {s} : srv'[t] = srv[t]
        /\ srv'[s].said = {} /\ Announce(s) /\ proc.phase = "down"
    BY <1>5, ResumeEffect
  <2>2. /\ up' \in [Sessions -> Seq(Messages)] /\ down' \in [Sessions -> Seq(Messages)]
        /\ UNCHANGED <<panel, active>>
    BY <2>1, AnnounceEffect
  <2>3. ServerTypes'
    BY <1>0, <2>1, <2>2 DEF ServerTypes
  <2>. QED BY <1>a, <1>q, <2>1, <2>3
<1>6. CASE Ready
  <2>1. proc.cur \in Sessions
    BY <1>6, <1>p DEF Ready, Process
  <2>2. up' \in [Sessions -> Seq(Messages)]
    <3>1. CommitFrames(Listed(boot)) \in Seq(Messages) BY <1>n, FramesFacts
    <3>2. Sent(proc.cur, CommitFrames(Listed(boot))) \in [Sessions -> Seq(Messages)]
      BY <2>1, <3>1, SentFacts
    <3>. QED BY <1>6, <1>t, <3>2 DEF Ready
  <2>3. proc' \in Process /\ proc'.phase = "ready" /\ proc'.cur = proc.cur /\ proc'.adding = proc.adding
    BY <1>6, <1>p DEF Ready, Process
  <2>4. ProcessTypes'
    BY <1>6, <1>p, <2>3 DEF Ready, ProcessTypes
  <2>. QED BY <1>6, <1>q, <1>s, <1>t, <2>2, <2>4 DEF Ready
<1>7. CASE ClientDrops
  <2>1. down' \in [Sessions -> Seq(Messages)]
    <3>1. <<>> \in Seq(Messages) BY EmptySeq
    <3>. QED BY <1>7, <1>t, <3>1 DEF ClientDrops
  <2>2. proc' \in Process /\ proc'.phase = "down" /\ proc'.cur = NoConn /\ proc'.adding = 0
    BY <1>7, <1>p DEF ClientDrops, Process
  <2>3. ProcessTypes'
    BY <1>7, <1>l, <1>p, <1>z, <2>2 DEF ClientDrops, ProcessTypes
  <2>. QED BY <1>7, <1>q, <1>s, <1>t, <2>1, <2>3 DEF ClientDrops
<1>8. CASE RecvNewProxyResp
  <2>0. Receives("resp") /\ Taken /\ UNCHANGED <<file, boot, srv, up, panel, active, count>>
    BY <1>8 DEF RecvNewProxyResp
  <2>1. down' \in [Sessions -> Seq(Messages)] /\ proc.cur # NoConn
    BY <2>0, ReceivesFacts DEF Receives
  <2>2. ProcessTypes'
    <3>. DEFINE m == Head(down[proc.cur])
    <3>1. CASE proc.phase = "reg"
      <4>1. proc' = [proc EXCEPT !.pending = proc.pending \ {m.name}] /\ UNCHANGED <<local, store>>
        BY <1>8, <3>1 DEF RecvNewProxyResp
      <4>2. proc' \in Process /\ proc'.phase = proc.phase /\ proc'.cur = proc.cur /\ proc'.adding = proc.adding
        BY <1>p, <4>1 DEF Process
      <4>. QED BY <1>p, <2>0, <4>1, <4>2 DEF ProcessTypes
    <3>2. CASE proc.phase = "ready"
      BY <1>8, <1>p, <3>2 DEF RecvNewProxyResp, ProcessTypes
    <3>3. CASE proc.phase = "adding" /\ m.ok
      <4>1. /\ proc' = [proc EXCEPT !.phase = "ready", !.adding = 0,
                                    !.misled = proc.misled \cup ({proc.adding} \ {m.name})]
            /\ store' = [store EXCEPT ![proc.adding] = local[proc.adding].sig] /\ UNCHANGED local
        BY <1>8, <3>3 DEF RecvNewProxyResp
      <4>2. proc' \in Process /\ proc'.phase = "ready" /\ proc'.cur = proc.cur /\ proc'.adding = 0
        BY <1>p, <3>3, <4>1 DEF Process
      <4>3. store' \in Listing
        BY <1>p, <3>3, <4>1 DEF Listing
      <4>. QED BY <1>p, <1>z, <2>0, <2>1, <4>1, <4>2, <4>3 DEF ProcessTypes
    <3>4. CASE proc.phase = "adding" /\ ~m.ok
      <4>1. /\ proc' = [proc EXCEPT !.phase = "ready", !.adding = 0,
                                    !.withdrawn = proc.withdrawn \cup {proc.adding}]
            /\ local' = Lost(proc.adding) /\ UNCHANGED store
        BY <1>8, <3>4 DEF RecvNewProxyResp
      <4>2. proc' \in Process /\ proc'.phase = "ready" /\ proc'.cur = proc.cur /\ proc'.adding = 0
        BY <1>p, <3>4, <4>1 DEF Process
      <4>. QED BY <1>l, <1>p, <1>z, <2>0, <2>1, <3>4, <4>1, <4>2 DEF ProcessTypes
    <3>5. proc.phase \in {"reg", "ready", "adding"}
      BY <1>p, <2>1
    <3>. QED BY <3>1, <3>2, <3>3, <3>4, <3>5
  <2>. QED BY <1>q, <1>s, <1>t, <2>0, <2>1, <2>2
<1>9. CASE RecvServerCmd
  <2>. DEFINE m == Head(down[proc.cur])
              r == Applied(m)
  <2>0. Receives("cmd") /\ Taken /\ UNCHANGED <<proc, file, boot, srv, panel, active, count>>
    BY <1>9 DEF RecvServerCmd
  <2>1. down' \in [Sessions -> Seq(Messages)] /\ proc.cur \in Sessions /\ m \in Messages /\ m.type = "cmd"
    BY <2>0, ReceivesFacts
  <2>2. m.name \in Names /\ m.sig \in Versions \cup {0} /\ m.id \in Nat
    BY <2>1, MessageFields
  <2>3. r.ok \in BOOLEAN /\ r.value \in Versions \cup {0}
    BY <1>p, <2>2 DEF Applied, FromFile
  <2>4. \/ UNCHANGED <<local, store>>
        \/ /\ local' = [local EXCEPT ![m.name] = [sig |-> r.value, dynamic |-> r.value # 0]]
           /\ store' = [store EXCEPT ![m.name] = r.value]
    BY <1>9 DEF RecvServerCmd
  <2>5. up' = up \/ up' = Sent(proc.cur, <<ServerCmdResp(m.id, r.ok)>>)
    BY <1>9 DEF RecvServerCmd
  <2>. HIDE DEF m, r
  <2>6. /\ local' \in [Names -> [sig : Versions \cup {0}, dynamic : BOOLEAN]]
        /\ store' \in Listing
    <3>1. CASE UNCHANGED <<local, store>>
      BY <1>p, <3>1
    <3>2. CASE /\ local' = [local EXCEPT ![m.name] = [sig |-> r.value, dynamic |-> r.value # 0]]
               /\ store' = [store EXCEPT ![m.name] = r.value]
      <4>1. (r.value # 0) \in BOOLEAN
        OBVIOUS
      <4>2. [sig |-> r.value, dynamic |-> r.value # 0] \in [sig : Versions \cup {0}, dynamic : BOOLEAN]
        BY <2>3, <4>1
      <4>3. local' \in [Names -> [sig : Versions \cup {0}, dynamic : BOOLEAN]]
        BY <1>p, <3>2, <4>2
      <4>4. store' \in Listing
        BY <1>p, <2>3, <3>2 DEF Listing
      <4>. QED BY <4>3, <4>4
    <3>. QED BY <2>4, <3>1, <3>2
  <2>7. up' \in [Sessions -> Seq(Messages)]
    <3>1. ServerCmdResp(m.id, r.ok) \in Messages
      BY <2>2, <2>3, MessagesMade
    <3>2. <<ServerCmdResp(m.id, r.ok)>> \in Seq(Messages)
      BY <3>1, <1>c
    <3>3. Sent(proc.cur, <<ServerCmdResp(m.id, r.ok)>>) \in [Sessions -> Seq(Messages)]
      BY <2>1, <3>2, SentFacts
    <3>. QED BY <1>t, <2>5, <3>3
  <2>8. ProcessTypes'
    BY <1>p, <2>0, <2>6 DEF ProcessTypes
  <2>. QED BY <1>q, <1>s, <1>t, <2>0, <2>1, <2>7, <2>8
<1>10. ASSUME NEW n \in Names, NEW v \in Versions, UiAdd(n, v) PROVE SyncTypes'
  <2>1. proc.cur \in Sessions /\ proc.cur # NoConn
    BY <1>10, <1>p DEF UiAdd, Process
  <2>2. up' \in [Sessions -> Seq(Messages)]
    BY <1>10, <1>c, <2>1, MessagesMade, SentFacts DEF UiAdd
  <2>3. proc' \in Process /\ proc'.phase = "adding" /\ proc'.cur = proc.cur /\ proc'.adding = n
    BY <1>10, <1>p DEF UiAdd, Process
  <2>4. local' \in [Names -> [sig : Versions \cup {0}, dynamic : BOOLEAN]]
    BY <1>10, <1>p DEF UiAdd
  <2>5. ProcessTypes'
    BY <1>10, <1>p, <2>1, <2>3, <2>4 DEF UiAdd, ProcessTypes
  <2>. QED BY <1>10, <1>k, <1>q, <1>s, <1>t, <2>2, <2>5 DEF UiAdd
<1>11. CASE UiAddTimesOut
  <2>1. proc.adding \in Names /\ proc.cur # NoConn
    BY <1>11, <1>p DEF UiAddTimesOut
  <2>2. proc' \in Process /\ proc'.phase = "ready" /\ proc'.cur = proc.cur /\ proc'.adding = 0
    BY <1>11, <1>p, <2>1 DEF UiAddTimesOut, Process
  <2>3. ProcessTypes'
    BY <1>11, <1>l, <1>p, <1>z, <2>1, <2>2 DEF UiAddTimesOut, ProcessTypes
  <2>. QED BY <1>11, <1>q, <1>s, <1>t, <2>3 DEF UiAddTimesOut
<1>12. ASSUME NEW n \in Names, UiRemove(n) PROVE SyncTypes'
  <2>1. proc.cur \in Sessions /\ proc.cur # NoConn
    BY <1>12, <1>p DEF UiRemove, Process
  <2>2. up' \in [Sessions -> Seq(Messages)]
    BY <1>12, <1>c, <2>1, MessagesMade, SentFacts DEF UiRemove
  <2>3. proc' \in Process /\ proc'.phase = proc.phase /\ proc'.cur = proc.cur /\ proc'.adding = proc.adding
    BY <1>12, <1>p DEF UiRemove, Process
  <2>4. store' \in Listing
    BY <1>12, <1>p DEF UiRemove, Listing
  <2>5. ProcessTypes'
    BY <1>12, <1>l, <1>p, <2>3, <2>4 DEF UiRemove, ProcessTypes
  <2>. QED BY <1>12, <1>k, <1>q, <1>s, <1>t, <2>2, <2>5 DEF UiRemove
<1>. QED BY <1>1, <1>2, <1>3, <1>4, <1>5, <1>6, <1>7, <1>8, <1>9, <1>10, <1>11, <1>12 DEF ClientStep

\* Types through the steps of the panel.
LEMMA PanelStepTypes ==
  ASSUME SyncTypes, PanelStep
  PROVE  SyncTypes'
<1>0. ProcessTypes /\ ServerTypes
  BY TwoTypes
<1>q. ProcessTypes' /\ ServerTypes' => SyncTypes'
  BY DEF SyncTypes, ProcessTypes, ServerTypes
<1>p. UNCHANGED processVars => ProcessTypes'
  BY <1>0 DEF ProcessTypes, processVars
<1>t. /\ up \in [Sessions -> Seq(Messages)] /\ down \in [Sessions -> Seq(Messages)]
      /\ panel \in Request /\ active \in Int /\ srv \in [Sessions -> State]
      /\ count \in [logins : 0..MaxLogins, boots : Nat, cmds : Nat, ui : Nat]
      /\ \A s \in Sessions : srv[s].said \subseteq Named(srv[s].table)
  BY <1>0 DEF ServerTypes
<1>i. panel' = [panel EXCEPT !.stage = "idle"] => panel' \in Request /\ panel'.stage = "idle"
  BY <1>t DEF Request, Stages
<1>a. ASSUME NEW s \in Sessions, NEW stage \in {"add", "undo", "remove"}, NEW op \in {"add", "remove"},
             NEW n \in Names, NEW v \in Versions \cup {0}, stage = "add" => v \in Versions,
             Asks(s, stage, op, n, v)
      PROVE  /\ panel' \in Request
             /\ panel'.stage # "idle" => panel'.s \in Sessions /\ panel'.name \in Names
             /\ panel'.stage \in {"add", "register"} => panel'.sig \in Versions
             /\ count' \in [logins : 0..MaxLogins, boots : Nat, cmds : Nat, ui : Nat]
             /\ down' \in [Sessions -> Seq(Messages)]
  <2>1. /\ panel' = [stage |-> stage, s |-> s, name |-> n, sig |-> v]
        /\ panel'.stage = stage /\ panel'.s = s /\ panel'.name = n /\ panel'.sig = v
        /\ count' \in [logins : 0..MaxLogins, boots : Nat, cmds : Nat, ui : Nat]
        /\ down' = [down EXCEPT ![s] = Append(down[s], ServerCmd(op, n, v, count.cmds + 1))]
    BY <1>a, AsksEffect
  <2>2. panel' \in Request
    BY <2>1 DEF Request, Stages
  <2>3. ServerCmd(op, n, v, count.cmds + 1) \in Messages
    <3>1. count.cmds + 1 \in Nat BY <1>t
    <3>. QED BY <3>1, MessagesMade
  <2>4. down' \in [Sessions -> Seq(Messages)]
    BY <1>t, <2>1, <2>3, LongerFacts
  <2>. QED BY <1>a, <2>1, <2>2, <2>4
<1>1. ASSUME NEW s \in Sessions, NEW n \in Names, NEW v \in Versions, PanelAdd(s, n, v) PROVE SyncTypes'
  <2>1. Asks(s, "add", "add", n, v) /\ UNCHANGED processVars /\ UNCHANGED <<srv, up, active>>
    BY <1>1 DEF PanelAdd
  <2>2. /\ panel' \in Request
        /\ panel'.stage # "idle" => panel'.s \in Sessions /\ panel'.name \in Names
        /\ panel'.stage \in {"add", "register"} => panel'.sig \in Versions
        /\ count' \in [logins : 0..MaxLogins, boots : Nat, cmds : Nat, ui : Nat]
        /\ down' \in [Sessions -> Seq(Messages)]
    BY <1>a, <2>1
  <2>3. ServerTypes'
    BY <1>t, <2>1, <2>2 DEF ServerTypes
  <2>. QED BY <1>p, <1>q, <2>1, <2>3
<1>2. ASSUME NEW s \in Sessions, NEW n \in Names, PanelRemove(s, n) PROVE SyncTypes'
  <2>1. /\ Trimmed(s, {n}) /\ active' \in {active, active - 1}
        /\ Asks(s, "remove", "remove", n, 0) /\ UNCHANGED processVars /\ UNCHANGED up
    BY <1>2, PanelRemoveEffect
  <2>2. /\ panel' \in Request
        /\ panel'.stage # "idle" => panel'.s \in Sessions /\ panel'.name \in Names
        /\ panel'.stage \in {"add", "register"} => panel'.sig \in Versions
        /\ count' \in [logins : 0..MaxLogins, boots : Nat, cmds : Nat, ui : Nat]
        /\ down' \in [Sessions -> Seq(Messages)]
    BY <1>a, <2>1
  <2>3. srv' \in [Sessions -> State] /\ \A t \in Sessions : srv'[t].said \subseteq Named(srv'[t].table)
    BY <1>0, <2>1, TableTypes
  <2>4. active' \in Int
    BY <1>t, <2>1
  <2>5. ServerTypes'
    BY <1>t, <2>1, <2>2, <2>3, <2>4 DEF ServerTypes
  <2>. QED BY <1>p, <1>q, <2>1, <2>5
<1>3. CASE AskTimesOut
  <2>1. /\ panel' = [panel EXCEPT !.stage = "idle"]
        /\ UNCHANGED processVars /\ UNCHANGED <<srv, up, down, active, count>>
    BY <1>3 DEF AskTimesOut
  <2>2. ServerTypes'
    BY <1>i, <1>t, <2>1 DEF ServerTypes
  <2>. QED BY <1>p, <1>q, <2>1, <2>2
<1>4. CASE PanelRegisters
  <2>1. /\ panel.s \in Sessions /\ panel.name \in Names /\ panel.sig \in Versions
        /\ \/ Touched(panel.s, panel.name, panel.sig, TRUE)
           \/ Touched(panel.s, panel.name, panel.sig, FALSE)
        /\ \/ panel' = [panel EXCEPT !.stage = "idle"] /\ UNCHANGED <<down, count>>
           \/ Asks(panel.s, "undo", "remove", panel.name, 0)
        /\ UNCHANGED processVars /\ UNCHANGED up
    BY <1>4, PanelRegistersEffect
  <2>2. /\ panel' \in Request
        /\ panel'.stage # "idle" => panel'.s \in Sessions /\ panel'.name \in Names
        /\ panel'.stage \in {"add", "register"} => panel'.sig \in Versions
        /\ count' \in [logins : 0..MaxLogins, boots : Nat, cmds : Nat, ui : Nat]
        /\ down' \in [Sessions -> Seq(Messages)]
    <3>1. CASE panel' = [panel EXCEPT !.stage = "idle"] /\ UNCHANGED <<down, count>>
      BY <1>i, <1>t, <3>1
    <3>2. CASE Asks(panel.s, "undo", "remove", panel.name, 0)
      BY <1>a, <2>1, <3>2
    <3>. QED BY <2>1, <3>1, <3>2
  <2>3. srv' \in [Sessions -> State] /\ \A t \in Sessions : srv'[t].said \subseteq Named(srv'[t].table)
    BY <1>0, <2>1, TableTypes
  <2>4. active' \in Int
    BY <1>t, <2>1 DEF Touched
  <2>5. ServerTypes'
    BY <1>t, <2>1, <2>2, <2>3, <2>4 DEF ServerTypes
  <2>. QED BY <1>p, <1>q, <2>1, <2>5
<1>. QED BY <1>1, <1>2, <1>3, <1>4 DEF PanelStep

\* Types at the start and through every step.
LEMMA TypesStart == SyncInit => SyncTypes
<1>. SUFFICES ASSUME SyncInit PROVE SyncTypes OBVIOUS
<1>z. 0 \notin Names /\ NoConn \notin Sessions /\ MaxResumes \in Nat /\ MaxLogins \in Nat
  BY NoNameIsZero, SyncAssumption DEF NoConn, Sessions
<1>1. Off \in Process /\ Off.cur = NoConn /\ Off.adding = 0 /\ Off.phase = "off"
  BY DEF Off, Process
<1>2. file \in Files /\ store \in Listing /\ boot \in Listing
  BY SyncAssumption DEF SyncInit, Listing
<1>3. local \in [Names -> [sig : Versions \cup {0}, dynamic : BOOLEAN]]
  BY DEF SyncInit, Unknown
<1>4. NoState \in State /\ NoState.said = {}
  <2>1. NoEntry \in Entry BY <1>z DEF NoEntry, Entry
  <2>2. [n \in Names |-> NoEntry] \in [Names -> Entry] BY <2>1
  <2>3. IdleAsm \in [total : Nat, parts : SUBSET Part] BY DEF IdleAsm
  <2>4. 0 \in 0..MaxResumes BY <1>z
  <2>5. FreshState(FALSE, 0) \in State /\ FreshState(FALSE, 0).said = {}
    BY <2>2, <2>3, <2>4 DEF FreshState, State
  <2>. QED BY <2>5 DEF NoState, State
<1>5. srv \in [Sessions -> State] /\ \A s \in Sessions : srv[s].said \subseteq Named(srv[s].table)
  BY <1>4 DEF SyncInit
<1>6. up \in [Sessions -> Seq(Messages)] /\ down \in [Sessions -> Seq(Messages)]
  <2>1. <<>> \in Seq(Messages) BY EmptySeq
  <2>. QED BY <2>1 DEF SyncInit
<1>7. panel \in Request /\ panel.stage = "idle"
  <2>. DEFINE n == CHOOSE n \in Names : TRUE
  <2>1. NoRequest = [stage |-> "idle", s |-> NoConn, name |-> n, sig |-> 0]
    BY DEF NoRequest
  <2>2. NoRequest.name = n
    BY <2>1
  <2>. HIDE DEF n
  <2>. QED BY <2>1, <2>2 DEF SyncInit, Request, Stages
<1>8. /\ active \in Int
      /\ count \in [logins : 0..MaxLogins, boots : Nat, cmds : Nat, ui : Nat]
  BY <1>z DEF SyncInit
<1>9. proc = Off BY DEF SyncInit
<1>. QED BY <1>z, <1>1, <1>2, <1>3, <1>5, <1>6, <1>7, <1>8, <1>9 DEF SyncTypes

\* Every step of the client, the server and the panel keeps every type.
LEMMA TypesStep == SyncTypes /\ [SyncNext]_syncVars => SyncTypes'
<1>. SUFFICES ASSUME SyncTypes, [SyncNext]_syncVars PROVE SyncTypes' OBVIOUS
<1>1. CASE UNCHANGED syncVars
  BY <1>1 DEF SyncTypes, syncVars
<1>2. CASE SyncNext
  BY <1>2, ServerStepTypes, ClientStepTypes, PanelStepTypes DEF SyncNext
<1>. QED BY <1>1, <1>2

-----------------------------------------------------------------------------
(* Ages.                                                                   *)

\* The table of one ClientState loses names, or one of its names is touched.
LEMMA AgesOfTable ==
  ASSUME SyncTypes, Ages, NEW s \in Sessions, srv[s].link # "none", srv'[s].link # "none",
         \/ \E X : Trimmed(s, X)
         \/ \E n \in Names : \E v : Touched(s, n, v, TRUE) \/ Touched(s, n, v, FALSE)
  PROVE  /\ \A t \in Sessions \ {s} : srv'[t] = srv[t]
         /\ srv'[s].boot = srv[s].boot /\ srv'[s].epoch = srv[s].epoch
         /\ \A n \in Names : srv'[s].table[n].seen <= srv'[s].epoch
         /\ \A n \in srv'[s].said : srv'[s].table[n].seen = srv'[s].epoch
<1>1. /\ srv[s].epoch \in 0..MaxResumes /\ MaxResumes \in Nat /\ srv[s].said \subseteq Names
      /\ \A n \in Names : srv[s].table[n].seen \in 0..MaxResumes
      /\ \A n \in Names : srv[s].table[n].seen <= srv[s].epoch
      /\ \A n \in srv[s].said : srv[s].table[n].seen = srv[s].epoch
  BY DEF SyncTypes, State, Entry, Ages
<1>2. CASE \E X : Trimmed(s, X)
  <2>1. PICK X : Trimmed(s, X) BY <1>2
  <2>2. \A n \in srv'[s].said : n \in srv[s].said /\ srv'[s].table[n] = srv[s].table[n]
    BY <1>1, <2>1 DEF Trimmed
  <2>3. \A n \in Names : srv'[s].table[n].seen \in {0, srv[s].table[n].seen}
    BY <2>1 DEF Trimmed, NoEntry
  <2>. QED BY <1>1, <2>1, <2>2, <2>3 DEF Trimmed
<1>3. CASE \E n \in Names : \E v : Touched(s, n, v, TRUE) \/ Touched(s, n, v, FALSE)
  <2>1. PICK n \in Names : \E v : Touched(s, n, v, TRUE) \/ Touched(s, n, v, FALSE)
    BY <1>3
  <2>2. \A k \in Names \ {n} : srv'[s].table[k] = srv[s].table[k]
    BY <2>1 DEF Touched
  <2>a. PICK v : Touched(s, n, v, TRUE) \/ Touched(s, n, v, FALSE)
    BY <2>1
  <2>3. srv'[s].table[n] = [sig |-> v, seen |-> srv[s].epoch] \/ srv'[s].table[n] = NoEntry
    BY <2>a DEF Touched
  <2>4. /\ srv'[s].table[n].seen \in {0, srv[s].epoch}
        /\ n \in Named(srv'[s].table) => srv'[s].table[n].seen = srv[s].epoch
    BY <2>3 DEF NoEntry, Named
  <2>5. \A k \in srv'[s].said : k = n \/ k \in srv[s].said
    BY <2>1 DEF Touched, Named
  <2>6. n \in srv'[s].said => srv'[s].table[n].seen = srv[s].epoch
    BY <2>1, <2>4 DEF Touched
  <2>7. srv'[s].said \subseteq Names
    BY <2>1 DEF Touched, Named
  <2>8. srv'[s].boot = srv[s].boot /\ srv'[s].epoch = srv[s].epoch /\ \A t \in Sessions \ {s} : srv'[t] = srv[t]
    BY <2>1 DEF Touched
  <2>. QED BY <1>1, <2>2, <2>4, <2>5, <2>6, <2>7, <2>8
<1>. QED BY <1>2, <1>3

\* Every step but a login and a resumption.
LEMMA AgesKept ==
  ASSUME SyncTypes, Ages, SyncTypes',
         \/ srv' = srv
         \/ \E s \in Sessions :
              /\ srv[s].link # "none" /\ srv'[s].link # "none"
              /\ \/ \E X : Trimmed(s, X)
                 \/ \E n \in Names : \E v : Touched(s, n, v, TRUE) \/ Touched(s, n, v, FALSE),
         count'.logins = count.logins, count.boots <= count'.boots,
         proc'.cur = NoConn \/ (proc'.cur = proc.cur /\ count'.boots = count.boots),
         \/ panel'.stage = "idle"
         \/ panel.stage # "idle" /\ panel'.s = panel.s
         \/ srv[panel'.s].link # "none"
  PROVE  Ages'
<1>1. /\ \A t \in Sessions : srv[t].boot \in Nat /\ srv'[t].boot \in Nat
      /\ count.boots \in Nat /\ count'.boots \in Nat
      /\ proc.cur \in Sessions \cup {NoConn}
      /\ panel.stage # "idle" => panel.s \in Sessions
      /\ panel'.stage # "idle" => panel'.s \in Sessions
  BY DEF SyncTypes, State, Process
<1>2. CASE srv' = srv
  <2>1. \A t \in Sessions :
          /\ count'.logins < t => srv'[t].link = "none"
          /\ srv'[t].link = "none" => Named(srv'[t].table) = {}
          /\ srv'[t].boot <= count'.boots
          /\ \A n \in Names : srv'[t].table[n].seen <= srv'[t].epoch
          /\ \A n \in srv'[t].said : srv'[t].table[n].seen = srv'[t].epoch
    <3>. SUFFICES ASSUME NEW t \in Sessions
                  PROVE  /\ count'.logins < t => srv'[t].link = "none"
                         /\ srv'[t].link = "none" => Named(srv'[t].table) = {}
                         /\ srv'[t].boot <= count'.boots
                         /\ \A n \in Names : srv'[t].table[n].seen <= srv'[t].epoch
                         /\ \A n \in srv'[t].said : srv'[t].table[n].seen = srv'[t].epoch
      OBVIOUS
    <3>1. srv[t].boot <= count.boots
      BY DEF Ages
    <3>2. srv'[t].boot <= count'.boots
      BY <1>1, <1>2, <3>1
    <3>. QED BY <1>2, <3>2 DEF Ages
  <2>2. proc'.cur # NoConn => srv'[proc'.cur].link # "none" /\ srv'[proc'.cur].boot = count'.boots
    BY <1>1, <1>2 DEF Ages
  <2>3. panel'.stage # "idle" => srv'[panel'.s].link # "none"
    BY <1>1, <1>2 DEF Ages
  <2>. QED BY <2>1, <2>2, <2>3 DEF Ages
<1>3. ASSUME NEW s \in Sessions, srv[s].link # "none", srv'[s].link # "none",
             \/ \E X : Trimmed(s, X)
             \/ \E n \in Names : \E v : Touched(s, n, v, TRUE) \/ Touched(s, n, v, FALSE)
      PROVE  Ages'
  <2>1. /\ \A t \in Sessions \ {s} : srv'[t] = srv[t]
        /\ srv'[s].boot = srv[s].boot /\ srv'[s].epoch = srv[s].epoch
        /\ \A n \in Names : srv'[s].table[n].seen <= srv'[s].epoch
        /\ \A n \in srv'[s].said : srv'[s].table[n].seen = srv'[s].epoch
    BY <1>3, AgesOfTable
  <2>2. \A t \in Sessions : srv'[t].boot = srv[t].boot /\ (srv'[t].link = "none" <=> srv[t].link = "none")
    BY <1>3, <2>1
  <2>3. ASSUME NEW t \in Sessions
        PROVE  /\ count'.logins < t => srv'[t].link = "none"
               /\ srv'[t].link = "none" => Named(srv'[t].table) = {}
               /\ srv'[t].boot <= count'.boots
               /\ \A n \in Names : srv'[t].table[n].seen <= srv'[t].epoch
               /\ \A n \in srv'[t].said : srv'[t].table[n].seen = srv'[t].epoch
    <3>1. /\ count.logins < t => srv[t].link = "none"
          /\ srv[t].link = "none" => Named(srv[t].table) = {}
          /\ srv[t].boot <= count.boots
          /\ \A n \in Names : srv[t].table[n].seen <= srv[t].epoch
          /\ \A n \in srv[t].said : srv[t].table[n].seen = srv[t].epoch
      BY DEF Ages
    <3>2. CASE t = s
      BY <1>1, <1>3, <2>1, <3>1, <3>2
    <3>3. CASE t # s
      <4>1. srv'[t] = srv[t]
        BY <2>1, <3>3
      <4>2. srv'[t].boot <= count'.boots
        BY <1>1, <3>1, <4>1
      <4>. QED BY <3>1, <4>1, <4>2
    <3>. QED BY <3>2, <3>3
  <2>4. proc'.cur # NoConn => srv'[proc'.cur].link # "none" /\ srv'[proc'.cur].boot = count'.boots
    BY <1>1, <2>2 DEF Ages
  <2>5. panel'.stage # "idle" => srv'[panel'.s].link # "none"
    BY <1>1, <2>2 DEF Ages
  <2>. QED BY <2>3, <2>4, <2>5 DEF Ages
<1>. QED BY <1>2, <1>3

\* A connection begins.
LEMMA AgesBegun ==
  ASSUME SyncTypes, Ages, SyncTypes', NEW s \in Sessions, LogIn \/ Resume(s)
  PROVE  Ages'
<1>1. PICK t \in Sessions :
        /\ proc.phase = "down" /\ Announce(t)
        /\ \A x \in Sessions \ {t} : srv'[x] = srv[x]
        /\ srv'[t].link = "up" /\ srv'[t].boot = count.boots
        /\ count'.boots = count.boots
        /\ count'.logins = t \/ (count'.logins = count.logins /\ srv[t].link = "parked")
        /\ count.logins <= count'.logins
        /\ srv'[t].said = {}
        /\ \/ srv'[t].epoch = 0 /\ \A n \in Names : srv'[t].table[n] = NoEntry
           \/ srv[t].epoch \in Nat /\ srv'[t].epoch = srv[t].epoch + 1 /\ srv'[t].table = srv[t].table
  <2>1. CASE LogIn
    <3>1. count.logins \in Nat BY DEF SyncTypes
    <3>2. PICK t \in Sessions :
           /\ t = count.logins + 1 /\ count.logins < t /\ proc.phase = "down"
           /\ count'.logins = t /\ count'.boots = count.boots
           /\ \A x \in Sessions \ {t} : srv'[x] = srv[x]
           /\ srv'[t].link = "up" /\ srv'[t].boot = count.boots
           /\ srv'[t].epoch = 0
           /\ \A n \in Names : srv'[t].table[n] = NoEntry
           /\ srv'[t].said = {}
           /\ Announce(t)
      BY <2>1, LogInEffect
    <3>3. count.logins <= count'.logins BY <3>1, <3>2
    <3>4. /\ proc.phase = "down" /\ Announce(t)
          /\ \A x \in Sessions \ {t} : srv'[x] = srv[x]
          /\ srv'[t].link = "up" /\ srv'[t].boot = count.boots
          /\ count'.boots = count.boots
          /\ count'.logins = t
          /\ count.logins <= count'.logins
          /\ srv'[t].said = {}
          /\ srv'[t].epoch = 0 /\ \A n \in Names : srv'[t].table[n] = NoEntry
      BY <3>2, <3>3
    <3>. WITNESS t \in Sessions
    <3>. QED BY <3>4
  <2>2. CASE Resume(s)
    <3>1. count.logins \in Nat BY DEF SyncTypes
    <3>2. /\ proc.phase = "down" /\ srv[s].link = "parked" /\ srv[s].boot = count.boots
          /\ count' = count
          /\ \A t \in Sessions \ {s} : srv'[t] = srv[t]
          /\ srv'[s].link = "up" /\ srv'[s].boot = srv[s].boot
          /\ srv'[s].epoch = srv[s].epoch + 1
          /\ srv[s].epoch \in Nat
          /\ srv'[s].table = srv[s].table /\ srv'[s].said = {}
          /\ Announce(s)
      BY <2>2, ResumeEffect
    <3>. QED BY <3>1, <3>2
  <2>. QED BY <2>1, <2>2
<1>2. /\ proc'.cur = t /\ panel' = panel
  <2>1. proc \in Process BY DEF SyncTypes
  <2>2. /\ proc' = [proc EXCEPT !.phase = "reg", !.cur = t, !.pending = Listed(boot)]
        /\ panel' = panel
    BY <1>1, AnnounceEffect
  <2>. QED BY <2>1, <2>2 DEF Process
<1>3. /\ \A x \in Sessions : srv[x].boot \in Nat /\ srv[x].epoch \in Nat /\ x \in Nat
      /\ \A x \in Sessions : \A n \in Names : srv[x].table[n].seen \in Nat
      /\ count.boots \in Nat /\ count.logins \in Nat /\ count'.logins \in Nat
      /\ panel.stage # "idle" => panel.s \in Sessions
  <2>1. MaxLogins \in Nat /\ MaxResumes \in Nat
    BY SyncAssumption
  <2>2. Sessions \subseteq Nat /\ 0..MaxResumes \subseteq Nat /\ 0..MaxLogins \subseteq Nat
    BY <2>1 DEF Sessions
  <2>3. /\ srv \in [Sessions -> State]
        /\ count \in [logins : 0..MaxLogins, boots : Nat, cmds : Nat, ui : Nat]
        /\ count' \in [logins : 0..MaxLogins, boots : Nat, cmds : Nat, ui : Nat]
        /\ panel.stage # "idle" => panel.s \in Sessions
    BY DEF SyncTypes
  <2>4. \A x \in Sessions : srv[x] \in State
    BY <2>3
  <2>5. \A x \in Sessions : /\ srv[x].boot \in Nat /\ srv[x].epoch \in 0..MaxResumes
                            /\ \A n \in Names : srv[x].table[n].seen \in 0..MaxResumes
    BY <2>4 DEF State, Entry
  <2>6. count.boots \in Nat /\ count.logins \in 0..MaxLogins /\ count'.logins \in 0..MaxLogins
    BY <2>3
  <2>. QED BY <2>2, <2>3, <2>5, <2>6
<1>4. ASSUME NEW x \in Sessions
      PROVE  /\ count'.logins < x => srv'[x].link = "none"
             /\ srv'[x].link = "none" => Named(srv'[x].table) = {}
             /\ srv'[x].boot <= count'.boots
             /\ \A n \in Names : srv'[x].table[n].seen <= srv'[x].epoch
             /\ \A n \in srv'[x].said : srv'[x].table[n].seen = srv'[x].epoch
  <2>1. /\ count.logins < x => srv[x].link = "none"
        /\ srv[x].link = "none" => Named(srv[x].table) = {}
        /\ srv[x].boot <= count.boots
        /\ \A n \in Names : srv[x].table[n].seen <= srv[x].epoch
        /\ \A n \in srv[x].said : srv[x].table[n].seen = srv[x].epoch
    BY DEF Ages
  <2>2. CASE x # t
    <3>1. srv'[x] = srv[x] BY <1>1, <2>2
    <3>2. count'.logins < x => count.logins < x BY <1>1, <1>3
    <3>. QED BY <1>1, <2>1, <3>1, <3>2
  <2>3. CASE x = t
    <3>1. ~(count'.logins < x)
      BY <1>1, <1>3, <2>1, <2>3
    <3>2. \A n \in Names : srv'[x].table[n].seen <= srv'[x].epoch
      <4>1. CASE srv'[t].epoch = 0 /\ \A n \in Names : srv'[t].table[n] = NoEntry
        BY <2>3, <4>1 DEF NoEntry
      <4>2. CASE srv[t].epoch \in Nat /\ srv'[t].epoch = srv[t].epoch + 1 /\ srv'[t].table = srv[t].table
        BY <1>3, <2>1, <2>3, <4>2
      <4>. QED BY <1>1, <4>1, <4>2
    <3>. QED BY <1>1, <1>3, <2>3, <3>1, <3>2
  <2>. QED BY <2>2, <2>3
<1>5. proc'.cur # NoConn => srv'[proc'.cur].link # "none" /\ srv'[proc'.cur].boot = count'.boots
  BY <1>1, <1>2
<1>6. panel'.stage # "idle" => srv'[panel'.s].link # "none"
  BY <1>1, <1>2, <1>3 DEF Ages
<1>. QED BY <1>4, <1>5, <1>6 DEF Ages

\* A step that changes the table of one ClientState.
Edits(s) ==
  \/ \E X : Trimmed(s, X)
  \/ \E n \in Names : \E v : Touched(s, n, v, TRUE) \/ Touched(s, n, v, FALSE)

\* The steps other than logins: whose table they change, and what they leave of
\* the connection, the counts and the panel's request.
LEMMA StepFrame ==
  ASSUME SyncTypes, Ages, SyncNext, ~LogIn, \A s \in Sessions : ~Resume(s)
  PROVE  /\ \/ srv' = srv
            \/ \E s \in Sessions : srv[s].link # "none" /\ srv'[s].link # "none" /\ Edits(s)
         /\ count'.logins = count.logins
         /\ count'.boots = count.boots \/ (count'.boots = count.boots + 1 /\ proc.phase = "off")
         /\ proc'.cur = NoConn \/ (proc'.cur = proc.cur /\ count'.boots = count.boots)
         /\ \/ panel'.stage = "idle"
            \/ panel.stage # "idle" /\ panel'.s = panel.s
            \/ srv[panel'.s].link # "none"
<1>. DEFINE Goal ==
         /\ \/ srv' = srv
            \/ \E s \in Sessions : srv[s].link # "none" /\ srv'[s].link # "none" /\ Edits(s)
         /\ count'.logins = count.logins
         /\ count'.boots = count.boots \/ (count'.boots = count.boots + 1 /\ proc.phase = "off")
         /\ proc'.cur = NoConn \/ (proc'.cur = proc.cur /\ count'.boots = count.boots)
         /\ \/ panel'.stage = "idle"
            \/ panel.stage # "idle" /\ panel'.s = panel.s
            \/ srv[panel'.s].link # "none"
<1>t. /\ proc \in Process /\ panel \in Request
      /\ count \in [logins : 0..MaxLogins, boots : Nat, cmds : Nat, ui : Nat]
      /\ panel.stage # "idle" => panel.s \in Sessions
  BY DEF SyncTypes
<1>p. \A st \in Stages : [panel EXCEPT !.stage = st].stage = st /\ [panel EXCEPT !.stage = st].s = panel.s
  BY <1>t DEF Request
<1>pi. panel' = [panel EXCEPT !.stage = "idle"] => panel'.stage = "idle"
  BY <1>p DEF Stages
<1>u. /\ [count EXCEPT !.ui = count.ui + 1].logins = count.logins
      /\ [count EXCEPT !.ui = count.ui + 1].boots = count.boots
      /\ [count EXCEPT !.boots = count.boots + 1].logins = count.logins
      /\ [count EXCEPT !.boots = count.boots + 1].boots = count.boots + 1
  BY <1>t
<1>1. ASSUME NEW s \in Sessions, ServerStep(s) PROVE Goal
  <2>1. CASE HandleNewProxy(s)
    <3>. DEFINE m == Head(up[s])
    <3>1. /\ srv[s].link = "up" /\ UNCHANGED <<panel, proc, count>> /\ m.name \in Names
          /\ \/ Touched(s, m.name, m.sig, TRUE)
             \/ Touched(s, m.name, m.sig, FALSE)
             \/ srv' = srv
      BY <2>1, HandleNewProxyEffect DEF Serving, processVars
    <3>. HIDE DEF m
    <3>2. srv' = srv \/ (srv'[s].link = "up" /\ Edits(s))
      BY <3>1 DEF Touched, Edits
    <3>. QED BY <1>t, <3>1, <3>2 DEF Ages
  <2>2. CASE HandleCloseProxy(s)
    <3>1. /\ srv[s].link = "up" /\ UNCHANGED <<panel, proc, count>> /\ srv'[s].link = srv[s].link /\ Edits(s)
      BY <2>2, HandleCloseProxyEffect DEF Serving, processVars, Edits
    <3>. QED BY <1>t, <3>1 DEF Ages
  <2>3. CASE HandleCommit(s)
    <3>1. /\ srv[s].link = "up" /\ UNCHANGED <<panel, proc, count>>
          /\ srv' = srv \/ (srv'[s].link = "up" /\ \E X : Trimmed(s, X))
      BY <2>3, HandleCommitEffect DEF Serving, processVars
    <3>2. srv' = srv \/ (srv'[s].link = "up" /\ Edits(s))
      BY <3>1 DEF Edits
    <3>. QED BY <1>t, <3>1, <3>2 DEF Ages
  <2>4. CASE HandleServerCmdResp(s)
    <3>1. /\ UNCHANGED <<srv, proc, count>>
          /\ \/ panel' = panel
             \/ panel' = [panel EXCEPT !.stage = "idle"]
             \/ panel.stage = "add" /\ panel' = [panel EXCEPT !.stage = "register"]
      BY <2>4 DEF HandleServerCmdResp, processVars
    <3>2. panel' = panel \/ panel'.stage = "idle" \/ (panel.stage = "add" /\ panel'.s = panel.s)
      BY <1>p, <1>pi, <3>1 DEF Stages
    <3>. QED BY <1>t, <3>1, <3>2 DEF Ages
  <2>5. CASE GraceExpires(s) \/ ParkExpires(s)
    <3>1. /\ srv[s].link # "none" /\ srv'[s].link # "none" /\ UNCHANGED <<panel, proc, count>>
          /\ \E X : Trimmed(s, X)
      BY <2>5, GraceExpiresEffect, ParkExpiresEffect DEF processVars
    <3>. QED BY <1>t, <3>1 DEF Edits, Ages
  <2>6. CASE LinkEnds(s)
    <3>1. /\ srv[s].link # "none" /\ srv'[s].link # "none" /\ UNCHANGED <<proc, count>>
          /\ \E X : Trimmed(s, X)
          /\ panel' = panel \/ panel' = [panel EXCEPT !.stage = "idle"]
      BY <2>6, LinkEndsEffect DEF processVars
    <3>. QED BY <1>t, <1>pi, <3>1 DEF Edits, Ages
  <2>. QED BY <1>1, <2>1, <2>2, <2>3, <2>4, <2>5, <2>6 DEF ServerStep
<1>2. CASE ClientStep
  <2>1. UNCHANGED <<srv, panel>>
    BY <1>2 DEF ClientStep, Boot, Exit, FallBack, Ready, ClientDrops, RecvNewProxyResp, RecvServerCmd,
                UiAdd, UiAddTimesOut, UiRemove
  <2>2. \/ /\ count' \in {count, [count EXCEPT !.ui = count.ui + 1]}
           /\ proc'.cur \in {proc.cur, NoConn}
        \/ /\ count' = [count EXCEPT !.boots = count.boots + 1] /\ proc.phase = "off"
           /\ proc'.cur = NoConn
    <3>1. ASSUME NEW f \in Files, NEW commits \in BOOLEAN, Boot(f, commits)
          PROVE  /\ count' = [count EXCEPT !.boots = count.boots + 1] /\ proc.phase = "off"
                 /\ proc'.cur = NoConn
      BY <3>1 DEF Boot, Off
    <3>2. CASE Exit
      BY <3>2 DEF Exit, Off
    <3>3. CASE FallBack \/ Ready
      BY <1>t, <3>3 DEF FallBack, Ready, Process
    <3>4. CASE ClientDrops
      BY <1>t, <3>4 DEF ClientDrops, Process
    <3>5. CASE RecvNewProxyResp
      <4>1. count' = count
        BY <3>5 DEF RecvNewProxyResp
      <4>2. CASE proc.phase = "reg" \/ proc.phase = "ready"
        BY <1>t, <3>5, <4>2 DEF RecvNewProxyResp, Process
      <4>3. CASE proc.phase = "adding" /\ Head(down[proc.cur]).ok
        BY <1>t, <3>5, <4>3, ZenonT(60) DEF RecvNewProxyResp, Process
      <4>4. CASE proc.phase = "adding" /\ ~Head(down[proc.cur]).ok
        BY <1>t, <3>5, <4>4 DEF RecvNewProxyResp, Process
      <4>5. proc.phase \in {"reg", "ready", "adding"}
        BY <3>5 DEF RecvNewProxyResp, Receives, SyncTypes
      <4>. QED BY <4>1, <4>2, <4>3, <4>4, <4>5
    <3>6. CASE RecvServerCmd
      BY <3>6 DEF RecvServerCmd
    <3>7. ASSUME NEW n \in Names, NEW v \in Versions, UiAdd(n, v)
          PROVE  count' = [count EXCEPT !.ui = count.ui + 1] /\ proc'.cur = proc.cur
      BY <1>t, <3>7 DEF UiAdd, Process
    <3>8. CASE UiAddTimesOut
      BY <1>t, <3>8 DEF UiAddTimesOut, Process
    <3>9. ASSUME NEW n \in Names, UiRemove(n)
          PROVE  count' = [count EXCEPT !.ui = count.ui + 1] /\ proc'.cur = proc.cur
      BY <1>t, <3>9 DEF UiRemove, Process
    <3>. QED BY <1>2, <3>1, <3>2, <3>3, <3>4, <3>5, <3>6, <3>7, <3>8, <3>9 DEF ClientStep
  <2>. QED BY <1>t, <1>u, <2>1, <2>2
<1>3. CASE PanelStep
  <2>1. ASSUME NEW s \in Sessions, NEW n \in Names, NEW v \in Versions, PanelAdd(s, n, v) PROVE Goal
    <3>1. /\ UNCHANGED <<srv, proc>> /\ srv[s].link = "up" /\ panel'.s = s
          /\ count'.logins = count.logins /\ count'.boots = count.boots
      BY <2>1, AsksEffect DEF PanelAdd, processVars
    <3>. QED BY <3>1
  <2>2. ASSUME NEW s \in Sessions, NEW n \in Names, PanelRemove(s, n) PROVE Goal
    <3>1. /\ Trimmed(s, {n}) /\ UNCHANGED proc /\ srv[s].link = "up" /\ srv'[s].link = srv[s].link
          /\ Asks(s, "remove", "remove", n, 0)
      BY <2>2, PanelRemoveEffect DEF processVars
    <3>2. panel'.s = s /\ count'.logins = count.logins /\ count'.boots = count.boots
      BY <3>1, AsksEffect
    <3>. QED BY <3>1, <3>2 DEF Edits
  <2>3. CASE AskTimesOut
    <3>1. /\ panel' = [panel EXCEPT !.stage = "idle"] /\ UNCHANGED <<proc, srv, count>>
      BY <2>3 DEF AskTimesOut, processVars
    <3>. QED BY <1>pi, <3>1
  <2>4. CASE PanelRegisters
    <3>1. /\ panel.stage = "register" /\ panel.s \in Sessions /\ panel.name \in Names
          /\ \/ Touched(panel.s, panel.name, panel.sig, TRUE)
             \/ Touched(panel.s, panel.name, panel.sig, FALSE)
          /\ \/ panel' = [panel EXCEPT !.stage = "idle"] /\ UNCHANGED count
             \/ Asks(panel.s, "undo", "remove", panel.name, 0)
          /\ UNCHANGED proc
      BY <2>4, PanelRegistersEffect DEF processVars
    <3>2. srv[panel.s].link # "none" /\ srv'[panel.s].link = srv[panel.s].link
      BY <3>1 DEF Ages, Touched
    <3>3. /\ count'.logins = count.logins /\ count'.boots = count.boots
          /\ panel'.stage = "idle" \/ panel'.s = panel.s
      BY <1>pi, <3>1, AsksEffect
    <3>4. Edits(panel.s)
      BY <3>1 DEF Edits
    <3>. QED BY <3>1, <3>2, <3>3, <3>4
  <2>. QED BY <1>3, <2>1, <2>2, <2>3, <2>4 DEF PanelStep
<1>. QED BY <1>1, <1>2, <1>3 DEF SyncNext

\* Every step keeps the order of things: logins and resumptions are the only
\* steps that make a connection, and they make it of the present process.
LEMMA AgesStep ==
  ASSUME SyncTypes, Ages, [SyncNext]_syncVars, SyncTypes'
  PROVE  Ages'
<1>1. CASE UNCHANGED syncVars
  BY <1>1 DEF Ages, syncVars
<1>2. ASSUME NEW s \in Sessions, LogIn \/ Resume(s) PROVE Ages'
  BY <1>2, AgesBegun
<1>3. CASE LogIn
  <2>1. \E s \in Sessions : TRUE
    BY <1>3, LogInEffect
  <2>. QED BY <1>2, <1>3, <2>1
<1>4. CASE SyncNext /\ ~LogIn /\ \A s \in Sessions : ~Resume(s)
  <2>1. count.boots \in Nat
    BY DEF SyncTypes
  <2>2. /\ \/ srv' = srv
           \/ \E s \in Sessions : srv[s].link # "none" /\ srv'[s].link # "none" /\ Edits(s)
        /\ count'.logins = count.logins
        /\ count'.boots = count.boots \/ (count'.boots = count.boots + 1 /\ proc.phase = "off")
        /\ proc'.cur = NoConn \/ (proc'.cur = proc.cur /\ count'.boots = count.boots)
        /\ \/ panel'.stage = "idle"
           \/ panel.stage # "idle" /\ panel'.s = panel.s
           \/ srv[panel'.s].link # "none"
    BY <1>4, StepFrame
  <2>3. count.boots <= count'.boots
    BY <2>1, <2>2
  <2>. QED BY <2>2, <2>3, AgesKept DEF Edits
<1>. QED BY <1>1, <1>2, <1>3, <1>4

\* Before the first login there is no connection to be too old.
LEMMA AgesStart == SyncInit => Ages
<1>. SUFFICES ASSUME SyncInit PROVE Ages OBVIOUS
<1>1. \A s \in Sessions : /\ srv[s].link = "none" /\ srv[s].boot = 0 /\ srv[s].epoch = 0 /\ srv[s].said = {}
                          /\ \A n \in Names : srv[s].table[n] = NoEntry
  BY DEF SyncInit, NoState, FreshState
<1>2. \A s \in Sessions : Named(srv[s].table) = {}
  BY <1>1 DEF Named, NoEntry
<1>3. count.boots = 0 /\ proc.cur = NoConn /\ panel.stage = "idle"
  <2>. DEFINE n == CHOOSE n \in Names : TRUE
  <2>1. NoRequest = [stage |-> "idle", s |-> NoConn, name |-> n, sig |-> 0]
    BY DEF NoRequest
  <2>. HIDE DEF n
  <2>. QED BY <2>1 DEF SyncInit, Off
<1>. QED BY <1>1, <1>2, <1>3 DEF Ages, NoEntry

-----------------------------------------------------------------------------
(* The gauge.                                                              *)

\* proxies_active counts a finite set: sessions and names are finite.
LEMMA RegistrationsFinite ==
  /\ IsFiniteSet(Sessions \X Names) /\ IsFiniteSet(Registrations)
  /\ Cardinality(Registrations) \in Nat
<1>1. IsFiniteSet(Sessions)
  BY FS_Interval, SyncAssumption DEF Sessions
<1>2. IsFiniteSet(Names)
  BY SyncAssumption
<1>3. IsFiniteSet(Sessions \X Names)
  BY <1>1, <1>2, FS_Product
<1>4. Registrations \subseteq Sessions \X Names
  BY DEF Registrations
<1>. QED BY <1>3, <1>4, FS_Subset, FS_CardinalityType

\* The names that leave a table are as many registrations less.
LEMMA FewerRegistrations ==
  ASSUME SyncTypes, NEW s \in Sessions, NEW X, Trimmed(s, X), NEW G, G = Named(srv[s].table) \cap X
  PROVE  /\ Cardinality(G) \in Nat /\ Cardinality(Registrations') \in Nat
         /\ Cardinality(Registrations') = Cardinality(Registrations) - Cardinality(G)
<1>1. G \subseteq Names /\ IsFiniteSet(G) /\ Cardinality(G) \in Nat
  <2>1. G \subseteq Names BY DEF Named
  <2>. QED BY <2>1, SyncAssumption, FS_Subset, FS_CardinalityType
<1>2. IsFiniteSet({s}) /\ Cardinality({s}) = 1
  BY FS_Singleton
<1>. DEFINE D == {s} \X G
<1>3. IsFiniteSet(D) /\ Cardinality(D) = Cardinality(G)
  <2>1. IsFiniteSet(D) /\ Cardinality(D) = Cardinality({s}) * Cardinality(G)
    BY <1>1, <1>2, FS_Product
  <2>. HIDE DEF D
  <2>. QED BY <1>1, <1>2, <2>1
<1>4. \A t \in Sessions : Named(srv'[t].table) = IF t = s THEN Named(srv[s].table) \ X ELSE Named(srv[t].table)
  BY DEF Trimmed
<1>5. Registrations' = Registrations \ D
  <2>1. ASSUME NEW e \in Registrations' PROVE e \in Registrations /\ e \notin D
    <3>1. e[1] \in Sessions /\ e[2] \in Names /\ e[2] \in Named(srv'[e[1]].table) /\ e = <<e[1], e[2]>>
          /\ e \in Sessions \X Names
      BY <2>1 DEF Registrations
    <3>2. e[2] \in Named(srv[e[1]].table)
      BY <1>4, <3>1
    <3>3. e[1] = s => e[2] \notin X
      BY <1>4, <3>1
    <3>4. e \in D => e[1] = s /\ e[2] \in X
      OBVIOUS
    <3>. QED BY <3>1, <3>2, <3>3, <3>4 DEF Registrations
  <2>2. ASSUME NEW e \in Registrations, e \notin D PROVE e \in Registrations'
    <3>1. e[1] \in Sessions /\ e[2] \in Names /\ e[2] \in Named(srv[e[1]].table) /\ e = <<e[1], e[2]>>
          /\ e \in Sessions \X Names
      BY <2>2 DEF Registrations
    <3>2. e[1] = s => e[2] \notin X
      BY <2>2, <3>1
    <3>3. e[2] \in Named(srv'[e[1]].table)
      BY <1>4, <3>1, <3>2
    <3>. QED BY <3>1, <3>3 DEF Registrations
  <2>. QED BY <2>1, <2>2
<1>6. Registrations \cap D = D
  <2>1. ASSUME NEW e \in D PROVE e \in Registrations
    <3>1. e \in Sessions \X Names /\ e[1] = s /\ e[2] \in G
      BY <1>1, <2>1
    <3>. QED BY <3>1 DEF Registrations
  <2>. QED BY <2>1
<1>. HIDE DEF D
<1>7. Cardinality(Registrations \ D) = Cardinality(Registrations) - Cardinality(D)
  BY <1>6, RegistrationsFinite, FS_Difference
<1>8. Cardinality(Registrations') \in Nat
  BY <1>5, RegistrationsFinite, FS_Difference, FS_CardinalityType
<1>. QED BY <1>1, <1>3, <1>5, <1>7, <1>8

\* Names are taken out, and the gauge goes down by no more than their number.
LEMMA GaugeTrimmed ==
  ASSUME SyncTypes, GaugeNotLow, NEW s \in Sessions, NEW X, Trimmed(s, X),
         NEW G, G = Named(srv[s].table) \cap X, active' >= active - Cardinality(G), active' \in Int
  PROVE  GaugeNotLow'
<1>1. /\ Cardinality(G) \in Nat /\ Cardinality(Registrations') \in Nat
      /\ Cardinality(Registrations') = Cardinality(Registrations) - Cardinality(G)
  BY FewerRegistrations
<1>2. Cardinality(Registrations) \in Nat
  BY RegistrationsFinite
<1>3. active \in Int /\ active >= Cardinality(Registrations)
  BY DEF SyncTypes, GaugeNotLow
<1>4. active' >= Cardinality(Registrations')
  BY <1>1, <1>2, <1>3
<1>. QED BY <1>4 DEF GaugeNotLow

\* A name is registered or not; the gauge knows whether it was before.
LEMMA GaugeTouched ==
  ASSUME SyncTypes, GaugeNotLow, NEW s \in Sessions, NEW n \in Names, NEW v,
         Touched(s, n, v, TRUE) \/ Touched(s, n, v, FALSE)
  PROVE  GaugeNotLow'
<1>. DEFINE e == <<s, n>>
<1>1. /\ \A t \in Sessions \ {s} : srv'[t] = srv[t]
      /\ \A k \in Names \ {n} : srv'[s].table[k] = srv[s].table[k]
      /\ active' = active + ((IF n \in Named(srv'[s].table) THEN 1 ELSE 0)
                             - (IF n \in Named(srv[s].table) THEN 1 ELSE 0))
  BY DEF Touched
<1>2. ASSUME NEW d \in Sessions \X Names, d # e PROVE d \in Registrations' <=> d \in Registrations
  <2>1. d[1] \in Sessions /\ d[2] \in Names /\ (d[1] # s \/ d[2] # n)
    BY <1>2
  <2>2. d[2] \in Named(srv'[d[1]].table) <=> d[2] \in Named(srv[d[1]].table)
    BY <1>1, <2>1 DEF Named
  <2>. QED BY <2>2 DEF Registrations
<1>3. e \in Sessions \X Names /\ e[1] = s /\ e[2] = n
  OBVIOUS
<1>4. /\ e \in Registrations <=> n \in Named(srv[s].table)
      /\ e \in Registrations' <=> n \in Named(srv'[s].table)
  BY <1>3 DEF Registrations
<1>5. \A d \in Registrations' : d \in Sessions \X Names
  BY DEF Registrations
<1>6. \A d \in Registrations : d \in Sessions \X Names
  BY DEF Registrations
<1>. HIDE DEF e
<1>7. Registrations' = IF n \in Named(srv'[s].table) THEN Registrations \cup {e} ELSE Registrations \ {e}
  BY <1>2, <1>3, <1>4, <1>5, <1>6
<1>8. Cardinality(Registrations) \in Nat /\ active \in Int /\ active >= Cardinality(Registrations)
  BY RegistrationsFinite DEF SyncTypes, GaugeNotLow
<1>9. CASE n \in Named(srv'[s].table)
  <2>1. Cardinality(Registrations') =
          IF e \in Registrations THEN Cardinality(Registrations) ELSE Cardinality(Registrations) + 1
    BY <1>7, <1>9, RegistrationsFinite, FS_AddElement
  <2>2. active' >= Cardinality(Registrations')
    BY <1>1, <1>4, <1>8, <1>9, <2>1
  <2>. QED BY <2>2 DEF GaugeNotLow
<1>10. CASE n \notin Named(srv'[s].table)
  <2>1. Cardinality(Registrations') =
          IF e \in Registrations THEN Cardinality(Registrations) - 1 ELSE Cardinality(Registrations)
    BY <1>7, <1>10, RegistrationsFinite, FS_RemoveElement
  <2>2. active' >= Cardinality(Registrations')
    BY <1>1, <1>4, <1>8, <1>10, <2>1
  <2>. QED BY <2>2 DEF GaugeNotLow
<1>. QED BY <1>9, <1>10

\* No table changes what it holds.
LEMMA GaugeKept ==
  ASSUME GaugeNotLow, \A t \in Sessions : Named(srv'[t].table) = Named(srv[t].table), active' = active
  PROVE  GaugeNotLow'
<1>1. Registrations' = Registrations
  BY DEF Registrations
<1>. QED BY <1>1 DEF GaugeNotLow

\* No close, reconciliation, expiry or request of the panel takes more off
\* proxies_active than it takes out of the tables.
LEMMA GaugeStep ==
  ASSUME SyncTypes, Ages, GaugeNotLow, [SyncNext]_syncVars
  PROVE  GaugeNotLow'
<1>i. active \in Int /\ \A X \in SUBSET Names : Cardinality(X) \in Nat
  <2>1. \A X \in SUBSET Names : Cardinality(X) \in Nat
    BY SyncAssumption, FS_Subset, FS_CardinalityType
  <2>. QED BY <2>1 DEF SyncTypes
<1>n. \A s \in Sessions : Named(srv[s].table) \in SUBSET Names
  BY DEF Named
<1>a. ASSUME NEW s \in Sessions, NEW X, Trimmed(s, X), X \subseteq Named(srv[s].table),
             active' = active - Cardinality(X)
      PROVE  GaugeNotLow'
  <2>1. X = Named(srv[s].table) \cap X /\ Cardinality(X) \in Nat
    BY <1>a, <1>i, <1>n
  <2>2. active' >= active - Cardinality(X) /\ active' \in Int
    BY <1>a, <1>i, <2>1
  <2>. QED BY <1>a, <2>1, <2>2, GaugeTrimmed
<1>b. ASSUME NEW s \in Sessions, Trimmed(s, Names), active' = active - Cardinality(Named(srv[s].table))
      PROVE  GaugeNotLow'
  <2>1. Named(srv[s].table) = Named(srv[s].table) \cap Names /\ Cardinality(Named(srv[s].table)) \in Nat
    BY <1>i, <1>n
  <2>2. active' >= active - Cardinality(Named(srv[s].table)) /\ active' \in Int
    BY <1>b, <1>i, <2>1
  <2>. QED BY <1>b, <2>1, <2>2, GaugeTrimmed
<1>c. ASSUME NEW s \in Sessions, NEW n \in Names, Trimmed(s, {n}), active' \in {active, active - 1},
             active' = active \/ n \in Named(srv[s].table)
      PROVE  GaugeNotLow'
  <2>1. CASE n \in Named(srv[s].table)
    <3>0. Cardinality({n}) = 1
      BY FS_Singleton
    <3>1. Named(srv[s].table) \cap {n} = {n} /\ Cardinality({n}) = 1
      BY <2>1, <3>0
    <3>2. active' >= active - Cardinality({n}) /\ active' \in Int
      BY <1>c, <1>i, <3>1
    <3>. QED BY <1>c, <3>1, <3>2, GaugeTrimmed
  <2>2. CASE n \notin Named(srv[s].table)
    <3>1. Named(srv[s].table) \cap {n} = {} /\ Cardinality({}) = 0
      BY <2>2, FS_EmptySet
    <3>2. active' >= active - Cardinality({}) /\ active' \in Int
      BY <1>c, <1>i, <2>2, <3>1
    <3>. QED BY <1>c, <3>1, <3>2, GaugeTrimmed
  <2>. QED BY <2>1, <2>2
<1>d. ASSUME NEW s \in Sessions, Trimmed(s, {}), active' = active PROVE GaugeNotLow'
  <2>1. \A t \in Sessions : Named(srv'[t].table) = Named(srv[t].table)
    BY <1>d DEF Trimmed
  <2>. QED BY <1>d, <2>1, GaugeKept
<1>e. ASSUME UNCHANGED <<srv, active>> PROVE GaugeNotLow'
  BY <1>e, GaugeKept
<1>1. ASSUME NEW s \in Sessions, ServerStep(s) PROVE GaugeNotLow'
  <2>1. CASE HandleNewProxy(s)
    <3>1. PICK n \in Names, v \in Versions :
            Touched(s, n, v, TRUE) \/ Touched(s, n, v, FALSE) \/ UNCHANGED <<srv, active>>
      BY <2>1, HandleNewProxyEffect
    <3>. QED BY <1>e, <3>1, GaugeTouched
  <2>2. CASE HandleCloseProxy(s)
    <3>. DEFINE n == Head(up[s]).name
    <3>1. /\ Trimmed(s, {n}) /\ active' \in {active, active - 1}
          /\ active' = active \/ n \in Named(srv[s].table)
      BY <2>2, HandleCloseProxyEffect
    <3>2. n \in Names
      BY <2>2, HandleCloseProxyEffect, MessageFields DEF Serving
    <3>. HIDE DEF n
    <3>. QED BY <1>c, <3>1, <3>2
  <2>3. CASE HandleCommit(s)
    <3>. DEFINE gone == Named(srv[s].table) \ Wanted(Assembled(srv[s].asm, Head(up[s])))
    <3>1. \/ UNCHANGED <<srv, active>>
          \/ Trimmed(s, gone) /\ active' = active - Cardinality(gone)
          \/ Trimmed(s, {}) /\ active' = active
      BY <2>3, HandleCommitEffect
    <3>2. gone \subseteq Named(srv[s].table)
      OBVIOUS
    <3>. HIDE DEF gone
    <3>. QED BY <1>a, <1>d, <1>e, <3>1, <3>2
  <2>4. CASE HandleServerCmdResp(s)
    BY <1>e, <2>4 DEF HandleServerCmdResp
  <2>5. CASE GraceExpires(s)
    <3>1. Stale(s) \subseteq Named(srv[s].table)
      BY DEF Stale
    <3>. QED BY <1>a, <2>5, <3>1, GraceExpiresEffect
  <2>6. CASE LinkEnds(s)
    BY <1>b, <1>d, <2>6, LinkEndsEffect
  <2>7. CASE ParkExpires(s)
    BY <1>b, <2>7, ParkExpiresEffect
  <2>. QED BY <1>1, <2>1, <2>2, <2>3, <2>4, <2>5, <2>6, <2>7 DEF ServerStep
<1>2. CASE ClientStep
  <2>1. CASE LogIn
    <3>1. PICK s \in Sessions : /\ count.logins < s /\ \A t \in Sessions \ {s} : srv'[t] = srv[t]
                                /\ Named(srv'[s].table) = {} /\ Announce(s)
      BY <2>1, LogInEffect
    <3>2. Named(srv[s].table) = {}
      BY <3>1 DEF Ages
    <3>3. active' = active
      BY <3>1 DEF Announce
    <3>4. \A t \in Sessions : Named(srv'[t].table) = Named(srv[t].table)
      BY <3>1, <3>2
    <3>. QED BY <3>3, <3>4, GaugeKept
  <2>2. ASSUME NEW s \in Sessions, Resume(s) PROVE GaugeNotLow'
    <3>1. /\ \A t \in Sessions \ {s} : srv'[t] = srv[t]
          /\ srv'[s].table = srv[s].table /\ Announce(s)
      BY <2>2, ResumeEffect
    <3>2. active' = active
      BY <3>1 DEF Announce
    <3>3. \A t \in Sessions : Named(srv'[t].table) = Named(srv[t].table)
      BY <3>1
    <3>. QED BY <3>2, <3>3, GaugeKept
  <2>3. CASE ~LogIn /\ \A s \in Sessions : ~Resume(s)
    <3>1. UNCHANGED <<srv, active>>
      BY <1>2, <2>3 DEF ClientStep, Boot, Exit, FallBack, Ready, ClientDrops, RecvNewProxyResp, RecvServerCmd,
                UiAdd, UiAddTimesOut, UiRemove
    <3>. QED BY <1>e, <3>1
  <2>. QED BY <2>1, <2>2, <2>3
<1>3. CASE PanelStep
  <2>1. ASSUME NEW s \in Sessions, NEW n \in Names, NEW v \in Versions, PanelAdd(s, n, v) PROVE GaugeNotLow'
    BY <1>e, <2>1 DEF PanelAdd
  <2>2. ASSUME NEW s \in Sessions, NEW n \in Names, PanelRemove(s, n) PROVE GaugeNotLow'
    BY <1>c, <2>2, PanelRemoveEffect
  <2>3. CASE AskTimesOut
    BY <1>e, <2>3 DEF AskTimesOut
  <2>4. CASE PanelRegisters
    BY <2>4, PanelRegistersEffect, GaugeTouched
  <2>. QED BY <1>3, <2>1, <2>2, <2>3, <2>4 DEF PanelStep
<1>4. CASE UNCHANGED syncVars
  BY <1>4, <1>e DEF syncVars
<1>. QED BY <1>1, <1>2, <1>3, <1>4 DEF SyncNext

\* Before the first login proxies_active is zero and nothing is registered.
LEMMA GaugeStart == SyncInit => GaugeNotLow
<1>. SUFFICES ASSUME SyncInit PROVE GaugeNotLow OBVIOUS
<1>1. \A s \in Sessions : \A n \in Names : srv[s].table[n] = NoEntry
  BY DEF SyncInit, NoState, FreshState
<1>2. Registrations = {}
  BY <1>1 DEF Registrations, Named, NoEntry
<1>3. Cardinality(Registrations) = 0
  BY <1>2, FS_EmptySet
<1>. QED BY <1>3 DEF GaugeNotLow, SyncInit

-----------------------------------------------------------------------------
(* The user's own file.                                                    *)

\* Entries of the file change only by the local interface: commands of the
\* panel are refused for them, and what is taken back was not one of them.
LEMMA ConfigStep ==
  ASSUME SyncTypes, ConfigKept, AddingOwn, [SyncNext]_syncVars
  PROVE  ConfigKept' /\ AddingOwn'
<1>u. ASSUME UNCHANGED processVars PROVE ConfigKept' /\ AddingOwn'
  BY <1>u DEF ConfigKept, AddingOwn, processVars, Listed
<1>p. /\ proc \in Process /\ file \in [Names -> Versions \cup {0}] /\ store \in [Names -> Versions \cup {0}]
      /\ local \in [Names -> [sig : Versions \cup {0}, dynamic : BOOLEAN]]
      /\ proc.adding \in Names <=> proc.phase = "adding"
  BY SyncAssumption DEF SyncTypes, Listing
<1>1. ASSUME NEW f \in Files, NEW commits \in BOOLEAN, Boot(f, commits) PROVE ConfigKept' /\ AddingOwn'
  <2>1. /\ file' = f /\ f \in [Names -> Versions \cup {0}]
        /\ local' = [n \in Names |-> [sig |-> Merged(f, store)[n], dynamic |-> f[n] = 0 /\ store[n] # 0]]
        /\ proc' = [Off EXCEPT !.phase = "down", !.commits = commits]
    BY <1>1, SyncAssumption DEF Boot
  <2>2. proc'.phase = "down" /\ proc'.uiRemoved = {}
    BY <2>1 DEF Off
  <2>3. ASSUME NEW n \in Names, f[n] # 0 PROVE local'[n] = [sig |-> f[n], dynamic |-> FALSE]
    <3>1. Merged(f, store)[n] = f[n] /\ (f[n] = 0 /\ store[n] # 0) = FALSE
      BY <2>3 DEF Merged
    <3>. QED BY <2>1, <3>1
  <2>. QED BY <2>1, <2>2, <2>3 DEF ConfigKept, AddingOwn, Listed
<1>2. CASE Exit
  BY <1>2 DEF Exit, ConfigKept, AddingOwn, Off
<1>3. CASE FallBack
  <2>1. /\ proc'.phase = proc.phase /\ proc'.adding = proc.adding /\ proc'.uiRemoved = proc.uiRemoved
        /\ UNCHANGED <<file, local>>
    BY <1>3, <1>p DEF FallBack, Process
  <2>. QED BY <2>1 DEF ConfigKept, AddingOwn, Listed
<1>4. ASSUME NEW s \in Sessions, Announce(s), proc.phase = "down" PROVE ConfigKept' /\ AddingOwn'
  <2>1. /\ proc'.phase = "reg" /\ proc'.uiRemoved = proc.uiRemoved /\ UNCHANGED <<file, local>>
    BY <1>4, <1>p DEF Announce, Process
  <2>. QED BY <1>4, <2>1 DEF ConfigKept, AddingOwn, Listed
<1>5. CASE Ready
  <2>1. /\ proc'.phase = "ready" /\ proc.phase = "reg" /\ proc'.uiRemoved = proc.uiRemoved
        /\ UNCHANGED <<file, local>>
    BY <1>5, <1>p DEF Ready, Process
  <2>. QED BY <2>1 DEF ConfigKept, AddingOwn, Listed
<1>l. ASSUME proc.phase = "adding", local' = Lost(proc.adding), file' = file,
             proc'.uiRemoved = proc.uiRemoved, proc'.phase # "adding"
      PROVE  ConfigKept' /\ AddingOwn'
  <2>1. proc.adding \notin Listed(file) \ proc.uiRemoved
    BY <1>l DEF AddingOwn
  <2>2. \A n \in Names : n # proc.adding => local'[n] = local[n]
    BY <1>l, <1>p DEF Lost
  <2>. QED BY <1>l, <2>1, <2>2 DEF ConfigKept, AddingOwn, Listed
<1>6. CASE ClientDrops
  <2>1. /\ proc'.phase = "down" /\ proc.phase # "off" /\ proc'.uiRemoved = proc.uiRemoved /\ file' = file
    BY <1>6, <1>p DEF ClientDrops, Process
  <2>2. CASE proc.phase = "adding"
    BY <1>6, <1>l, <2>1, <2>2 DEF ClientDrops
  <2>3. CASE proc.phase # "adding"
    <3>1. local' = local
      BY <1>6, <2>3 DEF ClientDrops
    <3>. QED BY <2>1, <3>1 DEF ConfigKept, AddingOwn, Listed
  <2>. QED BY <2>2, <2>3
<1>7. CASE RecvNewProxyResp
  <2>. DEFINE m == Head(down[proc.cur])
  <2>1. proc.phase \in {"reg", "ready", "adding"} /\ file' = file
    BY <1>7 DEF RecvNewProxyResp, Receives, SyncTypes
  <2>2. m.ok \in BOOLEAN
    BY <1>7, ReceivesFacts, MessageFields DEF RecvNewProxyResp
  <2>3. CASE proc.phase \in {"reg", "ready"}
    <3>1. /\ proc'.phase = proc.phase /\ proc'.uiRemoved = proc.uiRemoved /\ local' = local
      BY <1>7, <1>p, <2>3 DEF RecvNewProxyResp, Process
    <3>. QED BY <2>1, <2>3, <3>1 DEF ConfigKept, AddingOwn, Listed
  <2>4. CASE proc.phase = "adding" /\ m.ok
    <3>1. /\ proc'.phase = "ready" /\ proc'.uiRemoved = proc.uiRemoved /\ local' = local
      BY <1>7, <1>p, <2>4, ZenonT(60) DEF RecvNewProxyResp, Process
    <3>. QED BY <2>1, <2>4, <3>1 DEF ConfigKept, AddingOwn, Listed
  <2>5. CASE proc.phase = "adding" /\ ~m.ok
    <3>0. /\ proc' = [proc EXCEPT !.phase = "ready", !.adding = 0,
                                  !.withdrawn = proc.withdrawn \cup {proc.adding}]
          /\ local' = Lost(proc.adding)
      BY <1>7, <2>5 DEF RecvNewProxyResp
    <3>1. proc'.phase = "ready" /\ proc'.uiRemoved = proc.uiRemoved /\ local' = Lost(proc.adding)
      BY <1>p, <3>0 DEF Process
    <3>. QED BY <1>l, <2>1, <2>5, <3>1
  <2>. QED BY <2>1, <2>2, <2>3, <2>4, <2>5
<1>8. CASE RecvServerCmd
  <2>. DEFINE m == Head(down[proc.cur])
              r == Applied(m)
  <2>1. m.name \in Names /\ proc' = proc /\ file' = file
    BY <1>8, ReceivesFacts, MessageFields DEF RecvServerCmd
  <2>2. CASE UNCHANGED <<local, store>>
    BY <2>1, <2>2 DEF ConfigKept, AddingOwn, Listed
  <2>3. CASE /\ proc.phase = "ready" /\ r.ok
             /\ local' = [local EXCEPT ![m.name] = [sig |-> r.value, dynamic |-> r.value # 0]]
    <3>1. ~FromFile(m.name)
      BY <2>3 DEF Applied
    <3>2. m.name \notin Listed(file) \ proc.uiRemoved
      <4>1. SUFFICES ASSUME m.name \in Listed(file) \ proc.uiRemoved PROVE FALSE
        OBVIOUS
      <4>2. local[m.name] = [sig |-> file[m.name], dynamic |-> FALSE] /\ file[m.name] # 0
        BY <2>3, <4>1 DEF ConfigKept, Listed
      <4>. QED BY <3>1, <4>2 DEF FromFile
    <3>. HIDE DEF m, r
    <3>3. \A n \in Names : n # m.name => local'[n] = local[n]
      BY <1>p, <2>1, <2>3
    <3>. QED BY <2>1, <2>3, <3>2, <3>3 DEF ConfigKept, AddingOwn, Listed
  <2>4. \/ UNCHANGED <<local, store>>
        \/ /\ proc.phase = "ready" /\ r.ok
           /\ local' = [local EXCEPT ![m.name] = [sig |-> r.value, dynamic |-> r.value # 0]]
    BY <1>8 DEF RecvServerCmd
  <2>. QED BY <2>2, <2>3, <2>4
<1>9. ASSUME NEW n \in Names, NEW v \in Versions, UiAdd(n, v) PROVE ConfigKept' /\ AddingOwn'
  <2>1. /\ proc.phase = "ready" /\ local[n].sig = 0 /\ file' = file
        /\ proc'.phase = "adding" /\ proc'.adding = n /\ proc'.uiRemoved = proc.uiRemoved
        /\ local' = [local EXCEPT ![n] = [sig |-> v, dynamic |-> TRUE]]
    BY <1>9, <1>p DEF UiAdd, Process
  <2>2. local'[n].sig = v /\ v # 0 /\ \A k \in Names : k # n => local'[k] = local[k]
    BY <1>p, <2>1, SyncAssumption
  <2>3. n \notin Listed(file) \ proc.uiRemoved
    <3>1. SUFFICES ASSUME n \in Listed(file) \ proc.uiRemoved PROVE FALSE
      OBVIOUS
    <3>2. local[n] = [sig |-> file[n], dynamic |-> FALSE] /\ file[n] # 0
      BY <2>1, <3>1 DEF ConfigKept, Listed
    <3>. QED BY <2>1, <3>2
  <2>. QED BY <2>1, <2>2, <2>3 DEF ConfigKept, AddingOwn, Listed
<1>10. CASE UiAddTimesOut
  <2>1. /\ proc.phase = "adding" /\ local' = Lost(proc.adding) /\ file' = file
        /\ proc'.phase = "ready" /\ proc'.uiRemoved = proc.uiRemoved
    BY <1>10, <1>p DEF UiAddTimesOut, Process
  <2>. QED BY <1>l, <2>1
<1>11. ASSUME NEW n \in Names, UiRemove(n) PROVE ConfigKept' /\ AddingOwn'
  <2>1. /\ proc.phase = "ready" /\ local' = Lost(n) /\ file' = file
        /\ proc'.phase = "ready" /\ proc'.uiRemoved = proc.uiRemoved \cup {n}
    BY <1>11, <1>p DEF UiRemove, Process
  <2>2. \A k \in Names : k # n => local'[k] = local[k]
    BY <1>p, <2>1 DEF Lost
  <2>. QED BY <2>1, <2>2 DEF ConfigKept, AddingOwn, Listed
<1>12. CASE ClientStep
  <2>1. ASSUME NEW s \in Sessions, Resume(s) PROVE ConfigKept' /\ AddingOwn'
    BY <1>4, <2>1, ResumeEffect
  <2>2. CASE LogIn
    BY <1>4, <2>2, LogInEffect
  <2>. QED BY <1>1, <1>2, <1>3, <1>5, <1>6, <1>7, <1>8, <1>9, <1>10, <1>11, <1>12, <2>1, <2>2 DEF ClientStep
<1>13. CASE PanelStep
  <2>1. UNCHANGED processVars
    BY <1>13 DEF PanelStep, PanelAdd, PanelRemove, AskTimesOut, PanelRegisters
  <2>. QED BY <1>u, <2>1
<1>14. ASSUME NEW s \in Sessions, ServerStep(s) PROVE ConfigKept' /\ AddingOwn'
  <2>1. UNCHANGED processVars
    BY <1>14 DEF ServerStep, HandleNewProxy, HandleCloseProxy, HandleCommit, HandleServerCmdResp, GraceExpires,
                 LinkEnds, ParkExpires
  <2>. QED BY <1>u, <2>1
<1>15. CASE UNCHANGED syncVars
  BY <1>15, <1>u DEF syncVars, processVars
<1>. QED BY <1>12, <1>13, <1>14, <1>15 DEF SyncNext

\* No client process runs before the first one is started.
LEMMA ConfigStart == SyncInit => ConfigKept /\ AddingOwn
BY DEF SyncInit, Off, ConfigKept, AddingOwn

-----------------------------------------------------------------------------
(* Lists of names and the frames that carry them.                          *)

\* Taking the head off a queue keeps what it says of a list; a name announced
\* before a commit is on the list.
LEMMA ListedTail ==
  ASSUME NEW S, NEW q \in Seq(S), q # <<>>, NEW L, QueueListed(q, L)
  PROVE  /\ QueueListed(Tail(q), L)
         /\ Commits(Tail(q)) => Commits(q)
         /\ Commits(Tail(q)) /\ Head(q).type = "new" => Head(q).name \in L
         /\ Head(q).type = "commit" => Commits(q) /\ Head(q) \in FramesOf(L)
<1>. DEFINE l == Len(q)
            t == Tail(q)
<1>1. /\ Head(q) = q[1] /\ 1 \in 1..l /\ l \in Nat /\ DOMAIN q = 1..l /\ DOMAIN t = 1..l - 1
      /\ \A i \in 1..l - 1 : t[i] = q[i + 1] /\ i + 1 \in 1..l
  BY TailFacts
<1>. HIDE DEF l, t
<1>2. ASSUME NEW j \in DOMAIN t, t[j].type = "commit"
      PROVE  /\ t[j] \in FramesOf(L)
             /\ \A i \in 1..j-1 : t[i].type = "new" => t[i].name \in L
             /\ q[1].type = "new" => q[1].name \in L
             /\ Commits(q)
  <2>1. j \in 1..l - 1 /\ t[j] = q[j + 1] /\ j + 1 \in DOMAIN q /\ q[j + 1].type = "commit"
    BY <1>1, <1>2
  <2>2. q[j + 1] \in FramesOf(L) /\ \A i \in 1..(j + 1) - 1 : q[i].type = "new" => q[i].name \in L
    BY <2>1 DEF QueueListed
  <2>3. 1 \in 1..(j + 1) - 1 /\ \A i \in 1..j-1 : i \in 1..l - 1 /\ i + 1 \in 1..(j + 1) - 1
    BY <1>1, <2>1
  <2>4. \A i \in 1..j-1 : t[i].type = "new" => t[i].name \in L
    BY <1>1, <2>2, <2>3
  <2>. QED BY <2>1, <2>2, <2>3, <2>4 DEF Commits
<1>3. Head(q).type = "commit" => Commits(q) /\ Head(q) \in FramesOf(L)
  BY <1>1 DEF QueueListed, Commits
<1>4. QueueListed(t, L)
  BY <1>2 DEF QueueListed
<1>5. Commits(t) => Commits(q) /\ (q[1].type = "new" => q[1].name \in L)
  BY <1>2 DEF Commits
<1>. QED BY <1>1, <1>3, <1>4, <1>5 DEF t

\* Messages other than commits may be sent after anything.
LEMMA ListedSent ==
  ASSUME SyncTypes, NEW s \in Sessions, NEW p \in Seq(Messages), NEW L, QueueListed(up[s], L),
         \A i \in 1..Len(p) : p[i].type # "commit"
  PROVE  /\ QueueListed(Sent(s, p)[s], L)
         /\ Commits(Sent(s, p)[s]) => Commits(up[s])
<1>1. CASE srv[s].link # "up"
  <2>1. Sent(s, p)[s] = up[s]
    BY <1>1, SentFacts
  <2>. QED BY <2>1
<1>2. CASE srv[s].link = "up"
  <2>. DEFINE l == Len(up[s])
              k == Len(p)
              z == Sent(s, p)[s]
  <2>1. /\ l \in Nat /\ k \in Nat /\ DOMAIN up[s] = 1..l /\ DOMAIN z = 1..l + k
        /\ \A i \in 1..l : z[i] = up[s][i]
        /\ \A i \in 1..l + k : i \in 1..l \/ (i - l \in 1..k /\ z[i] = p[i - l])
    BY <1>2, SentFacts
  <2>2. \A i \in 1..k : p[i].type # "commit"
    OBVIOUS
  <2>. HIDE DEF l, k, z
  <2>3. ASSUME NEW j \in DOMAIN z, z[j].type = "commit"
        PROVE  /\ z[j] \in FramesOf(L) /\ \A i \in 1..j-1 : z[i].type = "new" => z[i].name \in L
               /\ Commits(up[s])
    <3>1. j \in 1..l /\ z[j] = up[s][j]
      BY <2>1, <2>2, <2>3
    <3>2. \A i \in 1..j-1 : z[i] = up[s][i]
      BY <2>1, <3>1
    <3>. QED BY <2>1, <2>3, <3>1, <3>2 DEF QueueListed, Commits
  <2>. QED BY <2>3 DEF QueueListed, Commits, z
<1>. QED BY <1>1, <1>2

\* The list itself is sent after names that are on it.
LEMMA ListSent ==
  ASSUME SyncTypes, NEW s \in Sessions, srv[s].link = "up", NEW L \in SUBSET Names,
         \A i \in DOMAIN up[s] : up[s][i].type = "new" /\ up[s][i].name \in L
  PROVE  QueueListed(Sent(s, CommitFrames(L))[s], L)
<1>. DEFINE l == Len(up[s])
            p == CommitFrames(L)
            k == Len(p)
            z == Sent(s, p)[s]
<1>1. /\ p \in Seq(Messages) /\ DOMAIN p = 1..k /\ \A i \in 1..k : p[i].type = "commit"
  BY FramesFacts
<1>2. /\ l \in Nat /\ k \in Nat /\ DOMAIN up[s] = 1..l /\ DOMAIN z = 1..l + k
      /\ \A i \in 1..l : z[i] = up[s][i]
      /\ \A i \in 1..l + k : i \in 1..l \/ (i - l \in 1..k /\ z[i] = p[i - l])
  <2>. HIDE DEF p
  <2>. QED BY <1>1, SentFacts, SMTT(40)
<1>3. \A i \in 1..k : p[i] \in FramesOf(L)
  BY <1>1 DEF FramesOf
<1>4. \A i \in 1..l : up[s][i].type = "new" /\ up[s][i].name \in L
  BY <1>2
<1>. HIDE DEF l, k, z, p
<1>5. ASSUME NEW j \in DOMAIN z, z[j].type = "commit"
      PROVE  z[j] \in FramesOf(L) /\ \A i \in 1..j-1 : z[i].type = "new" => z[i].name \in L
  <2>1. j \in 1..l + k /\ j \notin 1..l /\ z[j] = p[j - l] /\ j - l \in 1..k
    BY <1>2, <1>4, <1>5
  <2>2. z[j] \in FramesOf(L)
    BY <1>3, <2>1
  <2>3. ASSUME NEW i \in 1..j-1, z[i].type = "new" PROVE z[i].name \in L
    <3>1. i \in 1..l + k
      BY <1>2, <2>1
    <3>2. i \in 1..l
      <4>1. i \in 1..l \/ (i - l \in 1..k /\ z[i] = p[i - l])
        BY <1>2, <3>1
      <4>2. \A h \in 1..k : p[h].type = "commit"
        BY <1>1
      <4>. QED BY <2>3, <4>1, <4>2
    <3>. QED BY <1>2, <1>4, <3>2
  <2>. QED BY <2>2, <2>3
<1>. QED BY <1>5 DEF QueueListed, z, p

\* The numbers up to k are k.
LEMMA UpTo ==
  ASSUME NEW k \in Nat
  PROVE  IsFiniteSet(1..k) /\ Cardinality(1..k) = k
<1>1. 1 \in Int /\ k \in Int
  OBVIOUS
<1>2. /\ IsFiniteSet(1..k)
      /\ Cardinality(1..k) = IF 1 > k THEN 0 ELSE k - 1 + 1
  BY <1>1, FS_Interval
<1>. QED BY <1>2

\* Assembling a frame of L stays within L, and what is complete is all of L.
LEMMA AssembledFacts ==
  ASSUME NEW L \in SUBSET Names, NEW asm \in [total : Nat, parts : SUBSET Part], Partial(asm, L),
         NEW f \in FramesOf(L)
  PROVE  /\ Partial(Assembled(asm, f), L)
         /\ Complete(Assembled(asm, f)) => Wanted(Assembled(asm, f)) = L
<1>. DEFINE q == CommitFrames(L)
            k == Len(q)
            P == {[idx |-> g.idx, names |-> g.names] : g \in FramesOf(L)}
            new == Assembled(asm, f)
            part(i) == [idx |-> q[i].idx, names |-> q[i].names]
<1>1. /\ k \in Nat /\ DOMAIN q = 1..k
      /\ \A i \in 1..k : q[i].total = k /\ q[i].names \subseteq L
      /\ \A n \in L : \E i \in 1..k : n \in q[i].names
  BY FramesFacts
<1>2. FramesOf(L) = {q[i] : i \in 1..k}
  BY <1>1 DEF FramesOf
<1>3. f.total = k
  BY <1>1, <1>2
<1>4. P = {part(i) : i \in 1..k}
  BY <1>2
<1>5. new.total = k /\ new.parts \subseteq P
  <2>1. new.total = f.total
    BY DEF Assembled
  <2>2. \A p \in new.parts : p \in asm.parts \/ p = [idx |-> f.idx, names |-> f.names]
    BY DEF Assembled
  <2>3. asm.parts \subseteq P
    BY DEF Partial, IdleAsm
  <2>. QED BY <1>3, <2>1, <2>2, <2>3
<1>6. Partial(new, L)
  BY <1>5 DEF Partial
<1>7. ASSUME Complete(new) PROVE Wanted(new) = L
  <2>1. IsFiniteSet(1..k) /\ Cardinality(1..k) = k
    <3>1. k \in Nat BY <1>1
    <3>. HIDE DEF k
    <3>. QED BY <3>1, UpTo
  <2>2. IsFiniteSet(P) /\ Cardinality(P) <= k
    <3>. DEFINE g == [i \in 1..k |-> part(i)]
    <3>1. g \in Surjection(1..k, P)
      BY <1>4 DEF Surjection
    <3>. HIDE DEF g, P
    <3>. QED BY <2>1, <3>1, FS_Surjection
  <2>3. Cardinality(new.parts) = k
    BY <1>5, <1>7 DEF Complete
  <2>. HIDE DEF P, new
  <2>4. Cardinality(P) \in Nat /\ Cardinality(new.parts) <= Cardinality(P)
    BY <1>5, <2>2, FS_Subset, FS_CardinalityType
  <2>5. Cardinality(new.parts) = Cardinality(P)
    BY <1>1, <2>2, <2>3, <2>4
  <2>6. new.parts = P
    BY <1>5, <2>2, <2>5, FS_Subset
  <2>7. Wanted(new) = UNION {p.names : p \in {part(i) : i \in 1..k}}
    BY <1>4, <2>6 DEF Wanted
  <2>8. \A i \in 1..k : part(i).names = q[i].names
    OBVIOUS
  <2>. HIDE DEF part
  <2>. QED BY <1>1, <2>7, <2>8
<1>. QED BY <1>6, <1>7

-----------------------------------------------------------------------------
(* Reconciliation: what a step does to the lists of a connection.          *)

\* Nothing gets older by an edit, and what is registered or taken out is not old.
LEMMA StaleShrinks ==
  ASSUME SyncTypes, NEW s \in Sessions
  PROVE  /\ \A X : Trimmed(s, X) => Stale(s)' = Stale(s) \ X
         /\ \A n \in Names : \A v : Touched(s, n, v, TRUE) \/ Touched(s, n, v, FALSE) =>
              Stale(s)' \subseteq Stale(s) /\ n \notin Stale(s)'
<1>1. ASSUME NEW X, Trimmed(s, X) PROVE Stale(s)' = Stale(s) \ X
  <2>1. /\ srv'[s].epoch = srv[s].epoch /\ Named(srv'[s].table) = Named(srv[s].table) \ X
        /\ \A n \in Names : n \notin X => srv'[s].table[n] = srv[s].table[n]
    BY <1>1 DEF Trimmed
  <2>2. Named(srv[s].table) \subseteq Names
    BY DEF Named
  <2>. QED BY <2>1, <2>2 DEF Stale
<1>2. ASSUME NEW n \in Names, NEW v, Touched(s, n, v, TRUE) \/ Touched(s, n, v, FALSE)
      PROVE  Stale(s)' \subseteq Stale(s) /\ n \notin Stale(s)'
  <2>1. /\ srv'[s].epoch = srv[s].epoch
        /\ \A k \in Names : k # n => srv'[s].table[k] = srv[s].table[k]
    BY <1>2 DEF Touched
  <2>2. srv'[s].table[n].sig = 0 \/ srv'[s].table[n].seen = srv'[s].epoch
    BY <1>2 DEF Touched, NoEntry
  <2>. QED BY <2>1, <2>2 DEF Stale, Named
<1>. QED BY <1>1, <1>2

\* Another connection's step changes nothing here.
LEMMA OthersReconcile ==
  ASSUME NEW t \in Sessions, Reconciles(t), srv'[t] = srv[t], up'[t] = up[t], down'[t] = down[t],
         UNCHANGED <<proc, boot>> \/ proc'.cur # t
  PROVE  Reconciles(t)'
<1>1. Stale(t)' = Stale(t)
  BY DEF Stale
<1>2. PICK L \in SUBSET Names : Reported(t, L)
  BY DEF Reconciles
<1>3. Reported(t, L)'
  BY <1>1, <1>2 DEF Reported
<1>4. Announcing(t)'
  BY <1>1 DEF Reconciles, Announcing
<1>5. Answered(t)'
  BY <1>1 DEF Reconciles, Answered
<1>6. LeftoverListed(t)'
  BY <1>1 DEF Reconciles, LeftoverListed
<1>. QED BY <1>2, <1>3, <1>4, <1>5, <1>6 DEF Reconciles

\* The server or the panel takes at most the head of what it was sent; it
\* remembers no report but of that, nothing becomes old, and a resumption that
\* is over leaves nothing old.
LEMMA ServerReconciles ==
  ASSUME SyncTypes, NEW s \in Sessions, Reconciles(s), UNCHANGED processVars,
         up'[s] = up[s] \/ (up[s] # <<>> /\ up'[s] = Tail(up[s])),
         \/ srv'[s].said \subseteq srv[s].said
         \/ /\ up[s] # <<>> /\ up'[s] = Tail(up[s]) /\ Head(up[s]).type = "new"
            /\ srv'[s].said \subseteq srv[s].said \cup {Head(up[s]).name},
         Stale(s)' \subseteq Stale(s),
         srv'[s].resumed => srv[s].resumed /\ srv'[s].asm = srv[s].asm,
         srv[s].resumed /\ ~srv'[s].resumed => Stale(s)' = {},
         MaxProxies = 0 =>
           \A i \in DOMAIN down'[s] : down'[s][i].type = "resp" =>
             \/ down'[s][i].name \notin Stale(s)'
             \/ \E j \in DOMAIN down[s] : down[s][j] = down'[s][i]
  PROVE  Reconciles(s)'
<1>0. up[s] \in Seq(Messages) /\ proc' = proc /\ boot' = boot
  BY DEF SyncTypes, processVars
<1>1. PICK L \in SUBSET Names : Reported(s, L)
  BY DEF Reconciles
<1>2. QueueListed(up[s], L) /\ (proc.cur = s => L = Listed(boot))
  BY <1>1 DEF Reported
<1>3. /\ QueueListed(up'[s], L)
      /\ Commits(up'[s]) => Commits(up[s]) /\ srv'[s].said \subseteq srv[s].said \cup L
  BY <1>0, <1>2, ListedTail
<1>4. Reported(s, L)'
  <2>1. Listed(boot)' = Listed(boot)
    BY <1>0 DEF Listed
  <2>2. Commits(up'[s]) => srv'[s].said \subseteq L /\ (MaxProxies = 0 => L \cap Stale(s)' = {})
    BY <1>1, <1>3 DEF Reported
  <2>3. srv'[s].resumed => Partial(srv'[s].asm, L)
    BY <1>1 DEF Reported
  <2>4. proc'.cur = s => L = Listed(boot)'
    BY <1>0, <1>2, <2>1
  <2>. QED BY <1>3, <2>2, <2>3, <2>4 DEF Reported
<1>5. Announcing(s)'
  <2>. SUFFICES ASSUME proc.cur = s /\ proc.phase = "reg"
                PROVE  /\ \A j \in DOMAIN up'[s] : up'[s][j].type = "new" /\ up'[s][j].name \in Listed(boot)
                       /\ srv'[s].said \subseteq Listed(boot)
                       /\ srv'[s].resumed => srv'[s].asm = IdleAsm
                       /\ MaxProxies = 0 => (Listed(boot) \ proc.pending) \cap Stale(s)' = {}
    BY <1>0 DEF Announcing, Listed
  <2>1. /\ \A j \in DOMAIN up[s] : up[s][j].type = "new" /\ up[s][j].name \in Listed(boot)
        /\ srv[s].said \subseteq Listed(boot)
        /\ srv[s].resumed => srv[s].asm = IdleAsm
        /\ MaxProxies = 0 => (Listed(boot) \ proc.pending) \cap Stale(s) = {}
    BY DEF Reconciles, Announcing
  <2>2. up[s] # <<>> =>
          /\ Head(up[s]) = up[s][1] /\ 1 \in DOMAIN up[s]
          /\ \A j \in DOMAIN Tail(up[s]) : Tail(up[s])[j] = up[s][j + 1] /\ j + 1 \in DOMAIN up[s]
    BY <1>0, TailFacts
  <2>3. \A j \in DOMAIN up'[s] : up'[s][j].type = "new" /\ up'[s][j].name \in Listed(boot)
    <3>1. CASE up'[s] = up[s]
      BY <2>1, <3>1
    <3>2. CASE up[s] # <<>> /\ up'[s] = Tail(up[s])
      <4>. DEFINE q == Tail(up[s])
      <4>1. \A j \in DOMAIN q : q[j] = up[s][j + 1] /\ j + 1 \in DOMAIN up[s]
        BY <2>2, <3>2
      <4>2. up'[s] = q
        BY <3>2
      <4>. HIDE DEF q
      <4>. QED BY <2>1, <4>1, <4>2
    <3>. QED BY <3>1, <3>2
  <2>4. srv'[s].said \subseteq Listed(boot)
    BY <2>1, <2>2
  <2>. QED BY <2>1, <2>3, <2>4
<1>6. Answered(s)'
  BY DEF Reconciles, Answered
<1>7. LeftoverListed(s)'
  <2>1. CASE srv[s].resumed
    BY <2>1 DEF LeftoverListed
  <2>2. CASE ~srv[s].resumed
    BY <1>0, <2>2 DEF Reconciles, LeftoverListed, Listed
  <2>. QED BY <2>1, <2>2
<1>. QED BY <1>4, <1>5, <1>6, <1>7 DEF Reconciles

\* The client sends no list, takes answers, or leaves the connection.
LEMMA ClientReconciles ==
  ASSUME SyncTypes, NEW t \in Sessions, Reconciles(t), srv'[t] = srv[t],
         proc'.cur = t => proc.cur = t /\ boot' = boot,
         \/ up'[t] = up[t]
         \/ \E m \in Messages : m.type # "commit" /\ up'[t] = Sent(t, <<m>>)[t],
         \A i \in DOMAIN down'[t] : \E j \in DOMAIN down[t] : down[t][j] = down'[t][i],
         Announcing(t)'
  PROVE  Reconciles(t)'
<1>1. PICK L \in SUBSET Names : Reported(t, L)
  BY DEF Reconciles
<1>2. QueueListed(up[t], L)
  BY <1>1 DEF Reported
<1>3. QueueListed(up'[t], L) /\ (Commits(up'[t]) => Commits(up[t]))
  <2>1. CASE up'[t] = up[t]
    BY <1>2, <2>1
  <2>2. ASSUME NEW m \in Messages, m.type # "commit", up'[t] = Sent(t, <<m>>)[t]
        PROVE  QueueListed(up'[t], L) /\ (Commits(up'[t]) => Commits(up[t]))
    <3>1. <<m>> \in Seq(Messages) /\ \A i \in 1..Len(<<m>>) : <<m>>[i].type # "commit"
      BY <2>2
    <3>2. QueueListed(Sent(t, <<m>>)[t], L) /\ (Commits(Sent(t, <<m>>)[t]) => Commits(up[t]))
      BY <1>2, <3>1, ListedSent
    <3>. QED BY <2>2, <3>2
  <2>. QED BY <2>1, <2>2
<1>4. Stale(t)' = Stale(t)
  BY DEF Stale
<1>5. Reported(t, L)'
  BY <1>1, <1>3, <1>4 DEF Reported, Listed
<1>6. Answered(t)'
  BY <1>4 DEF Reconciles, Answered
<1>7. LeftoverListed(t)'
  BY <1>4 DEF Reconciles, LeftoverListed, Listed
<1>. QED BY <1>5, <1>6, <1>7 DEF Reconciles

-----------------------------------------------------------------------------
(* Reconciliation through every step.                                      *)

\* handle_control on ResumeCommit takes exactly what is not on the client's list.
LEMMA CommitReconciles ==
  ASSUME SyncTypes, NEW s \in Sessions, Reconciles(s), HandleCommit(s)
  PROVE  Reconciles(s)'
<1>. DEFINE f    == Head(up[s])
            asm  == Assembled(srv[s].asm, f)
            gone == Named(srv[s].table) \ Wanted(asm)
<1>1. /\ Serving(s, "commit") /\ UNCHANGED <<down, panel>>
      /\ asm \in [total : Nat, parts : SUBSET Part]
      /\ \/ ~srv[s].resumed /\ UNCHANGED <<srv, active>>
         \/ /\ srv[s].resumed /\ Complete(asm) /\ Trimmed(s, gone)
            /\ srv'[s].link = "up" /\ srv'[s].resumed = FALSE /\ srv'[s].asm = IdleAsm
         \/ /\ srv[s].resumed /\ ~Complete(asm) /\ Trimmed(s, {})
            /\ srv'[s].link = "up" /\ srv'[s].resumed = TRUE /\ srv'[s].asm = asm
  BY HandleCommitEffect
<1>2. /\ up \in [Sessions -> Seq(Messages)] /\ srv[s].asm \in [total : Nat, parts : SUBSET Part]
      /\ up[s] \in Seq(Messages)
  BY DEF SyncTypes, State
<1>3. /\ up[s] # <<>> /\ f.type = "commit" /\ up'[s] = Tail(up[s])
      /\ UNCHANGED <<proc, boot>>
  BY <1>1, <1>2 DEF Serving, processVars
<1>4. PICK L \in SUBSET Names : Reported(s, L)
  BY DEF Reconciles
<1>5. QueueListed(up[s], L) /\ (proc.cur = s => L = Listed(boot))
  BY <1>4 DEF Reported
<1>6. QueueListed(up'[s], L) /\ Commits(up[s]) /\ f \in FramesOf(L)
  BY <1>2, <1>3, <1>5, ListedTail
<1>7. srv[s].said \subseteq L /\ (MaxProxies = 0 => L \cap Stale(s) = {})
  BY <1>4, <1>6 DEF Reported
<1>8. ~(proc'.cur = s /\ proc'.phase = "reg")
  <2>. SUFFICES ASSUME proc.cur = s /\ proc.phase = "reg" PROVE FALSE
    BY <1>3
  <2>1. \A j \in DOMAIN up[s] : up[s][j].type = "new"
    BY DEF Reconciles, Announcing
  <2>2. f = up[s][1] /\ 1 \in DOMAIN up[s]
    BY <1>2, <1>3, TailFacts
  <2>. QED BY <1>3, <2>1, <2>2
<1>9. Announcing(s)'
  BY <1>8 DEF Announcing
<1>10. Listed(boot)' = Listed(boot)
  BY <1>3 DEF Listed
<1>. HIDE DEF f, asm, gone
<1>11. CASE ~srv[s].resumed /\ UNCHANGED <<srv, active>>
  <2>1. Stale(s)' = Stale(s)
    BY <1>11 DEF Stale
  <2>2. Reported(s, L)'
    BY <1>3, <1>5, <1>6, <1>7, <1>10, <1>11, <2>1 DEF Reported
  <2>3. Answered(s)' /\ LeftoverListed(s)'
    BY <1>1, <1>3, <1>10, <1>11, <2>1 DEF Reconciles, Answered, LeftoverListed
  <2>. QED BY <1>9, <2>2, <2>3 DEF Reconciles
<1>12. CASE /\ srv[s].resumed /\ Complete(asm) /\ Trimmed(s, gone)
            /\ srv'[s].link = "up" /\ srv'[s].resumed = FALSE /\ srv'[s].asm = IdleAsm
  <2>1. Wanted(asm) = L
    <3>1. Partial(srv[s].asm, L)
      BY <1>4, <1>12 DEF Reported
    <3>. QED BY <1>2, <1>6, <1>12, <3>1, AssembledFacts DEF asm
  <2>2. Stale(s)' = Stale(s) \ gone /\ srv'[s].said = srv[s].said \ gone
    BY <1>12, StaleShrinks DEF Trimmed
  <2>3. Stale(s)' \subseteq L
    BY <2>1, <2>2 DEF gone, Stale
  <2>4. MaxProxies = 0 => Stale(s)' = {}
    BY <1>7, <2>2, <2>3
  <2>5. Reported(s, L)'
    <3>1. Commits(up'[s]) => srv'[s].said \subseteq L /\ (MaxProxies = 0 => L \cap Stale(s)' = {})
      BY <1>7, <2>2, <2>4
    <3>2. proc'.cur = s => L = Listed(boot)'
      BY <1>3, <1>5, <1>10
    <3>3. srv'[s].resumed = FALSE
      BY <1>12
    <3>. QED BY <1>6, <3>1, <3>2, <3>3 DEF Reported
  <2>6. Answered(s)'
    BY <1>1, <2>2 DEF Reconciles, Answered
  <2>7. LeftoverListed(s)'
    BY <1>3, <1>5, <1>10, <2>3, <2>4 DEF LeftoverListed
  <2>. QED BY <1>9, <2>5, <2>6, <2>7 DEF Reconciles
<1>13. CASE /\ srv[s].resumed /\ ~Complete(asm) /\ Trimmed(s, {})
            /\ srv'[s].link = "up" /\ srv'[s].resumed = TRUE /\ srv'[s].asm = asm
  <2>1. Partial(asm, L)
    <3>1. Partial(srv[s].asm, L)
      BY <1>4, <1>13 DEF Reported
    <3>. QED BY <1>2, <1>6, <3>1, AssembledFacts DEF asm
  <2>2. Stale(s)' = Stale(s) /\ srv'[s].said = srv[s].said
    <3>1. Stale(s)' = Stale(s) \ {}
      BY <1>13, StaleShrinks
    <3>2. srv'[s].said = srv[s].said \ {}
      BY <1>13 DEF Trimmed
    <3>. QED BY <3>1, <3>2
  <2>3. Reported(s, L)'
    <3>1. Commits(up'[s]) => srv'[s].said \subseteq L /\ (MaxProxies = 0 => L \cap Stale(s)' = {})
      BY <1>7, <2>2
    <3>2. proc'.cur = s => L = Listed(boot)'
      BY <1>3, <1>5, <1>10
    <3>3. srv'[s].asm = asm
      BY <1>13
    <3>. QED BY <1>6, <2>1, <3>1, <3>2, <3>3 DEF Reported
  <2>4. Answered(s)'
    BY <1>1, <2>2 DEF Reconciles, Answered
  <2>5. LeftoverListed(s)'
    BY <1>13 DEF LeftoverListed
  <2>. QED BY <1>9, <2>3, <2>4, <2>5 DEF Reconciles
<1>. QED BY <1>1, <1>11, <1>12, <1>13

\* A control loop's step keeps what its connection has of the client's list.
LEMMA ServerStepReconciles ==
  ASSUME SyncTypes, NEW s \in Sessions, Reconciles(s), ServerStep(s), srv'[s].link = "up"
  PROVE  Reconciles(s)'
<1>0. /\ up \in [Sessions -> Seq(Messages)] /\ down \in [Sessions -> Seq(Messages)]
      /\ srv \in [Sessions -> State] /\ down[s] \in Seq(Messages)
  BY DEF SyncTypes
<1>1. CASE HandleNewProxy(s)
  <2>. DEFINE m == Head(up[s])
  <2>1. /\ Serving(s, "new") /\ m.name \in Names /\ m.sig \in Versions
        /\ \E done \in BOOLEAN :
             /\ down' = [down EXCEPT ![s] = Append(down[s], NewProxyResp(m.name, done))]
             /\ \/ done /\ Touched(s, m.name, m.sig, TRUE)
                \/ ~done /\ Touched(s, m.name, m.sig, FALSE)
                \/ ~done /\ QuotaFull(s) /\ UNCHANGED <<srv, active>>
    BY <1>1, HandleNewProxyEffect
  <2>2. up[s] # <<>> /\ m.type = "new" /\ up'[s] = Tail(up[s]) /\ UNCHANGED processVars
    BY <1>0, <2>1 DEF Serving
  <2>3. PICK done \in BOOLEAN :
             /\ down' = [down EXCEPT ![s] = Append(down[s], NewProxyResp(m.name, done))]
             /\ \/ done /\ Touched(s, m.name, m.sig, TRUE)
                \/ ~done /\ Touched(s, m.name, m.sig, FALSE)
                \/ ~done /\ QuotaFull(s) /\ UNCHANGED <<srv, active>>
    BY <2>1
  <2>4. /\ srv'[s].said \subseteq srv[s].said \cup {m.name}
        /\ srv'[s].resumed = srv[s].resumed /\ srv'[s].asm = srv[s].asm
        /\ Stale(s)' \subseteq Stale(s)
        /\ MaxProxies = 0 => m.name \notin Stale(s)'
    <3>1. CASE Touched(s, m.name, m.sig, TRUE) \/ Touched(s, m.name, m.sig, FALSE)
      <4>1. Stale(s)' \subseteq Stale(s) /\ m.name \notin Stale(s)'
        BY <2>1, <3>1, StaleShrinks
      <4>2. /\ srv'[s].resumed = srv[s].resumed /\ srv'[s].asm = srv[s].asm
            /\ \A k \in Names \ {m.name} : k \in srv'[s].said <=> k \in srv[s].said
            /\ srv'[s].said \subseteq Named(srv'[s].table)
        BY <3>1 DEF Touched
      <4>3. srv'[s].said \subseteq srv[s].said \cup {m.name}
        <5>. HIDE DEF m
        <5>. QED BY <4>2 DEF Named
      <4>. QED BY <4>1, <4>2, <4>3
    <3>2. CASE QuotaFull(s) /\ UNCHANGED <<srv, active>>
      <4>1. MaxProxies # 0
        BY <3>2, SyncAssumption DEF QuotaFull
      <4>2. Stale(s)' = Stale(s)
        BY <3>2 DEF Stale
      <4>. QED BY <3>2, <4>1, <4>2
    <3>. QED BY <2>3, <3>1, <3>2
  <2>5. ASSUME MaxProxies = 0, NEW i \in DOMAIN down'[s], down'[s][i].type = "resp"
        PROVE  \/ down'[s][i].name \notin Stale(s)'
               \/ \E j \in DOMAIN down[s] : down[s][j] = down'[s][i]
    <3>. DEFINE r == NewProxyResp(m.name, done)
    <3>1. r \in Messages
      BY <2>1, MessagesMade
    <3>2. r.name = m.name
      BY DEF NewProxyResp
    <3>3. down'[s] = Append(down[s], r)
      BY <1>0, <2>3
    <3>. HIDE DEF r
    <3>4. \/ i \in DOMAIN down[s] /\ down'[s][i] = down[s][i]
          \/ down'[s][i] = r
      BY <1>0, <2>5, <3>1, <3>3, LongerFacts
    <3>. QED BY <2>4, <2>5, <3>2, <3>4
  <2>. HIDE DEF m
  <2>6. /\ up'[s] = up[s] \/ (up[s] # <<>> /\ up'[s] = Tail(up[s]))
        /\ up[s] # <<>> /\ up'[s] = Tail(up[s]) /\ Head(up[s]).type = "new"
        /\ srv'[s].said \subseteq srv[s].said \cup {Head(up[s]).name}
    BY <2>2, <2>4 DEF m
  <2>. QED BY <2>2, <2>4, <2>5, <2>6, ServerReconciles
<1>2. CASE HandleCloseProxy(s)
  <2>1. /\ Serving(s, "close") /\ down' = down /\ \E X : Trimmed(s, X)
        /\ srv'[s].resumed = srv[s].resumed /\ srv'[s].asm = srv[s].asm
    BY <1>2, HandleCloseProxyEffect
  <2>2. up[s] # <<>> /\ up'[s] = Tail(up[s]) /\ UNCHANGED processVars
    BY <1>0, <2>1 DEF Serving
  <2>3. Stale(s)' \subseteq Stale(s) /\ srv'[s].said \subseteq srv[s].said
    <3>1. PICK X : Trimmed(s, X)
      BY <2>1
    <3>2. Stale(s)' = Stale(s) \ X
      BY <3>1, StaleShrinks
    <3>3. srv'[s].said = srv[s].said \ X
      BY <3>1 DEF Trimmed
    <3>. QED BY <3>2, <3>3
  <2>. QED BY <2>1, <2>2, <2>3, ServerReconciles
<1>3. CASE HandleCommit(s)
  BY <1>3, CommitReconciles
<1>4. CASE HandleServerCmdResp(s)
  <2>1. /\ up[s] # <<>> /\ up'[s] = Tail(up[s]) /\ UNCHANGED processVars /\ UNCHANGED <<srv, down>>
    BY <1>0, <1>4, HeardFacts DEF HandleServerCmdResp
  <2>2. Stale(s)' = Stale(s)
    BY <2>1 DEF Stale
  <2>. QED BY <2>1, <2>2, ServerReconciles
<1>5. CASE GraceExpires(s)
  <2>1. /\ srv[s].resumed /\ Trimmed(s, Stale(s)) /\ srv'[s].resumed = FALSE
        /\ UNCHANGED processVars /\ UNCHANGED <<up, down>>
    BY <1>5, GraceExpiresEffect
  <2>2. Stale(s)' = {} /\ srv'[s].said \subseteq srv[s].said
    BY <2>1, StaleShrinks DEF Trimmed
  <2>. QED BY <2>1, <2>2, ServerReconciles
<1>6. CASE LinkEnds(s)
  <2>1. srv'[s].link # "up"
    BY <1>6, LinkEndsEffect
  <2>. QED BY <2>1
<1>7. CASE ParkExpires(s)
  <2>1. srv'[s].link # "up"
    BY <1>7, ParkExpiresEffect
  <2>. QED BY <2>1
<1>. QED BY <1>1, <1>2, <1>3, <1>4, <1>5, <1>6, <1>7 DEF ServerStep

\* What the panel asks is no answer to the client.
LEMMA AskedDown ==
  ASSUME SyncTypes, NEW s \in Sessions, NEW stage, NEW op \in {"add", "remove"}, NEW n \in Names,
         NEW v \in Versions \cup {0}, Asks(s, stage, op, n, v)
  PROVE  /\ \A t \in Sessions \ {s} : down'[t] = down[t]
         /\ \A i \in DOMAIN down'[s] : down'[s][i].type = "resp" =>
              \E j \in DOMAIN down[s] : down[s][j] = down'[s][i]
<1>. DEFINE m == ServerCmd(op, n, v, count.cmds + 1)
<1>1. down' = [down EXCEPT ![s] = Append(down[s], m)]
  BY AsksEffect
<1>2. down \in [Sessions -> Seq(Messages)] /\ down[s] \in Seq(Messages) /\ count.cmds + 1 \in Nat
  BY DEF SyncTypes
<1>3. m \in Messages /\ m.type = "cmd"
  BY <1>2, MessagesMade DEF ServerCmd
<1>. HIDE DEF m
<1>4. down'[s] = Append(down[s], m) /\ \A t \in Sessions \ {s} : down'[t] = down[t]
  BY <1>1, <1>2
<1>5. ASSUME NEW i \in DOMAIN down'[s], down'[s][i].type = "resp"
      PROVE  \E j \in DOMAIN down[s] : down[s][j] = down'[s][i]
  <2>1. \/ i \in DOMAIN down[s] /\ down'[s][i] = down[s][i]
        \/ down'[s][i] = m
    BY <1>2, <1>3, <1>4, <1>5, LongerFacts
  <2>. QED BY <1>3, <1>5, <2>1
<1>. QED BY <1>4, <1>5

\* Requests of the panel leave the client's list alone.
LEMMA PanelStepReconciles ==
  ASSUME SyncTypes, Reconciling, PanelStep
  PROVE  Reconciling'
<1>. SUFFICES ASSUME NEW t \in Sessions, srv'[t].link = "up" PROVE Reconciles(t)'
  BY DEF Reconciling
<1>1. ASSUME NEW s \in Sessions, NEW n \in Names, NEW v \in Versions, PanelAdd(s, n, v) PROVE Reconciles(t)'
  <2>1. Asks(s, "add", "add", n, v) /\ UNCHANGED processVars /\ UNCHANGED <<srv, up>>
    BY <1>1 DEF PanelAdd
  <2>2. /\ \A r \in Sessions \ {s} : down'[r] = down[r]
        /\ \A i \in DOMAIN down'[s] : down'[s][i].type = "resp" =>
              \E j \in DOMAIN down[s] : down[s][j] = down'[s][i]
    BY <2>1, AskedDown
  <2>3. Reconciles(t)
    BY <2>1 DEF Reconciling
  <2>4. Stale(t)' = Stale(t) /\ UNCHANGED <<proc, boot>>
    BY <2>1 DEF Stale, processVars
  <2>5. CASE t = s
    BY <2>1, <2>2, <2>3, <2>4, <2>5, ServerReconciles
  <2>6. CASE t # s
    BY <2>1, <2>2, <2>3, <2>4, <2>6, OthersReconcile
  <2>. QED BY <2>5, <2>6
<1>2. ASSUME NEW s \in Sessions, NEW n \in Names, PanelRemove(s, n) PROVE Reconciles(t)'
  <2>1. /\ srv[s].link = "up" /\ Trimmed(s, {n})
        /\ srv'[s].resumed = srv[s].resumed /\ srv'[s].asm = srv[s].asm
        /\ Asks(s, "remove", "remove", n, 0)
        /\ UNCHANGED processVars /\ UNCHANGED up
    BY <1>2, PanelRemoveEffect
  <2>2. /\ \A r \in Sessions \ {s} : down'[r] = down[r]
        /\ \A i \in DOMAIN down'[s] : down'[s][i].type = "resp" =>
              \E j \in DOMAIN down[s] : down[s][j] = down'[s][i]
    BY <2>1, AskedDown
  <2>3. UNCHANGED <<proc, boot>> /\ \A r \in Sessions \ {s} : srv'[r] = srv[r]
    BY <2>1 DEF processVars, Trimmed
  <2>4. CASE t = s
    <3>1. Reconciles(s)
      BY <2>1 DEF Reconciling
    <3>2. Stale(s)' \subseteq Stale(s) /\ srv'[s].said \subseteq srv[s].said
      <4>1. Stale(s)' = Stale(s) \ {n}
        BY <2>1, StaleShrinks
      <4>2. srv'[s].said = srv[s].said \ {n}
        BY <2>1 DEF Trimmed
      <4>. QED BY <4>1, <4>2
    <3>3. Reconciles(s)'
      BY <2>1, <2>2, <3>1, <3>2, ServerReconciles
    <3>. QED BY <2>4, <3>3
  <2>5. CASE t # s
    <3>1. Reconciles(t)
      BY <2>3, <2>5 DEF Reconciling
    <3>. QED BY <2>1, <2>2, <2>3, <2>5, <3>1, OthersReconcile
  <2>. QED BY <2>4, <2>5
<1>3. CASE AskTimesOut
  <2>1. UNCHANGED processVars /\ UNCHANGED <<srv, up, down>>
    BY <1>3 DEF AskTimesOut
  <2>. QED BY <2>1, OthersReconcile DEF Reconciling, processVars
<1>4. CASE PanelRegisters
  <2>1. PICK s \in Sessions, n \in Names, v \in Versions :
           /\ Touched(s, n, v, TRUE) \/ Touched(s, n, v, FALSE)
           /\ srv'[s].said \subseteq srv[s].said
           /\ down' = down \/ Asks(s, "undo", "remove", n, 0)
           /\ UNCHANGED processVars /\ UNCHANGED up
    BY <1>4, PanelRegistersEffect
  <2>2. /\ \A r \in Sessions \ {s} : down'[r] = down[r]
        /\ \A i \in DOMAIN down'[s] : down'[s][i].type = "resp" =>
              \E j \in DOMAIN down[s] : down[s][j] = down'[s][i]
    <3>1. CASE down' = down
      BY <3>1
    <3>2. CASE Asks(s, "undo", "remove", n, 0)
      BY <2>1, <3>2, AskedDown
    <3>. QED BY <2>1, <3>1, <3>2
  <2>3. /\ UNCHANGED <<proc, boot>> /\ \A r \in Sessions \ {s} : srv'[r] = srv[r]
        /\ srv'[s].link = srv[s].link /\ srv'[s].resumed = srv[s].resumed /\ srv'[s].asm = srv[s].asm
    BY <2>1 DEF processVars, Touched
  <2>4. Stale(s)' \subseteq Stale(s)
    BY <2>1, StaleShrinks
  <2>5. Reconciles(t)
    BY <2>3 DEF Reconciling
  <2>6. CASE t = s
    <3>1. Reconciles(s)
      BY <2>5, <2>6
    <3>2. Reconciles(s)'
      BY <2>1, <2>2, <2>3, <2>4, <3>1, ServerReconciles
    <3>. QED BY <2>6, <3>2
  <2>7. CASE t # s
    BY <2>1, <2>2, <2>3, <2>5, <2>7, OthersReconcile
  <2>. QED BY <2>6, <2>7
<1>. QED BY <1>1, <1>2, <1>3, <1>4 DEF PanelStep

\* A connection that begins, fresh or resumed, has the client's list before it.
LEMMA BegunReconciles ==
  ASSUME SyncTypes, NEW s \in Sessions, Announce(s), srv'[s].said = {},
         \/ srv'[s].resumed = TRUE /\ srv'[s].asm = IdleAsm
         \/ srv'[s].resumed = FALSE /\ Named(srv'[s].table) = {}
  PROVE  Reconciles(s)'
<1>. DEFINE L == Listed(boot)
<1>1. /\ proc' = [proc EXCEPT !.phase = "reg", !.cur = s, !.pending = L]
      /\ \A j \in DOMAIN up'[s] : up'[s][j].type = "new" /\ up'[s][j].name \in L
      /\ down'[s] = <<>> /\ boot' = boot
  BY AnnounceEffect
<1>2. L \in SUBSET Names /\ Listed(boot)' = L /\ proc \in Process
  BY <1>1 DEF Listed, SyncTypes
<1>3. proc'.pending = L
  BY <1>1, <1>2 DEF Process
<1>4. srv'[s].resumed \/ Stale(s)' = {}
  BY DEF Stale
<1>5. QueueListed(up'[s], L) /\ ~Commits(up'[s])
  BY <1>1 DEF QueueListed, Commits
<1>6. Reported(s, L)'
  BY <1>2, <1>5 DEF Reported, Partial
<1>7. Announcing(s)'
  BY <1>1, <1>2, <1>3 DEF Announcing
<1>8. Answered(s)'
  BY <1>1 DEF Answered
<1>9. LeftoverListed(s)'
  BY <1>4 DEF LeftoverListed
<1>. QED BY <1>2, <1>6, <1>7, <1>8, <1>9 DEF Reconciles

\* The client sends its list when it has all the answers, and only then.
LEMMA ReadyReconciles ==
  ASSUME SyncTypes, Reconciling, Ready, NEW t \in Sessions, srv'[t].link = "up"
  PROVE  Reconciles(t)'
<1>0. PICK L \in SUBSET Names, s \in Sessions : L = Listed(boot) /\ s = proc.cur
  BY DEF Ready, SyncTypes, Listed, Process
<1>1. /\ proc.phase = "reg" /\ proc.pending = {}
      /\ proc' = [proc EXCEPT !.phase = "ready"]
      /\ up' = up \/ up' = Sent(s, CommitFrames(L))
      /\ UNCHANGED <<file, store, boot, local, srv, down, panel, active, count>>
  BY <1>0 DEF Ready
<1>2. proc'.phase = "ready" /\ proc'.cur = s
  BY <1>0, <1>1 DEF SyncTypes, Process
<1>3. Reconciles(t) /\ Listed(boot)' = L /\ CommitFrames(L) \in Seq(Messages)
  BY <1>0, <1>1, FramesFacts DEF Reconciling, Listed
<1>4. Announcing(t)'
  BY <1>2 DEF Announcing
<1>5. CASE t # s
  <2>1. up'[t] = up[t]
    <3>1. Sent(s, CommitFrames(L))[t] = up[t]
      BY <1>5, SentElsewhere
    <3>. QED BY <1>1, <3>1
  <2>. QED BY <1>1, <1>2, <1>3, <1>5, <2>1, OthersReconcile
<1>6. CASE up' = up
  BY <1>1, <1>2, <1>3, <1>0, <1>4, <1>6, ClientReconciles
<1>7. CASE t = s /\ up' = Sent(s, CommitFrames(L))
  <2>1. /\ \A j \in DOMAIN up[s] : up[s][j].type = "new" /\ up[s][j].name \in L
        /\ srv[s].said \subseteq L
        /\ srv[s].resumed => srv[s].asm = IdleAsm
        /\ MaxProxies = 0 => L \cap Stale(s) = {}
    BY <1>0, <1>1, <1>3, <1>7 DEF Reconciles, Announcing
  <2>2. QueueListed(up'[s], L)
    BY <1>1, <1>2, <1>3, <1>7, <2>1, ListSent
  <2>3. Stale(s)' = Stale(s) /\ srv' = srv
    BY <1>1 DEF Stale
  <2>4. Reported(s, L)'
    BY <1>2, <1>3, <2>1, <2>2, <2>3 DEF Reported, Partial
  <2>5. Answered(s)' /\ LeftoverListed(s)'
    BY <1>0, <1>1, <1>2, <1>3, <1>7, <2>3 DEF Reconciles, Answered, LeftoverListed
  <2>. QED BY <1>3, <1>4, <1>7, <2>4, <2>5 DEF Reconciles
<1>. QED BY <1>1, <1>5, <1>6, <1>7

\* The client's other steps.
LEMMA ClientStepReconciles ==
  ASSUME SyncTypes, Reconciling, ClientStep
  PROVE  Reconciling'
<1>. SUFFICES ASSUME NEW t \in Sessions, srv'[t].link = "up" PROVE Reconciles(t)'
  BY DEF Reconciling
<1>0. /\ proc \in Process /\ up \in [Sessions -> Seq(Messages)] /\ down \in [Sessions -> Seq(Messages)]
      /\ proc.cur # NoConn <=> proc.phase \in {"reg", "ready", "adding"}
      /\ NoConn \notin Sessions
  BY DEF SyncTypes, NoConn, Sessions
<1>k. ASSUME srv' = srv,
             proc'.cur = t => proc.cur = t /\ boot' = boot,
             \/ up'[t] = up[t]
             \/ \E m \in Messages : m.type # "commit" /\ up'[t] = Sent(t, <<m>>)[t],
             \/ down'[t] = down[t] \/ down'[t] = <<>>
             \/ down[t] # <<>> /\ down'[t] = Tail(down[t]),
             Announcing(t)'
      PROVE  Reconciles(t)'
  <2>1. Reconciles(t)
    BY <1>k DEF Reconciling
  <2>2. \A i \in DOMAIN down'[t] : \E j \in DOMAIN down[t] : down[t][j] = down'[t][i]
    <3>1. CASE down'[t] = down[t]
      BY <3>1
    <3>2. CASE down'[t] = <<>>
      BY <3>2
    <3>3. CASE down[t] # <<>> /\ down'[t] = Tail(down[t])
      <4>. DEFINE q == Tail(down[t])
      <4>1. \A i \in DOMAIN q : i + 1 \in DOMAIN down[t] /\ q[i] = down[t][i + 1]
        BY <1>0, <3>3, TailFacts
      <4>2. down'[t] = q
        BY <3>3
      <4>. HIDE DEF q
      <4>. QED BY <4>1, <4>2
    <3>. QED BY <1>k, <3>1, <3>2, <3>3
  <2>3. srv'[t] = srv[t]
    BY <1>k
  <2>. QED BY <1>k, <2>1, <2>2, <2>3, ClientReconciles
<1>s. ASSUME NEW s \in Sessions, NEW m \in Messages, m.type # "commit", up' = up \/ up' = Sent(s, <<m>>)
      PROVE  \/ up'[t] = up[t]
             \/ \E h \in Messages : h.type # "commit" /\ up'[t] = Sent(t, <<h>>)[t]
  <2>1. t # s => Sent(s, <<m>>)[t] = up[t]
    BY SentElsewhere
  <2>. QED BY <1>s, <2>1
<1>1. ASSUME NEW f \in Files, NEW commits \in BOOLEAN, Boot(f, commits) PROVE Reconciles(t)'
  <2>1. UNCHANGED <<srv, up, down>> /\ proc'.cur = NoConn
    BY <1>1 DEF Boot, Off
  <2>. QED BY <1>0, <1>k, <2>1 DEF Announcing
<1>2. CASE Exit
  <2>1. UNCHANGED <<srv, up>> /\ proc'.cur = NoConn /\ down'[t] \in {down[t], <<>>}
    BY <1>2 DEF Exit, Off
  <2>. QED BY <1>0, <1>k, <2>1 DEF Announcing
<1>3. CASE FallBack
  <2>1. UNCHANGED <<srv, up, down, boot>> /\ proc'.cur = proc.cur /\ proc'.phase = "down"
    BY <1>0, <1>3 DEF FallBack, Process
  <2>. QED BY <1>k, <2>1 DEF Announcing
<1>4. CASE LogIn
  <2>1. PICK s \in Sessions :
           /\ \A r \in Sessions \ {s} : srv'[r] = srv[r]
           /\ srv'[s].resumed = FALSE /\ Named(srv'[s].table) = {} /\ srv'[s].said = {}
           /\ Announce(s)
    BY <1>4, LogInEffect
  <2>2. CASE t = s
    BY <2>1, <2>2, BegunReconciles
  <2>3. CASE t # s
    <3>0. /\ proc' = [proc EXCEPT !.phase = "reg", !.cur = s, !.pending = Listed(boot)]
          /\ \A r \in Sessions \ {s} : up'[r] = up[r]
          /\ \A r \in Sessions \ {s} : down'[r] = down[r]
      BY <2>1, AnnounceEffect
    <3>1. /\ up'[t] = up[t] /\ down'[t] = down[t] /\ proc'.cur = s /\ srv'[t] = srv[t]
      BY <1>0, <2>1, <2>3, <3>0 DEF Process
    <3>2. Reconciles(t)
      BY <3>1 DEF Reconciling
    <3>. QED BY <2>3, <3>1, <3>2, OthersReconcile
  <2>. QED BY <2>2, <2>3
<1>5. ASSUME NEW s \in Sessions, Resume(s) PROVE Reconciles(t)'
  <2>1. /\ \A r \in Sessions \ {s} : srv'[r] = srv[r]
        /\ srv'[s].resumed = TRUE /\ srv'[s].said = {} /\ srv'[s].asm = IdleAsm
        /\ Announce(s)
    BY <1>5, ResumeEffect
  <2>2. CASE t = s
    <3>1. Reconciles(s)'
      BY <2>1, BegunReconciles
    <3>. QED BY <2>2, <3>1
  <2>3. CASE t # s
    <3>0. /\ proc' = [proc EXCEPT !.phase = "reg", !.cur = s, !.pending = Listed(boot)]
          /\ \A r \in Sessions \ {s} : up'[r] = up[r]
          /\ \A r \in Sessions \ {s} : down'[r] = down[r]
      BY <2>1, AnnounceEffect
    <3>1. /\ up'[t] = up[t] /\ down'[t] = down[t] /\ proc'.cur = s /\ srv'[t] = srv[t]
      BY <1>0, <2>1, <2>3, <3>0 DEF Process
    <3>2. Reconciles(t)
      BY <3>1 DEF Reconciling
    <3>. QED BY <2>3, <3>1, <3>2, OthersReconcile
  <2>. QED BY <2>2, <2>3
<1>6. CASE Ready
  BY <1>6, ReadyReconciles
<1>7. CASE ClientDrops
  <2>1. /\ UNCHANGED <<srv, up, boot>> /\ proc'.cur = NoConn
        /\ down' = [down EXCEPT ![proc.cur] = <<>>]
    BY <1>0, <1>7 DEF ClientDrops, Process
  <2>2. down'[t] \in {down[t], <<>>}
    BY <1>0, <2>1
  <2>. QED BY <1>0, <1>k, <2>1, <2>2 DEF Announcing
<1>8. CASE RecvNewProxyResp
  <2>1. /\ Receives("resp") /\ Taken /\ UNCHANGED <<file, boot, srv, up, panel, active, count>>
    BY <1>8 DEF RecvNewProxyResp
  <2>2. /\ proc.cur \in Sessions /\ down[proc.cur] # <<>>
        /\ Head(down[proc.cur]) \in Messages /\ Head(down[proc.cur]).type = "resp"
        /\ \A r \in Sessions \ {proc.cur} : down'[r] = down[r]
        /\ down'[proc.cur] = Tail(down[proc.cur])
    BY <2>1, ReceivesFacts
  <2>3. /\ proc'.cur = proc.cur
        /\ proc'.phase = "reg" =>
             proc.phase = "reg" /\ proc'.pending = proc.pending \ {Head(down[proc.cur]).name}
    <3>. DEFINE m == Head(down[proc.cur])
    <3>1. proc.phase \in {"reg", "ready", "adding"} /\ m.ok \in BOOLEAN
      BY <1>0, <2>2, MessageFields
    <3>2. CASE proc.phase = "reg"
      BY <1>0, <1>8, <3>2 DEF RecvNewProxyResp, Process
    <3>3. CASE proc.phase = "ready"
      BY <1>0, <1>8, <3>3 DEF RecvNewProxyResp, Process
    <3>4. CASE proc.phase = "adding" /\ m.ok
      <4>1. proc' = [proc EXCEPT !.phase = "ready", !.adding = 0,
                                 !.misled = proc.misled \cup ({proc.adding} \ {m.name})]
        BY <1>8, <3>4 DEF RecvNewProxyResp
      <4>. QED BY <1>0, <4>1 DEF Process
    <3>5. CASE proc.phase = "adding" /\ ~m.ok
      <4>1. proc' = [proc EXCEPT !.phase = "ready", !.adding = 0,
                                 !.withdrawn = proc.withdrawn \cup {proc.adding}]
        BY <1>8, <3>5 DEF RecvNewProxyResp
      <4>. QED BY <1>0, <4>1 DEF Process
    <3>. QED BY <3>1, <3>2, <3>3, <3>4, <3>5
  <2>4. Announcing(t)'
    <3>. SUFFICES ASSUME proc.cur = t, proc'.phase = "reg" PROVE Announcing(t)'
      BY <2>3 DEF Announcing
    <3>1. /\ \A j \in DOMAIN up[t] : up[t][j].type = "new" /\ up[t][j].name \in Listed(boot)
          /\ srv[t].said \subseteq Listed(boot)
          /\ srv[t].resumed => srv[t].asm = IdleAsm
          /\ MaxProxies = 0 => (Listed(boot) \ proc.pending) \cap Stale(t) = {}
      BY <2>1, <2>3 DEF Reconciling, Reconciles, Announcing
    <3>2. MaxProxies = 0 => Head(down[t]).name \notin Stale(t)
      <4>1. Head(down[t]) = down[t][1] /\ 1 \in DOMAIN down[t]
        BY <1>0, <2>2, TailFacts
      <4>. QED BY <2>1, <2>2, <4>1 DEF Reconciling, Reconciles, Answered
    <3>3. MaxProxies = 0 => (Listed(boot) \ proc'.pending) \cap Stale(t) = {}
      BY <2>3, <3>1, <3>2
    <3>4. Stale(t)' = Stale(t) /\ Listed(boot)' = Listed(boot) /\ UNCHANGED <<up, srv>>
      BY <2>1 DEF Stale, Listed
    <3>. QED BY <3>1, <3>3, <3>4 DEF Announcing
  <2>. QED BY <1>k, <2>1, <2>2, <2>3, <2>4
<1>r. ASSUME proc.phase # "reg", proc'.phase # "reg" \/ proc' = proc PROVE Announcing(t)'
  BY <1>r DEF Announcing
<1>9. CASE RecvServerCmd
  <2>. DEFINE m == Head(down[proc.cur])
              a == ServerCmdResp(m.id, Applied(m).ok)
  <2>1. /\ Receives("cmd") /\ Taken /\ UNCHANGED <<proc, boot, srv>>
        /\ up' = up \/ (up' = Sent(proc.cur, <<a>>) /\ proc.phase = "ready")
    BY <1>9 DEF RecvServerCmd
  <2>2. /\ proc.cur \in Sessions /\ down[proc.cur] # <<>>
        /\ m \in Messages /\ m.type = "cmd"
        /\ \A r \in Sessions \ {proc.cur} : down'[r] = down[r]
        /\ down'[proc.cur] = Tail(down[proc.cur])
    BY <2>1, ReceivesFacts
  <2>3. a \in Messages /\ a.type = "ack"
    <3>1. m.name \in Names /\ m.id \in Nat
      BY <2>2, MessageFields
    <3>2. Applied(m).ok \in BOOLEAN
      BY <3>1 DEF Applied, FromFile, SyncTypes
    <3>. QED BY <3>1, <3>2, MessagesMade DEF ServerCmdResp
  <2>4. Announcing(t)'
    <3>1. CASE proc.phase = "ready"
      BY <1>r, <2>1, <3>1
    <3>2. CASE up' = up
      <4>1. Stale(t)' = Stale(t) /\ Listed(boot)' = Listed(boot) /\ UNCHANGED <<up, srv, proc>>
        BY <2>1, <3>2 DEF Stale, Listed
      <4>2. Announcing(t)
        BY <2>1 DEF Reconciling, Reconciles
      <4>. QED BY <4>1, <4>2 DEF Announcing
    <3>. QED BY <2>1, <3>1, <3>2
  <2>. HIDE DEF m, a
  <2>5. \/ up'[t] = up[t]
        \/ \E h \in Messages : h.type # "commit" /\ up'[t] = Sent(t, <<h>>)[t]
    BY <1>s, <2>1, <2>2, <2>3
  <2>. QED BY <1>k, <2>1, <2>2, <2>4, <2>5
<1>u. ASSUME NEW m \in Messages, m.type # "commit", up' = Sent(proc.cur, <<m>>) \/ up' = up,
             proc.phase # "reg", proc'.phase # "reg",
             proc'.cur = proc.cur, proc.cur \in Sessions, UNCHANGED <<boot, srv, down>>
      PROVE  Reconciles(t)'
  <2>1. \/ up'[t] = up[t]
        \/ \E h \in Messages : h.type # "commit" /\ up'[t] = Sent(t, <<h>>)[t]
    BY <1>s, <1>u
  <2>2. Announcing(t)'
    BY <1>r, <1>u
  <2>. QED BY <1>k, <1>u, <2>1, <2>2
<1>10. ASSUME NEW n \in Names, NEW v \in Versions, UiAdd(n, v) PROVE Reconciles(t)'
  <2>1. /\ proc.phase = "ready" /\ proc'.phase = "adding" /\ proc'.cur = proc.cur /\ proc.cur \in Sessions
        /\ up' = Sent(proc.cur, <<NewProxy(n, v)>>) /\ UNCHANGED <<boot, srv, down>>
    BY <1>0, <1>10 DEF UiAdd, Process
  <2>2. NewProxy(n, v) \in Messages /\ NewProxy(n, v).type # "commit"
    BY MessagesMade DEF NewProxy
  <2>. QED BY <1>u, <2>1, <2>2
<1>11. CASE UiAddTimesOut
  <2>1. /\ proc.phase = "adding" /\ proc'.phase = "ready" /\ proc'.cur = proc.cur
        /\ UNCHANGED <<up, boot, srv, down>>
    BY <1>0, <1>11 DEF UiAddTimesOut, Process
  <2>2. Announcing(t)'
    BY <1>r, <2>1
  <2>. QED BY <1>k, <2>1, <2>2
<1>12. ASSUME NEW n \in Names, UiRemove(n) PROVE Reconciles(t)'
  <2>1. /\ proc.phase = "ready" /\ proc'.phase = "ready" /\ proc'.cur = proc.cur /\ proc.cur \in Sessions
        /\ up' = Sent(proc.cur, <<CloseProxy(n)>>) /\ UNCHANGED <<boot, srv, down>>
    BY <1>0, <1>12 DEF UiRemove, Process
  <2>2. CloseProxy(n) \in Messages /\ CloseProxy(n).type # "commit"
    BY MessagesMade DEF CloseProxy
  <2>. QED BY <1>u, <2>1, <2>2
<1>. QED BY <1>1, <1>2, <1>3, <1>4, <1>5, <1>6, <1>7, <1>8, <1>9, <1>10, <1>11, <1>12 DEF ClientStep

\* Every step of the client, the server and the panel keeps each connection's
\* reconciliation on its way.
LEMMA ReconcilingStep ==
  ASSUME SyncTypes, Reconciling, [SyncNext]_syncVars
  PROVE  Reconciling'
<1>1. ASSUME NEW s \in Sessions, ServerStep(s) PROVE Reconciling'
  <2>. SUFFICES ASSUME NEW t \in Sessions, srv'[t].link = "up" PROVE Reconciles(t)'
    BY DEF Reconciling
  <2>0. /\ up \in [Sessions -> Seq(Messages)] /\ down \in [Sessions -> Seq(Messages)]
        /\ srv \in [Sessions -> State]
    BY DEF SyncTypes
  <2>1. CASE t = s
    <3>1. srv'[s].link = "up" => srv[s].link = "up"
      BY <1>1, HandleNewProxyEffect, HandleCloseProxyEffect, HandleCommitEffect, GraceExpiresEffect, LinkEndsEffect,
         ParkExpiresEffect DEF ServerStep, Serving, HandleServerCmdResp, Heard
    <3>2. Reconciles(s)'
      BY <1>1, <2>1, <3>1, ServerStepReconciles DEF Reconciling
    <3>. QED BY <2>1, <3>2
  <2>2. CASE t # s
    <3>1. srv'[t] = srv[t] /\ up'[t] = up[t] /\ down'[t] = down[t] /\ UNCHANGED processVars
      <4>1. CASE HandleNewProxy(s)
        <5>1. srv'[t] = srv[t]
          <6>1. PICK n \in Names, v \in Versions :
                  Touched(s, n, v, TRUE) \/ Touched(s, n, v, FALSE) \/ UNCHANGED <<srv, active>>
            BY <4>1, HandleNewProxyEffect
          <6>. QED BY <2>2, <6>1 DEF Touched
        <5>2. up'[t] = up[t] /\ UNCHANGED processVars
          BY <2>0, <2>2, <4>1 DEF HandleNewProxy
        <5>3. down'[t] = down[t]
          BY <2>0, <2>2, <4>1, HandleNewProxyEffect, ZenonT(60)
        <5>. QED BY <5>1, <5>2, <5>3
      <4>2. CASE HandleCloseProxy(s)
        BY <2>0, <2>2, <4>2 DEF HandleCloseProxy
      <4>3. CASE HandleCommit(s)
        BY <2>0, <2>2, <4>3 DEF HandleCommit
      <4>4. CASE HandleServerCmdResp(s)
        BY <2>0, <2>2, <4>4 DEF HandleServerCmdResp
      <4>5. CASE GraceExpires(s)
        BY <2>0, <2>2, <4>5 DEF GraceExpires
      <4>6. CASE LinkEnds(s)
        <5>1. srv'[t] = srv[t]
          BY <2>2, <4>6, LinkEndsEffect DEF Trimmed
        <5>. QED BY <2>0, <2>2, <4>6, <5>1 DEF LinkEnds
      <4>7. CASE ParkExpires(s)
        BY <2>0, <2>2, <4>7 DEF ParkExpires
      <4>. QED BY <1>1, <4>1, <4>2, <4>3, <4>4, <4>5, <4>6, <4>7 DEF ServerStep
    <3>2. Reconciles(t)
      BY <3>1 DEF Reconciling
    <3>. QED BY <3>1, <3>2, OthersReconcile DEF processVars
  <2>. QED BY <2>1, <2>2
<1>2. CASE UNCHANGED syncVars
  <2>. SUFFICES ASSUME NEW t \in Sessions, srv'[t].link = "up" PROVE Reconciles(t)'
    BY DEF Reconciling
  <2>1. Reconciles(t) /\ UNCHANGED <<proc, boot, srv, up, down>>
    BY <1>2 DEF Reconciling, syncVars
  <2>. QED BY <2>1, OthersReconcile
<1>. QED BY <1>1, <1>2, ClientStepReconciles, PanelStepReconciles DEF SyncNext

\* Before the first login there is nothing to reconcile.
LEMMA ReconcilingStart == SyncInit => Reconciling
<1>. SUFFICES ASSUME SyncInit PROVE Reconciling OBVIOUS
<1>1. \A s \in Sessions : srv[s].link = "none"
  BY DEF SyncInit, NoState, FreshState
<1>. QED BY <1>1 DEF Reconciling

\* A complete list leaves in the table what is on it, and that is at least what
\* the client has registered on this connection.
LEMMA CommitTakes ==
  ASSUME SyncTypes, NEW s \in Sessions, Reconciles(s), HandleCommit(s), srv[s].resumed, ~srv'[s].resumed
  PROVE  \E L \in SUBSET Names : Trimmed(s, Named(srv[s].table) \ L) /\ srv[s].said \subseteq L
<1>. DEFINE f    == Head(up[s])
            asm  == Assembled(srv[s].asm, f)
            gone == Named(srv[s].table) \ Wanted(asm)
<1>1. Serving(s, "commit") /\ Complete(asm) /\ Trimmed(s, gone)
  BY HandleCommitEffect
<1>2. srv[s].asm \in [total : Nat, parts : SUBSET Part] /\ up[s] \in Seq(Messages)
  BY DEF SyncTypes, State
<1>3. up[s] # <<>> /\ f.type = "commit"
  BY <1>1 DEF Serving
<1>4. PICK L \in SUBSET Names : Reported(s, L)
  BY DEF Reconciles
<1>5. QueueListed(up[s], L) /\ Partial(srv[s].asm, L)
  BY <1>4 DEF Reported
<1>6. Commits(up[s]) /\ f \in FramesOf(L)
  BY <1>2, <1>3, <1>5, ListedTail
<1>7. srv[s].said \subseteq L
  BY <1>4, <1>6 DEF Reported
<1>. HIDE DEF f
<1>8. Wanted(asm) = L
  BY <1>1, <1>2, <1>5, <1>6, AssembledFacts
<1>9. Trimmed(s, Named(srv[s].table) \ L)
  BY <1>1, <1>8
<1>. QED BY <1>7, <1>9

\* Only a complete list and the end of the grace period end a resumption.
LEMMA ResumptionEnds ==
  ASSUME SyncTypes, Ages, SyncNext, NEW s \in Sessions, srv[s].resumed, srv[s].link = "up",
         ~srv'[s].resumed, srv'[s].link = "up"
  PROVE  HandleCommit(s) \/ GraceExpires(s)
<1>1. ASSUME NEW t \in Sessions, ServerStep(t) PROVE HandleCommit(s) \/ GraceExpires(s)
  <2>1. ASSUME HandleNewProxy(t) PROVE FALSE
    BY <2>1, HandleNewProxyEffect DEF Touched
  <2>2. ASSUME HandleCloseProxy(t) PROVE FALSE
    BY <2>2, HandleCloseProxyEffect DEF Trimmed
  <2>0. srv \in [Sessions -> State]
    BY DEF SyncTypes
  <2>3. CASE HandleCommit(t)
    <3>1. t # s => srv'[s] = srv[s]
      BY <2>0, <2>3 DEF HandleCommit
    <3>. QED BY <2>3, <3>1
  <2>4. ASSUME HandleServerCmdResp(t) PROVE FALSE
    BY <2>4 DEF HandleServerCmdResp
  <2>5. CASE GraceExpires(t)
    <3>1. t # s => srv'[s] = srv[s]
      BY <2>0, <2>5 DEF GraceExpires
    <3>. QED BY <2>5, <3>1
  <2>6. ASSUME LinkEnds(t) PROVE FALSE
    BY <2>6, LinkEndsEffect DEF Trimmed
  <2>7. ASSUME ParkExpires(t) PROVE FALSE
    BY <2>7, ParkExpiresEffect DEF Trimmed
  <2>. QED BY <1>1, <2>1, <2>2, <2>3, <2>4, <2>5, <2>6, <2>7 DEF ServerStep
<1>2. ASSUME ClientStep PROVE FALSE
  <2>1. ASSUME LogIn PROVE FALSE
    <3>1. PICK t \in Sessions : count.logins < t /\ \A r \in Sessions \ {t} : srv'[r] = srv[r]
      BY <2>1, LogInEffect
    <3>2. srv[t].link = "none"
      BY <3>1 DEF Ages
    <3>. QED BY <3>1, <3>2
  <2>2. ASSUME NEW t \in Sessions, Resume(t) PROVE FALSE
    BY <2>2, ResumeEffect
  <2>3. ASSUME srv' = srv PROVE FALSE
    BY <2>3
  <2>. QED BY <1>2, <2>1, <2>2, <2>3 DEF ClientStep, Boot, Exit, FallBack, Ready, ClientDrops, RecvNewProxyResp,
              RecvServerCmd, UiAdd, UiAddTimesOut, UiRemove
<1>3. ASSUME PanelStep PROVE FALSE
  <2>1. ASSUME NEW t \in Sessions, NEW n \in Names, PanelRemove(t, n) PROVE FALSE
    BY <2>1, PanelRemoveEffect DEF Trimmed
  <2>2. ASSUME PanelRegisters PROVE FALSE
    BY <2>2, PanelRegistersEffect DEF Touched
  <2>3. ASSUME srv' = srv PROVE FALSE
    BY <2>3
  <2>. QED BY <1>3, <2>1, <2>2, <2>3 DEF PanelStep, PanelAdd, AskTimesOut
<1>. QED BY <1>1, <1>2, <1>3 DEF SyncNext

\* The end of a resumption keeps what the client has registered on this connection.
LEMMA ReportedKept ==
  ASSUME SyncTypes, Ages, Reconciling, SyncNext, NEW s \in Sessions, srv[s].resumed, srv[s].link = "up",
         ~srv'[s].resumed, srv'[s].link = "up"
  PROVE  \A n \in srv[s].said : srv'[s].table[n] = srv[s].table[n]
<1>1. srv[s].said \subseteq Names /\ \A n \in srv[s].said : srv[s].table[n].seen = srv[s].epoch
  BY DEF SyncTypes, State, Ages
<1>2. CASE HandleCommit(s)
  <2>1. PICK L \in SUBSET Names : Trimmed(s, Named(srv[s].table) \ L) /\ srv[s].said \subseteq L
    BY <1>2, CommitTakes DEF Reconciling
  <2>. QED BY <1>1, <2>1 DEF Trimmed
<1>3. CASE GraceExpires(s)
  <2>1. Trimmed(s, Stale(s))
    BY <1>3, GraceExpiresEffect
  <2>2. \A n \in srv[s].said : n \notin Stale(s)
    BY <1>1 DEF Stale
  <2>. QED BY <1>1, <2>1, <2>2 DEF Trimmed
<1>. QED BY <1>2, <1>3, ResumptionEnds

-----------------------------------------------------------------------------
(* What queues hold, as their heads are taken and messages are added.      *)

\* Reading the head of a connection leaves what the rest of it says of a name.
LEMMA TailHolds ==
  ASSUME NEW S, NEW q \in Seq(S), q # <<>>
  PROVE  /\ \A n : NoNew(q, n) => NoNew(Tail(q), n) /\ ~IsNew(Head(q), n)
         /\ \A n : NoResp(q, n) => NoResp(Tail(q), n) /\ ~IsResp(Head(q), n)
         /\ \A n : OneNew(q, n) => OneNew(Tail(q), n) /\ (IsNew(Head(q), n) => NoNew(Tail(q), n))
         /\ \A n : OneResp(q, n) => OneResp(Tail(q), n) /\ (IsResp(Head(q), n) => NoResp(Tail(q), n))
         /\ \A n : RemovedBefore(q, n) => RemovedBefore(Tail(q), n)
         /\ \A n : RemovedBefore(q, n) /\ IsRemove(Head(q), n) => ~NoResp(q, n)
<1>. DEFINE l == Len(q)
            t == Tail(q)
<1>1. /\ Head(q) = q[1] /\ 1 \in 1..l /\ l \in Nat /\ DOMAIN q = 1..l /\ DOMAIN t = 1..l - 1
      /\ \A i \in 1..l - 1 : t[i] = q[i + 1] /\ i + 1 \in 1..l
      /\ \A i \in 1..l : i = 1 \/ (i - 1 \in 1..l - 1 /\ q[i] = t[i - 1])
  BY TailFacts
<1>. HIDE DEF l, t
<1>2. \A i \in DOMAIN t : i + 1 \in DOMAIN q /\ t[i] = q[i + 1] /\ i + 1 # 1 /\ i \in Int
  BY <1>1
<1>3. \A n : NoNew(q, n) => NoNew(t, n) /\ ~IsNew(q[1], n)
  BY <1>1, <1>2 DEF NoNew
<1>4. \A n : NoResp(q, n) => NoResp(t, n) /\ ~IsResp(q[1], n)
  BY <1>1, <1>2 DEF NoResp
<1>5. ASSUME NEW n, OneNew(q, n) PROVE OneNew(t, n) /\ (IsNew(q[1], n) => NoNew(t, n))
  <2>1. OneNew(t, n)
    <3>. SUFFICES ASSUME NEW i \in DOMAIN t, NEW j \in DOMAIN t, IsNew(t[i], n), IsNew(t[j], n) PROVE i = j
      BY DEF OneNew
    <3>1. i + 1 = j + 1
      BY <1>2, <1>5 DEF OneNew
    <3>. QED BY <1>2, <3>1
  <2>2. IsNew(q[1], n) => NoNew(t, n)
    BY <1>1, <1>2, <1>5 DEF OneNew, NoNew
  <2>. QED BY <2>1, <2>2
<1>6. ASSUME NEW n, OneResp(q, n) PROVE OneResp(t, n) /\ (IsResp(q[1], n) => NoResp(t, n))
  <2>1. OneResp(t, n)
    <3>. SUFFICES ASSUME NEW i \in DOMAIN t, NEW j \in DOMAIN t, IsResp(t[i], n), IsResp(t[j], n) PROVE i = j
      BY DEF OneResp
    <3>1. i + 1 = j + 1
      BY <1>2, <1>6 DEF OneResp
    <3>. QED BY <1>2, <3>1
  <2>2. IsResp(q[1], n) => NoResp(t, n)
    BY <1>1, <1>2, <1>6 DEF OneResp, NoResp
  <2>. QED BY <2>1, <2>2
<1>7. ASSUME NEW n, RemovedBefore(q, n)
      PROVE  RemovedBefore(t, n) /\ (IsRemove(q[1], n) => ~NoResp(q, n))
  <2>1. ASSUME NEW i \in DOMAIN t, IsRemove(t[i], n) PROVE \E j \in DOMAIN t : i < j /\ IsResp(t[j], n)
    <3>1. PICK k \in DOMAIN q : i + 1 < k /\ IsResp(q[k], n)
      BY <1>2, <1>7, <2>1 DEF RemovedBefore
    <3>2. k \in Int /\ i \in Int /\ k # 1
      BY <1>1, <1>2, <3>1
    <3>3. k - 1 \in DOMAIN t /\ t[k - 1] = q[k] /\ i < k - 1
      BY <1>1, <3>1, <3>2
    <3>. QED BY <3>1, <3>3
  <2>. QED BY <1>1, <1>7, <2>1 DEF RemovedBefore, NoResp
<1>. QED BY <1>1, <1>3, <1>4, <1>5, <1>6, <1>7 DEF t

\* A message sent adds what it says itself, and only that.
LEMMA LongerHolds ==
  ASSUME NEW S, NEW q \in Seq(S), NEW m \in S
  PROVE  /\ \A n : NoNew(q, n) => OneNew(Append(q, m), n)
         /\ \A n : NoResp(q, n) => OneResp(Append(q, m), n)
         /\ \A n : ~IsNew(m, n) =>
              (NoNew(q, n) => NoNew(Append(q, m), n)) /\ (OneNew(q, n) => OneNew(Append(q, m), n))
         /\ \A n : ~IsResp(m, n) =>
              (NoResp(q, n) => NoResp(Append(q, m), n)) /\ (OneResp(q, n) => OneResp(Append(q, m), n))
         /\ \A n : ~IsRemove(m, n) /\ (RemovedBefore(q, n) \/ IsResp(m, n)) => RemovedBefore(Append(q, m), n)
<1>. DEFINE l == Len(q)
            a == Append(q, m)
<1>1. /\ l \in Nat /\ DOMAIN q = 1..l /\ DOMAIN a = 1..l + 1
      /\ \A i \in 1..l : a[i] = q[i] /\ i \in 1..l + 1
      /\ a[l + 1] = m /\ l + 1 \in 1..l + 1
      /\ \A i \in 1..l + 1 : i \in 1..l \/ i = l + 1
  BY LongerFacts
<1>. HIDE DEF l, a
<1>2. ASSUME NEW n PROVE NoNew(q, n) => OneNew(a, n)
  BY <1>1 DEF NoNew, OneNew
<1>3. ASSUME NEW n PROVE NoResp(q, n) => OneResp(a, n)
  BY <1>1 DEF NoResp, OneResp
<1>4. ASSUME NEW n, ~IsNew(m, n) PROVE (NoNew(q, n) => NoNew(a, n)) /\ (OneNew(q, n) => OneNew(a, n))
  BY <1>1, <1>4 DEF NoNew, OneNew
<1>5. ASSUME NEW n, ~IsResp(m, n) PROVE (NoResp(q, n) => NoResp(a, n)) /\ (OneResp(q, n) => OneResp(a, n))
  BY <1>1, <1>5 DEF NoResp, OneResp
<1>6. ASSUME NEW n, ~IsRemove(m, n), RemovedBefore(q, n) \/ IsResp(m, n) PROVE RemovedBefore(a, n)
  <2>. SUFFICES ASSUME NEW i \in DOMAIN a, IsRemove(a[i], n)
                PROVE  \E j \in DOMAIN a : i < j /\ IsResp(a[j], n)
    BY DEF RemovedBefore
  <2>1. i \in 1..l /\ a[i] = q[i] /\ i < l + 1
    BY <1>1, <1>6
  <2>2. CASE IsResp(m, n)
    BY <1>1, <2>1, <2>2
  <2>3. CASE RemovedBefore(q, n)
    <3>1. PICK j \in DOMAIN q : i < j /\ IsResp(q[j], n)
      BY <1>1, <2>1, <2>3 DEF RemovedBefore
    <3>. QED BY <1>1, <3>1
  <2>. QED BY <1>6, <2>2, <2>3
<1>. QED BY <1>2, <1>3, <1>4, <1>5, <1>6 DEF a

\* Reading the head of a connection keeps the order of the commands and of
\* their acknowledgements; the newest command is the last.
LEMMA TailNumbers ==
  ASSUME NEW q \in Seq(Messages), q # <<>>
  PROVE  /\ \A k : AcksUpTo(q, k) => AcksUpTo(Tail(q), k)
         /\ \A k : CmdsUpTo(q, k) => CmdsUpTo(Tail(q), k)
         /\ \A k, n : LastAdds(q, k, n) => LastAdds(Tail(q), k, n)
         /\ \A k : AckFor(Tail(q), k) => AckFor(q, k)
         /\ \A k : Head(q).type = "ack" /\ Head(q).id = k /\ Head(q).ok => AckFor(q, k)
         /\ NoCmd(q) => NoCmd(Tail(q)) /\ Head(q).type # "cmd"
         /\ \A k : CmdsUpTo(q, k) /\ Head(q).type = "cmd" =>
              /\ Head(q).id <= k /\ (Head(q).op = "add" => Head(q).sig \in Versions)
              /\ Head(q).id = k /\ k \in Nat => NoCmd(Tail(q))
         /\ \A k, n : LastAdds(q, k, n) /\ Head(q).type = "cmd" /\ Head(q).id = k =>
              Head(q).op = "add" /\ Head(q).name = n
<1>. DEFINE l == Len(q)
            t == Tail(q)
            h == q[1]
<1>1. /\ Head(q) = h /\ 1 \in 1..l /\ l \in Nat /\ DOMAIN q = 1..l /\ DOMAIN t = 1..l - 1
      /\ \A i \in 1..l - 1 : t[i] = q[i + 1] /\ i + 1 \in 1..l
  BY TailFacts
<1>. HIDE DEF l, t
<1>2. \A i \in DOMAIN t : i + 1 \in DOMAIN q /\ t[i] = q[i + 1] /\ 1 < i + 1 /\ i \in Int
  BY <1>1
<1>3. 1 \in DOMAIN q
  BY <1>1
<1>4. ASSUME NEW k
      PROVE  /\ AcksUpTo(q, k) => AcksUpTo(t, k)
             /\ AckFor(t, k) => AckFor(q, k)
             /\ h.type = "ack" /\ h.id = k /\ h.ok => AckFor(q, k)
  BY <1>2, <1>3 DEF AcksUpTo, AckFor
<1>5. NoCmd(q) => NoCmd(t) /\ h.type # "cmd"
  BY <1>2, <1>3 DEF NoCmd
<1>6. ASSUME NEW k, NEW n
      PROVE  /\ LastAdds(q, k, n) => LastAdds(t, k, n)
             /\ LastAdds(q, k, n) /\ h.type = "cmd" /\ h.id = k => h.op = "add" /\ h.name = n
  BY <1>2, <1>3 DEF LastAdds
<1>7. ASSUME NEW k, CmdsUpTo(q, k) PROVE CmdsUpTo(t, k)
  <2>. SUFFICES ASSUME NEW i \in DOMAIN t, t[i].type = "cmd"
                PROVE  /\ t[i].id <= k
                       /\ t[i].op = "add" => t[i].sig \in Versions
                       /\ \A j \in DOMAIN t : j < i /\ t[j].type = "cmd" => t[j].id < t[i].id
    BY DEF CmdsUpTo
  <2>1. /\ q[i + 1].id <= k
        /\ q[i + 1].op = "add" => q[i + 1].sig \in Versions
        /\ \A j \in DOMAIN q : j < i + 1 /\ q[j].type = "cmd" => q[j].id < q[i + 1].id
    BY <1>2, <1>7 DEF CmdsUpTo
  <2>2. \A j \in DOMAIN t : j < i => j + 1 < i + 1
    BY <1>2
  <2>. QED BY <1>2, <2>1, <2>2
<1>8. ASSUME NEW k, CmdsUpTo(q, k), h.type = "cmd"
      PROVE  /\ h.id <= k /\ (h.op = "add" => h.sig \in Versions)
             /\ h.id = k /\ k \in Nat => NoCmd(t)
  <2>1. h.id <= k /\ (h.op = "add" => h.sig \in Versions)
    BY <1>3, <1>8 DEF CmdsUpTo
  <2>2. ASSUME h.id = k, k \in Nat, NEW i \in DOMAIN t, t[i].type = "cmd" PROVE FALSE
    <3>1. h.id < q[i + 1].id /\ q[i + 1].id <= k
      BY <1>2, <1>3, <1>8, <2>2 DEF CmdsUpTo
    <3>2. q[i + 1] \in Messages /\ q[i + 1].type = "cmd"
      BY <1>1, <1>2, <2>2
    <3>3. q[i + 1].id \in Nat
      BY <3>2, MessageFields
    <3>. QED BY <2>2, <3>1, <3>3
  <2>. QED BY <2>1, <2>2 DEF NoCmd
<1>. QED BY <1>1, <1>4, <1>5, <1>6, <1>7, <1>8 DEF t

\* A command sent with the next number keeps that order (request_client_command).
LEMMA LongerNumbers ==
  ASSUME NEW q \in Seq(Messages), NEW m \in Messages
  PROVE  /\ \A k : AcksUpTo(q, k) /\ (m.type = "ack" => m.id <= k) => AcksUpTo(Append(q, m), k)
         /\ \A k : CmdsUpTo(q, k) /\ m.type # "cmd" => CmdsUpTo(Append(q, m), k)
         /\ \A k \in Nat : CmdsUpTo(q, k) /\ m.type = "cmd" /\ m.id = k + 1 /\ (m.op = "add" => m.sig \in Versions)
              => CmdsUpTo(Append(q, m), k + 1)
         /\ \A k, n : LastAdds(q, k, n) /\ m.type # "cmd" => LastAdds(Append(q, m), k, n)
         /\ \A k \in Nat : \A n : CmdsUpTo(q, k) /\ m.type = "cmd" /\ m.op = "add" /\ m.name = n
              => LastAdds(Append(q, m), k + 1, n)
         /\ \A k : AckFor(Append(q, m), k) /\ ~(m.type = "ack" /\ m.id = k /\ m.ok) => AckFor(q, k)
         /\ NoCmd(q) /\ m.type # "cmd" => NoCmd(Append(q, m))
<1>. DEFINE l == Len(q)
            a == Append(q, m)
<1>1. /\ l \in Nat /\ DOMAIN q = 1..l /\ DOMAIN a = 1..l + 1
      /\ \A i \in 1..l : a[i] = q[i] /\ i \in 1..l + 1
      /\ a[l + 1] = m /\ l + 1 \in 1..l + 1
      /\ \A i \in 1..l + 1 : i \in 1..l \/ i = l + 1
  BY LongerFacts
<1>. HIDE DEF l, a
<1>2. ASSUME NEW k, AcksUpTo(q, k), m.type = "ack" => m.id <= k PROVE AcksUpTo(a, k)
  BY <1>1, <1>2 DEF AcksUpTo
<1>3. ASSUME NEW k, CmdsUpTo(q, k), m.type # "cmd" PROVE CmdsUpTo(a, k)
  <2>1. \A i \in DOMAIN a : a[i].type = "cmd" => i \in DOMAIN q /\ a[i] = q[i]
    BY <1>1, <1>3
  <2>. QED BY <1>3, <2>1 DEF CmdsUpTo
<1>4. ASSUME NEW k \in Nat, CmdsUpTo(q, k), m.type = "cmd", m.id = k + 1, m.op = "add" => m.sig \in Versions
      PROVE  CmdsUpTo(a, k + 1)
  <2>. SUFFICES ASSUME NEW i \in DOMAIN a, a[i].type = "cmd"
                PROVE  /\ a[i].id <= k + 1
                       /\ a[i].op = "add" => a[i].sig \in Versions
                       /\ \A j \in DOMAIN a : j < i /\ a[j].type = "cmd" => a[j].id < a[i].id
    BY DEF CmdsUpTo
  <2>0. \A j \in DOMAIN q : q[j] \in Messages /\ (q[j].type = "cmd" => q[j].id \in Nat /\ q[j].id <= k)
    <3>1. \A j \in DOMAIN q : q[j] \in Messages
      BY <1>1
    <3>. QED BY <1>4, <3>1, MessageFields DEF CmdsUpTo
  <2>1. CASE i \in 1..l
    <3>1. a[i] = q[i] /\ \A j \in DOMAIN a : j < i => j \in DOMAIN q /\ a[j] = q[j]
      BY <1>1, <2>1
    <3>2. /\ q[i].id <= k /\ q[i].id \in Nat
          /\ q[i].op = "add" => q[i].sig \in Versions
          /\ \A j \in DOMAIN q : j < i /\ q[j].type = "cmd" => q[j].id < q[i].id
      BY <1>1, <1>4, <2>0, <2>1, <3>1 DEF CmdsUpTo
    <3>3. q[i].id <= k + 1
      BY <3>2
    <3>. QED BY <3>1, <3>2, <3>3
  <2>2. CASE i = l + 1
    <3>1. a[i] = m /\ \A j \in DOMAIN a : j < i => j \in DOMAIN q /\ a[j] = q[j]
      BY <1>1, <2>2
    <3>2. \A j \in DOMAIN q : q[j].type = "cmd" => q[j].id < k + 1
      BY <2>0
    <3>. QED BY <1>4, <3>1, <3>2
  <2>. QED BY <1>1, <2>1, <2>2
<1>5. ASSUME NEW k, NEW n, LastAdds(q, k, n), m.type # "cmd" PROVE LastAdds(a, k, n)
  BY <1>1, <1>5 DEF LastAdds
<1>6. ASSUME NEW k \in Nat, NEW n, CmdsUpTo(q, k), m.type = "cmd", m.op = "add", m.name = n
      PROVE  LastAdds(a, k + 1, n)
  <2>1. \A j \in DOMAIN q : q[j].type = "cmd" => q[j].id <= k
    BY <1>6 DEF CmdsUpTo
  <2>2. ~(k + 1 <= k)
    OBVIOUS
  <2>. QED BY <1>1, <1>6, <2>1, <2>2 DEF LastAdds
<1>7. ASSUME NEW k, AckFor(a, k), ~(m.type = "ack" /\ m.id = k /\ m.ok) PROVE AckFor(q, k)
  BY <1>1, <1>7 DEF AckFor
<1>8. NoCmd(q) /\ m.type # "cmd" => NoCmd(a)
  BY <1>1 DEF NoCmd
<1>. QED BY <1>2, <1>3, <1>4, <1>5, <1>6, <1>7, <1>8 DEF a

\* A queue that gets the frames of a list gets nothing else.
LEMMA FramesHold ==
  ASSUME SyncTypes, NEW s \in Sessions, NEW L \in SUBSET Names
  PROVE  LET z == Sent(s, CommitFrames(L))[s] IN
         /\ \A n : (NoNew(up[s], n) => NoNew(z, n)) /\ (OneNew(up[s], n) => OneNew(z, n))
         /\ \A k : AcksUpTo(up[s], k) => AcksUpTo(z, k)
         /\ \A k : AckFor(z, k) => AckFor(up[s], k)
<1>. DEFINE l == Len(up[s])
            p == CommitFrames(L)
            k == Len(p)
            z == Sent(s, p)[s]
<1>1. CASE srv[s].link # "up"
  <2>1. p \in Seq(Messages)
    BY FramesFacts
  <2>2. z = up[s]
    BY <1>1, <2>1, SentFacts
  <2>. QED BY <2>2
<1>2. CASE srv[s].link = "up"
  <2>1. /\ p \in Seq(Messages) /\ DOMAIN p = 1..k /\ \A i \in 1..k : p[i].type = "commit"
    BY FramesFacts
  <2>2. /\ l \in Nat /\ k \in Nat /\ DOMAIN up[s] = 1..l /\ DOMAIN z = 1..l + k
        /\ \A i \in 1..l : z[i] = up[s][i]
        /\ \A i \in 1..l + k : i \in 1..l \/ (i - l \in 1..k /\ z[i] = p[i - l])
    <3>. HIDE DEF p
    <3>. QED BY <1>2, <2>1, SentFacts
  <2>. HIDE DEF l, k, z, p
  <2>3. \A i \in DOMAIN z : (i \in DOMAIN up[s] /\ z[i] = up[s][i]) \/ z[i].type = "commit"
    BY <2>1, <2>2
  <2>4. ASSUME NEW n PROVE (NoNew(up[s], n) => NoNew(z, n)) /\ (OneNew(up[s], n) => OneNew(z, n))
    BY <2>3 DEF NoNew, OneNew, IsNew
  <2>5. ASSUME NEW h PROVE (AcksUpTo(up[s], h) => AcksUpTo(z, h)) /\ (AckFor(z, h) => AckFor(up[s], h))
    BY <2>3 DEF AcksUpTo, AckFor
  <2>. QED BY <2>4, <2>5 DEF z, p
<1>. QED BY <1>1, <1>2

\* One message sent is added at the end, or lost.
LEMMA SentOne ==
  ASSUME SyncTypes, NEW s \in Sessions, NEW m
  PROVE  /\ Sent(s, <<m>>)[s] = up[s] \/ Sent(s, <<m>>)[s] = Append(up[s], m)
         /\ \A t \in Sessions : t # s => Sent(s, <<m>>)[t] = up[t]
<1>1. up \in [Sessions -> Seq(Messages)]
  BY DEF SyncTypes
<1>2. up[s] \o <<m>> = Append(up[s], m)
  BY <1>1, AppendIsConcat
<1>. QED BY <1>1, <1>2 DEF Sent

-----------------------------------------------------------------------------
(* Both sides of the connection: what a server step keeps.                 *)

\* An edit refreshes nothing but what it registers.
LEMMA FreshShrinks ==
  ASSUME SyncTypes, NEW s \in Sessions
  PROVE  /\ \A X : Trimmed(s, X) => \A k \in Names : Fresh(s, k)' => Fresh(s, k) /\ k \notin X
         /\ \A n \in Names : \A v : Touched(s, n, v, FALSE) => \A k \in Names : Fresh(s, k)' => Fresh(s, k) /\ k # n
         /\ \A n \in Names : \A v : Touched(s, n, v, TRUE) => \A k \in Names : Fresh(s, k)' => Fresh(s, k) \/ k = n
<1>1. ASSUME NEW X, Trimmed(s, X), NEW k \in Names, Fresh(s, k)' PROVE Fresh(s, k) /\ k \notin X
  <2>1. /\ srv'[s].epoch = srv[s].epoch /\ Named(srv'[s].table) = Named(srv[s].table) \ X
        /\ k \notin X => srv'[s].table[k] = srv[s].table[k]
    BY <1>1 DEF Trimmed
  <2>. QED BY <1>1, <2>1 DEF Fresh
<1>2. ASSUME NEW n \in Names, NEW v, Touched(s, n, v, FALSE), NEW k \in Names, Fresh(s, k)'
      PROVE  Fresh(s, k) /\ k # n
  <2>1. /\ srv'[s].epoch = srv[s].epoch /\ srv'[s].table[n].sig = 0
        /\ k # n => srv'[s].table[k] = srv[s].table[k]
    BY <1>2 DEF Touched, NoEntry
  <2>. QED BY <1>2, <2>1 DEF Fresh, Named
<1>3. ASSUME NEW n \in Names, NEW v, Touched(s, n, v, TRUE), NEW k \in Names, Fresh(s, k)'
      PROVE  Fresh(s, k) \/ k = n
  <2>1. /\ srv'[s].epoch = srv[s].epoch
        /\ k # n => srv'[s].table[k] = srv[s].table[k]
    BY <1>3 DEF Touched
  <2>. QED BY <1>3, <2>1 DEF Fresh, Named
<1>. QED BY <1>1, <1>2, <1>3

\* A step that sends no command and moves no request to "add" keeps the numbers.
LEMMA NumberedKept ==
  ASSUME Numbered, count'.cmds = count.cmds,
         \A t \in Sessions : \A k : AcksUpTo(up[t], k) => AcksUpTo(up'[t], k),
         \A t \in Sessions :
           /\ \A k : CmdsUpTo(down[t], k) => CmdsUpTo(down'[t], k)
           /\ \A k, n : LastAdds(down[t], k, n) => LastAdds(down'[t], k, n),
         panel'.stage = "add" => panel.stage = "add" /\ panel'.name = panel.name
  PROVE  Numbered'
BY DEF Numbered

\* The panel asks: the new command has the next number, and it is the panel's.
LEMMA NumberedAsked ==
  ASSUME SyncTypes, Numbered, NEW s \in Sessions, NEW stage, NEW op \in {"add", "remove"}, NEW n \in Names,
         NEW v \in Versions \cup {0}, op = "add" => v \in Versions, stage = "add" => op = "add",
         Asks(s, stage, op, n, v), up' = up
  PROVE  Numbered'
<1>. DEFINE m == ServerCmd(op, n, v, count.cmds + 1)
            c == count.cmds
<1>1. /\ down' = [down EXCEPT ![s] = Append(down[s], m)] /\ count'.cmds = c + 1
      /\ panel'.stage = stage /\ panel'.name = n
  BY AsksEffect
<1>2. /\ down \in [Sessions -> Seq(Messages)] /\ up \in [Sessions -> Seq(Messages)] /\ c \in Nat /\ c + 1 \in Nat
  BY DEF SyncTypes
<1>3. m \in Messages /\ m.type = "cmd" /\ m.op = op /\ m.name = n /\ m.sig = v /\ m.id = c + 1
  BY <1>2, MessagesMade DEF ServerCmd
<1>. HIDE DEF m, c
<1>4. down'[s] = Append(down[s], m) /\ \A t \in Sessions : t # s => down'[t] = down[t]
  BY <1>1, <1>2
<1>5. \A t \in Sessions : AcksUpTo(up[t], c) /\ CmdsUpTo(down[t], c)
  BY DEF Numbered, c
<1>6. ASSUME NEW q \in Seq(Messages), AcksUpTo(q, c) PROVE AcksUpTo(q, c + 1)
  <2>1. \A i \in DOMAIN q : q[i] \in Messages /\ q[i].type = "ack" => q[i].id \in Nat
    BY MessageFields
  <2>2. \A i \in DOMAIN q : q[i] \in Messages
    BY LenProperties
  <2>. QED BY <1>2, <1>6, <2>1, <2>2 DEF AcksUpTo
<1>7. ASSUME NEW q \in Seq(Messages), CmdsUpTo(q, c)
      PROVE  CmdsUpTo(q, c + 1) /\ LastAdds(q, c + 1, n)
  <2>1. \A i \in DOMAIN q : q[i].type = "cmd" => q[i].id \in Nat /\ q[i].id <= c
    <3>1. \A i \in DOMAIN q : q[i] \in Messages
      BY LenProperties
    <3>. QED BY <1>7, <3>1, MessageFields DEF CmdsUpTo
  <2>2. \A i \in DOMAIN q : q[i].type = "cmd" => q[i].id <= c + 1 /\ q[i].id # c + 1
    BY <1>2, <2>1
  <2>. QED BY <1>7, <2>2 DEF CmdsUpTo, LastAdds
<1>8. ASSUME NEW t \in Sessions
      PROVE  /\ AcksUpTo(up'[t], c + 1) /\ CmdsUpTo(down'[t], c + 1)
             /\ stage = "add" => LastAdds(down'[t], c + 1, n)
  <2>1. up[t] \in Seq(Messages) /\ down[t] \in Seq(Messages)
    BY <1>2
  <2>2. AcksUpTo(up'[t], c + 1)
    BY <1>5, <1>6, <2>1
  <2>3. CASE t = s
    <3>1. down'[t] = Append(down[t], m) /\ down[t] \in Seq(Messages)
      BY <1>4, <2>1, <2>3
    <3>2. CmdsUpTo(down[t], c)
      BY <1>5
    <3>3. m \in Messages /\ m.type = "cmd" /\ m.id = c + 1 /\ (m.op = "add" => m.sig \in Versions) /\ m.name = n
          /\ c \in Nat
      BY <1>2, <1>3
    <3>4. CmdsUpTo(Append(down[t], m), c + 1)
      BY <3>1, <3>2, <3>3, LongerNumbers
    <3>5. stage = "add" => LastAdds(Append(down[t], m), c + 1, n)
      <4>1. stage = "add" => m.op = "add"
        BY <1>3
      <4>. QED BY <3>1, <3>2, <3>3, <4>1, LongerNumbers
    <3>. QED BY <2>2, <3>1, <3>4, <3>5
  <2>4. CASE t # s
    BY <1>4, <1>5, <1>7, <2>1, <2>2, <2>4
  <2>. QED BY <2>3, <2>4
<1>. QED BY <1>1, <1>8 DEF Numbered

\* What the client has agreed to stays agreed while it reads and does nothing.
LEMMA AgreementKept ==
  ASSUME SyncTypes, Agreement, UNCHANGED processVars, count'.boots = count.boots,
         Agreed' => Agreed /\ panel'.s = panel.s /\ panel'.name = panel.name /\ panel.s \in Sessions,
         \A t \in Sessions : srv'[t].boot = srv[t].boot /\ (NoCmd(down[t]) => NoCmd(down'[t]))
  PROVE  Agreement'
<1>1. proc' = proc /\ boot' = boot /\ local' = local
  BY DEF processVars
<1>2. proc.cur # NoConn => proc.cur \in Sessions
  BY DEF SyncTypes, Process
<1>3. \A n : Explained(n)' <=> Explained(n)
  BY <1>1 DEF Explained, Listed
<1>4. ASSUME Agreed', proc'.cur # NoConn PROVE NoCmd(down'[proc'.cur])
  <2>1. PICK t \in Sessions : t = proc.cur
    BY <1>1, <1>2, <1>4
  <2>2. NoCmd(down[t])
    BY <1>1, <1>4, <2>1 DEF Agreement
  <2>. QED BY <1>1, <2>1, <2>2
<1>5. ASSUME Agreed', proc'.phase # "off", srv'[panel'.s].boot = count'.boots, ~Explained(panel.name)'
      PROVE  local'[panel'.name].sig # 0 /\ proc'.adding # panel'.name
  <2>1. panel'.name = panel.name /\ panel'.s = panel.s /\ panel.s \in Sessions /\ Agreed
    BY <1>5
  <2>2. srv[panel.s].boot = count.boots /\ proc.phase # "off"
    BY <1>1, <1>5, <2>1
  <2>3. ~Explained(panel.name)
    BY <1>1, <1>5, <2>1 DEF Explained, Listed
  <2>4. local[panel.name].sig # 0 /\ proc.adding # panel.name
    BY <2>1, <2>2, <2>3 DEF Agreement
  <2>. QED BY <1>1, <2>1, <2>4
<1>6. Agreed' => /\ proc'.cur # NoConn => NoCmd(down'[proc'.cur])
                 /\ proc'.phase # "off" /\ srv'[panel'.s].boot = count'.boots /\ ~Explained(panel.name)'
                      => local'[panel'.name].sig # 0 /\ proc'.adding # panel'.name
  BY <1>4, <1>5
<1>. QED BY <1>6 DEF Agreement, Explained, Listed

\* A step of the server or the panel that registers nothing, and removes by a
\* command only what is not registered now.
LEMMA BackedKept ==
  ASSUME SyncTypes, Backed, UNCHANGED processVars,
         \A t \in Sessions : srv'[t].link = "up" =>
           /\ srv[t].link = "up"
           /\ up'[t] = up[t] \/ (up[t] # <<>> /\ up'[t] = Tail(up[t]))
           /\ \A n \in Names : Fresh(t, n)' => Fresh(t, n)
           /\ \/ down'[t] = down[t]
              \/ \E m \in Messages : /\ down'[t] = Append(down[t], m) /\ m.type = "cmd"
                                     /\ m.op = "remove" => ~Fresh(t, m.name)'
  PROVE  Backed'
<1>. SUFFICES ASSUME NEW t \in Sessions, NEW n \in Names, Live(t)', ~Explained(n)' PROVE Backs(t, n)'
  BY DEF Backed
<1>1. proc' = proc /\ boot' = boot /\ local' = local
  BY DEF processVars
<1>2. Live(t) /\ ~Explained(n) /\ srv'[t].link = "up" /\ (Adding(n)' <=> Adding(n))
  BY <1>1 DEF Live, Explained, Listed, Adding
<1>3. up[t] \in Seq(Messages) /\ down[t] \in Seq(Messages)
  BY DEF SyncTypes
<1>4. /\ AskedOnce(t, n) /\ (Fresh(t, n) => RemovedBefore(down[t], n) /\ local[n].sig # 0)
  BY <1>2 DEF Backed, Backs
<1>5. /\ OneNew(up[t], n) => OneNew(up'[t], n)
      /\ NoNew(up[t], n) => NoNew(up'[t], n)
  BY <1>2, <1>3, TailHolds
<1>6. /\ OneResp(down[t], n) => OneResp(down'[t], n)
      /\ NoResp(down[t], n) => NoResp(down'[t], n)
      /\ Fresh(t, n)' => (RemovedBefore(down[t], n) => RemovedBefore(down'[t], n))
  <2>1. CASE down'[t] = down[t]
    BY <2>1
  <2>2. ASSUME NEW m \in Messages, down'[t] = Append(down[t], m), m.type = "cmd",
               m.op = "remove" => ~Fresh(t, m.name)'
        PROVE  /\ OneResp(down[t], n) => OneResp(down'[t], n)
               /\ NoResp(down[t], n) => NoResp(down'[t], n)
               /\ Fresh(t, n)' => (RemovedBefore(down[t], n) => RemovedBefore(down'[t], n))
    <3>1. ~IsResp(m, n) /\ (Fresh(t, n)' => ~IsRemove(m, n))
      BY <2>2 DEF IsResp, IsRemove
    <3>. QED BY <1>3, <2>2, <3>1, LongerHolds
  <2>. QED BY <1>2, <2>1, <2>2
<1>7. AskedOnce(t, n)'
  BY <1>2, <1>4, <1>5, <1>6 DEF AskedOnce
<1>8. Fresh(t, n)' => RemovedBefore(down'[t], n) /\ local'[n].sig # 0
  BY <1>1, <1>2, <1>4, <1>6
<1>. QED BY <1>7, <1>8 DEF Backs

-----------------------------------------------------------------------------
(* Both sides of the connection through every step of the server.          *)

\* What a control loop's step (handle_control, the tick, the end of the loop)
\* does to the queues of its connection, to what is registered and to the panel.
LEMMA ServerStepFrame ==
  ASSUME SyncTypes, NEW s \in Sessions, ServerStep(s)
  PROVE  /\ UNCHANGED processVars /\ UNCHANGED count
         /\ \A t \in Sessions \ {s} : up'[t] = up[t] /\ down'[t] = down[t] /\ srv'[t] = srv[t]
         /\ srv'[s].boot = srv[s].boot
         /\ \/ up'[s] = up[s] /\ down'[s] = down[s]
            \/ up'[s] = <<>> /\ down'[s] = <<>> /\ srv'[s].link # "up"
            \/ up[s] # <<>> /\ up'[s] = Tail(up[s]) /\ down'[s] = down[s]
            \/ /\ up[s] # <<>> /\ up'[s] = Tail(up[s]) /\ Head(up[s]).type = "new"
               /\ \E done \in BOOLEAN : down'[s] = Append(down[s], NewProxyResp(Head(up[s]).name, done))
         /\ srv'[s].link = "up" =>
              /\ srv[s].link = "up"
              /\ \A n \in Names : Fresh(s, n)' =>
                   \/ Fresh(s, n)
                   \/ up[s] # <<>> /\ IsNew(Head(up[s]), n) /\ down'[s] # down[s]
         /\ \/ panel' = panel
            \/ panel'.stage = "idle"
            \/ /\ panel.stage = "add" /\ panel'.stage = "register"
               /\ panel'.s = panel.s /\ panel'.name = panel.name
               /\ AckFor(up[s], count.cmds)
<1>0. /\ up \in [Sessions -> Seq(Messages)] /\ down \in [Sessions -> Seq(Messages)]
      /\ srv \in [Sessions -> State] /\ panel \in Request
      /\ up[s] \in Seq(Messages) /\ down[s] \in Seq(Messages)
  BY DEF SyncTypes
<1>t. ASSUME NEW X, Trimmed(s, X)
      PROVE  /\ \A t \in Sessions \ {s} : srv'[t] = srv[t]
             /\ srv'[s].boot = srv[s].boot
             /\ \A n \in Names : Fresh(s, n)' => Fresh(s, n)
  <2>1. \A n \in Names : Fresh(s, n)' => Fresh(s, n)
    BY <1>t, FreshShrinks
  <2>. QED BY <1>t, <2>1 DEF Trimmed
<1>u. ASSUME srv' = srv
      PROVE  /\ \A t \in Sessions \ {s} : srv'[t] = srv[t]
             /\ srv'[s].boot = srv[s].boot /\ srv'[s].link = srv[s].link
             /\ \A n \in Names : Fresh(s, n)' => Fresh(s, n)
  BY <1>u DEF Fresh
<1>1. CASE HandleNewProxy(s)
  <2>. DEFINE m == Head(up[s])
  <2>1. /\ Serving(s, "new") /\ panel' = panel /\ m.name \in Names /\ m.sig \in Versions
        /\ \E done \in BOOLEAN :
             /\ down' = [down EXCEPT ![s] = Append(down[s], NewProxyResp(m.name, done))]
             /\ \/ done /\ Touched(s, m.name, m.sig, TRUE)
                \/ ~done /\ Touched(s, m.name, m.sig, FALSE)
                \/ ~done /\ QuotaFull(s) /\ UNCHANGED <<srv, active>>
    BY <1>1, HandleNewProxyEffect
  <2>2. PICK done \in BOOLEAN :
          /\ down' = [down EXCEPT ![s] = Append(down[s], NewProxyResp(m.name, done))]
          /\ \/ done /\ Touched(s, m.name, m.sig, TRUE)
             \/ ~done /\ Touched(s, m.name, m.sig, FALSE)
             \/ ~done /\ QuotaFull(s) /\ UNCHANGED <<srv, active>>
    BY <2>1
  <2>3. /\ UNCHANGED processVars /\ UNCHANGED count /\ srv[s].link = "up"
        /\ up[s] # <<>> /\ m.type = "new" /\ up'[s] = Tail(up[s])
        /\ \A t \in Sessions \ {s} : up'[t] = up[t]
    BY <1>0, <2>1 DEF Serving
  <2>4. /\ \A t \in Sessions \ {s} : down'[t] = down[t]
        /\ down'[s] = Append(down[s], NewProxyResp(m.name, done))
    BY <1>0, <2>2
  <2>5. down'[s] # down[s]
    <3>1. NewProxyResp(m.name, done) \in Messages
      BY <2>1, MessagesMade
    <3>. QED BY <1>0, <2>4, <3>1, LongerFacts
  <2>. HIDE DEF m
  <2>6. /\ \A t \in Sessions \ {s} : srv'[t] = srv[t]
        /\ srv'[s].boot = srv[s].boot
        /\ \A n \in Names : Fresh(s, n)' => Fresh(s, n) \/ IsNew(m, n)
    <3>1. CASE UNCHANGED <<srv, active>>
      BY <1>u, <3>1
    <3>2. CASE Touched(s, m.name, m.sig, TRUE)
      <4>1. \A k \in Names : Fresh(s, k)' => Fresh(s, k) \/ k = m.name
        BY <2>1, <3>2, FreshShrinks
      <4>. QED BY <2>3, <3>2, <4>1 DEF Touched, IsNew
    <3>3. CASE Touched(s, m.name, m.sig, FALSE)
      <4>1. \A k \in Names : Fresh(s, k)' => Fresh(s, k)
        BY <2>1, <3>3, FreshShrinks
      <4>. QED BY <3>3, <4>1 DEF Touched
    <3>. QED BY <2>2, <3>1, <3>2, <3>3
  <2>. QED BY <2>1, <2>3, <2>4, <2>5, <2>6 DEF m
<1>2. CASE HandleCloseProxy(s)
  <2>1. /\ Serving(s, "close") /\ UNCHANGED <<down, panel>>
        /\ Trimmed(s, {Head(up[s]).name}) /\ srv'[s].link = srv[s].link
    BY <1>2, HandleCloseProxyEffect
  <2>2. /\ \A t \in Sessions \ {s} : srv'[t] = srv[t]
        /\ srv'[s].boot = srv[s].boot
        /\ \A n \in Names : Fresh(s, n)' => Fresh(s, n)
    BY <1>t, <2>1
  <2>. QED BY <1>0, <2>1, <2>2 DEF Serving
<1>3. CASE HandleCommit(s)
  <2>1. /\ Serving(s, "commit") /\ UNCHANGED <<down, panel>>
        /\ srv' = srv \/ \E X : Trimmed(s, X) /\ srv[s].link = "up"
    <3>. DEFINE asm  == Assembled(srv[s].asm, Head(up[s]))
                gone == Named(srv[s].table) \ Wanted(asm)
    <3>1. /\ Serving(s, "commit") /\ UNCHANGED <<down, panel>>
          /\ srv' = srv \/ Trimmed(s, gone) \/ Trimmed(s, {})
      BY <1>3, HandleCommitEffect
    <3>. HIDE DEF gone
    <3>. QED BY <3>1 DEF Serving
  <2>2. /\ \A t \in Sessions \ {s} : srv'[t] = srv[t]
        /\ srv'[s].boot = srv[s].boot
        /\ \A n \in Names : Fresh(s, n)' => Fresh(s, n)
    BY <1>t, <1>u, <2>1
  <2>. QED BY <1>0, <2>1, <2>2 DEF Serving
<1>4. CASE HandleServerCmdResp(s)
  <2>. DEFINE m == Head(up[s])
  <2>1. /\ srv[s].link = "up" /\ up[s] # <<>> /\ m \in Messages /\ m.type = "ack"
    <3>1. Heard(s, "ack")
      BY <1>4 DEF HandleServerCmdResp
    <3>. QED BY <3>1, HeardFacts
  <2>2. /\ up' = [up EXCEPT ![s] = Tail(up[s])] /\ UNCHANGED processVars /\ UNCHANGED <<srv, down, active, count>>
    BY <1>4 DEF HandleServerCmdResp
  <2>3. \/ panel' = panel
        \/ panel'.stage = "idle"
        \/ /\ panel.stage = "add" /\ panel'.stage = "register"
           /\ panel'.s = panel.s /\ panel'.name = panel.name
           /\ m.id = count.cmds /\ m.ok
    <3>1. \/ panel' = panel
          \/ panel' = [panel EXCEPT !.stage = "idle"]
          \/ /\ panel.stage = "add" /\ m.id = count.cmds /\ m.ok
             /\ panel' = [panel EXCEPT !.stage = "register"]
      BY <1>4 DEF HandleServerCmdResp
    <3>. QED BY <1>0, <3>1 DEF Request
  <2>4. m.id = count.cmds /\ m.ok => AckFor(up[s], count.cmds)
    BY <1>0, <2>1, TailNumbers
  <2>5. \A n \in Names : Fresh(s, n)' => Fresh(s, n)
    BY <1>u, <2>2
  <2>. QED BY <1>0, <2>1, <2>2, <2>3, <2>4, <2>5
<1>5. CASE GraceExpires(s)
  <2>1. /\ srv[s].link = "up" /\ Trimmed(s, Stale(s))
        /\ UNCHANGED processVars /\ UNCHANGED <<up, down, panel, count>>
    BY <1>5, GraceExpiresEffect
  <2>2. /\ \A t \in Sessions \ {s} : srv'[t] = srv[t]
        /\ srv'[s].boot = srv[s].boot
        /\ \A n \in Names : Fresh(s, n)' => Fresh(s, n)
    BY <1>t, <2>1
  <2>. QED BY <2>1, <2>2
<1>6. CASE LinkEnds(s)
  <2>1. /\ srv[s].link = "up" /\ srv'[s].link # "up"
        /\ Trimmed(s, {}) \/ Trimmed(s, Names)
        /\ up' = [up EXCEPT ![s] = <<>>] /\ down' = [down EXCEPT ![s] = <<>>]
        /\ panel' = panel \/ panel' = [panel EXCEPT !.stage = "idle"]
        /\ UNCHANGED processVars /\ UNCHANGED count
    BY <1>6, LinkEndsEffect
  <2>2. /\ \A t \in Sessions \ {s} : srv'[t] = srv[t]
        /\ srv'[s].boot = srv[s].boot
    BY <1>t, <2>1
  <2>3. panel' = panel \/ panel'.stage = "idle"
    BY <1>0, <2>1 DEF Request
  <2>. QED BY <1>0, <2>1, <2>2, <2>3
<1>7. CASE ParkExpires(s)
  <2>1. /\ Trimmed(s, Names) /\ srv'[s].link = "gone"
        /\ UNCHANGED processVars /\ UNCHANGED <<up, down, panel, count>>
    BY <1>7, ParkExpiresEffect
  <2>2. /\ \A t \in Sessions \ {s} : srv'[t] = srv[t]
        /\ srv'[s].boot = srv[s].boot
    BY <1>t, <2>1
  <2>. QED BY <2>1, <2>2
<1>. QED BY <1>1, <1>2, <1>3, <1>4, <1>5, <1>6, <1>7 DEF ServerStep

\* Commands and acknowledgements on their way keep their numbers while the
\* server reads and answers.
LEMMA ServerStepNumbered ==
  ASSUME SyncTypes, Numbered, NEW s \in Sessions, ServerStep(s)
  PROVE  Numbered'
<1>0. up[s] \in Seq(Messages) /\ down[s] \in Seq(Messages)
  BY DEF SyncTypes
<1>1. /\ UNCHANGED count
      /\ \A t \in Sessions \ {s} : up'[t] = up[t] /\ down'[t] = down[t]
      /\ \/ up'[s] = up[s] /\ down'[s] = down[s]
         \/ up'[s] = <<>> /\ down'[s] = <<>>
         \/ up[s] # <<>> /\ up'[s] = Tail(up[s]) /\ down'[s] = down[s]
         \/ /\ up[s] # <<>> /\ up'[s] = Tail(up[s]) /\ Head(up[s]).type = "new"
            /\ \E done \in BOOLEAN : down'[s] = Append(down[s], NewProxyResp(Head(up[s]).name, done))
      /\ panel'.stage = "add" => panel.stage = "add" /\ panel'.name = panel.name
  BY ServerStepFrame
<1>2. \A k : AcksUpTo(up[s], k) => AcksUpTo(up'[s], k)
  <2>1. \A k : AcksUpTo(<<>>, k)
    BY DEF AcksUpTo
  <2>2. up[s] # <<>> => \A k : AcksUpTo(up[s], k) => AcksUpTo(Tail(up[s]), k)
    BY <1>0, TailNumbers
  <2>. QED BY <1>1, <2>1, <2>2
<1>3. /\ \A k : CmdsUpTo(down[s], k) => CmdsUpTo(down'[s], k)
      /\ \A k, n : LastAdds(down[s], k, n) => LastAdds(down'[s], k, n)
  <2>1. CASE down'[s] = down[s]
    BY <2>1
  <2>2. CASE down'[s] = <<>>
    BY <2>2 DEF CmdsUpTo, LastAdds
  <2>3. ASSUME NEW done \in BOOLEAN, up[s] # <<>>, Head(up[s]).type = "new",
               down'[s] = Append(down[s], NewProxyResp(Head(up[s]).name, done))
        PROVE  /\ \A k : CmdsUpTo(down[s], k) => CmdsUpTo(down'[s], k)
               /\ \A k, n : LastAdds(down[s], k, n) => LastAdds(down'[s], k, n)
    <3>. DEFINE m == NewProxyResp(Head(up[s]).name, done)
    <3>1. m \in Messages /\ m.type = "resp"
      <4>1. Head(up[s]) \in Messages
        BY <1>0, <2>3, TailFacts
      <4>. QED BY <2>3, <4>1, MessageFields, MessagesMade DEF NewProxyResp
    <3>2. down'[s] = Append(down[s], m)
      BY <2>3
    <3>. HIDE DEF m
    <3>. QED BY <1>0, <3>1, <3>2, LongerNumbers
  <2>. QED BY <1>1, <2>1, <2>2, <2>3
<1>4. /\ \A t \in Sessions : \A k : AcksUpTo(up[t], k) => AcksUpTo(up'[t], k)
      /\ \A t \in Sessions :
           /\ \A k : CmdsUpTo(down[t], k) => CmdsUpTo(down'[t], k)
           /\ \A k, n : LastAdds(down[t], k, n) => LastAdds(down'[t], k, n)
  BY <1>1, <1>2, <1>3
<1>. QED BY <1>1, <1>4, NumberedKept

\* The panel's task goes on to register only on the client's own word, and the
\* client has read every command by then.
LEMMA ServerStepAgrees ==
  ASSUME SyncTypes, Agreement, NEW s \in Sessions, ServerStep(s)
  PROVE  Agreement'
<1>0. up[s] \in Seq(Messages) /\ down[s] \in Seq(Messages) /\ (panel.stage # "idle" => panel.s \in Sessions)
  BY DEF SyncTypes
<1>1. /\ UNCHANGED processVars /\ UNCHANGED count
      /\ \A t \in Sessions \ {s} : up'[t] = up[t] /\ down'[t] = down[t] /\ srv'[t] = srv[t]
      /\ srv'[s].boot = srv[s].boot
      /\ \/ up'[s] = up[s] /\ down'[s] = down[s]
         \/ up'[s] = <<>> /\ down'[s] = <<>>
         \/ up[s] # <<>> /\ up'[s] = Tail(up[s]) /\ down'[s] = down[s]
         \/ /\ up[s] # <<>> /\ up'[s] = Tail(up[s]) /\ Head(up[s]).type = "new"
            /\ \E done \in BOOLEAN : down'[s] = Append(down[s], NewProxyResp(Head(up[s]).name, done))
      /\ \/ panel' = panel
         \/ panel'.stage = "idle"
         \/ /\ panel.stage = "add" /\ panel'.stage = "register"
            /\ panel'.s = panel.s /\ panel'.name = panel.name
            /\ AckFor(up[s], count.cmds)
  BY ServerStepFrame
<1>2. \A k : AckFor(up'[s], k) => AckFor(up[s], k)
  <2>1. \A k : ~AckFor(<<>>, k)
    BY DEF AckFor
  <2>2. up[s] # <<>> => \A k : AckFor(Tail(up[s]), k) => AckFor(up[s], k)
    BY <1>0, TailNumbers
  <2>. QED BY <1>1, <2>1, <2>2
<1>3. Agreed' => Agreed /\ panel'.s = panel.s /\ panel'.name = panel.name /\ panel.s \in Sessions
  <2>1. \A t \in Sessions : AckFor(up'[t], count'.cmds) => AckFor(up[t], count.cmds)
    BY <1>1, <1>2
  <2>2. Agreed <=> \/ panel.stage = "register"
                   \/ panel.stage = "add" /\ \E t \in Sessions : AckFor(up[t], count.cmds)
    BY DEF Agreed
  <2>3. Agreed' <=> \/ panel'.stage = "register"
                    \/ panel'.stage = "add" /\ \E t \in Sessions : AckFor(up'[t], count'.cmds)
    BY DEF Agreed
  <2>. QED BY <1>0, <1>1, <2>1, <2>2, <2>3
<1>4. NoCmd(down[s]) => NoCmd(down'[s])
  <2>1. CASE down'[s] = down[s] \/ down'[s] = <<>>
    BY <2>1 DEF NoCmd
  <2>2. ASSUME NEW done \in BOOLEAN, up[s] # <<>>, Head(up[s]).type = "new",
               down'[s] = Append(down[s], NewProxyResp(Head(up[s]).name, done))
        PROVE  NoCmd(down[s]) => NoCmd(down'[s])
    <3>. DEFINE m == NewProxyResp(Head(up[s]).name, done)
    <3>1. m \in Messages /\ m.type = "resp"
      <4>1. Head(up[s]) \in Messages
        BY <1>0, <2>2, TailFacts
      <4>. QED BY <2>2, <4>1, MessageFields, MessagesMade DEF NewProxyResp
    <3>2. down'[s] = Append(down[s], m)
      BY <2>2
    <3>. HIDE DEF m
    <3>. QED BY <1>0, <3>1, <3>2, LongerNumbers
  <2>. QED BY <1>1, <2>1, <2>2
<1>5. \A t \in Sessions : srv'[t].boot = srv[t].boot /\ (NoCmd(down[t]) => NoCmd(down'[t]))
  BY <1>1, <1>4
<1>6. count'.boots = count.boots
  BY <1>1
<1>. QED BY <1>1, <1>3, <1>5, <1>6, AgreementKept

\* handle_control registers what it is asked to, which an add of the client
\* waits for if no list explains it.
LEMMA ServerStepBacked ==
  ASSUME SyncTypes, AddingOwn, Backed, NEW s \in Sessions, ServerStep(s)
  PROVE  Backed'
<1>. SUFFICES ASSUME NEW t \in Sessions, NEW n \in Names, Live(t)', ~Explained(n)' PROVE Backs(t, n)'
  BY DEF Backed
<1>1. /\ UNCHANGED processVars /\ UNCHANGED count
      /\ \A r \in Sessions \ {s} : up'[r] = up[r] /\ down'[r] = down[r] /\ srv'[r] = srv[r]
      /\ \/ up'[s] = up[s] /\ down'[s] = down[s]
         \/ up'[s] = <<>> /\ down'[s] = <<>> /\ srv'[s].link # "up"
         \/ up[s] # <<>> /\ up'[s] = Tail(up[s]) /\ down'[s] = down[s]
         \/ /\ up[s] # <<>> /\ up'[s] = Tail(up[s]) /\ Head(up[s]).type = "new"
            /\ \E done \in BOOLEAN : down'[s] = Append(down[s], NewProxyResp(Head(up[s]).name, done))
      /\ srv'[s].link = "up" =>
           /\ srv[s].link = "up"
           /\ \A k \in Names : Fresh(s, k)' =>
                \/ Fresh(s, k)
                \/ up[s] # <<>> /\ IsNew(Head(up[s]), k) /\ down'[s] # down[s]
  BY ServerStepFrame
<1>2. proc' = proc /\ boot' = boot /\ local' = local
  BY <1>1 DEF processVars
<1>3. /\ up[t] \in Seq(Messages) /\ down[t] \in Seq(Messages)
      /\ proc'.cur = t /\ srv'[t].link = "up" /\ proc.cur = t /\ srv[t].link = "up"
  BY <1>1, <1>2 DEF SyncTypes, Live
<1>4. /\ Backs(t, n) /\ ~Explained(n) /\ (Adding(n)' <=> Adding(n))
  BY <1>2, <1>3 DEF Backed, Live, Explained, Listed, Adding
<1>5. /\ AskedOnce(t, n) /\ (Fresh(t, n) => RemovedBefore(down[t], n) /\ local[n].sig # 0)
  BY <1>4 DEF Backs
<1>6. ASSUME Fresh(t, n)' => Fresh(t, n),
             up'[t] = up[t] \/ (up[t] # <<>> /\ up'[t] = Tail(up[t])),
             \/ down'[t] = down[t]
             \/ \E m \in Messages : down'[t] = Append(down[t], m) /\ ~IsResp(m, n) /\ ~IsRemove(m, n)
      PROVE  Backs(t, n)'
  <2>1. /\ OneNew(up[t], n) => OneNew(up'[t], n)
        /\ NoNew(up[t], n) => NoNew(up'[t], n)
    BY <1>3, <1>6, TailHolds
  <2>2. /\ OneResp(down[t], n) => OneResp(down'[t], n)
        /\ NoResp(down[t], n) => NoResp(down'[t], n)
        /\ RemovedBefore(down[t], n) => RemovedBefore(down'[t], n)
    <3>1. ASSUME NEW m \in Messages, down'[t] = Append(down[t], m), ~IsResp(m, n), ~IsRemove(m, n)
          PROVE  /\ OneResp(down[t], n) => OneResp(down'[t], n)
                 /\ NoResp(down[t], n) => NoResp(down'[t], n)
                 /\ RemovedBefore(down[t], n) => RemovedBefore(down'[t], n)
      BY <1>3, <3>1, LongerHolds
    <3>. QED BY <1>6, <3>1
  <2>3. AskedOnce(t, n)'
    BY <1>4, <1>5, <2>1, <2>2 DEF AskedOnce
  <2>. QED BY <1>2, <1>5, <1>6, <2>2, <2>3 DEF Backs
<1>7. CASE t # s
  <2>1. Fresh(t, n)' => Fresh(t, n)
    BY <1>1, <1>7 DEF Fresh
  <2>. QED BY <1>1, <1>6, <1>7, <2>1
<1>8. CASE t = s /\ down'[s] = down[s] /\ (up'[s] = up[s] \/ (up[s] # <<>> /\ up'[s] = Tail(up[s])))
  BY <1>1, <1>3, <1>6, <1>8
<1>9. ASSUME NEW done \in BOOLEAN, t = s, up[s] # <<>>, up'[s] = Tail(up[s]), Head(up[s]).type = "new",
             down'[s] = Append(down[s], NewProxyResp(Head(up[s]).name, done))
      PROVE  Backs(t, n)'
  <2>. DEFINE h == Head(up[s])
              m == NewProxyResp(h.name, done)
  <2>1. h \in Messages /\ h.type = "new" /\ h.name \in Names
    <3>1. h \in Messages
      BY <1>3, <1>9, TailFacts
    <3>. QED BY <1>9, <3>1, MessageFields
  <2>2. m \in Messages /\ ~IsRemove(m, n) /\ (IsResp(m, n) <=> h.name = n) /\ (IsNew(h, n) <=> h.name = n)
    BY <2>1, MessagesMade DEF NewProxyResp, IsRemove, IsResp, IsNew
  <2>3. up'[t] = Tail(up[t]) /\ up[t] # <<>> /\ down'[t] = Append(down[t], m) /\ h = Head(up[t])
    BY <1>9
  <2>4. Fresh(t, n)' => Fresh(t, n) \/ IsNew(h, n)
    BY <1>1, <1>3, <1>9
  <2>. HIDE DEF h, m
  <2>5. CASE h.name # n
    BY <1>6, <2>2, <2>3, <2>4, <2>5
  <2>6. CASE h.name = n
    <3>1. IsNew(Head(up[t]), n)
      BY <2>2, <2>3, <2>6
    <3>2. ~NoNew(up[t], n)
      BY <1>3, <2>3, <3>1, TailHolds
    <3>3. NoResp(down[t], n) /\ OneNew(up[t], n) /\ Adding(n)
      BY <1>5, <3>2 DEF AskedOnce
    <3>4. NoNew(up'[t], n)
      BY <1>3, <2>3, <3>1, <3>3, TailHolds
    <3>5. OneNew(up'[t], n)
      BY <3>4 DEF NoNew, OneNew
    <3>6. OneResp(down'[t], n) /\ RemovedBefore(down'[t], n)
      BY <1>3, <2>2, <2>3, <2>6, <3>3, LongerHolds
    <3>7. local'[n].sig # 0
      BY <1>2, <3>3 DEF Adding, AddingOwn
    <3>8. AskedOnce(t, n)'
      BY <1>4, <3>3, <3>4, <3>5, <3>6 DEF AskedOnce
    <3>. QED BY <3>6, <3>7, <3>8 DEF Backs
  <2>. QED BY <2>5, <2>6
<1>. QED BY <1>1, <1>3, <1>7, <1>8, <1>9

-----------------------------------------------------------------------------
(* Both sides of the connection through every step of the panel.           *)

\* The panel's commands have one number after the other.
LEMMA PanelStepNumbered ==
  ASSUME SyncTypes, Numbered, PanelStep
  PROVE  Numbered'
<1>k. ASSUME UNCHANGED <<up, down>>, count'.cmds = count.cmds, panel'.stage = "idle" PROVE Numbered'
  BY <1>k, NumberedKept
<1>1. ASSUME NEW s \in Sessions, NEW n \in Names, NEW v \in Versions, PanelAdd(s, n, v) PROVE Numbered'
  <2>1. Asks(s, "add", "add", n, v) /\ up' = up /\ v \in Versions \cup {0}
    BY <1>1 DEF PanelAdd
  <2>. QED BY <2>1, NumberedAsked
<1>2. ASSUME NEW s \in Sessions, NEW n \in Names, PanelRemove(s, n) PROVE Numbered'
  <2>1. Asks(s, "remove", "remove", n, 0) /\ up' = up
    BY <1>2, PanelRemoveEffect
  <2>. QED BY <2>1, NumberedAsked
<1>3. CASE AskTimesOut
  <2>1. UNCHANGED <<up, down, count>> /\ panel'.stage = "idle"
    BY <1>3 DEF AskTimesOut, SyncTypes, Request
  <2>. QED BY <1>k, <2>1
<1>4. CASE PanelRegisters
  <2>1. /\ panel.s \in Sessions /\ panel.name \in Names /\ up' = up
        /\ \/ panel' = [panel EXCEPT !.stage = "idle"] /\ UNCHANGED <<down, count>>
           \/ Asks(panel.s, "undo", "remove", panel.name, 0)
    BY <1>4, PanelRegistersEffect
  <2>2. CASE panel' = [panel EXCEPT !.stage = "idle"] /\ UNCHANGED <<down, count>>
    <3>1. panel'.stage = "idle"
      BY <2>2 DEF SyncTypes, Request
    <3>. QED BY <1>k, <2>1, <2>2, <3>1
  <2>3. CASE Asks(panel.s, "undo", "remove", panel.name, 0)
    BY <2>1, <2>3, NumberedAsked
  <2>. QED BY <2>1, <2>2, <2>3
<1>. QED BY <1>1, <1>2, <1>3, <1>4 DEF PanelStep

\* No step of the panel makes the client agree: a new command has no answer yet.
LEMMA PanelStepAgrees ==
  ASSUME SyncTypes, Numbered, PanelStep
  PROVE  Agreement'
<1>. SUFFICES ~Agreed'
  BY DEF Agreement
<1>k. ASSUME panel'.stage \notin {"add", "register"} PROVE ~Agreed'
  BY <1>k DEF Agreed
<1>1. ASSUME NEW s \in Sessions, NEW n \in Names, NEW v \in Versions, PanelAdd(s, n, v) PROVE ~Agreed'
  <2>1. Asks(s, "add", "add", n, v) /\ up' = up
    BY <1>1 DEF PanelAdd
  <2>2. panel'.stage = "add" /\ count'.cmds = count.cmds + 1 /\ count.cmds \in Nat
    BY <2>1, AsksEffect DEF SyncTypes
  <2>3. ASSUME NEW t \in Sessions PROVE ~AckFor(up'[t], count'.cmds)
    <3>1. \A i \in DOMAIN up[t] : up[t][i].type = "ack" => up[t][i].id <= count.cmds /\ up[t][i].id \in Nat
      <4>1. up[t] \in Seq(Messages) /\ AcksUpTo(up[t], count.cmds)
        BY DEF SyncTypes, Numbered
      <4>2. \A i \in DOMAIN up[t] : up[t][i] \in Messages
        BY <4>1, LenProperties
      <4>. QED BY <4>1, <4>2, MessageFields DEF AcksUpTo
    <3>. QED BY <2>1, <2>2, <3>1 DEF AckFor
  <2>. QED BY <2>2, <2>3 DEF Agreed
<1>2. ASSUME NEW s \in Sessions, NEW n \in Names, PanelRemove(s, n) PROVE ~Agreed'
  <2>1. Asks(s, "remove", "remove", n, 0)
    BY <1>2, PanelRemoveEffect
  <2>2. panel'.stage = "remove"
    BY <2>1, AsksEffect
  <2>. QED BY <1>k, <2>2
<1>3. CASE AskTimesOut
  <2>1. panel'.stage = "idle"
    BY <1>3 DEF AskTimesOut, SyncTypes, Request
  <2>. QED BY <1>k, <2>1
<1>4. CASE PanelRegisters
  <2>1. /\ panel.s \in Sessions
        /\ \/ panel' = [panel EXCEPT !.stage = "idle"]
           \/ Asks(panel.s, "undo", "remove", panel.name, 0)
    BY <1>4, PanelRegistersEffect
  <2>2. panel'.stage \in {"idle", "undo"}
    <3>1. CASE panel' = [panel EXCEPT !.stage = "idle"]
      BY <3>1 DEF SyncTypes, Request
    <3>2. CASE Asks(panel.s, "undo", "remove", panel.name, 0)
      BY <2>1, <3>2, AsksEffect
    <3>. QED BY <2>1, <3>1, <3>2
  <2>. QED BY <1>k, <2>2
<1>. QED BY <1>1, <1>2, <1>3, <1>4 DEF PanelStep

\* The panel registers what the client has agreed to, and takes out before it
\* sends the command to remove.
LEMMA PanelStepBacked ==
  ASSUME SyncTypes, Ages, Agreement, Backed, PanelStep
  PROVE  Backed'
<1>0. /\ down \in [Sessions -> Seq(Messages)] /\ count.cmds \in Nat /\ count.cmds + 1 \in Nat
      /\ srv \in [Sessions -> State]
  BY DEF SyncTypes
<1>k. ASSUME NEW s \in Sessions, UNCHANGED processVars, up' = up, srv'[s].link = srv[s].link,
             \A t \in Sessions \ {s} : srv'[t] = srv[t] /\ down'[t] = down[t],
             \A n \in Names : Fresh(s, n)' => Fresh(s, n),
             \/ down'[s] = down[s]
             \/ \E m \in Messages : /\ down'[s] = Append(down[s], m) /\ m.type = "cmd"
                                    /\ m.op = "remove" => ~Fresh(s, m.name)'
      PROVE  Backed'
  <2>1. \A t \in Sessions \ {s} : \A n \in Names : Fresh(t, n)' => Fresh(t, n)
    BY <1>k DEF Fresh
  <2>2. \A t \in Sessions : srv'[t].link = "up" =>
           /\ srv[t].link = "up"
           /\ up'[t] = up[t] \/ (up[t] # <<>> /\ up'[t] = Tail(up[t]))
           /\ \A n \in Names : Fresh(t, n)' => Fresh(t, n)
           /\ \/ down'[t] = down[t]
              \/ \E m \in Messages : /\ down'[t] = Append(down[t], m) /\ m.type = "cmd"
                                     /\ m.op = "remove" => ~Fresh(t, m.name)'
    BY <1>k, <2>1
  <2>. QED BY <1>k, <2>2, BackedKept
<1>a. ASSUME NEW s \in Sessions, NEW stage, NEW op \in {"add", "remove"}, NEW n \in Names,
             NEW v \in Versions \cup {0}, Asks(s, stage, op, n, v), op = "remove" => ~Fresh(s, n)'
      PROVE  /\ \A t \in Sessions \ {s} : down'[t] = down[t]
             /\ \E m \in Messages : /\ down'[s] = Append(down[s], m) /\ m.type = "cmd"
                                    /\ m.op = "remove" => ~Fresh(s, m.name)'
  <2>1. PICK m \in Messages : m = ServerCmd(op, n, v, count.cmds + 1)
    BY <1>0, MessagesMade
  <2>2. down' = [down EXCEPT ![s] = Append(down[s], m)] /\ m.type = "cmd" /\ m.op = op /\ m.name = n
    BY <1>a, <2>1, AsksEffect DEF ServerCmd
  <2>3. down'[s] = Append(down[s], m) /\ \A t \in Sessions \ {s} : down'[t] = down[t]
    BY <1>0, <2>2
  <2>4. m.op = "remove" => ~Fresh(s, m.name)'
    BY <1>a, <2>2
  <2>. QED BY <2>2, <2>3, <2>4
<1>1. ASSUME NEW s \in Sessions, NEW n \in Names, NEW v \in Versions, PanelAdd(s, n, v) PROVE Backed'
  <2>1. Asks(s, "add", "add", n, v) /\ UNCHANGED processVars /\ UNCHANGED <<srv, up>>
    BY <1>1 DEF PanelAdd
  <2>2. /\ \A t \in Sessions \ {s} : down'[t] = down[t]
        /\ \E m \in Messages : /\ down'[s] = Append(down[s], m) /\ m.type = "cmd"
                               /\ m.op = "remove" => ~Fresh(s, m.name)'
    BY <1>a, <2>1
  <2>3. \A k \in Names : Fresh(s, k)' => Fresh(s, k)
    BY <2>1 DEF Fresh
  <2>. QED BY <1>k, <2>1, <2>2, <2>3
<1>2. ASSUME NEW s \in Sessions, NEW n \in Names, PanelRemove(s, n) PROVE Backed'
  <2>1. /\ Trimmed(s, {n}) /\ srv'[s].link = srv[s].link
        /\ Asks(s, "remove", "remove", n, 0)
        /\ UNCHANGED processVars /\ UNCHANGED up
    BY <1>2, PanelRemoveEffect
  <2>2. \A k \in Names : Fresh(s, k)' => Fresh(s, k) /\ k \notin {n}
    BY <2>1, FreshShrinks
  <2>3. /\ \A t \in Sessions \ {s} : down'[t] = down[t]
        /\ \E m \in Messages : /\ down'[s] = Append(down[s], m) /\ m.type = "cmd"
                               /\ m.op = "remove" => ~Fresh(s, m.name)'
    BY <1>a, <2>1, <2>2
  <2>4. \A t \in Sessions \ {s} : srv'[t] = srv[t]
    BY <2>1 DEF Trimmed
  <2>. QED BY <1>k, <2>1, <2>2, <2>3, <2>4
<1>3. CASE AskTimesOut
  <2>1. UNCHANGED processVars /\ UNCHANGED <<srv, up, down>>
    BY <1>3 DEF AskTimesOut
  <2>2. \A t \in Sessions : \A n \in Names : Fresh(t, n)' => Fresh(t, n)
    BY <2>1 DEF Fresh
  <2>. QED BY <2>1, <2>2, BackedKept
<1>4. CASE PanelRegisters
  <2>1. PICK s \in Sessions, n \in Names, v \in Versions :
           /\ panel.stage = "register" /\ s = panel.s /\ n = panel.name
           /\ \/ Touched(s, n, v, TRUE) /\ UNCHANGED <<down, count>>
              \/ Touched(s, n, v, FALSE) /\ UNCHANGED <<down, count>>
              \/ Touched(s, n, v, FALSE) /\ Asks(s, "undo", "remove", n, 0)
           /\ UNCHANGED processVars /\ UNCHANGED up
    BY <1>4, PanelRegistersEffect
  <2>2. CASE Touched(s, n, v, FALSE)
    <3>1. \A k \in Names : Fresh(s, k)' => Fresh(s, k) /\ k # n
      BY <2>2, FreshShrinks
    <3>2. srv'[s].link = srv[s].link /\ \A t \in Sessions \ {s} : srv'[t] = srv[t]
      BY <2>2 DEF Touched
    <3>3. CASE down' = down
      BY <1>k, <2>1, <3>1, <3>2, <3>3
    <3>4. CASE Asks(s, "undo", "remove", n, 0)
      <4>1. /\ \A t \in Sessions \ {s} : down'[t] = down[t]
            /\ \E m \in Messages : /\ down'[s] = Append(down[s], m) /\ m.type = "cmd"
                                   /\ m.op = "remove" => ~Fresh(s, m.name)'
        BY <1>a, <3>1, <3>4
      <4>. QED BY <1>k, <2>1, <3>1, <3>2, <4>1
    <3>5. down' = down \/ Asks(s, "undo", "remove", n, 0)
      BY <2>1
    <3>. QED BY <3>3, <3>4, <3>5
  <2>3. CASE Touched(s, n, v, TRUE) /\ UNCHANGED <<down, count>>
    <3>. SUFFICES ASSUME NEW t \in Sessions, NEW k \in Names, Live(t)', ~Explained(k)' PROVE Backs(t, k)'
      BY DEF Backed
    <3>1. /\ proc' = proc /\ boot' = boot /\ local' = local /\ up' = up /\ down' = down /\ count' = count
      BY <2>1, <2>3 DEF processVars
    <3>2. /\ srv'[s].link = srv[s].link /\ srv'[s].boot = srv[s].boot
          /\ \A r \in Sessions \ {s} : srv'[r] = srv[r]
      BY <2>3 DEF Touched
    <3>3. proc.cur = t /\ srv[t].link = "up" /\ ~Explained(k) /\ (Adding(k)' <=> Adding(k))
      BY <3>1, <3>2 DEF Live, Explained, Listed, Adding
    <3>4. Backs(t, k)
      BY <3>3 DEF Backed, Live
    <3>5. AskedOnce(t, k)'
      BY <3>1, <3>3, <3>4 DEF Backs, AskedOnce
    <3>6. Fresh(t, k)' => RemovedBefore(down[t], k) /\ local[k].sig # 0
      <4>1. CASE t = s /\ k = n
        <5>1. Agreed
          BY <2>1 DEF Agreed
        <5>2. proc.cur # NoConn /\ proc.phase # "off" /\ srv[panel.s].boot = count.boots
          <6>1. t # NoConn
            BY DEF Sessions, NoConn
          <6>2. proc.cur # NoConn
            BY <3>3, <6>1
          <6>3. proc.phase # "off"
            BY <6>2 DEF SyncTypes
          <6>4. srv[proc.cur].boot = count.boots
            BY <6>2 DEF Ages
          <6>. QED BY <2>1, <3>3, <4>1, <6>2, <6>3, <6>4
        <5>3. NoCmd(down[proc.cur]) /\ local[panel.name].sig # 0
          BY <2>1, <3>3, <4>1, <5>1, <5>2 DEF Agreement
        <5>4. RemovedBefore(down[t], k)
          BY <3>3, <5>3 DEF RemovedBefore, NoCmd, IsRemove
        <5>. QED BY <2>1, <4>1, <5>3, <5>4
      <4>2. CASE t = s /\ k # n
        <5>1. Fresh(t, k)' => Fresh(t, k)
          BY <2>3, <4>2, FreshShrinks
        <5>. QED BY <3>4, <5>1 DEF Backs
      <4>3. CASE t # s
        <5>1. Fresh(t, k)' => Fresh(t, k)
          BY <3>2, <4>3 DEF Fresh
        <5>. QED BY <3>4, <5>1 DEF Backs
      <4>. QED BY <4>1, <4>2, <4>3
    <3>7. Fresh(t, k)' => RemovedBefore(down'[t], k) /\ local'[k].sig # 0
      BY <3>1, <3>6
    <3>. QED BY <3>5, <3>7 DEF Backs
  <2>. QED BY <2>1, <2>2, <2>3
<1>. QED BY <1>1, <1>2, <1>3, <1>4 DEF PanelStep

-----------------------------------------------------------------------------
(* Both sides of the connection through every step of the client.          *)

\* The client reads and acknowledges a command (handle_server_command).
Acknowledges(t, m) ==
  /\ RecvServerCmd /\ proc.cur = t /\ proc.phase = "ready"
  /\ m.id = Head(down[t]).id /\ m.ok = Applied(Head(down[t])).ok

\* No step of the client sends a command or changes the panel's request.
LEMMA ClientStepCounts ==
  ASSUME SyncTypes, ClientStep
  PROVE  panel' = panel /\ count'.cmds = count.cmds
<1>0. count \in [logins : 0..MaxLogins, boots : Nat, cmds : Nat, ui : Nat]
  BY DEF SyncTypes
<1>1. ASSUME NEW f \in Files, NEW commits \in BOOLEAN, Boot(f, commits)
      PROVE  panel' = panel /\ count'.cmds = count.cmds
  BY <1>0, <1>1 DEF Boot
<1>2. CASE LogIn
  <2>1. panel' = panel
    BY <1>2 DEF LogIn, Announce
  <2>. QED BY <1>2, <2>1, LogInEffect
<1>3. ASSUME NEW s \in Sessions, Resume(s) PROVE panel' = panel /\ count' = count
  BY <1>3 DEF Resume, Announce
<1>4. ASSUME NEW n \in Names, NEW v \in Versions, UiAdd(n, v) PROVE panel' = panel /\ count'.cmds = count.cmds
  BY <1>0, <1>4 DEF UiAdd
<1>5. ASSUME NEW n \in Names, UiRemove(n) PROVE panel' = panel /\ count'.cmds = count.cmds
  BY <1>0, <1>5 DEF UiRemove
<1>6. CASE Exit \/ FallBack \/ Ready \/ ClientDrops \/ UiAddTimesOut
  BY <1>6 DEF Exit, FallBack, Ready, ClientDrops, UiAddTimesOut
<1>7. CASE RecvNewProxyResp \/ RecvServerCmd
  BY <1>7 DEF RecvNewProxyResp, RecvServerCmd
<1>. QED BY <1>1, <1>2, <1>3, <1>4, <1>5, <1>6, <1>7 DEF ClientStep

\* What the client's steps do to the queues: it reads one message, or begins a
\* connection with its list, or sends its commit, or sends one message more.
LEMMA ClientStepFrame ==
  ASSUME SyncTypes, ClientStep, NEW t \in Sessions
  PROVE  /\ srv'[t].boot = srv[t].boot \/ (LogIn /\ t = count.logins + 1)
         /\ \/ down'[t] = down[t] \/ down'[t] = <<>>
            \/ down[t] # <<>> /\ down'[t] = Tail(down[t])
         /\ \/ up'[t] = up[t]
            \/ \A j \in DOMAIN up'[t] : up'[t][j].type = "new"
            \/ up'[t] = Sent(t, CommitFrames(Listed(boot)))[t]
            \/ \E m \in Messages : /\ up'[t] = Append(up[t], m)
                                   /\ m.type # "ack" \/ Acknowledges(t, m)
<1>0. /\ up \in [Sessions -> Seq(Messages)] /\ down \in [Sessions -> Seq(Messages)]
      /\ count \in [logins : 0..MaxLogins, boots : Nat, cmds : Nat, ui : Nat]
      /\ proc.cur # NoConn <=> proc.phase \in {"reg", "ready", "adding"}
      /\ proc.cur \in Sessions \cup {NoConn}
  BY DEF SyncTypes, Process
<1>a. ASSUME NEW s \in Sessions, Announce(s)
      PROVE  /\ panel' = panel
             /\ up'[t] = up[t] \/ \A j \in DOMAIN up'[t] : up'[t][j].type = "new"
             /\ down'[t] = down[t] \/ down'[t] = <<>>
  <2>1. /\ \A r \in Sessions \ {s} : up'[r] = up[r]
        /\ \A r \in Sessions \ {s} : down'[r] = down[r]
        /\ \A j \in DOMAIN up'[s] : up'[s][j].type = "new" /\ up'[s][j].name \in Listed(boot)
        /\ down'[s] = <<>> /\ panel' = panel
    BY <1>a, AnnounceEffect, Zenon
  <2>. QED BY <2>1
<1>s. ASSUME proc.cur \in Sessions, NEW m \in Messages, up' = Sent(proc.cur, <<m>>)
      PROVE  up'[t] = up[t] \/ (t = proc.cur /\ up'[t] = Append(up[t], m))
  BY <1>s, SentOne
<1>1. ASSUME NEW f \in Files, NEW commits \in BOOLEAN, Boot(f, commits)
      PROVE  UNCHANGED <<panel, srv, up, down>> /\ count'.cmds = count.cmds
  BY <1>0, <1>1 DEF Boot
<1>2. CASE Exit
  BY <1>0, <1>2 DEF Exit
<1>3. CASE FallBack
  BY <1>3 DEF FallBack
<1>4. CASE LogIn
  <2>1. PICK s \in Sessions :
           /\ s = count.logins + 1 /\ count'.cmds = count.cmds
           /\ \A r \in Sessions \ {s} : srv'[r] = srv[r]
           /\ Announce(s)
    BY <1>4, LogInEffect
  <2>. QED BY <1>4, <1>a, <2>1
<1>5. ASSUME NEW s \in Sessions, Resume(s)
      PROVE  /\ panel' = panel /\ count'.cmds = count.cmds /\ srv'[t].boot = srv[t].boot
             /\ up'[t] = up[t] \/ \A j \in DOMAIN up'[t] : up'[t][j].type = "new"
             /\ down'[t] = down[t] \/ down'[t] = <<>>
  <2>1. /\ count' = count /\ srv'[s].boot = srv[s].boot
        /\ \A r \in Sessions \ {s} : srv'[r] = srv[r]
        /\ Announce(s)
    BY <1>5, ResumeEffect
  <2>. QED BY <1>a, <2>1
<1>6. CASE Ready
  <2>1. /\ proc.cur \in Sessions /\ UNCHANGED <<panel, count, srv, down>>
        /\ up' = up \/ up' = Sent(proc.cur, CommitFrames(Listed(boot)))
    BY <1>0, <1>6 DEF Ready
  <2>2. up'[t] = up[t] \/ up'[t] = Sent(t, CommitFrames(Listed(boot)))[t]
    BY <2>1, SentElsewhere
  <2>. QED BY <2>1, <2>2
<1>7. CASE ClientDrops
  BY <1>0, <1>7 DEF ClientDrops
<1>8. CASE RecvNewProxyResp
  <2>1. Receives("resp") /\ Taken /\ UNCHANGED <<srv, up, panel, count>>
    BY <1>8 DEF RecvNewProxyResp
  <2>2. /\ proc.cur \in Sessions /\ down[proc.cur] # <<>>
        /\ \A r \in Sessions \ {proc.cur} : down'[r] = down[r]
        /\ down'[proc.cur] = Tail(down[proc.cur])
    BY <2>1, ReceivesFacts
  <2>. QED BY <2>1, <2>2
<1>9. CASE RecvServerCmd
  <2>. DEFINE m == Head(down[proc.cur])
              a == ServerCmdResp(m.id, Applied(m).ok)
  <2>1. /\ Receives("cmd") /\ Taken /\ UNCHANGED <<srv, panel, count>>
        /\ up' = up \/ (up' = Sent(proc.cur, <<a>>) /\ proc.phase = "ready")
    BY <1>9 DEF RecvServerCmd
  <2>2. /\ proc.cur \in Sessions /\ down[proc.cur] # <<>>
        /\ m \in Messages /\ m.type = "cmd"
        /\ \A r \in Sessions \ {proc.cur} : down'[r] = down[r]
        /\ down'[proc.cur] = Tail(down[proc.cur])
    BY <2>1, ReceivesFacts
  <2>3. a \in Messages /\ a.id = m.id /\ a.ok = Applied(m).ok
    <3>1. m.name \in Names /\ m.id \in Nat
      BY <2>2, MessageFields
    <3>2. Applied(m).ok \in BOOLEAN
      BY <3>1 DEF Applied, FromFile, SyncTypes
    <3>. QED BY <3>1, <3>2, MessagesMade DEF ServerCmdResp
  <2>4. CASE up' = up
    BY <2>1, <2>2, <2>4
  <2>5. CASE up' = Sent(proc.cur, <<a>>) /\ proc.phase = "ready"
    <3>1. PICK h \in Messages : h = a
      BY <2>3
    <3>2. up'[t] = up[t] \/ (t = proc.cur /\ up'[t] = Append(up[t], h))
      BY <1>s, <2>2, <2>5, <3>1
    <3>3. t = proc.cur => Acknowledges(t, h)
      BY <1>9, <2>3, <2>5, <3>1 DEF Acknowledges
    <3>. HIDE DEF m, a
    <3>. QED BY <2>1, <2>2, <3>2, <3>3
  <2>. QED BY <2>1, <2>4, <2>5
<1>10. ASSUME NEW n \in Names, NEW v \in Versions, UiAdd(n, v)
       PROVE  /\ UNCHANGED <<panel, srv, down>> /\ count'.cmds = count.cmds
              /\ up'[t] = up[t] \/ \E m \in Messages : up'[t] = Append(up[t], m) /\ m.type # "ack"
  <2>1. /\ UNCHANGED <<panel, srv, down>> /\ count'.cmds = count.cmds
        /\ proc.cur \in Sessions /\ up' = Sent(proc.cur, <<NewProxy(n, v)>>)
    BY <1>0, <1>10 DEF UiAdd
  <2>2. NewProxy(n, v) \in Messages /\ NewProxy(n, v).type # "ack"
    BY MessagesMade DEF NewProxy
  <2>. QED BY <1>s, <2>1, <2>2
<1>11. CASE UiAddTimesOut
  BY <1>11 DEF UiAddTimesOut
<1>12. ASSUME NEW n \in Names, UiRemove(n)
       PROVE  /\ UNCHANGED <<panel, srv, down>> /\ count'.cmds = count.cmds
              /\ up'[t] = up[t] \/ \E m \in Messages : up'[t] = Append(up[t], m) /\ m.type # "ack"
  <2>1. /\ UNCHANGED <<panel, srv, down>> /\ count'.cmds = count.cmds
        /\ proc.cur \in Sessions /\ up' = Sent(proc.cur, <<CloseProxy(n)>>)
    BY <1>0, <1>12 DEF UiRemove
  <2>2. CloseProxy(n) \in Messages /\ CloseProxy(n).type # "ack"
    BY MessagesMade DEF CloseProxy
  <2>. QED BY <1>s, <2>1, <2>2
<1>. QED BY <1>1, <1>2, <1>3, <1>4, <1>5, <1>6, <1>7, <1>8, <1>9, <1>10, <1>11, <1>12 DEF ClientStep

\* What the client acknowledges is the command it has read.
LEMMA AcknowledgedRead ==
  ASSUME SyncTypes, NEW t \in Sessions, NEW m, Acknowledges(t, m)
  PROVE  /\ down[t] # <<>> /\ Head(down[t]) \in Messages /\ Head(down[t]).type = "cmd"
         /\ down'[t] = Tail(down[t]) /\ m.id = Head(down[t]).id
<1>1. Receives("cmd") /\ Taken /\ proc.cur = t /\ m.id = Head(down[t]).id
  BY DEF Acknowledges, RecvServerCmd
<1>2. /\ down[proc.cur] # <<>>
      /\ Head(down[proc.cur]) \in Messages /\ Head(down[proc.cur]).type = "cmd"
      /\ down'[proc.cur] = Tail(down[proc.cur])
  BY <1>1, ReceivesFacts
<1>. QED BY <1>1, <1>2

\* The client adds no number of its own to those of the panel's commands.
LEMMA ClientStepNumbered ==
  ASSUME SyncTypes, Numbered, ClientStep
  PROVE  Numbered'
<1>1. panel' = panel /\ count'.cmds = count.cmds
  BY ClientStepCounts
<1>2. ASSUME NEW t \in Sessions PROVE AcksUpTo(up'[t], count.cmds)
  <2>0. up[t] \in Seq(Messages) /\ down[t] \in Seq(Messages) /\ AcksUpTo(up[t], count.cmds) /\ CmdsUpTo(down[t], count.cmds)
    BY DEF SyncTypes, Numbered
  <2>1. \/ up'[t] = up[t]
        \/ \A j \in DOMAIN up'[t] : up'[t][j].type = "new"
        \/ up'[t] = Sent(t, CommitFrames(Listed(boot)))[t]
        \/ \E m \in Messages : /\ up'[t] = Append(up[t], m)
                               /\ m.type # "ack" \/ Acknowledges(t, m)
    BY ClientStepFrame
  <2>2. CASE up'[t] = up[t]
    BY <2>0, <2>2
  <2>3. CASE \A j \in DOMAIN up'[t] : up'[t][j].type = "new"
    BY <2>3 DEF AcksUpTo
  <2>4. CASE up'[t] = Sent(t, CommitFrames(Listed(boot)))[t]
    <3>1. Listed(boot) \in SUBSET Names
      BY DEF Listed
    <3>2. \A k : AcksUpTo(up[t], k) => AcksUpTo(Sent(t, CommitFrames(Listed(boot)))[t], k)
      BY <3>1, FramesHold
    <3>. QED BY <2>0, <2>4, <3>2
  <2>5. ASSUME NEW m \in Messages, up'[t] = Append(up[t], m), m.type # "ack" \/ Acknowledges(t, m)
        PROVE  AcksUpTo(up'[t], count.cmds)
    <3>1. m.type = "ack" => m.id <= count.cmds
      <4>. SUFFICES ASSUME Acknowledges(t, m) PROVE m.id <= count.cmds
        BY <2>5
      <4>1. down[t] # <<>> /\ Head(down[t]).type = "cmd" /\ m.id = Head(down[t]).id
        BY AcknowledgedRead
      <4>. QED BY <2>0, <4>1, TailNumbers
    <3>. QED BY <2>0, <2>5, <3>1, LongerNumbers
  <2>. QED BY <2>1, <2>2, <2>3, <2>4, <2>5
<1>3. ASSUME NEW t \in Sessions
      PROVE  /\ \A k : CmdsUpTo(down[t], k) => CmdsUpTo(down'[t], k)
             /\ \A k, n : LastAdds(down[t], k, n) => LastAdds(down'[t], k, n)
  <2>0. down[t] \in Seq(Messages)
    BY DEF SyncTypes
  <2>1. \/ down'[t] = down[t] \/ down'[t] = <<>>
        \/ down[t] # <<>> /\ down'[t] = Tail(down[t])
    BY ClientStepFrame
  <2>2. CASE down'[t] = down[t]
    BY <2>2
  <2>3. CASE down'[t] = <<>>
    BY <2>3 DEF CmdsUpTo, LastAdds
  <2>4. CASE down[t] # <<>> /\ down'[t] = Tail(down[t])
    BY <2>0, <2>4, TailNumbers
  <2>. QED BY <2>1, <2>2, <2>3, <2>4
<1>. QED BY <1>1, <1>2, <1>3 DEF Numbered

\* The client agrees by acknowledging an add, and what it agrees to it has.
LEMMA AgreesByReading ==
  ASSUME SyncTypes, Numbered, ClientStep, Agreed', ~Agreed
  PROVE  \E t \in Sessions : \E m \in Messages :
           /\ Acknowledges(t, m) /\ m.id = count.cmds /\ m.ok /\ panel.stage = "add"
<1>1. PICK t \in Sessions : AckFor(up'[t], count'.cmds) /\ ~AckFor(up[t], count.cmds)
                            /\ panel.stage = "add" /\ count'.cmds = count.cmds
  <2>1. Agreed' <=> \/ panel'.stage = "register"
                    \/ panel'.stage = "add" /\ \E t \in Sessions : AckFor(up'[t], count'.cmds)
    BY DEF Agreed
  <2>2. ~(panel.stage = "register") /\ (panel.stage = "add" => \A t \in Sessions : ~AckFor(up[t], count.cmds))
    BY DEF Agreed
  <2>3. panel' = panel /\ count'.cmds = count.cmds
    BY ClientStepCounts
  <2>. QED BY <2>1, <2>2, <2>3
<1>2. up[t] \in Seq(Messages)
  BY DEF SyncTypes
<1>3. \/ up'[t] = up[t]
      \/ \A j \in DOMAIN up'[t] : up'[t][j].type = "new"
      \/ up'[t] = Sent(t, CommitFrames(Listed(boot)))[t]
      \/ \E m \in Messages : /\ up'[t] = Append(up[t], m)
                             /\ m.type # "ack" \/ Acknowledges(t, m)
  BY ClientStepFrame
<1>4. up'[t] # up[t]
  BY <1>1
<1>5. ~\A j \in DOMAIN up'[t] : up'[t][j].type = "new"
  BY <1>1 DEF AckFor
<1>6. up'[t] # Sent(t, CommitFrames(Listed(boot)))[t]
  <2>1. Listed(boot) \in SUBSET Names
    BY DEF Listed
  <2>2. \A k : AckFor(Sent(t, CommitFrames(Listed(boot)))[t], k) => AckFor(up[t], k)
    BY <2>1, FramesHold
  <2>. QED BY <1>1, <2>2
<1>7. PICK m \in Messages : up'[t] = Append(up[t], m) /\ (m.type # "ack" \/ Acknowledges(t, m))
  BY <1>3, <1>4, <1>5, <1>6
<1>8. m.type = "ack" /\ m.id = count.cmds /\ m.ok
  BY <1>1, <1>2, <1>7, LongerNumbers
<1>. QED BY <1>1, <1>7, <1>8

\* A step of the client that leaves what it has agreed to in its table.
LEMMA ClientAgrees ==
  ASSUME SyncTypes, Ages, Agreement, panel' = panel, Agreed' => Agreed,
         count'.boots = count.boots, proc.phase # "off",
         \A t \in Sessions : srv[t].link # "none" => srv'[t].boot = srv[t].boot,
         proc'.cur # NoConn /\ (proc.cur = NoConn \/ NoCmd(down[proc.cur])) => NoCmd(down'[proc'.cur]),
         \A n \in Names : Explained(n) => Explained(n)',
         \A n \in Names : ~Explained(n)' /\ local[n].sig # 0 /\ proc.adding # n =>
                            local'[n].sig # 0 /\ proc'.adding # n
  PROVE  Agreement'
<1>. SUFFICES ASSUME Agreed'
              PROVE  /\ proc'.cur # NoConn => NoCmd(down'[proc'.cur])
                     /\ proc'.phase # "off" /\ srv'[panel'.s].boot = count'.boots /\ ~Explained(panel.name)'
                          => local'[panel.name].sig # 0 /\ proc'.adding # panel.name
  BY DEF Agreement
<1>1. /\ proc.cur # NoConn => NoCmd(down[proc.cur])
      /\ proc.phase # "off" /\ srv[panel.s].boot = count.boots /\ ~Explained(panel.name) =>
           local[panel.name].sig # 0 /\ proc.adding # panel.name
  BY DEF Agreement
<1>2. panel.s \in Sessions /\ panel.name \in Names /\ srv[panel.s].link # "none"
  <2>1. panel.stage # "idle"
    BY DEF Agreed
  <2>. QED BY <2>1 DEF SyncTypes, Ages
<1>3. PICK n \in Names : n = panel.name
  BY <1>2
<1>4. proc'.cur # NoConn => NoCmd(down'[proc'.cur])
  BY <1>1
<1>5. ASSUME srv'[panel'.s].boot = count'.boots, ~Explained(n)'
      PROVE  local'[n].sig # 0 /\ proc'.adding # n
  <2>1. srv[panel.s].boot = count.boots /\ ~Explained(n)
    BY <1>2, <1>5
  <2>2. local[n].sig # 0 /\ proc.adding # n
    BY <1>1, <1>3, <2>1
  <2>. QED BY <1>5, <2>2
<1>. QED BY <1>3, <1>4, <1>5

\* What the client has agreed to stays in its table, or is withdrawn, until the
\* panel's task has registered it.
LEMMA ClientStepAgrees ==
  ASSUME SyncTypes, Ages, Numbered, Agreement, ClientStep
  PROVE  Agreement'
<1>0. /\ proc \in Process /\ down \in [Sessions -> Seq(Messages)]
      /\ count \in [logins : 0..MaxLogins, boots : Nat, cmds : Nat, ui : Nat]
      /\ proc.cur # NoConn <=> proc.phase \in {"reg", "ready", "adding"}
      /\ proc.adding \in Names <=> proc.phase = "adding"
      /\ local \in [Names -> [sig : Versions \cup {0}, dynamic : BOOLEAN]]
      /\ 0 \notin Names /\ NoConn \notin Sessions
  BY NoNameIsZero DEF SyncTypes, Sessions, NoConn
<1>p. panel' = panel /\ count'.cmds = count.cmds
  BY ClientStepCounts
<1>b. count.boots \in Nat /\ count.boots # count.boots + 1
  BY <1>0
<1>g. Agreed' => Agreed \/ RecvServerCmd
  BY AgreesByReading DEF Acknowledges
<1>x. \A n \in Names : (Explained(n) <=> n \in Listed(boot) \/ n \in proc.withdrawn \/ n \in proc.misled)
                       /\ (Explained(n)' <=> n \in Listed(boot)' \/ n \in proc'.withdrawn \/ n \in proc'.misled)
  BY DEF Explained
<1>l. boot' = boot => Listed(boot)' = Listed(boot)
  BY DEF Listed
<1>o. ASSUME Agreed' => Agreed, UNCHANGED <<boot, srv>>, count'.boots = count.boots,
             proc.phase # "off", proc'.cur = NoConn \/ proc'.cur = proc.cur,
             \A t \in Sessions : \/ down'[t] = down[t] \/ down'[t] = <<>>
                                 \/ down[t] # <<>> /\ down'[t] = Tail(down[t]),
             proc.withdrawn \subseteq proc'.withdrawn, proc.misled \subseteq proc'.misled,
             \A n \in Names : n \notin proc'.withdrawn /\ n \notin proc'.misled
                                /\ local[n].sig # 0 /\ proc.adding # n =>
                                local'[n].sig # 0 /\ proc'.adding # n
      PROVE  Agreement'
  <2>1. \A n \in Names : Explained(n) => Explained(n)'
    BY <1>l, <1>o, <1>x
  <2>2. \A t \in Sessions : NoCmd(down[t]) => NoCmd(down'[t])
    <3>1. ASSUME NEW t \in Sessions, down[t] # <<>>, down'[t] = Tail(down[t]) PROVE NoCmd(down[t]) => NoCmd(down'[t])
      BY <1>0, <3>1, TailNumbers
    <3>2. NoCmd(<<>>)
      BY DEF NoCmd
    <3>. QED BY <1>o, <3>1, <3>2
  <2>3. proc'.cur # NoConn /\ (proc.cur = NoConn \/ NoCmd(down[proc.cur])) => NoCmd(down'[proc'.cur])
    BY <1>0, <1>o, <2>2 DEF Process
  <2>4. \A n \in Names : ~Explained(n)' /\ local[n].sig # 0 /\ proc.adding # n =>
                            local'[n].sig # 0 /\ proc'.adding # n
    BY <1>o, <1>x
  <2>. QED BY <1>o, <1>p, <2>1, <2>3, <2>4, ClientAgrees
<1>a. ASSUME NEW s \in Sessions, Announce(s), proc.phase = "down", count'.boots = count.boots,
             \A t \in Sessions : srv[t].link # "none" => srv'[t].boot = srv[t].boot,
             Agreed' => Agreed
      PROVE  Agreement'
  <2>1. /\ proc' = [proc EXCEPT !.phase = "reg", !.cur = s, !.pending = Listed(boot)]
        /\ UNCHANGED <<boot, local>> /\ down'[s] = <<>>
    BY <1>a, AnnounceEffect, Zenon
  <2>2. /\ proc'.cur = s /\ proc'.adding = proc.adding
        /\ proc'.withdrawn = proc.withdrawn /\ proc'.misled = proc.misled
    BY <1>0, <2>1 DEF Process
  <2>3. NoCmd(down'[proc'.cur])
    BY <2>1, <2>2 DEF NoCmd
  <2>4. \A n \in Names : Explained(n) <=> Explained(n)'
    BY <1>l, <1>x, <2>1, <2>2
  <2>5. \A n \in Names : local'[n].sig = local[n].sig
    BY <2>1
  <2>. QED BY <1>a, <1>p, <2>2, <2>3, <2>4, <2>5, ClientAgrees
<1>1. ASSUME NEW f \in Files, NEW commits \in BOOLEAN, Boot(f, commits) PROVE Agreement'
  <2>. SUFFICES ASSUME Agreed'
                PROVE  proc'.cur = NoConn /\ srv'[panel'.s].boot # count'.boots
    BY DEF Agreement
  <2>1. /\ proc' = [Off EXCEPT !.phase = "down", !.commits = commits]
        /\ count' = [count EXCEPT !.boots = count.boots + 1] /\ UNCHANGED <<srv, up>>
    BY <1>1 DEF Boot
  <2>2. proc'.cur = NoConn /\ count'.boots = count.boots + 1
    BY <1>0, <2>1 DEF Off
  <2>3. Agreed
    BY <1>p, <2>1 DEF Agreed
  <2>4. panel.s \in Sessions
    BY <2>3 DEF Agreed, SyncTypes
  <2>5. srv[panel.s].boot <= count.boots /\ srv[panel.s].boot \in Nat
    BY <2>4 DEF Ages, SyncTypes, State
  <2>. QED BY <1>b, <1>p, <2>1, <2>2, <2>5
<1>2. CASE Exit
  <2>1. proc' = Off
    BY <1>2 DEF Exit
  <2>2. proc'.cur = NoConn /\ proc'.phase = "off"
    BY <2>1 DEF Off
  <2>. QED BY <2>2 DEF Agreement
<1>3. CASE FallBack
  <2>1. /\ proc' = [proc EXCEPT !.fallback = TRUE] /\ proc.phase = "down"
        /\ UNCHANGED <<boot, srv, count, down, up, local>>
    BY <1>3 DEF FallBack
  <2>2. /\ proc'.cur = proc.cur /\ proc'.adding = proc.adding
        /\ proc'.withdrawn = proc.withdrawn /\ proc'.misled = proc.misled
    BY <1>0, <2>1 DEF Process
  <2>3. Agreed' => Agreed
    BY <1>p, <2>1 DEF Agreed
  <2>. QED BY <1>o, <2>1, <2>2, <2>3
<1>4. CASE LogIn
  <2>1. PICK s \in Sessions :
           /\ count.logins < s /\ proc.phase = "down" /\ count'.boots = count.boots
           /\ \A t \in Sessions \ {s} : srv'[t] = srv[t]
           /\ Announce(s)
    BY <1>4, LogInEffect
  <2>2. \A t \in Sessions : srv[t].link # "none" => srv'[t].boot = srv[t].boot
    BY <2>1 DEF Ages
  <2>3. ~RecvServerCmd
    <3>1. proc.cur = NoConn
      BY <1>0, <2>1
    <3>. QED BY <3>1 DEF RecvServerCmd, Receives
  <2>. QED BY <1>a, <1>g, <2>1, <2>2, <2>3
<1>5. ASSUME NEW s \in Sessions, Resume(s) PROVE Agreement'
  <2>1. /\ count' = count /\ srv'[s].boot = srv[s].boot /\ proc.phase = "down"
        /\ \A t \in Sessions \ {s} : srv'[t] = srv[t]
        /\ Announce(s)
    BY <1>5, ResumeEffect
  <2>2. \A t \in Sessions : srv'[t].boot = srv[t].boot
    BY <2>1
  <2>3. ~RecvServerCmd
    <3>1. proc.cur = NoConn
      BY <1>0, <2>1
    <3>. QED BY <3>1 DEF RecvServerCmd, Receives
  <2>. QED BY <1>a, <1>g, <2>1, <2>2, <2>3
<1>d. \A t \in Sessions : \/ down'[t] = down[t] \/ down'[t] = <<>>
                          \/ down[t] # <<>> /\ down'[t] = Tail(down[t])
  BY ClientStepFrame
<1>6. CASE Ready
  <2>1. /\ proc' = [proc EXCEPT !.phase = "ready"] /\ proc.phase = "reg"
        /\ UNCHANGED <<boot, srv, count, local>>
    BY <1>6 DEF Ready
  <2>2. /\ proc'.cur = proc.cur /\ proc'.adding = proc.adding /\ proc'.phase = "ready"
        /\ proc'.withdrawn = proc.withdrawn /\ proc'.misled = proc.misled
    BY <1>0, <2>1 DEF Process
  <2>3. ~RecvServerCmd
    BY <2>1, <2>2 DEF RecvServerCmd
  <2>. QED BY <1>d, <1>g, <1>o, <2>1, <2>2, <2>3
<1>7. CASE ClientDrops
  <2>1. /\ proc' = [proc EXCEPT !.phase = "down", !.cur = NoConn, !.pending = {}, !.adding = 0]
        /\ proc.phase \in {"reg", "ready", "adding"}
        /\ local' = IF proc.phase = "adding" THEN Lost(proc.adding) ELSE local
        /\ UNCHANGED <<boot, srv, up, count>>
    BY <1>7 DEF ClientDrops
  <2>2. /\ proc'.cur = NoConn /\ proc'.adding = 0
        /\ proc'.withdrawn = proc.withdrawn /\ proc'.misled = proc.misled
    BY <1>0, <2>1 DEF Process
  <2>3. \A n \in Names : proc.adding # n => local'[n] = local[n]
    BY <1>0, <2>1 DEF Lost
  <2>4. Agreed' => Agreed
    BY <1>p, <2>1 DEF Agreed
  <2>5. \A n \in Names : proc'.adding # n
    BY <1>0, <2>2
  <2>. QED BY <1>d, <1>o, <2>1, <2>2, <2>3, <2>4, <2>5
<1>8. CASE RecvNewProxyResp
  <2>. DEFINE m == Head(down[proc.cur])
  <2>1. /\ Receives("resp") /\ Taken /\ UNCHANGED <<boot, srv, up, count>>
    BY <1>8 DEF RecvNewProxyResp
  <2>2. proc.cur \in Sessions /\ m \in Messages /\ m.type = "resp" /\ m.ok \in BOOLEAN
        /\ proc.phase \in {"reg", "ready", "adding"}
    <3>1. proc.cur \in Sessions /\ m \in Messages /\ m.type = "resp"
      BY <2>1, ReceivesFacts
    <3>. QED BY <1>0, <3>1, MessageFields
  <2>3. Agreed' => Agreed
    BY <1>p, <2>1 DEF Agreed
  <2>. SUFFICES /\ proc'.cur = proc.cur
                /\ proc.withdrawn \subseteq proc'.withdrawn /\ proc.misled \subseteq proc'.misled
                /\ \A n \in Names : n \notin proc'.withdrawn /\ n \notin proc'.misled
                                      /\ local[n].sig # 0 /\ proc.adding # n =>
                                      local'[n].sig # 0 /\ proc'.adding # n
    BY <1>0, <1>d, <1>o, <2>1, <2>2, <2>3
  <2>4. CASE proc.phase = "reg"
    <3>1. proc' = [proc EXCEPT !.pending = proc.pending \ {m.name}] /\ local' = local
      BY <1>8, <2>4 DEF RecvNewProxyResp
    <3>2. /\ proc'.cur = proc.cur /\ proc'.adding = proc.adding
          /\ proc'.withdrawn = proc.withdrawn /\ proc'.misled = proc.misled
      BY <1>0, <3>1 DEF Process
    <3>. QED BY <3>1, <3>2
  <2>5. CASE proc.phase = "ready"
    BY <1>8, <2>5 DEF RecvNewProxyResp
  <2>6. CASE proc.phase = "adding" /\ m.ok
    <3>1. /\ proc' = [proc EXCEPT !.phase = "ready", !.adding = 0,
                                  !.misled = proc.misled \cup ({proc.adding} \ {m.name})]
          /\ local' = local
      BY <1>8, <2>6 DEF RecvNewProxyResp
    <3>2. /\ proc'.cur = proc.cur /\ proc'.adding = 0
          /\ proc'.withdrawn = proc.withdrawn /\ proc'.misled = proc.misled \cup ({proc.adding} \ {m.name})
      BY <1>0, <3>1 DEF Process
    <3>. HIDE DEF m
    <3>. QED BY <1>0, <3>1, <3>2
  <2>7. CASE proc.phase = "adding" /\ ~m.ok
    <3>1. /\ proc' = [proc EXCEPT !.phase = "ready", !.adding = 0,
                                  !.withdrawn = proc.withdrawn \cup {proc.adding}]
          /\ local' = Lost(proc.adding)
      BY <1>8, <2>7 DEF RecvNewProxyResp
    <3>2. /\ proc'.cur = proc.cur /\ proc'.adding = 0
          /\ proc'.withdrawn = proc.withdrawn \cup {proc.adding} /\ proc'.misled = proc.misled
      BY <1>0, <3>1 DEF Process
    <3>3. \A n \in Names : proc.adding # n => local'[n] = local[n]
      BY <1>0, <3>1 DEF Lost
    <3>. HIDE DEF m
    <3>. QED BY <1>0, <3>2, <3>3
  <2>. QED BY <2>2, <2>4, <2>5, <2>6, <2>7
<1>9. CASE RecvServerCmd
  <2>. SUFFICES ASSUME Agreed'
                PROVE  /\ NoCmd(down'[proc'.cur])
                       /\ local'[panel.name].sig # 0 /\ proc'.adding # panel.name
    BY <1>p DEF Agreement
  <2>1. Receives("cmd") /\ Taken /\ proc' = proc
    BY <1>9 DEF RecvServerCmd
  <2>2. proc.cur \in Sessions /\ down[proc.cur] # <<>> /\ Head(down[proc.cur]).type = "cmd"
    BY <2>1, ReceivesFacts
  <2>3. ~Agreed
    <3>1. ~NoCmd(down[proc.cur])
      BY <1>0, <2>2, TailNumbers
    <3>. QED BY <1>0, <2>2, <3>1 DEF Agreement
  <2>4. PICK t \in Sessions, a \in Messages :
          Acknowledges(t, a) /\ a.id = count.cmds /\ a.ok /\ panel.stage = "add"
    BY <2>3, AgreesByReading
  <2>5. PICK m \in Messages : m = Head(down[t])
    BY <2>4, AcknowledgedRead
  <2>6. /\ down[t] # <<>> /\ m.type = "cmd" /\ down'[t] = Tail(down[t]) /\ m.id = count.cmds
        /\ proc.cur = t /\ proc.phase = "ready" /\ Applied(m).ok
    BY <2>4, <2>5, AcknowledgedRead DEF Acknowledges
  <2>7. down[t] \in Seq(Messages) /\ CmdsUpTo(down[t], count.cmds) /\ LastAdds(down[t], count.cmds, panel.name)
        /\ count.cmds \in Nat
    BY <1>0, <2>4 DEF Numbered
  <2>8. m.op = "add" /\ m.name = panel.name
    <3>1. LastAdds(down[t], count.cmds, panel.name) /\ Head(down[t]).type = "cmd" /\ Head(down[t]).id = count.cmds
      BY <2>5, <2>6, <2>7
    <3>2. Head(down[t]).op = "add" /\ Head(down[t]).name = panel.name
      BY <2>6, <2>7, <3>1, TailNumbers, ZenonT(40)
    <3>. QED BY <2>5, <3>2
  <2>9. m.sig \in Versions /\ NoCmd(Tail(down[t]))
    BY <2>5, <2>6, <2>7, <2>8, TailNumbers
  <2>10. local' = [local EXCEPT ![m.name] = [sig |-> Applied(m).value, dynamic |-> Applied(m).value # 0]]
    BY <1>9, <2>5, <2>6 DEF RecvServerCmd
  <2>11. Applied(m).value = m.sig /\ m.sig # 0
    BY <2>8, <2>9, SyncAssumption DEF Applied
  <2>12. panel.name \in Names
    BY <2>4 DEF SyncTypes
  <2>13. local'[panel.name].sig # 0
    BY <1>0, <2>8, <2>10, <2>11, <2>12
  <2>14. proc'.adding # panel.name
    BY <1>0, <2>1, <2>6, <2>12
  <2>. QED BY <2>1, <2>6, <2>9, <2>13, <2>14
<1>10. ASSUME NEW n \in Names, NEW v \in Versions, UiAdd(n, v) PROVE Agreement'
  <2>1. /\ proc' = [proc EXCEPT !.phase = "adding", !.adding = n]
        /\ proc.phase = "ready" /\ local[n].sig = 0
        /\ local' = [local EXCEPT ![n] = [sig |-> v, dynamic |-> TRUE]]
        /\ count' = [count EXCEPT !.ui = count.ui + 1]
        /\ UNCHANGED <<boot, srv, down>>
    BY <1>10 DEF UiAdd
  <2>2. /\ proc'.cur = proc.cur /\ proc'.adding = n
        /\ proc'.withdrawn = proc.withdrawn /\ proc'.misled = proc.misled /\ count'.boots = count.boots
    BY <1>0, <2>1 DEF Process
  <2>3. \A k \in Names : k # n => local'[k] = local[k]
    BY <1>0, <2>1
  <2>4. ~RecvServerCmd
    <3>1. count.ui + 1 # count.ui
      BY <1>0
    <3>2. count'.ui # count.ui
      BY <1>0, <2>1, <3>1
    <3>. QED BY <3>2 DEF RecvServerCmd
  <2>. QED BY <1>g, <1>o, <2>1, <2>2, <2>3, <2>4
<1>11. CASE UiAddTimesOut
  <2>1. /\ proc' = [proc EXCEPT !.phase = "ready", !.adding = 0, !.withdrawn = proc.withdrawn \cup {proc.adding}]
        /\ proc.phase = "adding" /\ local' = Lost(proc.adding)
        /\ UNCHANGED <<boot, srv, up, count, down>>
    BY <1>11 DEF UiAddTimesOut
  <2>2. /\ proc'.cur = proc.cur /\ proc'.adding = 0
        /\ proc'.withdrawn = proc.withdrawn \cup {proc.adding} /\ proc'.misled = proc.misled
    BY <1>0, <2>1 DEF Process
  <2>3. \A n \in Names : proc.adding # n => local'[n] = local[n]
    BY <1>0, <2>1 DEF Lost
  <2>4. Agreed' => Agreed
    BY <1>p, <2>1 DEF Agreed
  <2>. QED BY <1>0, <1>o, <2>1, <2>2, <2>3, <2>4
<1>12. ASSUME NEW n \in Names, UiRemove(n) PROVE Agreement'
  <2>1. /\ proc' = [proc EXCEPT !.withdrawn = proc.withdrawn \cup {n}, !.uiRemoved = proc.uiRemoved \cup {n}]
        /\ proc.phase = "ready" /\ local' = Lost(n)
        /\ count' = [count EXCEPT !.ui = count.ui + 1]
        /\ UNCHANGED <<boot, srv, down>>
    BY <1>12 DEF UiRemove
  <2>2. /\ proc'.cur = proc.cur /\ proc'.adding = proc.adding
        /\ proc'.withdrawn = proc.withdrawn \cup {n} /\ proc'.misled = proc.misled /\ count'.boots = count.boots
    BY <1>0, <2>1 DEF Process
  <2>3. \A k \in Names : k # n => local'[k] = local[k]
    BY <1>0, <2>1 DEF Lost
  <2>4. ~RecvServerCmd
    <3>1. count.ui + 1 # count.ui
      BY <1>0
    <3>2. count'.ui # count.ui
      BY <1>0, <2>1, <3>1
    <3>. QED BY <3>2 DEF RecvServerCmd
  <2>. QED BY <1>g, <1>o, <2>1, <2>2, <2>3, <2>4
<1>. QED BY <1>1, <1>2, <1>3, <1>4, <1>5, <1>6, <1>7, <1>8, <1>9, <1>10, <1>11, <1>12 DEF ClientStep

\* The client's steps leave a registration without a backend only to a name
\* that is explained.
LEMMA ClientStepBacked ==
  ASSUME SyncTypes, Ages, Numbered, Backed, ClientStep
  PROVE  Backed'
<1>0. /\ proc \in Process /\ up \in [Sessions -> Seq(Messages)] /\ down \in [Sessions -> Seq(Messages)]
      /\ count \in [logins : 0..MaxLogins, boots : Nat, cmds : Nat, ui : Nat]
      /\ proc.cur # NoConn <=> proc.phase \in {"reg", "ready", "adding"}
      /\ proc.adding \in Names <=> proc.phase = "adding"
      /\ local \in [Names -> [sig : Versions \cup {0}, dynamic : BOOLEAN]]
      /\ 0 \notin Names /\ NoConn \notin Sessions
  BY NoNameIsZero DEF SyncTypes, Sessions, NoConn
<1>l. boot' = boot => Listed(boot)' = Listed(boot)
  BY DEF Listed
<1>x. \A n \in Names : (Explained(n) <=> n \in Listed(boot) \/ n \in proc.withdrawn \/ n \in proc.misled)
                       /\ (Explained(n)' <=> n \in Listed(boot)' \/ n \in proc'.withdrawn \/ n \in proc'.misled)
  BY DEF Explained
<1>n. ASSUME proc'.cur = NoConn PROVE Backed'
  <2>1. \A t \in Sessions : ~Live(t)'
    BY <1>0, <1>n DEF Live
  <2>. QED BY <2>1 DEF Backed
\* A connection that begins.
<1>a. ASSUME NEW s \in Sessions, Announce(s), proc.phase = "down", \A n \in Names : ~Fresh(s, n)'
      PROVE  Backed'
  <2>1. /\ proc' = [proc EXCEPT !.phase = "reg", !.cur = s, !.pending = Listed(boot)]
        /\ boot' = boot /\ down'[s] = <<>>
        /\ \A j \in DOMAIN up'[s] : up'[s][j].type = "new" /\ up'[s][j].name \in Listed(boot)
    BY <1>a, AnnounceEffect, Zenon
  <2>2. proc'.cur = s
    BY <1>0, <2>1 DEF Process
  <2>. SUFFICES ASSUME NEW n \in Names, ~Explained(n)' PROVE Backs(s, n)'
    BY <2>2 DEF Backed, Live
  <2>3. n \notin Listed(boot)
    BY <1>l, <1>x, <2>1
  <2>4. NoNew(up'[s], n)
    BY <2>1, <2>3 DEF NoNew, IsNew
  <2>5. NoResp(down'[s], n) /\ OneResp(down'[s], n) /\ OneNew(up'[s], n)
    BY <2>1, <2>4 DEF NoResp, OneResp, NoNew, OneNew
  <2>. QED BY <1>a, <2>4, <2>5 DEF Backs, AskedOnce
\* A step within a connection.
<1>k. ASSUME proc'.cur = proc.cur, UNCHANGED <<boot, srv>>,
             proc.withdrawn \subseteq proc'.withdrawn, proc.misled \subseteq proc'.misled,
             NEW t \in Sessions, t = proc.cur,
             \A n \in Names : ~Explained(n)' /\ Backs(t, n) =>
                  AskedOnce(t, n)' /\ (Fresh(t, n) => RemovedBefore(down'[t], n) /\ local'[n].sig # 0)
      PROVE  Backed'
  <2>. SUFFICES ASSUME NEW n \in Names, Live(t)', ~Explained(n)' PROVE Backs(t, n)'
    BY <1>k DEF Backed, Live
  <2>1. Live(t) /\ ~Explained(n)
    BY <1>k, <1>l, <1>x DEF Live
  <2>2. Backs(t, n)
    BY <2>1 DEF Backed
  <2>3. Fresh(t, n)' <=> Fresh(t, n)
    BY <1>k DEF Fresh
  <2>. QED BY <1>k, <2>2, <2>3 DEF Backs
\* One that asks for nothing and gets no answer.
<1>q. ASSUME NEW t \in Sessions, NEW n \in Names, Backs(t, n),
             NoNew(up[t], n) => NoNew(up'[t], n), OneNew(up[t], n) => OneNew(up'[t], n),
             down'[t] = down[t] \/ (down[t] # <<>> /\ down'[t] = Tail(down[t])),
             Adding(n) => Adding(n)'
      PROVE  AskedOnce(t, n)' /\ (Fresh(t, n) => RemovedBefore(down'[t], n))
  <2>1. AskedOnce(t, n) /\ (Fresh(t, n) => RemovedBefore(down[t], n)) /\ down[t] \in Seq(Messages)
    BY <1>0, <1>q DEF Backs
  <2>2. /\ NoResp(down[t], n) => NoResp(down'[t], n)
        /\ OneResp(down[t], n) => OneResp(down'[t], n)
        /\ RemovedBefore(down[t], n) => RemovedBefore(down'[t], n)
    BY <1>q, <2>1, TailHolds
  <2>. QED BY <1>q, <2>1, <2>2 DEF AskedOnce
<1>1. ASSUME NEW f \in Files, NEW commits \in BOOLEAN, Boot(f, commits) PROVE Backed'
  <2>1. proc' = [Off EXCEPT !.phase = "down", !.commits = commits]
    BY <1>1 DEF Boot
  <2>. QED BY <1>n, <2>1 DEF Off
<1>2. CASE Exit
  <2>1. proc' = Off
    BY <1>2 DEF Exit
  <2>. QED BY <1>n, <2>1 DEF Off
<1>3. CASE FallBack
  <2>1. proc' = [proc EXCEPT !.fallback = TRUE] /\ proc.phase = "down"
    BY <1>3 DEF FallBack
  <2>2. proc'.cur = NoConn
    BY <1>0, <2>1 DEF Process
  <2>. QED BY <1>n, <2>2
<1>4. CASE LogIn
  <2>1. PICK s \in Sessions : Announce(s) /\ proc.phase = "down" /\ Named(srv'[s].table) = {}
    BY <1>4, LogInEffect
  <2>2. \A n \in Names : ~Fresh(s, n)'
    BY <2>1 DEF Fresh
  <2>. QED BY <1>a, <2>1, <2>2
<1>5. ASSUME NEW s \in Sessions, Resume(s) PROVE Backed'
  <2>1. /\ Announce(s) /\ proc.phase = "down" /\ srv[s].epoch \in Nat
        /\ srv'[s].epoch = srv[s].epoch + 1 /\ srv'[s].table = srv[s].table
    BY <1>5, ResumeEffect
  <2>2. \A n \in Names : ~Fresh(s, n)'
    <3>1. \A n \in Names : srv[s].table[n].seen <= srv[s].epoch /\ srv[s].table[n].seen \in Nat
      BY DEF Ages, SyncTypes, State, Entry
    <3>. QED BY <2>1, <3>1 DEF Fresh
  <2>. QED BY <1>a, <2>1, <2>2
<1>7. CASE ClientDrops
  <2>1. proc' = [proc EXCEPT !.phase = "down", !.cur = NoConn, !.pending = {}, !.adding = 0]
    BY <1>7 DEF ClientDrops
  <2>2. proc'.cur = NoConn
    BY <1>0, <2>1 DEF Process
  <2>. QED BY <1>n, <2>2
<1>c. ASSUME proc.phase \in {"reg", "ready", "adding"} PROVE \E t \in Sessions : t = proc.cur
  BY <1>0, <1>c DEF Process
<1>6. CASE Ready
  <2>1. /\ proc' = [proc EXCEPT !.phase = "ready"] /\ proc.phase = "reg"
        /\ up' = up \/ up' = Sent(proc.cur, CommitFrames(Listed(boot)))
        /\ UNCHANGED <<boot, srv, local, down>>
    BY <1>6 DEF Ready
  <2>2. /\ proc'.cur = proc.cur /\ proc'.withdrawn = proc.withdrawn /\ proc'.misled = proc.misled
    BY <1>0, <2>1 DEF Process
  <2>3. PICK t \in Sessions : t = proc.cur
    BY <1>c, <2>1
  <2>4. \A n : (NoNew(up[t], n) => NoNew(up'[t], n)) /\ (OneNew(up[t], n) => OneNew(up'[t], n))
    <3>1. Listed(boot) \in SUBSET Names
      BY DEF Listed
    <3>2. LET z == Sent(t, CommitFrames(Listed(boot)))[t] IN
          \A n : (NoNew(up[t], n) => NoNew(z, n)) /\ (OneNew(up[t], n) => OneNew(z, n))
      BY <3>1, FramesHold
    <3>. QED BY <2>1, <2>3, <3>2
  <2>5. \A n \in Names : ~Adding(n)
    BY <2>1 DEF Adding
  <2>6. ASSUME NEW n \in Names, Backs(t, n)
        PROVE  AskedOnce(t, n)' /\ (Fresh(t, n) => RemovedBefore(down'[t], n) /\ local'[n].sig # 0)
    <3>1. AskedOnce(t, n)' /\ (Fresh(t, n) => RemovedBefore(down'[t], n))
      BY <1>q, <2>1, <2>4, <2>5, <2>6
    <3>. QED BY <2>1, <2>6, <3>1 DEF Backs
  <2>. QED BY <1>k, <2>1, <2>2, <2>3, <2>6
<1>s. ASSUME NEW t \in Sessions, t = proc.cur, NEW m \in Messages, NEW n \in Names, up' = Sent(proc.cur, <<m>>), ~IsNew(m, n)
      PROVE  (NoNew(up[t], n) => NoNew(up'[t], n)) /\ (OneNew(up[t], n) => OneNew(up'[t], n))
  <2>1. CASE up'[t] = up[t]
    BY <2>1
  <2>2. CASE up'[t] = Append(up[t], m)
    <3>1. up[t] \in Seq(Messages)
      BY <1>0
    <3>2. (NoNew(up[t], n) => NoNew(Append(up[t], m), n)) /\ (OneNew(up[t], n) => OneNew(Append(up[t], m), n))
      BY <1>s, <3>1, LongerHolds
    <3>. QED BY <2>2, <3>2
  <2>3. up'[t] = up[t] \/ up'[t] = Append(up[t], m)
    BY <1>s, SentOne
  <2>. QED BY <2>1, <2>2, <2>3
<1>8. CASE RecvNewProxyResp
  <2>1. PICK t \in Sessions : t = proc.cur
    BY <1>8, <1>c, <1>0 DEF RecvNewProxyResp, Receives
  <2>2. Receives("resp") /\ Taken /\ UNCHANGED <<boot, srv, up>>
    BY <1>8 DEF RecvNewProxyResp
  <2>3. PICK m \in Messages : m = Head(down[t])
    BY <2>1, <2>2, ReceivesFacts
  <2>4. /\ down[t] # <<>> /\ down'[t] = Tail(down[t]) /\ m.type = "resp" /\ m.name \in Names /\ m.ok \in BOOLEAN
        /\ down[t] \in Seq(Messages)
    <3>1. down[t] # <<>> /\ down'[t] = Tail(down[t]) /\ m.type = "resp"
      BY <2>1, <2>2, <2>3, ReceivesFacts
    <3>. QED BY <1>0, <3>1, MessageFields
  <2>5. proc.phase \in {"reg", "ready", "adding"}
    BY <1>0, <2>1
  <2>6. CASE proc.phase \in {"reg", "ready"}
    <3>1. proc' = proc \/ proc' = [proc EXCEPT !.pending = proc.pending \ {m.name}]
      BY <1>8, <2>1, <2>3, <2>6 DEF RecvNewProxyResp
    <3>2. local' = local
      BY <1>8, <2>6 DEF RecvNewProxyResp
    <3>3. /\ proc'.cur = proc.cur /\ proc'.withdrawn = proc.withdrawn /\ proc'.misled = proc.misled
      BY <1>0, <3>1 DEF Process
    <3>4. ASSUME NEW n \in Names, Backs(t, n)
          PROVE  AskedOnce(t, n)' /\ (Fresh(t, n) => RemovedBefore(down'[t], n) /\ local'[n].sig # 0)
      <4>1. ~Adding(n)
        BY <2>6 DEF Adding
      <4>2. AskedOnce(t, n)' /\ (Fresh(t, n) => RemovedBefore(down'[t], n))
        BY <1>q, <2>2, <2>4, <3>4, <4>1
      <4>. QED BY <3>2, <3>4, <4>2 DEF Backs
    <3>. QED BY <1>k, <2>1, <2>2, <3>3, <3>4
  <2>7. CASE proc.phase = "adding" /\ m.ok
    <3>1. /\ proc' = [proc EXCEPT !.phase = "ready", !.adding = 0,
                                  !.misled = proc.misled \cup ({proc.adding} \ {m.name})]
          /\ local' = local
      BY <1>8, <2>1, <2>3, <2>7 DEF RecvNewProxyResp
    <3>2. /\ proc'.cur = proc.cur /\ proc'.withdrawn = proc.withdrawn
          /\ proc'.misled = proc.misled \cup ({proc.adding} \ {m.name})
      BY <1>0, <3>1 DEF Process
    <3>3. ASSUME NEW n \in Names, ~Explained(n)', Backs(t, n)
          PROVE  AskedOnce(t, n)' /\ (Fresh(t, n) => RemovedBefore(down'[t], n) /\ local'[n].sig # 0)
      <4>1. n = proc.adding => n = m.name
        BY <1>x, <3>2, <3>3
      <4>2. CASE n # proc.adding
        <5>1. ~Adding(n)
          BY <4>2 DEF Adding
        <5>2. AskedOnce(t, n)' /\ (Fresh(t, n) => RemovedBefore(down'[t], n))
          BY <1>q, <2>2, <2>4, <3>3, <5>1
        <5>. QED BY <3>1, <3>3, <5>2 DEF Backs
      <4>3. CASE n = m.name
        <5>1. IsResp(Head(down[t]), n)
          BY <2>3, <2>4, <4>3 DEF IsResp
        <5>2. ~NoResp(down[t], n)
          BY <2>4, <5>1, TailHolds
        <5>3. NoNew(up[t], n) /\ OneResp(down[t], n)
          BY <3>3, <5>2 DEF Backs, AskedOnce
        <5>4. NoResp(Tail(down[t]), n)
          BY <2>4, <5>1, <5>3, TailHolds
        <5>5. Fresh(t, n) => RemovedBefore(Tail(down[t]), n) /\ local[n].sig # 0
          BY <2>4, <3>3, TailHolds DEF Backs
        <5>6. NoNew(up'[t], n) /\ NoResp(down'[t], n)
          BY <2>2, <2>4, <5>3, <5>4
        <5>7. AskedOnce(t, n)'
          BY <5>6 DEF AskedOnce, OneNew, OneResp, NoNew, NoResp
        <5>. QED BY <2>4, <3>1, <5>5, <5>7
      <4>. QED BY <4>1, <4>2, <4>3
    <3>. QED BY <1>k, <2>1, <2>2, <3>2, <3>3
  <2>8. CASE proc.phase = "adding" /\ ~m.ok
    <3>1. /\ proc' = [proc EXCEPT !.phase = "ready", !.adding = 0,
                                  !.withdrawn = proc.withdrawn \cup {proc.adding}]
          /\ local' = Lost(proc.adding)
      BY <1>8, <2>1, <2>3, <2>8 DEF RecvNewProxyResp
    <3>2. /\ proc'.cur = proc.cur /\ proc'.misled = proc.misled
          /\ proc'.withdrawn = proc.withdrawn \cup {proc.adding}
      BY <1>0, <3>1 DEF Process
    <3>3. ASSUME NEW n \in Names, ~Explained(n)', Backs(t, n)
          PROVE  AskedOnce(t, n)' /\ (Fresh(t, n) => RemovedBefore(down'[t], n) /\ local'[n].sig # 0)
      <4>1. n # proc.adding
        BY <1>x, <3>2, <3>3
      <4>2. ~Adding(n) /\ local'[n] = local[n]
        BY <1>0, <2>8, <3>1, <4>1 DEF Adding, Lost
      <4>3. AskedOnce(t, n)' /\ (Fresh(t, n) => RemovedBefore(down'[t], n))
        BY <1>q, <2>2, <2>4, <3>3, <4>2
      <4>. QED BY <3>3, <4>2, <4>3 DEF Backs
    <3>. QED BY <1>k, <2>1, <2>2, <3>2, <3>3
  <2>. QED BY <2>4, <2>5, <2>6, <2>7, <2>8
<1>9. CASE RecvServerCmd
  <2>1. PICK t \in Sessions : t = proc.cur
    BY <1>9, <1>c, <1>0 DEF RecvServerCmd, Receives
  <2>2. Receives("cmd") /\ Taken /\ UNCHANGED <<proc, boot, srv>>
    BY <1>9 DEF RecvServerCmd
  <2>3. PICK m \in Messages : m = Head(down[t])
    BY <2>1, <2>2, ReceivesFacts
  <2>4. /\ down[t] # <<>> /\ down'[t] = Tail(down[t]) /\ m.type = "cmd" /\ m.name \in Names
        /\ m.op \in {"add", "remove"} /\ m.id \in Nat /\ down[t] \in Seq(Messages)
    <3>1. down[t] # <<>> /\ down'[t] = Tail(down[t]) /\ m.type = "cmd"
      BY <2>1, <2>2, <2>3, ReceivesFacts
    <3>. QED BY <1>0, <3>1, MessageFields
  <2>5. CASE proc.phase # "ready"
    <3>1. UNCHANGED <<local, up>>
      BY <1>9, <2>5 DEF RecvServerCmd
    <3>2. ASSUME NEW n \in Names, Backs(t, n)
          PROVE  AskedOnce(t, n)' /\ (Fresh(t, n) => RemovedBefore(down'[t], n) /\ local'[n].sig # 0)
      <4>1. Adding(n) => Adding(n)'
        BY <2>2 DEF Adding
      <4>2. AskedOnce(t, n)' /\ (Fresh(t, n) => RemovedBefore(down'[t], n))
        BY <1>q, <2>4, <3>1, <3>2, <4>1
      <4>. QED BY <3>1, <3>2, <4>2 DEF Backs
    <3>. QED BY <1>k, <2>1, <2>2, <3>2
  <2>6. CASE proc.phase = "ready"
    <3>1. /\ up' = Sent(proc.cur, <<ServerCmdResp(m.id, Applied(m).ok)>>)
          /\ \/ local' = local
             \/ /\ Applied(m).ok
                /\ local' = [local EXCEPT ![m.name] = [sig |-> Applied(m).value, dynamic |-> Applied(m).value # 0]]
      BY <1>9, <2>1, <2>3, <2>6 DEF RecvServerCmd
    <3>2. PICK a \in Messages : up' = Sent(proc.cur, <<a>>) /\ a.type = "ack"
      <4>1. Applied(m).ok \in BOOLEAN
        BY <2>4 DEF Applied, FromFile, SyncTypes
      <4>. QED BY <2>4, <3>1, <4>1, MessagesMade DEF ServerCmdResp
    <3>3. ASSUME NEW n \in Names, Backs(t, n)
          PROVE  AskedOnce(t, n)' /\ (Fresh(t, n) => RemovedBefore(down'[t], n) /\ local'[n].sig # 0)
      <4>1. ~Adding(n) /\ ~IsNew(a, n)
        BY <2>6, <3>2 DEF Adding, IsNew
      <4>2. (NoNew(up[t], n) => NoNew(up'[t], n)) /\ (OneNew(up[t], n) => OneNew(up'[t], n))
        BY <1>s, <2>1, <3>2, <4>1
      <4>3. AskedOnce(t, n)' /\ (Fresh(t, n) => RemovedBefore(down'[t], n))
        BY <1>q, <2>4, <3>3, <4>1, <4>2
      <4>4. Fresh(t, n) => local'[n].sig # 0
        <5>. SUFFICES ASSUME Fresh(t, n), m.name = n, Applied(m).ok,
                             local' = [local EXCEPT ![m.name] = [sig |-> Applied(m).value, dynamic |-> Applied(m).value # 0]]
                      PROVE  local'[n].sig # 0
          BY <1>0, <2>4, <3>1, <3>3 DEF Backs
        <5>1. m.op = "add"
          <6>. SUFFICES ASSUME m.op = "remove" PROVE FALSE
            BY <2>4
          <6>1. IsRemove(Head(down[t]), n)
            BY <2>3, <2>4 DEF IsRemove
          <6>2. RemovedBefore(down[t], n) /\ NoResp(down[t], n)
            BY <3>3, <4>1 DEF Backs, AskedOnce
          <6>. QED BY <2>4, <6>1, <6>2, TailHolds
        <5>2. m.sig \in Versions
          <6>1. CmdsUpTo(down[t], count.cmds)
            BY DEF Numbered
          <6>. QED BY <2>3, <2>4, <5>1, <6>1, TailNumbers
        <5>3. Applied(m).value = m.sig /\ m.sig # 0
          BY <5>1, <5>2, SyncAssumption DEF Applied
        <5>. QED BY <1>0, <2>4, <5>3
      <4>. QED BY <4>3, <4>4
    <3>. QED BY <1>k, <2>1, <2>2, <3>3
  <2>. QED BY <2>5, <2>6
<1>10. ASSUME NEW k \in Names, NEW v \in Versions, UiAdd(k, v) PROVE Backed'
  <2>1. /\ proc' = [proc EXCEPT !.phase = "adding", !.adding = k]
        /\ proc.phase = "ready" /\ local[k].sig = 0
        /\ local' = [local EXCEPT ![k] = [sig |-> v, dynamic |-> TRUE]]
        /\ up' = Sent(proc.cur, <<NewProxy(k, v)>>)
        /\ UNCHANGED <<boot, srv, down>>
    BY <1>10 DEF UiAdd
  <2>2. /\ proc'.cur = proc.cur /\ proc'.phase = "adding" /\ proc'.adding = k
        /\ proc'.withdrawn = proc.withdrawn /\ proc'.misled = proc.misled
    BY <1>0, <2>1 DEF Process
  <2>3. PICK t \in Sessions : t = proc.cur
    BY <1>c, <2>1
  <2>4. PICK m \in Messages : up' = Sent(proc.cur, <<m>>) /\ m.type = "new" /\ m.name = k
    <3>1. NewProxy(k, v) \in Messages
      BY MessagesMade
    <3>2. NewProxy(k, v).type = "new" /\ NewProxy(k, v).name = k
      BY DEF NewProxy
    <3>. QED BY <2>1, <3>1, <3>2
  <2>5. ASSUME NEW n \in Names, Backs(t, n)
        PROVE  AskedOnce(t, n)' /\ (Fresh(t, n) => RemovedBefore(down'[t], n) /\ local'[n].sig # 0)
    <3>1. NoNew(up[t], n) /\ NoResp(down[t], n)
      BY <2>1, <2>5 DEF Backs, AskedOnce, Adding
    <3>2. CASE n # k
      <4>1. ~Adding(n) /\ ~IsNew(m, n) /\ local'[n] = local[n]
        BY <1>0, <2>1, <2>4, <3>2 DEF Adding, IsNew
      <4>2. (NoNew(up[t], n) => NoNew(up'[t], n)) /\ (OneNew(up[t], n) => OneNew(up'[t], n))
        BY <1>s, <2>3, <2>4, <4>1
      <4>3. AskedOnce(t, n)' /\ (Fresh(t, n) => RemovedBefore(down'[t], n))
        BY <1>q, <2>1, <2>5, <4>1, <4>2
      <4>. QED BY <2>5, <4>1, <4>3 DEF Backs
    <3>3. CASE n = k
      <4>1. ~Fresh(t, n)
        BY <2>1, <2>5, <3>3 DEF Backs
      <4>2. OneNew(up'[t], n)
        <5>1. up'[t] = up[t] \/ up'[t] = Append(up[t], m)
          BY <2>3, <2>4, SentOne
        <5>2. OneNew(up[t], n)
          BY <3>1 DEF NoNew, OneNew
        <5>3. OneNew(Append(up[t], m), n)
          BY <1>0, <3>1, LongerHolds
        <5>. QED BY <5>1, <5>2, <5>3
      <4>3. NoResp(down'[t], n) /\ OneResp(down'[t], n)
        BY <2>1, <3>1 DEF NoResp, OneResp
      <4>4. Adding(n)'
        BY <2>2, <3>3 DEF Adding
      <4>. QED BY <4>1, <4>2, <4>3, <4>4 DEF AskedOnce
    <3>. QED BY <3>2, <3>3
  <2>. QED BY <1>k, <2>1, <2>2, <2>3, <2>5
<1>11. CASE UiAddTimesOut
  <2>1. /\ proc' = [proc EXCEPT !.phase = "ready", !.adding = 0, !.withdrawn = proc.withdrawn \cup {proc.adding}]
        /\ proc.phase = "adding" /\ local' = Lost(proc.adding)
        /\ UNCHANGED <<boot, srv, up, down>>
    BY <1>11 DEF UiAddTimesOut
  <2>2. /\ proc'.cur = proc.cur
        /\ proc'.withdrawn = proc.withdrawn \cup {proc.adding} /\ proc'.misled = proc.misled
    BY <1>0, <2>1 DEF Process
  <2>3. PICK t \in Sessions : t = proc.cur
    BY <1>c, <2>1
  <2>4. ASSUME NEW n \in Names, ~Explained(n)', Backs(t, n)
        PROVE  AskedOnce(t, n)' /\ (Fresh(t, n) => RemovedBefore(down'[t], n) /\ local'[n].sig # 0)
    <3>1. n # proc.adding
      BY <1>x, <2>2, <2>4
    <3>2. ~Adding(n) /\ local'[n] = local[n]
      BY <1>0, <2>1, <3>1 DEF Adding, Lost
    <3>3. AskedOnce(t, n)' /\ (Fresh(t, n) => RemovedBefore(down'[t], n))
      BY <1>q, <2>1, <2>4, <3>2
    <3>. QED BY <2>4, <3>2, <3>3 DEF Backs
  <2>. QED BY <1>k, <2>1, <2>2, <2>3, <2>4
<1>12. ASSUME NEW k \in Names, UiRemove(k) PROVE Backed'
  <2>1. /\ proc' = [proc EXCEPT !.withdrawn = proc.withdrawn \cup {k}, !.uiRemoved = proc.uiRemoved \cup {k}]
        /\ proc.phase = "ready" /\ local' = Lost(k)
        /\ up' = Sent(proc.cur, <<CloseProxy(k)>>)
        /\ UNCHANGED <<boot, srv, down>>
    BY <1>12 DEF UiRemove
  <2>2. /\ proc'.cur = proc.cur
        /\ proc'.withdrawn = proc.withdrawn \cup {k} /\ proc'.misled = proc.misled
    BY <1>0, <2>1 DEF Process
  <2>3. PICK t \in Sessions : t = proc.cur
    BY <1>c, <2>1
  <2>4. ASSUME NEW n \in Names, ~Explained(n)', Backs(t, n)
        PROVE  AskedOnce(t, n)' /\ (Fresh(t, n) => RemovedBefore(down'[t], n) /\ local'[n].sig # 0)
    <3>1. n # k
      BY <1>x, <2>2, <2>4
    <3>2. ~Adding(n) /\ local'[n] = local[n]
      BY <1>0, <2>1, <3>1 DEF Adding, Lost
    <3>3. CloseProxy(k) \in Messages /\ ~IsNew(CloseProxy(k), n)
      BY MessagesMade DEF CloseProxy, IsNew
    <3>4. (NoNew(up[t], n) => NoNew(up'[t], n)) /\ (OneNew(up[t], n) => OneNew(up'[t], n))
      BY <1>s, <2>1, <2>3, <3>3
    <3>5. AskedOnce(t, n)' /\ (Fresh(t, n) => RemovedBefore(down'[t], n))
      BY <1>q, <2>1, <2>4, <3>2, <3>4
    <3>. QED BY <2>4, <3>2, <3>5 DEF Backs
  <2>. QED BY <1>k, <2>1, <2>2, <2>3, <2>4
<1>. QED BY <1>1, <1>2, <1>3, <1>4, <1>5, <1>6, <1>7, <1>8, <1>9, <1>10, <1>11, <1>12 DEF ClientStep

-----------------------------------------------------------------------------
(* The theorems.                                                           *)

\* Before anything happened nobody has asked for anything.
LEMMA SidesStart == SyncInit => Backed /\ Numbered /\ Agreement
<1>. SUFFICES ASSUME SyncInit PROVE Backed /\ Numbered /\ Agreement
  OBVIOUS
<1>1. /\ proc = Off /\ panel = NoRequest /\ up = [s \in Sessions |-> <<>>] /\ down = [s \in Sessions |-> <<>>]
  BY DEF SyncInit
<1>2. proc.cur = NoConn /\ panel.stage = "idle"
  BY <1>1 DEF Off, NoRequest
<1>3. Backed
  BY <1>2 DEF Backed, Live, Sessions, NoConn
<1>4. Numbered
  BY <1>1, <1>2 DEF Numbered, AcksUpTo, CmdsUpTo
<1>5. Agreement
  BY <1>2 DEF Agreement, Agreed
<1>. QED BY <1>3, <1>4, <1>5

\* What both sides know of each other stays so through every step.
LEMMA SidesStep ==
  ASSUME SyncTypes, Ages, AddingOwn, Backed, Numbered, Agreement, [SyncNext]_syncVars
  PROVE  Backed' /\ Numbered' /\ Agreement'
<1>1. CASE ClientStep
  BY <1>1, ClientStepBacked, ClientStepNumbered, ClientStepAgrees
<1>2. CASE PanelStep
  BY <1>2, PanelStepBacked, PanelStepNumbered, PanelStepAgrees
<1>3. ASSUME NEW s \in Sessions, ServerStep(s) PROVE Backed' /\ Numbered' /\ Agreement'
  BY <1>3, ServerStepBacked, ServerStepNumbered, ServerStepAgrees
<1>4. CASE UNCHANGED syncVars
  <2>1. UNCHANGED <<proc, boot, local, srv, up, down, panel, count>>
    BY <1>4 DEF syncVars
  <2>2. Numbered'
    BY <2>1 DEF Numbered
  <2>3. Agreement'
    BY <2>1 DEF Agreement, Agreed, Explained, Listed
  <2>4. Backed'
    BY <2>1 DEF Backed, Live, Explained, Listed, Backs, AskedOnce, Adding, Fresh
  <2>. QED BY <2>2, <2>3, <2>4
<1>. QED BY <1>1, <1>2, <1>3, <1>4 DEF SyncNext

\* Client, server and panel together: the invariant from which the rest follows
\* (main.rs, serve.rs handle_control, admin.rs 157-254).
THEOREM SyncInvariance == SyncSpec => []SyncIInv
<1>1. SyncInit => SyncIInv
  BY TypesStart, AgesStart, ReconcilingStart, ConfigStart, SidesStart, GaugeStart DEF SyncIInv
<1>2. SyncIInv /\ [SyncNext]_syncVars => SyncIInv'
  <2>. SUFFICES ASSUME SyncIInv, [SyncNext]_syncVars PROVE SyncIInv'
    OBVIOUS
  <2>0. SyncTypes /\ Ages /\ Reconciling /\ ConfigKept /\ AddingOwn /\ Backed /\ Numbered /\ Agreement /\ GaugeNotLow
    BY DEF SyncIInv
  <2>1. SyncTypes'
    BY <2>0, TypesStep
  <2>2. Ages'
    BY <2>0, <2>1, AgesStep
  <2>3. Reconciling'
    BY <2>0, ReconcilingStep
  <2>4. ConfigKept' /\ AddingOwn'
    BY <2>0, ConfigStep
  <2>5. Backed' /\ Numbered' /\ Agreement'
    BY <2>0, SidesStep
  <2>6. GaugeNotLow'
    BY <2>0, GaugeStep
  <2>. QED BY <2>1, <2>2, <2>3, <2>4, <2>5, <2>6 DEF SyncIInv
<1>. QED BY <1>1, <1>2, PTL DEF SyncSpec

\* Every variable of the client process, the ClientStates, the connections and
\* the panel's request has its type in every reachable state.
THEOREM SyncTypeCorrect == SyncSpec => []SyncTypeOK
<1>1. SyncIInv => SyncTypeOK
  <2>. SUFFICES ASSUME SyncTypes PROVE SyncTypeOK
    BY DEF SyncIInv
  <2>1. proc \in Process /\ panel \in Request /\ srv \in [Sessions -> State]
        /\ up \in [Sessions -> Seq(Messages)] /\ down \in [Sessions -> Seq(Messages)]
    BY DEF SyncTypes
  <2>2. ASSUME NEW s \in Sessions
        PROVE  /\ srv[s].link \in {"none", "up", "parked", "gone"}
               /\ srv[s].table \in [Names -> [sig : Versions \cup {0}, seen : 0..MaxResumes]]
               /\ \A i \in DOMAIN up[s] : up[s][i] \in Messages
               /\ \A i \in DOMAIN down[s] : down[s][i] \in Messages
    <3>1. srv[s].link \in {"none", "up", "parked", "gone"} /\ srv[s].table \in [Names -> Entry]
      BY <2>1 DEF State
    <3>2. up[s] \in Seq(Messages) /\ down[s] \in Seq(Messages)
      BY <2>1
    <3>. QED BY <3>1, <3>2, LenProperties DEF Entry
  <2>3. /\ proc.phase \in {"off", "down", "reg", "ready", "adding"}
        /\ proc.cur \in Sessions \cup {NoConn}
        /\ {proc.pending, proc.withdrawn, proc.misled, proc.uiRemoved} \subseteq SUBSET Names
        /\ panel.stage \in {"idle", "add", "register", "undo", "remove"}
    BY <2>1 DEF Process, Request, Stages
  <2>. QED BY <2>2, <2>3 DEF SyncTypes, SyncTypeOK
<1>. QED BY <1>1, SyncInvariance, PTL

\* Where no role's limit refuses a proxy, the end of a reconciliation leaves
\* nothing in the server's table that this connection did not bring, and the
\* gauge counts at least what is there (serve.rs 1653, 2007).
THEOREM TableAccountedHolds ==
  ASSUME MaxProxies = 0
  PROVE  SyncSpec => []TableAccounted
<1>1. SyncIInv => TableAccounted
  <2>. SUFFICES ASSUME SyncIInv PROVE NoLeftover
    BY DEF TableAccounted, SyncIInv
  <2>1. \A s \in Sessions : srv[s].link = "up" => LeftoverListed(s)
    BY DEF SyncIInv, Reconciling, Reconciles
  <2>. QED BY <2>1 DEF NoLeftover, LeftoverListed
<1>. QED BY <1>1, SyncInvariance, PTL

\* Reconciliation (handle_control on ResumeCommit, and the tick) takes nothing
\* the client reported on this connection, however its list is cut into frames.
THEOREM ReportedSurvivesHolds == SyncSpec => ReportedSurvives
<1>1. SyncIInv /\ [SyncNext]_syncVars =>
        [\A s \in Sessions :
           srv[s].resumed /\ srv[s].link = "up" /\ ~srv'[s].resumed /\ srv'[s].link = "up"
             => \A n \in srv[s].said : srv'[s].table[n] = srv[s].table[n]]_syncVars
  BY ReportedKept DEF SyncIInv
<1>. QED BY <1>1, SyncInvariance, PTL DEF SyncSpec, ReportedSurvives

\* The user's file stays in force on the client, and in a settled session every
\* registered proxy is known to the client, or its own list, its withdrawal or
\* another proxy's answer explains it (client registry.rs 136-177, admin.rs 157-254).
THEOREM SidesAgreeHolds == SyncSpec => []SidesAgree
<1>1. SyncIInv => SidesAgree
  <2>. SUFFICES ASSUME SyncIInv PROVE HolesExplained
    BY DEF SidesAgree, SyncIInv
  <2>. SUFFICES ASSUME NEW s \in Sessions, Settled(s), NEW n \in Holes(s)
                PROVE  n \in Listed(boot) \cup proc.withdrawn \cup proc.misled
    BY DEF HolesExplained
  <2>1. /\ proc.cur = s /\ srv[s].link = "up" /\ ~srv[s].resumed
        /\ n \in Names /\ n \in Named(srv[s].table) /\ local[n].sig = 0
    BY DEF Settled, Holes, Named
  <2>2. CASE n \in Stale(s)
    <3>1. LeftoverListed(s)
      BY <2>1 DEF SyncIInv, Reconciling, Reconciles
    <3>. QED BY <2>1, <2>2, <3>1 DEF LeftoverListed
  <2>3. CASE n \notin Stale(s)
    <3>1. Fresh(s, n)
      BY <2>1, <2>3 DEF Fresh, Stale
    <3>2. ~Explained(n) => local[n].sig # 0
      BY <2>1, <3>1 DEF SyncIInv, Backed, Backs, Live
    <3>. QED BY <2>1, <3>2 DEF Explained
  <2>. QED BY <2>2, <2>3
<1>. QED BY <1>1, SyncInvariance, PTL

-----------------------------------------------------------------------------
(* The token a session is resumed with.                                    *)

\* The tokens that wait were issued, are unused and differ from each other.
WaitingUnused ==
  \A s \in Session : pending[s] # None =>
    /\ pending[s].n \in 1..serial
    /\ pending[s].n \notin used

WaitingDiffer ==
  \A s, x \in Session :
    s # x /\ pending[s] # None /\ pending[x] # None => pending[s].n # pending[x].n

\* A connection the server works on has a session.
BusyHasSession == \A c \in Conn : phase[c] # "new" => sess[c] \in Session

IInv == TypeOK /\ BusyHasSession /\ WaitingUnused /\ WaitingDiffer

USE ResumeTokensAssumption, NoneIsNoToken

-----------------------------------------------------------------------------
\* What issue retains is what waited, or nothing (PendingTokens.issue).
LEMMA RetainedKeeps ==
  ASSUME TypeOK
  PROVE  /\ Retained \in [Session -> Token \cup {None}]
         /\ \A s \in Session : Retained[s] \in {None, pending[s]}
  BY DEF Retained, TypeOK

\* The table after issue: the new token for one session, what was retained for
\* the others.
LEMMA WithReplaces ==
  ASSUME TypeOK, NEW s \in Session, NEW t \in Token
  PROVE  /\ With(s, t) \in [Session -> Token \cup {None}]
         /\ With(s, t)[s] = t
         /\ \A x \in Session \ {s} : With(s, t)[x] \in {None, pending[x]}
  BY RetainedKeeps DEF With

\* What consume leaves of a session's token: it, or nothing, and nothing when it
\* was accepted.
LEMMA WithoutKeeps ==
  ASSUME NEW s \in Session, NEW t
  PROVE  /\ Without(s, t) \in {None, pending[s]}
         /\ Accepted(s, t) => Without(s, t) = None
  BY DEF Without, Accepted

\* A new token has the next serial number.
LEMMA NewTokenType == TypeOK => NewToken \in Token /\ NewToken.n = serial + 1
  BY DEF TypeOK, NewToken, Token

-----------------------------------------------------------------------------
\* Before the first dial no token waits (ClientNLink, PendingTokens::new).
LEMMA InitInv == Init => IInv
  BY DEF Init, IInv, TypeOK, BusyHasSession, WaitingUnused, WaitingDiffer

\* Dialing shows a token and changes no table (ClientNLink::preamble).
LEMMA DialInv == ASSUME IInv, NEW s \in Session, NEW c \in Conn, Dial(s, c) PROVE IInv'
  <1>1. TypeOK'
    BY DEF IInv, TypeOK, Dial, Working
  <1>2. BusyHasSession'
    BY DEF IInv, TypeOK, BusyHasSession, Dial
  <1>3. WaitingUnused' /\ WaitingDiffer'
    BY DEF IInv, WaitingUnused, WaitingDiffer, Dial
  <1> QED BY <1>1, <1>2, <1>3 DEF IInv

\* The token that is used stops waiting in the same step (PendingTokens::consume).
LEMMA ConsumeInv == ASSUME IInv, NEW c \in Conn, Consume(c) PROVE IInv'
  <1> DEFINE s == sess[c]  t == shown[c]
  <1>s. s \in Session
    BY DEF Consume, IInv, BusyHasSession
  <1>ty. TypeOK
    BY DEF IInv
  <1>p. pending' \in [Session -> Token \cup {None}]
    BY <1>s, <1>ty, WithoutKeeps DEF TypeOK, Consume
  <1>k. \A x \in Session : pending'[x] \in {None, pending[x]}
    BY <1>s, <1>ty, WithoutKeeps DEF TypeOK, Consume
  <1>u. \/ used' = used
        \/ /\ pending[s] # None /\ pending'[s] = None
           /\ used' = used \cup {pending[s].n}
    BY <1>s, <1>ty, WithoutKeeps DEF TypeOK, Consume, Accepted
  <1>n. serial' = serial
    BY DEF Consume
  <1>1. TypeOK'
    <2>1. used' \subseteq 1..serial
      <3>1. used \subseteq 1..serial
        BY <1>ty DEF TypeOK
      <3>2. pending[s] # None => pending[s].n \in 1..serial
        BY <1>s DEF IInv, WaitingUnused
      <3> QED BY <3>1, <3>2, <1>u
    <2>2. phase' \in [Conn -> {"new"} \cup Working \cup {"up", "over"}]
      BY <1>ty DEF TypeOK, Consume, Working
    <2>3. ok' \in [Conn -> BOOLEAN]
      <3>1. Accepted(s, t) \in BOOLEAN
        BY DEF Accepted
      <3> QED BY <3>1, <1>ty DEF TypeOK, Consume
    <2> QED BY <2>1, <2>2, <2>3, <1>p, <1>n, <1>ty DEF TypeOK, Consume, clientVars
  <1>2. BusyHasSession'
    BY <1>s, <1>ty DEF IInv, TypeOK, BusyHasSession, Consume
  <1>3. WaitingUnused'
    BY <1>k, <1>u, <1>n, <1>s DEF IInv, WaitingUnused, WaitingDiffer
  <1>4. WaitingDiffer'
    BY <1>k DEF IInv, WaitingDiffer
  <1> QED BY <1>1, <1>2, <1>3, <1>4 DEF IInv

\* The new token has a serial number nothing else has (issue_resume_token).
LEMMA IssueInv == ASSUME IInv, NEW c \in Conn, Issue(c) PROVE IInv'
  <1> DEFINE s == sess[c]
  <1>ty. TypeOK
    BY DEF IInv
  <1>s. s \in Session
    BY DEF Issue, IInv, BusyHasSession
  <1>t. NewToken \in Token /\ NewToken.n = serial + 1
    BY <1>ty, NewTokenType
  <1>w. /\ pending' \in [Session -> Token \cup {None}]
        /\ pending'[s] = NewToken
        /\ \A x \in Session \ {s} : pending'[x] \in {None, pending[x]}
    BY <1>ty, <1>s, <1>t, WithReplaces DEF Issue
  <1>n. serial' = serial + 1 /\ used' = used
    BY DEF Issue
  <1>r. serial \in Nat /\ used \subseteq 1..serial
    BY <1>ty DEF TypeOK
  <1>1. TypeOK'
    <2>1. phase' \in [Conn -> {"new"} \cup Working \cup {"up", "over"}]
      BY <1>ty DEF TypeOK, Issue, Working
    <2>2. fresh' \in [Conn -> Token \cup {None}]
      BY <1>ty, <1>t DEF TypeOK, Issue
    <2>3. serial' \in Nat /\ used' \subseteq 1..serial'
      BY <1>n, <1>r
    <2> QED BY <2>1, <2>2, <2>3, <1>w, <1>ty DEF TypeOK, Issue, clientVars
  <1>2. BusyHasSession'
    BY <1>s, <1>ty DEF IInv, TypeOK, BusyHasSession, Issue
  <1>3. WaitingUnused'
    BY <1>w, <1>t, <1>n, <1>r DEF IInv, WaitingUnused
  <1>4. WaitingDiffer'
    BY <1>w, <1>t, <1>r DEF IInv, WaitingUnused, WaitingDiffer
  <1> QED BY <1>1, <1>2, <1>3, <1>4 DEF IInv

\* The other steps touch neither the table nor the serial numbers.
LEMMA OtherInv ==
  ASSUME IInv, UNCHANGED <<pending, serial, used, sess>>,
         \A c \in Conn : phase'[c] # "new" => phase[c] # "new",
         TypeOK'
  PROVE  IInv'
  BY DEF IInv, BusyHasSession, WaitingUnused, WaitingDiffer

\* The client's loss of its connection reaches no table of the server.
LEMMA LoseInv == ASSUME IInv, NEW s \in Session, Lose(s) PROVE IInv'
  <1>1. TypeOK'
    BY DEF IInv, TypeOK, Lose, connVars
  <1> QED BY <1>1, OtherInv DEF Lose, connVars

\* A sweep ends parked sessions, not tokens (sweep_suspended).
LEMMA SweepInv == ASSUME IInv, NEW s \in Session, Sweep(s) PROVE IInv'
  <1>1. TypeOK'
    BY DEF IInv, TypeOK, Sweep, connVars, clientVars
  <1> QED BY <1>1, OtherInv DEF Sweep, connVars

\* Taking the parked session leaves the tokens alone (take_suspended_if).
LEMMA TakeInv == ASSUME IInv, NEW c \in Conn, Take(c) PROVE IInv'
  <1>1. TypeOK'
    BY DEF IInv, TypeOK, BusyHasSession, Take, connVars, clientVars, Working
  <1> QED BY <1>1, OtherInv DEF Take, connVars, IInv, TypeOK

\* A token sent is still the one that waits (send_nlink, set_resume_token).
LEMMA SendInv == ASSUME IInv, NEW c \in Conn, Send(c) PROVE IInv'
  <1>1. TypeOK'
    BY DEF IInv, TypeOK, Send, connVars, Working
  <1> QED BY <1>1, OtherInv DEF Send, connVars, IInv, TypeOK

\* A failed write ends the task and leaves the token waiting (send_nlink).
LEMMA SendFailsInv == ASSUME IInv, NEW c \in Conn, SendFails(c) PROVE IInv'
  <1>1. TypeOK'
    BY DEF IInv, TypeOK, SendFails, connVars, clientVars, Working
  <1> QED BY <1>1, OtherInv DEF SendFails, connVars, IInv, TypeOK

\* Parking a session leaves its token waiting (suspend).
LEMMA EndInv == ASSUME IInv, NEW c \in Conn, End(c) PROVE IInv'
  <1>1. TypeOK'
    BY DEF IInv, TypeOK, BusyHasSession, End, connVars, clientVars, Working
  <1> QED BY <1>1, OtherInv DEF End, connVars, IInv, TypeOK

\* So does an end without parking (insert refused, kick).
LEMMA QuitInv == ASSUME IInv, NEW c \in Conn, Quit(c) PROVE IInv'
  <1>1. TypeOK'
    BY DEF IInv, TypeOK, Quit, connVars, clientVars, Working
  <1> QED BY <1>1, OtherInv DEF Quit, connVars, IInv, TypeOK

\* Time changes which tokens are accepted, not which wait.
LEMMA TickInv == ASSUME IInv, Tick PROVE IInv'
  <1>1. TypeOK'
    BY DEF IInv, TypeOK, Tick, connVars, clientVars
  <1> QED BY <1>1, OtherInv DEF Tick, connVars

\* A step that changes nothing keeps the invariant.
LEMMA StutterInv == IInv /\ UNCHANGED vars => IInv'
  BY DEF IInv, TypeOK, BusyHasSession, WaitingUnused, WaitingDiffer, vars, connVars,
         clientVars

\* Every step of Next keeps the invariant.
LEMMA NextInv == IInv /\ [Next]_vars => IInv'
  BY DialInv, ConsumeInv, IssueInv, LoseInv, SweepInv, TakeInv, SendInv, SendFailsInv,
     EndInv, QuitInv, TickInv, StutterInv DEF Next

-----------------------------------------------------------------------------
\* Waiting tokens are unused and all different in every reachable state.
THEOREM Invariance == Spec => []IInv
  BY InitInv, NextInv, PTL DEF Spec

\* Every variable keeps its type.
THEOREM TypeCorrect == Spec => []TypeOK
  <1>1. IInv => TypeOK
    BY DEF IInv
  <1> QED BY <1>1, Invariance, PTL

\* A token is accepted once, by whatever number of connections it is shown
\* (PendingTokens.consume).
THEOREM OneUseHolds == Spec => OneUse
  <1> DEFINE Once == \A c \in Conn :
               Checks(c) /\ shown[c] # None /\ ok'[c] => shown[c].n \notin used
  <1>1. IInv /\ [Next]_vars => [Once]_vars
    <2> SUFFICES ASSUME IInv, Next, NEW c \in Conn, Checks(c), shown[c] # None, ok'[c]
                 PROVE  shown[c].n \notin used
      OBVIOUS
    <2>1. Consume(c)
      BY DEF IInv, TypeOK, Checks, Next, Dial, Lose, Sweep, Tick, Take, Issue, Send,
             SendFails, End, Quit, Consume, connVars, clientVars
    <2>2. sess[c] \in Session
      BY <2>1 DEF Consume, IInv, BusyHasSession
    <2>3. Accepted(sess[c], shown[c])
      BY <2>1 DEF Consume, IInv, TypeOK
    <2> QED BY <2>2, <2>3 DEF Accepted, IInv, WaitingUnused
  <1> QED BY <1>1, Invariance, PTL DEF Spec, OneUse

-----------------------------------------------------------------------------
(* What both sides hold, as long as the client waits for an answer before it *)
(* dials again.  A session then has one login at a time, and where that      *)
(* stands decides what the client's token is worth.                          *)

\* The server still expects t, or has dropped it for its age.
Current(s, t) == t \in Token /\ (pending[s] = t \/ (pending[s] = None /\ now >= t.exp))

\* The client's token is none, too old, or used.
Spent(s) == saved[s] # None => now >= saved[s].exp \/ saved[s].n \in used

OneLogin(s) ==
  /\ \A c, d \in LoggingIn(s) : c = d
  /\ dialed[s] # None =>
       /\ phase[dialed[s]] # "new" /\ sess[dialed[s]] = s
       /\ \A d \in LoggingIn(s) : d = dialed[s]

TokenByStage(s) ==
  /\ \A c \in LoggingIn(s) :
       /\ phase[c] = "hello" => shown[c] = saved[s]
       /\ phase[c] # "hello" => Spent(s)
       /\ phase[c] = "issued" => Current(s, fresh[c])
  /\ dialed[s] # None /\ phase[dialed[s]] = "up" => Current(s, saved[s])
  /\ saved[s] # None => pending[s] = saved[s] \/ Spent(s)

SyncAt(s) == OneLogin(s) /\ TokenByStage(s)

Sync == ~overlap => \A s \in Session : SyncAt(s)

\* The server has seen connection c of session s.
At(c, s) == phase[c] # "new" /\ sess[c] = s

\* A step that leaves a session's connections and its client alone keeps what is
\* said of it, though time passes and tokens that are too old are dropped.
LEMMA Frame ==
  ASSUME IInv, NEW x \in Session, SyncAt(x),
         dialed'[x] = dialed[x], saved'[x] = saved[x],
         pending'[x] = pending[x] \/ (pending'[x] = None /\ now >= pending[x].exp),
         used \subseteq used', now' \in Nat, now <= now',
         \A c \in Conn : At(c, x) \/ At(c, x)' =>
           phase'[c] = phase[c] /\ sess'[c] = sess[c] /\ shown'[c] = shown[c] /\ fresh'[c] = fresh[c]
  PROVE  SyncAt(x)'
  <1>0. /\ now \in Nat /\ dialed[x] \in Conn \cup {None} /\ saved[x] \in Token \cup {None}
        /\ None \notin Conn
    BY DEF IInv, TypeOK
  <1>1. /\ LoggingIn(x)' = LoggingIn(x)
        /\ \A c \in LoggingIn(x) : phase'[c] = phase[c] /\ shown'[c] = shown[c] /\ fresh'[c] = fresh[c]
    BY DEF LoggingIn, At, Working
  <1>2. dialed[x] # None => phase'[dialed[x]] = phase[dialed[x]] /\ sess'[dialed[x]] = x
    BY <1>0 DEF SyncAt, OneLogin, At
  <1>3. OneLogin(x)'
    BY <1>1, <1>2 DEF SyncAt, OneLogin
  <1>4. \A t \in Token : t.exp \in Nat
    BY DEF Token
  <1>5. Spent(x) => Spent(x)'
    BY <1>0, <1>4 DEF Spent
  <1>6. saved[x] # None /\ pending[x] = saved[x] => pending'[x] = saved[x] \/ Spent(x)'
    BY <1>0, <1>4 DEF Spent
  <1>7. TokenByStage(x)'
    <2>1. TokenByStage(x)
      BY DEF SyncAt
    <2>2. \A c \in LoggingIn(x)' :
            /\ phase'[c] = "hello" => shown'[c] = saved'[x]
            /\ phase'[c] # "hello" => Spent(x)'
            /\ phase'[c] = "issued" => Current(x, fresh[c])'
      <3>1. \A c \in LoggingIn(x) : phase[c] = "issued" => Current(x, fresh[c])
        BY <2>1 DEF TokenByStage
      <3>2. \A c \in LoggingIn(x) : phase[c] = "issued" => Current(x, fresh[c])'
        BY <1>0, <1>1, <1>4, <3>1 DEF Current
      <3> QED BY <1>1, <1>5, <2>1, <3>2 DEF TokenByStage
    <2>3. dialed'[x] # None /\ phase'[dialed'[x]] = "up" => Current(x, saved[x])'
      BY <1>0, <1>2, <1>4, <2>1 DEF TokenByStage, Current
    <2>4. saved'[x] # None => pending'[x] = saved'[x] \/ Spent(x)'
      BY <1>5, <1>6, <2>1 DEF TokenByStage
    <2> QED BY <2>2, <2>3, <2>4 DEF TokenByStage
  <1> QED BY <1>3, <1>7 DEF SyncAt

\* A session the step does not concern stays as it is, whatever the step.
LEMMA Apart ==
  ASSUME IInv, Next, NEW x \in Session, SyncAt(x),
         dialed'[x] = dialed[x], saved'[x] = saved[x],
         \A c \in Conn : At(c, x) \/ At(c, x)' =>
           phase'[c] = phase[c] /\ sess'[c] = sess[c] /\ shown'[c] = shown[c] /\ fresh'[c] = fresh[c],
         pending'[x] = pending[x] \/ (pending'[x] = None /\ now >= pending[x].exp)
  PROVE  SyncAt(x)'
  <1>1. used \subseteq used'
    BY DEF Next, Dial, Lose, Consume, Take, Issue, Send, SendFails, End, Quit, Sweep, Tick
  <1>2. now' \in Nat /\ now <= now'
    <2>1. now \in Nat /\ (now' = now \/ now' = now + 1)
      BY DEF IInv, TypeOK, Next, Dial, Lose, Consume, Take, Issue, Send, SendFails, End,
             Quit, Sweep, Tick
    <2> QED BY <2>1
  <1> QED BY <1>1, <1>2, Frame

\* A client dials only when no login of its session is under way.
LEMMA DialSync ==
  ASSUME IInv, Sync, ~overlap, NEW s \in Session, NEW c \in Conn, Dial(s, c), NEW x \in Session
  PROVE  SyncAt(x)'
  <1>0. Next /\ SyncAt(x) /\ SyncAt(s)
    BY DEF Next, Sync
  <1>1. CASE x # s
    <2>1. dialed'[x] = dialed[x] /\ saved'[x] = saved[x] /\ pending'[x] = pending[x]
      BY <1>1 DEF Dial, IInv, TypeOK
    <2>2. \A d \in Conn : At(d, x) \/ At(d, x)' =>
            phase'[d] = phase[d] /\ sess'[d] = sess[d] /\ shown'[d] = shown[d] /\ fresh'[d] = fresh[d]
      <3>1. \A d \in Conn : d # c =>
              phase'[d] = phase[d] /\ sess'[d] = sess[d] /\ shown'[d] = shown[d] /\ fresh'[d] = fresh[d]
        BY DEF Dial, IInv, TypeOK
      <3>2. phase[c] = "new" /\ sess'[c] = s
        BY DEF Dial, IInv, TypeOK
      <3> QED BY <1>1, <3>1, <3>2 DEF At
    <2> QED BY <1>0, <2>1, <2>2, Apart
  <1>2. CASE x = s
    <2>1. /\ dialed'[s] = c /\ phase'[c] = "hello" /\ sess'[c] = s /\ shown'[c] = saved[s]
          /\ saved' = saved /\ pending' = pending /\ used' = used /\ now' = now
          /\ \A d \in Conn : d # c => phase'[d] = phase[d] /\ sess'[d] = sess[d]
      BY DEF Dial, IInv, TypeOK
    <2>2. LoggingIn(s)' = {c}
      BY <2>1 DEF Dial, LoggingIn, Working
    <2>3. OneLogin(s)'
      BY <2>1, <2>2 DEF OneLogin
    <2>4. saved[s] # None => pending[s] = saved[s] \/ Spent(s)
      BY <1>0 DEF SyncAt, TokenByStage
    <2>5. TokenByStage(s)'
      BY <2>1, <2>2, <2>4 DEF TokenByStage, Spent
    <2> QED BY <1>2, <2>3, <2>5 DEF SyncAt
  <1> QED BY <1>1, <1>2

\* A client that hangs up keeps its token.
LEMMA LoseSync ==
  ASSUME IInv, Sync, ~overlap, NEW s \in Session, Lose(s), NEW x \in Session
  PROVE  SyncAt(x)'
  <1>0. Next /\ SyncAt(x)
    BY DEF Next, Sync
  <1>1. /\ UNCHANGED <<pending, saved, phase, sess, shown, fresh, used, now>>
        /\ dialed'[x] \in {dialed[x], None}
    BY DEF Lose, connVars, IInv, TypeOK
  <1>2. LoggingIn(x)' = LoggingIn(x)
    BY <1>1 DEF LoggingIn
  <1> QED BY <1>0, <1>1, <1>2 DEF SyncAt, OneLogin, TokenByStage, Spent, Current

\* What a server task does concerns its own session; issue may drop old tokens of
\* others (PendingTokens::issue).
LEMMA Elsewhere ==
  ASSUME IInv, Sync, ~overlap, NEW c \in Conn, NEW x \in Session, phase[c] # "new", x # sess[c],
         Consume(c) \/ Take(c) \/ Issue(c) \/ Send(c) \/ SendFails(c) \/ End(c) \/ Quit(c)
  PROVE  SyncAt(x)'
  <1>0. Next /\ SyncAt(x) /\ TypeOK /\ sess[c] \in Session
    BY DEF Next, Sync, IInv, BusyHasSession
  <1>1. dialed' = dialed /\ saved'[x] = saved[x] /\ sess' = sess
    BY <1>0 DEF TypeOK, Consume, Take, Issue, Send, SendFails, End, Quit, clientVars, connVars
  <1>2. \A d \in Conn : d # c => phase'[d] = phase[d] /\ shown'[d] = shown[d] /\ fresh'[d] = fresh[d]
    BY <1>0 DEF TypeOK, Consume, Take, Issue, Send, SendFails, End, Quit, clientVars, connVars
  <1>3. \A d \in Conn : At(d, x) \/ At(d, x)' =>
          phase'[d] = phase[d] /\ sess'[d] = sess[d] /\ shown'[d] = shown[d] /\ fresh'[d] = fresh[d]
    BY <1>1, <1>2 DEF At
  <1>4. pending'[x] = pending[x] \/ (pending'[x] = None /\ now >= pending[x].exp)
    <2>1. CASE Issue(c)
      BY <1>0, <2>1 DEF TypeOK, Issue, With, Retained
    <2>2. CASE Consume(c) \/ Take(c) \/ Send(c) \/ SendFails(c) \/ End(c) \/ Quit(c)
      BY <1>0, <2>2 DEF TypeOK, Consume, Take, Send, SendFails, End, Quit
    <2> QED BY <2>1, <2>2
  <1> QED BY <1>0, <1>1, <1>3, <1>4, Apart

\* The token the client shows is its own; whatever becomes of it, it is spent.
LEMMA ConsumeSync ==
  ASSUME IInv, Sync, ~overlap, NEW c \in Conn, Consume(c), NEW x \in Session
  PROVE  SyncAt(x)'
  <1>s. PICK s \in Session : s = sess[c]
    BY DEF Consume, IInv, BusyHasSession
  <1>0. TypeOK /\ s = sess[c] /\ SyncAt(s) /\ phase[c] = "hello" /\ c \in LoggingIn(s)
    BY <1>s DEF Consume, IInv, Sync, LoggingIn, Working
  <1>1. CASE x # s
    BY <1>0, <1>1, Elsewhere
  <1>2. CASE x = s
    <2>1. /\ phase' = [phase EXCEPT ![c] = "checked"] /\ phase'[c] = "checked"
          /\ UNCHANGED <<sess, saved, dialed, now>>
      BY <1>0 DEF Consume, clientVars, TypeOK
    <2>2. LoggingIn(s) = {c} /\ LoggingIn(s)' = {c}
      <3>1. LoggingIn(s) = {c}
        BY <1>0 DEF SyncAt, OneLogin, LoggingIn
      <3>2. \A d \in Conn : phase'[d] \in Working <=> phase[d] \in Working
        BY <1>0, <2>1 DEF Working, TypeOK
      <3>3. LoggingIn(s)' = LoggingIn(s)
        BY <2>1, <3>2 DEF LoggingIn
      <3> QED BY <3>1, <3>3
    <2>3. dialed[s] # None => dialed[s] = c
      BY <1>0 DEF SyncAt, OneLogin
    <2>4. OneLogin(s)'
      BY <1>0, <2>1, <2>2, <2>3 DEF SyncAt, OneLogin
    <2>5. Spent(s)'
      <3>1. shown[c] = saved[s] /\ (saved[s] # None => pending[s] = saved[s] \/ Spent(s))
        BY <1>0 DEF SyncAt, TokenByStage
      <3>2. used \subseteq used'
        BY DEF Consume
      <3>3. CASE saved[s] # None /\ pending[s] = saved[s] /\ now < saved[s].exp
        <4>1. Accepted(s, shown[c]) /\ shown[c] # None
          BY <3>1, <3>3 DEF Accepted
        <4>2. used' = used \cup {saved[s].n}
          BY <1>0, <4>1, <3>1 DEF Consume
        <4> QED BY <4>2, <2>1 DEF Spent
      <3>4. CASE saved[s] # None /\ pending[s] = saved[s] /\ ~(now < saved[s].exp)
        <4>1. now \in Nat /\ saved[s].exp \in Nat
          BY <1>0, <3>4 DEF TypeOK, Token
        <4> QED BY <4>1, <3>4, <2>1 DEF Spent
      <3>5. CASE saved[s] = None \/ Spent(s)
        BY <3>5, <2>1, <3>2 DEF Spent
      <3> QED BY <3>1, <3>3, <3>4, <3>5
    <2>6. TokenByStage(s)'
      <3>1. \A d \in LoggingIn(s)' : d = c /\ phase'[d] \notin {"hello", "issued"}
        BY <2>1, <2>2
      <3>2. dialed'[s] # None => phase'[dialed'[s]] # "up"
        BY <2>1, <2>3
      <3> QED BY <2>5, <3>1, <3>2 DEF TokenByStage
    <2> QED BY <1>2, <2>4, <2>6 DEF SyncAt
  <1> QED BY <1>1, <1>2

\* The session that is taken has the login's stage and tokens unchanged.
LEMMA TakeSync ==
  ASSUME IInv, Sync, ~overlap, NEW c \in Conn, Take(c), NEW x \in Session
  PROVE  SyncAt(x)'
  <1>s. PICK s \in Session : s = sess[c]
    BY DEF Take, IInv, BusyHasSession
  <1>0. TypeOK /\ s = sess[c] /\ SyncAt(s) /\ phase[c] = "checked" /\ c \in LoggingIn(s)
    BY <1>s DEF Take, IInv, Sync, LoggingIn, Working
  <1>1. CASE x # s
    BY <1>0, <1>1, Elsewhere
  <1>2. CASE x = s
    <2>1. /\ phase' = [phase EXCEPT ![c] = "decided"] /\ phase'[c] = "decided"
          /\ UNCHANGED <<sess, saved, dialed, now, pending, used>>
      BY <1>0 DEF Take, clientVars, connVars, TypeOK
    <2>2. LoggingIn(s) = {c} /\ LoggingIn(s)' = {c}
      <3>1. LoggingIn(s) = {c}
        BY <1>0 DEF SyncAt, OneLogin, LoggingIn
      <3>2. \A d \in Conn : phase'[d] \in Working <=> phase[d] \in Working
        BY <1>0, <2>1 DEF Working, TypeOK
      <3>3. LoggingIn(s)' = LoggingIn(s)
        BY <2>1, <3>2 DEF LoggingIn
      <3> QED BY <3>1, <3>3
    <2>3. dialed[s] # None => dialed[s] = c
      BY <1>0 DEF SyncAt, OneLogin
    <2>4. OneLogin(s)'
      BY <1>0, <2>1, <2>2, <2>3 DEF SyncAt, OneLogin
    <2>5. Spent(s)'
      BY <1>0, <2>1 DEF SyncAt, TokenByStage, Spent
    <2>6. TokenByStage(s)'
      <3>1. \A d \in LoggingIn(s)' : d = c /\ phase'[d] \notin {"hello", "issued"}
        BY <2>1, <2>2
      <3>2. dialed'[s] # None => phase'[dialed'[s]] # "up"
        BY <2>1, <2>3
      <3> QED BY <2>5, <3>1, <3>2 DEF TokenByStage
    <2> QED BY <1>2, <2>4, <2>6 DEF SyncAt
  <1> QED BY <1>1, <1>2

\* The token issued is the one the server expects, until it is too old.
LEMMA IssueSync ==
  ASSUME IInv, Sync, ~overlap, NEW c \in Conn, Issue(c), NEW x \in Session
  PROVE  SyncAt(x)'
  <1>s. PICK s \in Session : s = sess[c]
    BY DEF Issue, IInv, BusyHasSession
  <1>0. TypeOK /\ s = sess[c] /\ SyncAt(s) /\ phase[c] = "decided" /\ c \in LoggingIn(s)
    BY <1>s DEF Issue, IInv, Sync, LoggingIn, Working
  <1>1. CASE x # s
    BY <1>0, <1>1, Elsewhere
  <1>2. CASE x = s
    <2>1. /\ phase' = [phase EXCEPT ![c] = "issued"] /\ phase'[c] = "issued"
          /\ UNCHANGED <<sess, saved, dialed, now, used>>
      BY <1>0 DEF Issue, clientVars, TypeOK
    <2>2. fresh'[c] \in Token /\ pending'[s] = fresh'[c]
      BY <1>0, NewTokenType, WithReplaces DEF Issue, TypeOK
    <2>3. LoggingIn(s) = {c} /\ LoggingIn(s)' = {c}
      <3>1. LoggingIn(s) = {c}
        BY <1>0 DEF SyncAt, OneLogin, LoggingIn
      <3>2. \A d \in Conn : phase'[d] \in Working <=> phase[d] \in Working
        BY <1>0, <2>1 DEF Working, TypeOK
      <3>3. LoggingIn(s)' = LoggingIn(s)
        BY <2>1, <3>2 DEF LoggingIn
      <3> QED BY <3>1, <3>3
    <2>4. dialed[s] # None => dialed[s] = c
      BY <1>0 DEF SyncAt, OneLogin
    <2>5. OneLogin(s)'
      BY <1>0, <2>1, <2>3, <2>4 DEF SyncAt, OneLogin
    <2>6. Spent(s)'
      BY <1>0, <2>1 DEF SyncAt, TokenByStage, Spent
    <2>7. TokenByStage(s)'
      <3>1. \A d \in LoggingIn(s)' : d = c /\ phase'[d] # "hello"
        BY <2>1, <2>3
      <3>2. dialed'[s] # None => phase'[dialed'[s]] # "up"
        BY <2>1, <2>4
      <3>3. Current(s, fresh[c])'
        BY <2>2 DEF Current
      <3> QED BY <2>6, <3>1, <3>2, <3>3 DEF TokenByStage
    <2> QED BY <1>2, <2>5, <2>7 DEF SyncAt
  <1> QED BY <1>1, <1>2

\* The login ends here: no other is under way, and a client that still reads has
\* the token the server expects.
LEMMA SendSync ==
  ASSUME IInv, Sync, ~overlap, NEW c \in Conn, Send(c) \/ SendFails(c), NEW x \in Session
  PROVE  SyncAt(x)'
  <1>s. PICK s \in Session : s = sess[c]
    BY DEF Send, SendFails, IInv, BusyHasSession
  <1>0. TypeOK /\ s = sess[c] /\ SyncAt(s) /\ phase[c] = "issued" /\ c \in LoggingIn(s)
    BY <1>s DEF Send, SendFails, IInv, Sync, LoggingIn, Working
  <1>1. CASE x # s
    BY <1>0, <1>1, Elsewhere
  <1>2. CASE x = s
    <2>1. /\ phase'[c] \in {"up", "over"} /\ \A d \in Conn : d # c => phase'[d] = phase[d]
          /\ UNCHANGED <<sess, dialed, now, used, pending, fresh>>
          /\ saved'[s] = IF dialed[s] = c THEN fresh[c] ELSE saved[s]
      BY <1>0 DEF Send, SendFails, connVars, clientVars, TypeOK
    <2>2. LoggingIn(s)' = {}
      <3>1. \A d \in LoggingIn(s) : d = c
        BY <1>0 DEF SyncAt, OneLogin
      <3> QED BY <3>1, <2>1 DEF LoggingIn, Working
    <2>3. dialed[s] # None => dialed[s] = c
      BY <1>0 DEF SyncAt, OneLogin
    <2>4. OneLogin(s)'
      BY <1>0, <2>1, <2>2, <2>3 DEF SyncAt, OneLogin
    <2>5. Current(s, fresh[c]) /\ Spent(s) /\ c # None
      BY <1>0 DEF SyncAt, TokenByStage
    <2>6. TokenByStage(s)'
      <3>1. CASE dialed[s] = c
        <4>1. Current(s, saved[s])'
          BY <2>1, <2>5, <3>1 DEF Current
        <4> QED BY <2>2, <4>1 DEF TokenByStage, Current, Spent
      <3>2. CASE dialed[s] = None
        <4>1. Spent(s)' /\ dialed'[s] = None
          BY <2>1, <2>5, <3>2 DEF Spent
        <4> QED BY <2>2, <4>1 DEF TokenByStage
      <3> QED BY <2>3, <3>1, <3>2
    <2> QED BY <1>2, <2>4, <2>6 DEF SyncAt
  <1> QED BY <1>1, <1>2

\* The end of a connection that was up concerns no login and no token.
LEMMA EndSync ==
  ASSUME IInv, Sync, ~overlap, NEW c \in Conn, End(c) \/ Quit(c), NEW x \in Session
  PROVE  SyncAt(x)'
  <1>s. PICK s \in Session : s = sess[c]
    BY DEF End, Quit, IInv, BusyHasSession
  <1>0. TypeOK /\ s = sess[c] /\ SyncAt(s) /\ phase[c] = "up"
    BY <1>s DEF End, Quit, IInv, Sync
  <1>1. CASE x # s
    BY <1>0, <1>1, Elsewhere
  <1>2. CASE x = s
    <2>1. /\ phase'[c] = "over" /\ \A d \in Conn : d # c => phase'[d] = phase[d]
          /\ UNCHANGED <<sess, shown, dialed, saved, now, used, pending, fresh>>
      BY <1>0 DEF End, Quit, connVars, clientVars, TypeOK
    <2>2. LoggingIn(s)' = LoggingIn(s) /\ c \notin LoggingIn(s)
      <3>1. \A d \in Conn : phase'[d] \in Working <=> phase[d] \in Working
        BY <1>0, <2>1 DEF Working
      <3> QED BY <1>0, <2>1, <3>1 DEF LoggingIn, Working
    <2>3. \A d \in LoggingIn(s) : d \in Conn /\ phase'[d] = phase[d]
      BY <2>1, <2>2 DEF LoggingIn
    <2>4. OneLogin(s)'
      BY <1>0, <2>1, <2>2 DEF SyncAt, OneLogin, TypeOK
    <2>5. TokenByStage(s)'
      <3>1. dialed'[s] # None /\ phase'[dialed'[s]] = "up" => phase[dialed[s]] = "up" /\ dialed[s] # None
        BY <1>0, <2>1 DEF TypeOK
      <3> QED BY <1>0, <2>1, <2>2, <2>3, <3>1 DEF SyncAt, TokenByStage, Spent, Current
    <2> QED BY <1>2, <2>4, <2>5 DEF SyncAt
  <1> QED BY <1>1, <1>2

\* Time and the sweep concern no session's connections.
LEMMA TimeSync ==
  ASSUME IInv, Sync, ~overlap, Tick \/ (\E s \in Session : Sweep(s)), NEW x \in Session
  PROVE  SyncAt(x)'
  <1>1. Next /\ SyncAt(x)
    BY DEF Next, Sync
  <1>2. UNCHANGED <<dialed, saved, pending, phase, sess, shown, fresh>>
    BY DEF Tick, Sweep, clientVars, connVars
  <1> QED BY <1>1, <1>2, Apart

\* Before the first dial the client has no token.
LEMMA InitSync == Init => Sync
  <1> SUFFICES ASSUME Init, NEW s \in Session PROVE SyncAt(s)
    BY DEF Sync
  <1>1. LoggingIn(s) = {} /\ dialed[s] = None /\ saved[s] = None
    BY DEF Init, LoggingIn, Working
  <1> QED BY <1>1 DEF SyncAt, OneLogin, TokenByStage

\* Every step keeps what the client and the server hold in agreement.
LEMMA NextSync == IInv /\ Sync /\ [Next]_vars => Sync'
  <1> SUFFICES ASSUME IInv, Sync, [Next]_vars, ~overlap', NEW x \in Session PROVE SyncAt(x)'
    BY DEF Sync
  <1>1. ~overlap
    BY DEF Next, Dial, Lose, Consume, Take, Issue, Send, SendFails, End, Quit, Sweep, Tick, vars
  <1>2. CASE Next
    BY <1>1, <1>2, DialSync, LoseSync, ConsumeSync, TakeSync, IssueSync, SendSync, EndSync,
       TimeSync DEF Next
  <1>3. CASE UNCHANGED vars
    BY <1>1, <1>3 DEF Sync, SyncAt, OneLogin, TokenByStage, LoggingIn, Spent, Current, vars,
       clientVars, connVars
  <1> QED BY <1>2, <1>3

\* A completed login leaves client and server with the same token, whatever was
\* lost before it, as long as logins of a session do not overlap (issue, resume
\* answer, set_resume_token).
THEOREM HeldIsPendingHolds == Spec => []HeldIsPending
  <1>1. IInv /\ Sync => HeldIsPending
    <2> SUFFICES ASSUME IInv, Sync, ~overlap, NEW s \in Session, NEW c \in Conn,
                        dialed[s] = c, phase[c] = "up"
                 PROVE  /\ saved[s] # None
                        /\ pending[s] = saved[s] \/ (pending[s] = None /\ now >= saved[s].exp)
      BY DEF HeldIsPending
    <2>1. Current(s, saved[s])
      BY DEF Sync, SyncAt, TokenByStage
    <2> QED BY <2>1 DEF Current
  <1> QED BY <1>1, Invariance, InitSync, NextSync, PTL DEF Spec

\* No attempt with another token uses up the one that waits (consume).
LEMMA FailureStep ==
  ASSUME IInv, [Next]_vars, NEW s \in Session, pending[s] # None, now < pending[s].exp,
         pending'[s] # pending[s]
  PROVE  pending[s].n \in used' \/ (pending'[s] # None /\ pending'[s].n > pending[s].n)
  <1>1. PICK c \in Conn : Consume(c) \/ Issue(c)
    BY DEF Next, Dial, Lose, Take, Send, SendFails, End, Quit, Sweep, Tick, vars
  <1>2. TypeOK /\ sess[c] \in Session
    BY <1>1 DEF Consume, Issue, IInv, BusyHasSession
  <1>3. ~(now >= pending[s].exp)
    BY <1>2 DEF TypeOK, Token
  <1>4. CASE Consume(c)
    <2>1. s = sess[c] /\ shown[c] # None
      BY <1>2, <1>4 DEF Consume, TypeOK
    <2>2. shown[c] = pending[s]
      BY <1>2, <1>3, <1>4, <2>1 DEF Consume, TypeOK, Without
    <2> QED BY <1>4, <2>1, <2>2 DEF Consume, Accepted
  <1>5. CASE Issue(c)
    <2>1. s = sess[c]
      BY <1>2, <1>3, <1>5 DEF Issue, With, Retained, TypeOK
    <2>2. pending'[s] = NewToken /\ NewToken \in Token /\ NewToken.n = serial + 1
      BY <1>2, <1>5, <2>1, NewTokenType, WithReplaces DEF Issue
    <2>3. pending[s].n \in 1..serial /\ serial \in Nat
      BY <1>2 DEF IInv, WaitingUnused, TypeOK
    <2> QED BY <2>2, <2>3
  <1> QED BY <1>1, <1>4, <1>5

\* The client's own token is refused only when it is spent (consume).
LEMMA RefusalStep ==
  ASSUME IInv, Sync, [Next]_vars, ~overlap, NEW c \in Conn, Checks(c), shown[c] # None,
         shown[c] = saved[sess[c]]
  PROVE  ok'[c] \/ now >= shown[c].exp \/ shown[c].n \in used
  <1>1. Consume(c)
    BY DEF IInv, TypeOK, Checks, Next, Dial, Lose, Sweep, Tick, Take, Issue, Send,
           SendFails, End, Quit, Consume, connVars, clientVars, vars
  <1>2. TypeOK /\ sess[c] \in Session
    BY <1>1 DEF Consume, IInv, BusyHasSession
  <1>3. pending[sess[c]] = shown[c] \/ Spent(sess[c])
    BY <1>2 DEF Sync, SyncAt, TokenByStage
  <1>4. CASE Spent(sess[c])
    BY <1>4 DEF Spent
  <1>5. CASE pending[sess[c]] = shown[c]
    <2>1. shown[c].exp \in Nat /\ now \in Nat
      BY <1>2 DEF TypeOK, Token
    <2>2. CASE now < shown[c].exp
      <3>1. Accepted(sess[c], shown[c])
        BY <1>5, <2>2 DEF Accepted
      <3> QED BY <1>1, <1>2, <3>1 DEF Consume, TypeOK
    <2> QED BY <2>1, <2>2
  <1> QED BY <1>3, <1>4, <1>5

\* Neither failures nor losses spoil a token that should be good (consume, issue).
THEOREM GoodUntilUsedHolds == Spec => GoodUntilUsed
  <1> DEFINE NoLoss ==
               \A s \in Session :
                 /\ pending[s] # None /\ now < pending[s].exp
                 /\ pending'[s] # pending[s]
                 => \/ pending[s].n \in used'
                    \/ pending'[s] # None /\ pending'[s].n > pending[s].n
             Reason ==
               \A c \in Conn :
                 /\ Checks(c) /\ ~overlap
                 /\ shown[c] # None /\ shown[c] = saved[sess[c]] /\ Alive(parked[sess[c]])
                 => ok'[c] \/ now >= shown[c].exp \/ shown[c].n \in used
  <1>1. IInv /\ [Next]_vars => [NoLoss]_vars
    BY FailureStep
  <1>2. IInv /\ Sync /\ [Next]_vars => [Reason]_vars
    BY RefusalStep
  <1> QED BY <1>1, <1>2, Invariance, InitSync, NextSync, PTL
          DEF Spec, GoodUntilUsed, FailureUsesNothing, RefusedForReason
=============================================================================
