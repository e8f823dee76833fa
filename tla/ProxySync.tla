----------------------------- MODULE ProxySync -----------------------------
(***************************************************************************)
(* Who knows which proxies.  One client process with its configuration     *)
(* file, its store and its live table (client main.rs, web.rs, store.rs,   *)
(* registry.rs), the server's ClientStates of that client (pool.rs) with   *)
(* the part of handle_control that registers, closes and reconciles        *)
(* proxies (serve.rs), and the panel's add and remove (admin.rs).          *)
(*                                                                         *)
(* A version stands for the fingerprint proxy_signature makes of all       *)
(* fields of a proxy, 0 for "no such proxy".  A proxy's public claim       *)
(* (port, visitor name, domain) goes with its name: a registration is      *)
(* refused while another ClientState holds the name, and it may be refused *)
(* for any other reason.  How the claims themselves are kept is the        *)
(* subject of Sessions, PortGroups and VhostTable.                         *)
(***************************************************************************)
EXTENDS Integers, FiniteSets, SequencesExt

CONSTANTS
  Names,        \* names of proxies
  Ported,       \* those of a kind that binds a public port (tcp, udp)
  Versions,     \* fingerprints
  Files,        \* contents a configuration file may have
  Stores,       \* contents an earlier process may have left in the store
  MaxProxies,   \* max_proxies of the client's role, 0 for no limit
  ChunkCap,     \* names that fit into one ResumeCommit frame
  LocalUI,      \* the client's own web interface is used
  MaxLogins, MaxResumes, MaxBoots, MaxCmds, MaxUi   \* bounds of the model

ASSUME SyncAssumption ==
  /\ IsFiniteSet(Names) /\ Ported \subseteq Names
  /\ Versions \subseteq Nat \ {0}
  /\ Files \cup Stores \subseteq [Names -> Versions \cup {0}] /\ Files # {} /\ Stores # {}
  /\ MaxProxies \in Nat /\ ChunkCap \in Nat \ {0} /\ LocalUI \in BOOLEAN
  /\ {MaxLogins, MaxResumes, MaxBoots, MaxCmds, MaxUi} \subseteq Nat

ASSUME NoNameIsZero == 0 \notin Names    \* 0 stands for no name

VARIABLES
  proc,    \* the client process
  file,    \* its configuration file
  store,   \* the dynamic proxies on disk
  boot,    \* cfg.proxies: the list every login of this process registers
  local,   \* ProxyTable of the client
  srv,     \* the server's ClientStates, one for each fresh login
  up,      \* control connection of a ClientState, client to server
  down,    \* the same, server to client
  panel,   \* the panel's request in progress
  active,  \* gauge proxies_active
  count    \* logins, boots, commands and requests of the local interface so far

processVars == <<proc, file, store, boot, local>>
syncVars == <<proc, file, store, boot, local, srv, up, down, panel, active, count>>

Sessions == 1..MaxLogins
NoConn   == 0
NoEntry  == [sig |-> 0, seen |-> 0]
Unknown  == [sig |-> 0, dynamic |-> FALSE]
Named(table) == {n \in Names : table[n].sig # 0}
Listed(versions) == {n \in Names : versions[n] # 0}

CommitFrame(idx, total, names)  == [type |-> "commit", idx |-> idx, total |-> total, names |-> names]
NewProxy(n, v)            == [type |-> "new", name |-> n, sig |-> v]
CloseProxy(n)             == [type |-> "close", name |-> n]
NewProxyResp(n, ok)       == [type |-> "resp", name |-> n, ok |-> ok]
ServerCmd(op, n, v, id)   == [type |-> "cmd", op |-> op, name |-> n, sig |-> v, id |-> id]
ServerCmdResp(id, ok)     == [type |-> "ack", id |-> id, ok |-> ok]

-----------------------------------------------------------------------------
(* The frames of a ResumeCommit: the names in their order, cut into pieces *)
(* of at most ChunkCap; one piece even when there is no name.              *)
CommitFrames(names) ==
  LET list  == SetToSeq(names)
      total == IF names = {} THEN 1 ELSE ((Len(list) - 1) \div ChunkCap) + 1
      piece(i) == {list[j] : j \in {k \in DOMAIN list : (k - 1) \div ChunkCap = i - 1}}
  IN  [i \in 1..total |-> CommitFrame(i - 1, total, piece(i))]

(* Mutant of Complete: the first frame is taken for the whole list.        *)
FirstIsComplete(asm) == asm.parts # {}

(* CommitAssembler: the pieces of one list.  A frame with another total    *)
(* starts over; a complete list is handed out and the assembler is idle.   *)
IdleAsm == [total |-> 0, parts |-> {}]
Assembled(asm, f) ==
  LET kept == IF asm.total = f.total THEN {p \in asm.parts : p.idx # f.idx} ELSE {}
  IN  [total |-> f.total, parts |-> kept \cup {[idx |-> f.idx, names |-> f.names]}]
Complete(asm) == Cardinality(asm.parts) = asm.total
Wanted(asm)   == UNION {p.names : p \in asm.parts}

-----------------------------------------------------------------------------
(* Server: one ClientState.                                                *)

FreshState(nlink, b) ==
  [link |-> "up", nlink |-> nlink, boot |-> b, resumed |-> FALSE, epoch |-> 0,
   table |-> [n \in Names |-> NoEntry], asm |-> IdleAsm, said |-> {}]
NoState == [FreshState(FALSE, 0) EXCEPT !.link = "none"]

(* Mutant of StateWithout: the entry goes, its registration is still reported.  *)
WithoutEntryOnly(s, names) ==
  [srv[s] EXCEPT !.table = [n \in Names |-> IF n \in names THEN NoEntry ELSE srv[s].table[n]]]

StateWithout(s, names) ==
  [srv[s] EXCEPT !.table = [n \in Names |-> IF n \in names THEN NoEntry ELSE srv[s].table[n]],
                 !.said = srv[s].said \ names]

Reusable(s, n, v) == srv[s].resumed /\ srv[s].table[n].sig = v
Unclaimed(s, n)   == \A t \in Sessions \ {s} : srv[t].table[n] = NoEntry

(* What register_proxy can do: reuse the entry of an unchanged proxy after *)
(* a resumption, or drop the old entry and register anew or fail.          *)
Registered(s, n, v) ==
  LET entry  == [sig |-> v, seen |-> srv[s].epoch]
      add(c) == [c EXCEPT !.table[n] = entry]
      held   == IF n \in Named(srv[s].table) THEN 1 ELSE 0
  IN  IF Reusable(s, n, v)
        THEN {[ok |-> TRUE, state |-> add(srv[s]), diff |-> 0]}
        ELSE {[ok |-> FALSE, state |-> StateWithout(s, {n}), diff |-> -held]} \cup
             (IF Unclaimed(s, n)
                THEN {[ok |-> TRUE, state |-> add(StateWithout(s, {n})), diff |-> 1 - held]}
                ELSE {})

(* check_proxy of the role, asked before register_proxy.                   *)
QuotaFull(s) == MaxProxies > 0 /\ Cardinality(Named(srv[s].table)) >= MaxProxies

Heard(s, type) == srv[s].link = "up" /\ up[s] # <<>> /\ Head(up[s]).type = type

HandleNewProxy(s) ==
  LET m == Head(up[s]) IN
  /\ Heard(s, "new")
  /\ up' = [up EXCEPT ![s] = Tail(@)]
  /\ IF QuotaFull(s)
       THEN /\ down' = [down EXCEPT ![s] = Append(@, NewProxyResp(m.name, FALSE))]
            /\ UNCHANGED <<srv, active>>
       ELSE \E r \in Registered(s, m.name, m.sig) :
              /\ srv' = [srv EXCEPT ![s] =
                          IF r.ok THEN [r.state EXCEPT !.said = r.state.said \cup {m.name}] ELSE r.state]
              /\ active' = active + r.diff
              /\ down' = [down EXCEPT ![s] = Append(@, NewProxyResp(m.name, r.ok))]
  /\ UNCHANGED <<processVars, panel, count>>

(* The gauge goes down only when stop_proxy returns a port.                *)
HandleCloseProxy(s) ==
  LET n == Head(up[s]).name IN
  /\ Heard(s, "close")
  /\ up' = [up EXCEPT ![s] = Tail(@)]
  /\ srv' = [srv EXCEPT ![s] = StateWithout(s, {n})]
  /\ active' = active - (IF n \in Named(srv[s].table) \cap Ported THEN 1 ELSE 0)
  /\ UNCHANGED <<processVars, down, panel, count>>

Reconciled(s, gone) == [StateWithout(s, gone) EXCEPT !.resumed = FALSE, !.asm = IdleAsm]

HandleCommit(s) ==
  LET f    == Head(up[s])
      asm  == Assembled(srv[s].asm, f)
      gone == Named(srv[s].table) \ Wanted(asm)
  IN
  /\ Heard(s, "commit")
  /\ up' = [up EXCEPT ![s] = Tail(@)]
  /\ IF ~srv[s].resumed
       THEN UNCHANGED <<srv, active>>
       ELSE IF Complete(asm)
         THEN /\ srv' = [srv EXCEPT ![s] = Reconciled(s, gone)]
              /\ active' = active - Cardinality(gone)
         ELSE /\ srv' = [srv EXCEPT ![s].asm = asm]
              /\ UNCHANGED active
  /\ UNCHANGED <<processVars, down, panel, count>>

(* Ten seconds after a resumption the tick takes what was not seen since.  *)
Stale(s) == {n \in Named(srv[s].table) : srv[s].table[n].seen # srv[s].epoch}

(* Mutant of GraceExpires: the tick forgets the session was resumed but    *)
(* takes nothing.                                                          *)
GraceForgets(s) ==
  /\ srv[s].link = "up" /\ srv[s].resumed
  /\ srv' = [srv EXCEPT ![s].resumed = FALSE]
  /\ UNCHANGED <<processVars, up, down, panel, active, count>>

GraceExpires(s) ==
  /\ srv[s].link = "up" /\ srv[s].resumed
  /\ srv' = [srv EXCEPT ![s] = [StateWithout(s, Stale(s)) EXCEPT !.resumed = FALSE]]
  /\ active' = active - Cardinality(Stale(s))
  /\ UNCHANGED <<processVars, up, down, panel, count>>

(* The control loop ends: the peer closed, or nothing came for too long.   *)
(* Requests waiting for an answer on this connection fail.  The session is *)
(* parked unless one of the same client process is parked already.         *)
Waits(stage) == stage \in {"add", "undo", "remove"}
Parks(s) == srv[s].nlink /\ \A t \in Sessions : srv[t].link = "parked" => srv[t].boot # srv[s].boot

LinkEnds(s) ==
  /\ srv[s].link = "up"
  /\ IF Parks(s)
       THEN /\ srv' = [srv EXCEPT ![s].link = "parked"]
            /\ UNCHANGED active
       ELSE /\ srv' = [srv EXCEPT ![s] = [StateWithout(s, Names) EXCEPT !.link = "gone"]]
            /\ active' = active - Cardinality(Named(srv[s].table))
  /\ up' = [up EXCEPT ![s] = <<>>] /\ down' = [down EXCEPT ![s] = <<>>]
  /\ panel' = IF panel.s = s /\ Waits(panel.stage) THEN [panel EXCEPT !.stage = "idle"] ELSE panel
  /\ UNCHANGED <<processVars, count>>

ParkExpires(s) ==
  /\ srv[s].link = "parked"
  /\ srv' = [srv EXCEPT ![s] = [StateWithout(s, Names) EXCEPT !.link = "gone"]]
  /\ active' = active - Cardinality(Named(srv[s].table))
  /\ UNCHANGED <<processVars, up, down, panel, count>>

-----------------------------------------------------------------------------
(* Client.                                                                 *)

Off == [phase |-> "off", cur |-> NoConn, pending |-> {}, adding |-> 0,
        fallback |-> FALSE, commits |-> FALSE,
        withdrawn |-> {}, misled |-> {}, uiRemoved |-> {}]

(* merge_initial: the file, and from the store what the file does not name.*)
Merged(f, st) == [n \in Names |-> IF f[n] # 0 THEN f[n] ELSE st[n]]

Boot(f, commits) ==
  /\ proc.phase = "off" /\ count.boots < MaxBoots
  /\ count' = [count EXCEPT !.boots = @ + 1]
  /\ file' = f
  /\ boot' = Merged(f, store)
  /\ local' = [n \in Names |-> [sig |-> Merged(f, store)[n],
                                dynamic |-> f[n] = 0 /\ store[n] # 0]]
  /\ proc' = [Off EXCEPT !.phase = "down", !.commits = commits]
  /\ UNCHANGED <<store, srv, up, down, panel, active>>

Exit ==
  /\ proc.phase # "off"
  /\ proc' = Off
  /\ down' = [s \in Sessions |-> IF s = proc.cur THEN <<>> ELSE down[s]]
  /\ UNCHANGED <<file, store, boot, local, srv, up, panel, active, count>>

(* Every login sends one NewProxy for each entry of cfg.proxies.           *)
Announce(s) ==
  /\ proc' = [proc EXCEPT !.phase = "reg", !.cur = s, !.pending = Listed(boot)]
  /\ up' = [up EXCEPT ![s] = [i \in 1..Cardinality(Listed(boot)) |->
                               NewProxy(SetToSeq(Listed(boot))[i], boot[SetToSeq(Listed(boot))[i]])]]
  /\ down' = [down EXCEPT ![s] = <<>>]
  /\ UNCHANGED <<file, store, boot, local, panel, active>>

(* A handshake that fails for any reason turns NLink off for the rest of   *)
(* the process and is repeated at once without it.                         *)
FallBack ==
  /\ proc.phase = "down" /\ ~proc.fallback
  /\ proc' = [proc EXCEPT !.fallback = TRUE]
  /\ UNCHANGED <<file, store, boot, local, srv, up, down, panel, active, count>>

LogIn ==
  LET s == count.logins + 1 IN
  /\ proc.phase = "down" /\ count.logins < MaxLogins
  /\ count' = [count EXCEPT !.logins = @ + 1]
  /\ srv' = [srv EXCEPT ![s] = FreshState(~proc.fallback, count.boots)]
  /\ Announce(s)

Resume(s) ==
  /\ proc.phase = "down" /\ ~proc.fallback
  /\ srv[s].link = "parked" /\ srv[s].boot = count.boots
  /\ srv[s].epoch < MaxResumes
  /\ srv' = [srv EXCEPT ![s] = [srv[s] EXCEPT !.link = "up", !.resumed = TRUE, !.epoch = srv[s].epoch + 1,
                                         !.asm = IdleAsm, !.said = {}]]
  /\ Announce(s)
  /\ UNCHANGED count

(* A message to a connection the server has left is lost.                  *)
Sent(s, msgs) == [up EXCEPT ![s] = IF srv[s].link = "up" THEN @ \o msgs ELSE @]

(* All answers are there: the commit follows, if both sides know of it.    *)
Ready ==
  /\ proc.phase = "reg" /\ proc.pending = {}
  /\ proc' = [proc EXCEPT !.phase = "ready"]
  /\ up' = IF proc.commits /\ ~proc.fallback
             THEN Sent(proc.cur, CommitFrames(Listed(boot))) ELSE up
  /\ UNCHANGED <<file, store, boot, local, srv, down, panel, active, count>>

Lost(n) == [local EXCEPT ![n] = Unknown]

(* The session ends on the client's side, as it has to when the server has *)
(* left; a request of the local interface is taken back.                   *)
ClientDrops ==
  /\ proc.phase \in {"reg", "ready", "adding"}
  /\ proc' = [proc EXCEPT !.phase = "down", !.cur = NoConn, !.pending = {}, !.adding = 0]
  /\ local' = IF proc.phase = "adding" THEN Lost(proc.adding) ELSE local
  /\ down' = [down EXCEPT ![proc.cur] = <<>>]
  /\ UNCHANGED <<file, store, boot, srv, up, panel, active, count>>

Receives(type) == proc.cur # NoConn /\ down[proc.cur] # <<>> /\ Head(down[proc.cur]).type = type
Taken == down' = [down EXCEPT ![proc.cur] = Tail(@)]

(* add_live takes the next NewProxyResp for its own, whatever its name;    *)
(* misled remembers (for the properties) whom that made believe.           *)
RecvNewProxyResp ==
  LET m == Head(down[proc.cur]) IN
  /\ Receives("resp")
  /\ Taken
  /\ CASE proc.phase = "reg" ->
            /\ proc' = [proc EXCEPT !.pending = @ \ {m.name}]
            /\ UNCHANGED <<local, store>>
       [] proc.phase = "ready" -> UNCHANGED <<proc, local, store>>
       [] proc.phase = "adding" /\ m.ok ->
            /\ proc' = [proc EXCEPT !.phase = "ready", !.adding = 0,
                                    !.misled = @ \cup ({proc.adding} \ {m.name})]
            /\ store' = [store EXCEPT ![proc.adding] = local[proc.adding].sig]
            /\ UNCHANGED local
       [] proc.phase = "adding" /\ ~m.ok ->
            /\ proc' = [proc EXCEPT !.phase = "ready", !.adding = 0,
                                    !.withdrawn = @ \cup {proc.adding}]
            /\ local' = Lost(proc.adding)
            /\ UNCHANGED store
  /\ UNCHANGED <<file, boot, srv, up, panel, active, count>>

FromFile(n) == local[n].sig # 0 /\ ~local[n].dynamic

(* Mutant of Applied: any entry may be removed by its name.                *)
AppliedByName(m) ==
  IF m.op = "add"
    THEN [ok |-> ~FromFile(m.name), value |-> m.sig]
    ELSE [ok |-> local[m.name].sig # 0, value |-> 0]

(* insert_dynamic and remove_dynamic keep their hands off the entries of   *)
(* the configuration file.                                                 *)
Applied(m) ==
  IF m.op = "add"
    THEN [ok |-> ~FromFile(m.name), value |-> m.sig]
    ELSE [ok |-> local[m.name].sig # 0 /\ ~FromFile(m.name), value |-> 0]

RecvServerCmd ==
  LET m == Head(down[proc.cur])
      r == Applied(m)
  IN
  /\ Receives("cmd")
  /\ Taken
  /\ IF proc.phase # "ready"
       THEN UNCHANGED <<local, store, up>>     \* read and ignored
       ELSE /\ IF r.ok
                 THEN /\ local' = [local EXCEPT ![m.name] =
                                     [sig |-> r.value, dynamic |-> r.value # 0]]
                      /\ store' = [store EXCEPT ![m.name] = r.value]
                 ELSE UNCHANGED <<local, store>>
            /\ up' = Sent(proc.cur, <<ServerCmdResp(m.id, r.ok)>>)
  /\ UNCHANGED <<proc, file, boot, srv, panel, active, count>>

UiAdd(n, v) ==
  /\ LocalUI /\ count.ui < MaxUi
  /\ proc.phase = "ready" /\ local[n].sig = 0
  /\ count' = [count EXCEPT !.ui = @ + 1]
  /\ local' = [local EXCEPT ![n] = [sig |-> v, dynamic |-> TRUE]]
  /\ proc' = [proc EXCEPT !.phase = "adding", !.adding = n]
  /\ up' = Sent(proc.cur, <<NewProxy(n, v)>>)
  /\ UNCHANGED <<file, store, boot, srv, down, panel, active>>

UiAddTimesOut ==
  /\ proc.phase = "adding"
  /\ local' = Lost(proc.adding)
  /\ proc' = [proc EXCEPT !.phase = "ready", !.adding = 0, !.withdrawn = @ \cup {proc.adding}]
  /\ UNCHANGED <<file, store, boot, srv, up, down, panel, active, count>>

UiRemove(n) ==
  /\ LocalUI /\ count.ui < MaxUi
  /\ proc.phase = "ready" /\ local[n].sig # 0
  /\ count' = [count EXCEPT !.ui = @ + 1]
  /\ local' = Lost(n)
  /\ store' = [store EXCEPT ![n] = 0]
  /\ proc' = [proc EXCEPT !.withdrawn = @ \cup {n}, !.uiRemoved = @ \cup {n}]
  /\ up' = Sent(proc.cur, <<CloseProxy(n)>>)
  /\ UNCHANGED <<file, boot, srv, down, panel, active>>

-----------------------------------------------------------------------------
(* Panel: one request at a time.                                           *)

NoRequest == [stage |-> "idle", s |-> NoConn, name |-> CHOOSE n \in Names : TRUE, sig |-> 0]

Asks(s, stage, op, n, v) ==
  /\ panel' = [stage |-> stage, s |-> s, name |-> n, sig |-> v]
  /\ count' = [count EXCEPT !.cmds = @ + 1]
  /\ down' = [down EXCEPT ![s] = Append(@, ServerCmd(op, n, v, count.cmds + 1))]

PanelAdd(s, n, v) ==
  /\ panel.stage = "idle" /\ count.cmds < MaxCmds /\ srv[s].link = "up"
  /\ ~QuotaFull(s)
  /\ Asks(s, "add", "add", n, v)
  /\ UNCHANGED <<processVars, srv, up, active>>

(* The server lets go first and asks the client afterwards.                *)
PanelRemove(s, n) ==
  /\ panel.stage = "idle" /\ count.cmds < MaxCmds /\ srv[s].link = "up"
  /\ srv' = [srv EXCEPT ![s] = StateWithout(s, {n})]
  /\ active' = active - (IF n \in Named(srv[s].table) \cap Ported THEN 1 ELSE 0)
  /\ Asks(s, "remove", "remove", n, 0)
  /\ UNCHANGED <<processVars, up>>

HandleServerCmdResp(s) ==
  LET m == Head(up[s]) IN
  /\ Heard(s, "ack")
  /\ up' = [up EXCEPT ![s] = Tail(@)]
  /\ panel' = IF m.id = count.cmds /\ Waits(panel.stage)
                THEN [panel EXCEPT !.stage = IF @ = "add" /\ m.ok THEN "register" ELSE "idle"]
                ELSE panel
  /\ UNCHANGED <<processVars, srv, down, active, count>>

AskTimesOut ==
  /\ Waits(panel.stage)
  /\ panel' = [panel EXCEPT !.stage = "idle"]
  /\ UNCHANGED <<processVars, srv, up, down, active, count>>

(* The client agreed; the panel's own task registers on the ClientState it *)
(* was given, in whatever state that is by now, and undoes on a failure.   *)
PanelRegisters ==
  LET s == panel.s IN
  /\ panel.stage = "register"
  /\ \E r \in Registered(s, panel.name, panel.sig) :
       /\ srv' = [srv EXCEPT ![s] = r.state]
       /\ active' = active + r.diff
       /\ IF r.ok \/ srv[s].link # "up"
            THEN panel' = [panel EXCEPT !.stage = "idle"] /\ UNCHANGED <<down, count>>
            ELSE Asks(s, "undo", "remove", panel.name, 0)
  /\ UNCHANGED <<processVars, up>>

-----------------------------------------------------------------------------
SyncInit ==
  /\ proc = Off
  /\ file = CHOOSE f \in Files : TRUE
  /\ store \in Stores /\ boot = [n \in Names |-> 0]
  /\ local = [n \in Names |-> Unknown]
  /\ srv = [s \in Sessions |-> NoState]
  /\ up = [s \in Sessions |-> <<>>] /\ down = [s \in Sessions |-> <<>>]
  /\ panel = NoRequest
  /\ active = 0
  /\ count = [logins |-> 0, boots |-> 0, cmds |-> 0, ui |-> 0]

ServerStep(s) ==
  \/ HandleNewProxy(s) \/ HandleCloseProxy(s) \/ HandleCommit(s) \/ HandleServerCmdResp(s)
  \/ GraceExpires(s) \/ LinkEnds(s) \/ ParkExpires(s)

ClientStep ==
  \/ \E f \in Files, commits \in BOOLEAN : Boot(f, commits)
  \/ Exit \/ FallBack \/ LogIn \/ Ready \/ ClientDrops
  \/ \E s \in Sessions : Resume(s)
  \/ RecvNewProxyResp \/ RecvServerCmd
  \/ \E n \in Names, v \in Versions : UiAdd(n, v)
  \/ UiAddTimesOut \/ \E n \in Names : UiRemove(n)

PanelStep ==
  \/ \E s \in Sessions, n \in Names, v \in Versions : PanelAdd(s, n, v)
  \/ \E s \in Sessions, n \in Names : PanelRemove(s, n)
  \/ AskTimesOut \/ PanelRegisters

SyncNext == ClientStep \/ PanelStep \/ \E s \in Sessions : ServerStep(s)

SyncSpec == SyncInit /\ [][SyncNext]_syncVars

-----------------------------------------------------------------------------
(* Properties.                                                             *)

(* Every variable holds what its type in the code allows, and the client   *)
(* has a connection exactly while it is in a session.                      *)
Messages ==
  [type : {"commit"}, idx : Nat, total : Nat, names : SUBSET Names]
    \cup [type : {"new"}, name : Names, sig : Versions]
    \cup [type : {"close"}, name : Names]
    \cup [type : {"resp"}, name : Names, ok : BOOLEAN]
    \cup [type : {"cmd"}, op : {"add", "remove"}, name : Names, sig : Versions \cup {0}, id : Nat]
    \cup [type : {"ack"}, id : Nat, ok : BOOLEAN]
Listing == [Names -> Versions \cup {0}]

SyncTypeOK ==
  /\ proc.phase \in {"off", "down", "reg", "ready", "adding"}
  /\ proc.cur \in Sessions \cup {NoConn}
  /\ proc.cur # NoConn <=> proc.phase \in {"reg", "ready", "adding"}
  /\ proc.adding \in Names <=> proc.phase = "adding"
  /\ {proc.pending, proc.withdrawn, proc.misled, proc.uiRemoved} \subseteq SUBSET Names
  /\ file \in Files /\ store \in Listing /\ boot \in Listing
  /\ local \in [Names -> [sig : Versions \cup {0}, dynamic : BOOLEAN]]
  /\ \A s \in Sessions :
       /\ srv[s].link \in {"none", "up", "parked", "gone"}
       /\ srv[s].table \in [Names -> [sig : Versions \cup {0}, seen : 0..MaxResumes]]
       /\ srv[s].said \subseteq Named(srv[s].table)
       /\ \A i \in DOMAIN up[s] : up[s][i] \in Messages
       /\ \A i \in DOMAIN down[s] : down[s][i] \in Messages
  /\ panel.stage \in {"idle", "add", "register", "undo", "remove"}
  /\ active \in Int

(* Once a resumption is reconciled, by the client's list or by the grace   *)
(* period, nothing is left in the server's table that this connection did  *)
(* not bring: no port stays taken for a proxy the client has forgotten     *)
(* (serve.rs 1653 and 2007).                                               *)
NoLeftover ==
  \A s \in Sessions : srv[s].link = "up" /\ ~srv[s].resumed => Stale(s) = {}

(* Reconciliation takes nothing the client registered on this connection,  *)
(* however its list is cut into frames, however late the answers come and  *)
(* whichever of list and grace period comes first.                         *)
ReportedSurvives ==
  [][\A s \in Sessions :
       srv[s].resumed /\ srv[s].link = "up" /\ ~srv'[s].resumed /\ srv'[s].link = "up"
         => \A n \in srv[s].said : srv'[s].table[n] = srv[s].table[n]]_syncVars

(* No command of the panel, no late answer and no roll-back changes or     *)
(* removes what the user's own file says, as long as the user does not     *)
(* remove it (client registry.rs 136, 163).                                *)
ConfigKept ==
  proc.phase # "off" =>
    \A n \in Listed(file) \ proc.uiRemoved : local[n] = [sig |-> file[n], dynamic |-> FALSE]

(* What the server forwards, the client knows: outside requests in         *)
(* progress there is no open port without a backend (admin.rs 40).         *)
Settled(s) ==
  /\ proc.phase = "ready" /\ proc.cur = s /\ srv[s].link = "up" /\ ~srv[s].resumed
  /\ up[s] = <<>> /\ down[s] = <<>> /\ panel.stage = "idle"
Holes(s) == {n \in Named(srv[s].table) : local[n].sig = 0}

NoHole == \A s \in Sessions : Settled(s) => Holes(s) = {}

(* The only holes are names every login announces again although they are  *)
(* gone from the live table, names the local interface gave up on, and     *)
(* names it added on the strength of another proxy's late answer.          *)
HolesExplained ==
  \A s \in Sessions : Settled(s) => Holes(s) \subseteq Listed(boot) \cup proc.withdrawn \cup proc.misled

(* Commands of the panel, answers that are late or lost, roll-backs and    *)
(* reconnects leave the user's file in force on the client, and on the     *)
(* server no proxy the client has not announced or withdrawn itself        *)
(* (client registry.rs 136-177, admin.rs 157-254).                         *)
SidesAgree == ConfigKept /\ HolesExplained

(* The gauge of proxies never falls below the number of registered ones,   *)
(* through closes, reconciliation, expiry and requests of the panel.       *)
Registrations == {e \in Sessions \X Names : e[2] \in Named(srv[e[1]].table)}
GaugeNotLow   == active >= Cardinality(Registrations)

(* The server's table of proxies is accounted for: nothing of an earlier    *)
(* connection stays, and what is there is counted (serve.rs 1653, 2007).   *)
TableAccounted == NoLeftover /\ GaugeNotLow

(* A resumed session gets back what it had: the registration of a proxy    *)
(* that did not change is not refused (security.rs 1220, serve.rs 2175).   *)
ResumeAdopts ==
  [][\A s \in Sessions :
       Heard(s, "new") /\ Reusable(s, Head(up[s]).name, Head(up[s]).sig) /\ up'[s] = Tail(up[s])
           /\ srv'[s].link = "up"
         => Last(down'[s]).ok]_syncVars
=============================================================================
