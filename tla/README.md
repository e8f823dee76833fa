# NFrp: a verification project

NFrp is a Rust implementation of the frp reverse proxy. A client behind a NAT keeps a *control
connection* to a public server and registers *proxies*; the server opens public ports, domains and
visitor names for them and forwards each *user connection* over a *work connection* that the client
opens on request. The extension NLink adds resumption of broken sessions, identity tokens, batches of
work connections, port knocking and rate limits.

The modules here are written from the code in `src/server`, `src/common` and `src/client`. They model
the server's core: sessions and their suspension, the tokens of resumption, what both sides hold of a
session's proxies, public ports shared by groups, the choice of a backend and the permits of what is
forwarded, virtual hosts, the pool of work connections, forwarding under a rate limit, the SUDP relay
and the pairing of hole punching. Paths below are relative to `src/`.

## 1. Inventory

| Component | State | Operations | What makes it correct |
|---|---|---|---|
| Client registry (`server/src/registry.rs`) | online table by run_id, suspended table by connection id, `client_limit`, gauge of active clients | insert, remove, cleanup_client, detach, suspend, take_suspended_if, reattach, sweep_suspended, ClientGuard | a ClientState is in one place and has one server; permits and gauge are exact; claims come back |
| Control connection (`server/src/serve.rs` handle_control) | the task's phase, its ClientState, its guard and permit | login, resumption, NewProxy, CloseProxy, ResumeCommit, Ping, the five-second tick, suspension | every way out cleans up or parks; a kicked client ends |
| Resume tokens (`common/src/nlink/session.rs`, `server/src/nlink.rs`, `client/src/nlink.rs`) | PendingTokens, the client's saved token | issue, consume, set_resume_token | used once; a failure uses nothing up; both sides hold the same token; who returns in time resumes |
| Port table (`registry.rs`, register_tcp, register_udp) | PortGroup per port: name, key, tenant, members, listener | reserve_port, attach_listener, release_port, release_ports_of, the accept loop's end | one tenant per port; the listener lives as long as the group; members are served |
| Work-connection pool (`server/src/pool.rs`, `limits.rs`) | users queued, idle connections, `work_notify`, three limits | submit_user, submit_work, acquire_work_conn, reap, request_work_conn, stop, set_suspended, rebind_control | nobody queues beside an idle connection; every queued user has a connection on its way; order; bounds; timeouts |
| Resume reconciliation (`pool.rs` proxy table, CommitAssembler in `nlink/session.rs`, ResumeCommit in `serve.rs`) | proxies and their signatures, stale set, chunks, grace timer | add_proxy, reuse, stale_proxies, push chunk, settle | nothing reported is reclaimed; everything dropped is, in the end |
| Panel (`admin.rs`, `dashboard.rs`, `api_v2.rs`) | none of its own; pending acknowledgements | kick, remove_proxy, add_proxy | it takes effect at once; both sides agree, or the difference has a known reason |
| Virtual hosts (`vhost.rs`) | routes by domain and location | register, lookup, release | one route per request, the most specific; nobody takes another's route; released with the owner |
| Visitors, STCP, XTCP, SUDP (`visitor.rs`, handle_visitor, relay_sudp_frames) | visitor table; two bounded channels | register, connect, relay | one owner per name; packets keep their order; no mutual wait |
| NAT hole punching (`nathole_official.rs`, `p2p.rs`) | sessions, HoleRecords by fingerprint, reports awaited | start_session, handle_client, handle_report, send_error, the timers | a request is answered once; ways are tried in turn; roles fit the NATs |
| Backends of a port (PortGroup pick, LoadGuard in `registry.rs`; ConnSlot in `pool.rs`) | load per backend, round-robin position, permits of a client | pick_and_hold, take a slot, drop | loads and permits are what connections carry; no backend is favoured |
| UDP proxies (`udp_proxy.rs`) | flows by peer address | receive, acquire a work connection | flows end; the port is released |
| NLink identity, knocking, rate limits (`common/src/nlink/`, `throttle.rs`) | token lifetime, windows, buckets | issue, verify, allow, take, relay_throttled | windows open and close; the rate is kept; a half-closed connection drains |
| Client process (`client/src/main.rs`) | reconnection loop, prewarmed connections, proxy registry | run_session, reconnect, reply to requests | it comes back, and with its proxies |
| Client health and store (`health.rs`, `store.rs`) | health by proxy | register or close by health | the server's table follows health |
| Transports and codecs (`common/src/frp/`, `ws.rs`, ...) | byte streams | framing, encryption | round trips |
| Virtual network, SSH gateway, plugins, configuration, auth, audit | see `components` in `PROJECT.json` | | |

**How they interact.** One tokio task runs `handle_control` per control connection; accept loops, UDP
loops, vhost handlers and visitor handlers are tasks of their own; each work connection is a task of
`handle_work`. They share one `Registry` (its tables each under a mutex) and one `ClientState` per
client (its pool under a mutex, its flags atomic). Accept loops and waiters ask for a work connection
through the control task's channel (`ControlCmd`); the client answers with a new connection that finds
its ClientState by run_id; `work_notify` wakes one waiter.

**What is hard.** Any task may run between two critical sections of another, and at each `await`.
Control connections break at any moment and may come back as a new connection while the old task still
drains. Timeouts act only where somebody looks (`reap`, sweep, tick). Permits move between tasks and
tables and come back when a value is dropped, which in Rust may be much later than the text suggests.
The list of hazards, each at its line and with the properties that catch it, is `hazards` in
`PROJECT.json`.

## 2. Modules

| Module | Models | Composition |
|---|---|---|
| `SessionLease` | what the server promises of a session: admission within a maximum, parking and resumption, one end, claims that live and die with it | the abstract specification of `Sessions` |
| `Sessions` | registry, control task, guard, panel | implements `SessionLease` (`ImplementsLease`, refinement mapping `LeaseState`, `owner`) |
| `ResumeTokens` | the tokens behind a resumption, on both sides, in time | its `ok` is the `tokenOk` that `Sessions` leaves open |
| `WorkPool` | one client's pool with its users, waiters and bringers | its `link` is the life of one ClientState in `Sessions`, reduced to up, ended, parked and gone |
| `ProxySync` | which proxies the client's file, store and live table, the server's proxy table and the panel know | its `link` is the same life of a ClientState; a proxy's claim is a name here, a port or route in the others |
| `PortGroups` | the port table and its two binding callers | refines the claims that `Sessions` keeps one per proxy: here several proxies share a port |
| `VhostTable` | the routes of virtual hosts and their registration domain by domain | likewise: one proxy has several routes |
| `Forwarding` | from an accepted connection to the end of its bridge: backend, load, permits | stands on the members of a `PortGroups` group; `Served` is what `WorkPool` decides |
| `ServerRelay` | the bridge under a rate limit, one bucket for several connections | what `Forwarding` calls `bridge`, from the inside |
| `SudpRelay` | the relay between the two ends of a SUDP connection | the same for SUDP |
| `NatHole` | pairing for xtcp, with its timers and scores | asks for a work connection as a waiter of `WorkPool`; its clients may be suspended as in `Sessions` |
| `MC*` | configurations, symmetry | extend the module of that name |
| `*_proofs` | theorems | extend the module of that name; `Relays_proofs` extends `ServerRelay` and `SudpRelay`, `Resumption_proofs` extends `ProxySync` and `ResumeTokens` (whence `SyncInit`, `SyncNext`, `SyncSpec`, `SyncTypeOK` in `ProxySync`) |

The modules share no variables. They are kept apart because each asks another question of the same
server and their product is out of TLC's reach; the points where one takes the other's outcome as a
free choice are the ones named in the table.

### Sessions

One element of `Conn` is a control connection, the run_id it gets and the ClientState made for it. A
connection that resumes serves an older ClientState (`serves`) under its own run_id (`runId`). An
action is a stretch of code without an await and without releasing a lock another task wants; `phase`
says where a task waits: `new` (not arrived), `taken` (a parked session in its hands), `setup` (writing
ResumeResp and tokens), `loop`, `binding` (resolving and binding a port), `leaving`, `detached` (taken
offline, not parked yet), `done`.

| Action | Code |
|---|---|
| `LoginFresh`, `LoginFindsExpired`, `LoginTakes` | the decision to resume, take_suspended_if |
| `Reattach`, `PutBack` | same transport: rebind_control and reattach; else suspend again |
| `SetupFail` | `?` on a write before the guard exists |
| `Insert`, `InsertRejected`, `EnterResumed` | admission by `max_clients`, making of ClientGuard |
| `NewProxyRoute`, `NewProxyPort`, `BindOk`, `BindFail`, `CloseProxy` | registrations and their end |
| `PassiveEnd`, `StopNoticed`, `Leave`, `FailEnd`, `GuardDrop`, `Detach`, `SuspendDetached` | the ways out of the loop |
| `Kick`, `PanelRemove` | `admin.rs` |
| `Expire`, `SweepTick` | time and the sweeping task |

A public claim (port, domain, visitor name) is one element of `Proxy`; ports also have a socket.

### ResumeTokens

A session is a client process, which dials whenever it has no connection; the server task of a
connection it has given up goes on. Time is `now`; a token is its serial number and its deadline.
`Consume`, `Take`, `Issue` and `Send` are the stages of a login in the order of the code; `Lose` and
`SendFails` lose the answer; `End` parks, `Quit` ends without parking. `overlap` is chosen at the start:
whether the client may dial again while the server still works on its last login.

### PortGroups

`group[n]` is the PortGroup of port n with its members and the accept loop that it will abort.
`RegisterFresh` and `RegisterJoined` are reserve_port; a fresh registration leaves its task binding,
while other clients' tasks run, until `BindOk` or `BindFail`. Two faults can be switched on: an address
that does not resolve (the `?` of register_tcp) and an accept that fails (the loop ends).

### WorkPool

Each user connection and each acquire_work_conn runs once, through its steps: the tests of suspended
and stopped before the lock (`Check`, `Begin`), the critical section (`Submit`, `Take`), the request
(`Ask`, `AskAgain`), the first poll of `notified()` (`Listen`). A delivery (`Deliver`) and its
notification (`Notify`) are two steps. `reap` is part of each submit, as in the code. Permits of the
three limits are held by tasks and come back in `EndTransfer` and `EndUse`, where the values that hold
them are dropped. A configuration (`config`) fixes the limits, batches, prewarming, and which faults may happen.

### ProxySync

A proxy has a name and a version, which stands for the fingerprint `proxy_signature` makes of all its
fields. `file` and `store` are the user's, `local` is the client's live table, `srv` holds the
ClientStates the server has had for this client with their proxy tables, epochs and commit assembler;
`up` and `down` are the messages of each connection. The client process boots (`Boot`), logs in or
resumes, announces its list (`Announce`) and its commit in frames of at most `ChunkCap` names; the
server reconciles when the list is complete (`HandleCommit`) or when the grace is over (`GraceExpires`). The panel's add and remove are processes of several steps (`Asks`,
`HandleServerCmdResp`, `AskTimesOut`, `PanelRegisters`), the local interface likewise (`UiAdd`,
`UiAddTimesOut`, `UiRemove`).
`proc.misled` is no state of the code and guards nothing: it remembers the names the local interface has
added on the strength of an answer to another proxy, for the client matches answers by their order.

### VhostTable

A host is a sequence of labels, a path a sequence of pieces. Registration takes one domain per step
(`Register`, `Refuse`), as the code takes the lock once per domain; a client's control loop and the
panel's task may each be registering on the same ClientState. `lookup` translates the search of the code
and is compared with a definition of its own, `Matches` and `Prefers`, which says what the most specific
route is without saying how to look for it.

### ServerRelay

The unit of time is what the rate takes for one byte. A direction of a connection reads (`Read`), waits
for the bucket's lock (its clock was read before, `Read` and `Take` are two steps), sleeps, writes; a
bridge is one task, so its two directions interleave only at awaits. `Eof`, `Fail` and `CloseEnd` are the
ways a direction and a bridge end. `rewound` counts by how much late readings have set the bucket back.

### SudpRelay

Each side is one future that selects between its connection and its channel. While it awaits the send
into the other's channel it looks at nothing else; `Send`, `SendFails`, `RecvPacket`, `RecvNone`,
`WritePacket` are its arms. Packets are numbered per side.

### Forwarding

One port with its accept loop and the backends of its group, and beside it visitors and virtual hosts
that forward through the same clients. The least-connections choice reads one load per step (`Compare`)
under the lock of the port table, while connections end; `Hold` raises the winner's load after it. A
backend registered again has a new load and is a new *life*. Every step that ends a connection gives back
what it holds, as drop does.

### NatHole

A request is a visitor's message and its session id. `StartSession` throws out the sessions that are
`Old` and starts the errand for a work connection and the timer; `ErrandFails`, `TimesOut`, `Unfit` and
`Pair` race for the session, and `EndsWithError` is send_error: whoever takes it out of the table answers.
A record holds the ways of its fingerprint with their scores; `Pair` recommends and marks down, `Report`
credits. Addresses are kept because the classification is about them.

## 3. Runs

| Run | Configuration | What it asks | Distinct states |
|---|---|---|---|
| `sessions_resume` | `Sessions_resume.cfg` | sessions, permits, claims and gauge stay consistent; every step is a step of `SessionLease` | 73,289 |
| `sessions_live` | `Sessions_live.cfg` | with kicks and failing writes: one server per ClientState; parked claims return; a kicked task ends | 58,478 |
| `sessions_kick` | `Sessions_kick.cfg` | violated: claims return for every client that is offline | 2,042 |
| `resume_tokens` | `ResumeTokens.cfg` | tokens are used once; a parked session's newest token is refused only for its age or because its use went unanswered; both sides agree | 519,607 |
| `port_groups` | `PortGroups.cfg` | tenants, listeners, members and departures | 904 |
| `pool` | `WorkPool.cfg` | pairing, limits, order; while nothing fails every user is served, and every waiter but one whose wake-up met another's | 215,571 |
| `proxy_sync` | `ProxySync.cfg` | nothing reported is reclaimed, everything dropped is, the user's file wins, a port without backend is one of the named cases | 1,248,069 |
| `vhosts` | `VhostTable.cfg` | one route per request, the most specific; routes belong to somebody; nobody takes another's | 74,781 |
| `server_relay` | `ServerRelay.cfg` | rate, debt, and that half-closed connections end | 232,366 |
| `sudp` | `SudpRelay.cfg` | order, explained losses, and that the relay ends unless jammed | 12,420 |
| `forwarding` | `Forwarding.cfg` | loads and permits are exact, backends are chosen fairly | 1,316,209 |
| `nat_hole` | `NatHole.cfg` | one answer per request; ways rotate and fit | 257,930 |

Some properties are conjunctions with names of their own, where one run asks one question in several
parts: `NothingLeaks` (`AdmissionBound`, `ActiveGaugeExact`, `NoOrphanClaim`, `ExitTakesOffline`),
`ParkedKept` (`ClaimsOutliveConnections`, `ParkedLeavesToItsOwner`), `EverythingReturns`
(`ParkedClaimsReturn`, `KickEndsTask`), `GoodUntilUsed` (`FailureUsesNothing`, `RefusedForReason`),
`PoolSound` (`NoUserForgotten`, `WithinLimits`), `LeftOnlyByMeeting` (`UsersServed` and the waiters' part),
`WaysSound` (`TriedInTurn`, `CreditedOnce`, `RolesFit`).

Further configurations, each of which TLC finds violated and each stating what a document or a comment
of the code says; section 4 tells what they show. They are run the same way, by hand.

| Configuration | Module | Property |
|---|---|---|
| `Sessions_setup.cfg` | `MCSessions` | `ExitTakesOffline` |
| `ResumeTokens_age.cfg` | `MCResumeTokens` | `ReturnInTimeResumes` |
| `PortGroups_bind.cfg` | `MCPortGroups` | `JoinedIsServed` |
| `WorkPool_notify.cfg`, `_permit.cfg`, `_late.cfg` | `MCWorkPool` | `WaitersServed`, `QueueRoom`, `UsersLeave` |
| `ProxySync_zombie.cfg`, `_quota.cfg` | `MCProxySync` | `NoHole`, `ResumeAdopts` |
| `VhostTable_kinds.cfg`, `_gone.cfg` | `MCVhostTable` | `RefusedForAmbiguity`, `GoneHasNoRoute` |
| `ServerRelay_late.cfg` | `MCServerRelay` | `RateKept` |
| `SudpRelay_jam.cfg` | `MCSudpRelay` | `NothingHangs` |
| `Forwarding_total.cfg` | `MCForwarding` | `TotalBounded` |
| `NatHole_swept.cfg`, `_public.cfg`, `_zero.cfg` | `MCNatHole` | `NobodyLeftSilent`, `PublicReceives`, `ZeroKeepsNothing` |

**Bounds and why they are enough.** *Sessions*: four connections on one connection id with two
identities give a session, its resumption, a second break and a foreign or overlapping login at once;
`MaxClients = 2` is met by one online and one parked session; one proxy with a port and one without
cover both kinds of claim. The live run needs three: the old, the parked and the new one. *ResumeTokens*:
three dials make two generations of tokens and an attempt with the older one; two sessions show that
tables do not mix; time to 3 with lifetimes of 2 lets each token and each parked session expire or not.
*PortGroups*: on one port a tenant's two TCP proxies, another tenant's with the same group and key, a
UDP proxy and one without a group; on the other two that exclude each other: every outcome of
reserve_port occurs. The configuration is otherwise a constant, so there is nothing more to count.
*WorkPool*: two users and up to two waiters (`callers`) compete for connections under eight
configurations from unlimited to limits of one and two. Three of them have both waiters at once, which is
what breaks the notification: with one, every wake-up reaches whoever asked.
*ProxySync*: a proxy of the file and one that is not, two versions, one login, one resumption, one
command of the panel and two changes by the local interface, so that a late answer to one meets the
other; `ChunkCap = 1` makes a commit of two names travel in two frames. Every pair of parties then disagrees about some name at some time.
*VhostTable*: two clients and the panel, three proxies over an exact, a wildcard and the catch-all domain,
two nested paths, with and without user: each pair of routes the conflict test tells apart occurs.
*ServerRelay*: reads of two bytes on a burst of three make the bucket go into debt with each second read;
two connections, one of them a download, are three directions on one bucket, and one of them may read
the clock and take the lock later. *SudpRelay*: five packets fill a channel of two and the receiver's
hands and leave one in the sender's. *Forwarding*: three backends of two clients and three connections by
turns and by load; and with limits of 2 and 1 one connection of every kind competes for permits. A proxy
registers twice (`MaxLives`). *NatHole*: three requests on a table of two meet the limit; one visitor has
two of them, from an easy NAT, the other visitor a hard one; the provider answers from an easy or a regular
hard NAT or uselessly, so that every mode but 3 is chosen, and two pairs share a record. A visitor that
breaks is in configurations of two requests.
Every bound is a constant set in the configuration: connections (`Conn`, `Bridges`), time (`MaxTime`,
`MaxIdle`), users and waiters (each runs once), messages and commands (`MaxReads`, `MaxPackets`,
`MaxLogins`, `MaxResumes`, `MaxBoots`, `MaxCmds`, `MaxUi`, `MaxPanel`), faults (`MaxFaults`), and in `WorkPool`,
`Forwarding` and `NatHole` the fields of `config`, which is chosen at the start and never changes.

**Deadlock.** Every instance ends when its connections, users or ticks are used up, so the
configurations say `CHECK_DEADLOCK FALSE`; that something must still happen is what the liveness
properties state.

**Fairness.** *Sessions*: a task that can run does (weak fairness of `Progress`, tokio's scheduling);
the five-second tick of a loop that keeps receiving messages is taken in the end (strong fairness of
`StopNoticed`: `tokio::select!` polls its branches in random order); timers run out and the sweep ticks.
Nothing obliges connections to arrive or break. *WorkPool*: the same for tasks, and a client that is not
configured silent opens what it was asked for. Users need not come and transfers need not end.
*ServerRelay*: time passes, a direction that can take, write or pass on the end of its input does, and a
program that has read the end of its input closes; ends need not send, and nobody need read.
*SudpRelay*: each side takes a step it can take, and a `select!` that is polled again and again takes each
ready arm in the end (strong fairness of its three receiving arms); ends need not send or close. The other modules check safety only.

**Left to chance.** What a token proves, what a bind returns and whether a write fails are
nondeterministic choices. `Panel` and `SetupFaults` are switched off in `sessions_resume`, because the
two violations below break its properties; `sessions_live` keeps them on, and so do the
proofs, except for the theorems that say which of the two they assume absent.

## 4. What the checks found

| Configuration | Finding |
|---|---|
| run `sessions_kick` | A NewProxy read between a kick and the next tick claims a port for a client that nobody will clean up again (`serve.rs:2025`). |
| `Sessions_setup.cfg` | A resumed login whose ResumeResp cannot be written leaves its client online without a task (`serve.rs:1486`); `registry.rs:1002` says the end of the control connection cleans up everything. |
| `ResumeTokens_age.cfg` | The token is issued at login with a lifetime of `resume_ttl.max(30)` seconds and never renewed: a session that has lasted longer cannot be resumed, though it is parked for `resume_ttl` seconds after the break (`serve.rs:1479`, `docs/nlink.md:99`). |
| `PortGroups_bind.cfg` | A proxy that joins while the first member is still binding stays without a listener when the bind fails (`registry.rs:501`, comment at 756). |
| `WorkPool_notify.cfg` | Two waiters that have asked and not yet listened share one stored permit (`pool.rs:858`, comment at 956-959): `WaitersServed` is false with two waiters. That nothing else leaves a waiter waiting, and that one of the two is served, is `LeftOnlyByMeeting` of the run `pool`. |
| `WorkPool_permit.cfg` | The permit of the queue is held until the transfer ends, not until pairing as documented (`serve.rs:3352`, `pool.rs:601`). |
| `WorkPool_late.cfg` | Timeouts of queued users act only when somebody else comes (`pool.rs:229`, `config.rs:453-457`). |
| `ProxySync_zombie.cfg` | Every login announces the list made at process start: a proxy of the file that the panel has removed since comes back as a port without backend (`client/src/main.rs:1710`, against 2004 and `admin.rs:40`). |
| `ProxySync_quota.cfg` | A resumed session at its role's limit of proxies is refused the proxies it already has, for the limit is tested before reuse (`security.rs:1220`). |
| `VhostTable_kinds.cfg` | Two proxies of one domain, one for http and one for https, conflict although no request is ambiguous (`vhost.rs:200-206`, comment at 163). |
| `VhostTable_gone.cfg` | The panel registers for a client it looked up before; if the client leaves meanwhile its route stays (`admin.rs:116`, `vhost.rs:329`). |
| `ServerRelay_late.cfg` | The clock is read before the lock (`ratelimit.rs:151` and 160): a late reading sets the bucket's time back and more passes than burst and rate (`nlink.rs:298-300`). By how much is what `Throughput` bounds. |
| `SudpRelay_jam.cfg` | With both channels full both sides wait in a send and none reads (`serve.rs:3559`, comment at 3532-3533). |
| `Forwarding_total.cfg` | sudp visitors drop their slot before they forward (`serve.rs:3229-3230`) and virtual hosts take none (`vhost.rs:576`, 893, 1306): the total limit bounds fewer connections than `config.rs:627` and `limits.rs:7` say. |
| `NatHole_swept.cfg` | A request that opens a session throws out old ones before their timers run, and nobody answers those (`nathole_official.rs:727`; `p2p.rs:366-367` says every failure is answered). |
| `NatHole_public.cfg` | Scores go down with each recommendation, so after enough pairings without success the public side is told to send (`nathole_official.rs:480-483`, test at 1263). |
| `NatHole_zero.cfg` | With a reserve of 0 records are kept for ever instead of not at all (`nathole_official.rs:582`, comment at 100-103). |

Each configuration checks one property, which states what the code or its documentation says. `findings`
in `PROJECT.json` quotes it for the listed run.

Seen while proving: `SidesAgree` once excused two kinds of ports without a backend, names of the list made
at process start and names the local interface withdrew. The proof of its step at a NewProxyResp failed
for a third, out of reach of the run as long as it had a single local change: the local interface adds m
and gives up, adds n, takes m's late answer for n's (`client/src/main.rs:1736`, no comparison of names), and a
removal of n by the panel overtakes n's NewProxy. The client has no n, the server opens it afterwards.
`proc.misled` names these, and the run makes two local changes.

Seen while reading and not stated as properties: CloseProxy lowers the gauge of active proxies only when
the proxy had a port (`serve.rs:1911`, `admin.rs:206`); a backend registered again starts with a load of
zero although its old connections go on, so least-connections prefers it; `relay_throttled` gives up
waiting after ten seconds by dropping a JoinHandle, which detaches the task and does not stop it; a
successful pairing counts as two attempts in `record_analysis`.

## 5. What is proved

TLAPS checks the following for all values of the constants that satisfy the assumptions.

- **`Sessions_proofs`** (`SessionsAssumption`: finitely many connections and sessions, `MaxClients` at
  least 1). `TypeCorrect`, `OneHomeHolds`, `OneServerHolds`, `SingleHolderHolds` (the two together), with
  panel and failing writes included. `OneHome` is not inductive: that reattach puts a ClientState nowhere
  twice depends on who can still have it. `IInv` adds `Homes`, which says for each place (online, parked,
  carried, not yet born) which tasks may serve what is there, `Permits` (free and held permits add up to
  `MaxClients`, which the type of `free` depends on) and `BindingProxy`. The proof has one lemma per action
  that moves a ClientState, and `QuietHomes` for the others.

  On `IInv` stand three more invariants. `LoopOnline`: the client of a running loop is online, or stopped by
  the panel. `Guarded`: whatever is online, parked or in the hands of a task holds a permit. `Claims`: a
  claim belongs to a client that is online, parked or in the hands of a task, and a task that binds owns its
  port. `ParkedKeptHolds` (a
  parked session keeps its claims and only its owner takes it) and `GaugeExact` (the gauge counts the online
  clients exactly) hold with panel and failing writes. `AdmissionBounded` and `ExitTakenOffline` assume
  `SetupFaults = FALSE`, `NoOrphans` assumes `Panel = FALSE`: `Sessions_setup.cfg` and `sessions_kick` show the
  code break them otherwise. `NothingLeaksHolds` is the conjunction of the four, under both assumptions, and
  `LeaseImplemented` (`Spec => ImplementsLease`, under both) maps every step of `Sessions` to one of
  `SessionLease` or to none, with one lemma per step of the lease.
- **`WorkPool_proofs`** (any users, waiters and configurations). `TypeCorrect`, `PoolSoundHolds`,
  `FirstComeFirstServedHolds`. A queue that holds each element once is taken as its set and its order, and
  what the code does to one (reap a prefix, pop the front, push at the back, take one out) is stated for
  both and used for the users and for the listeners of `work_notify`. The invariant adds where each
  permit is, that nobody queues while a connection is idle (`Calmly`), that who queues has asked or is about
  to (`AskedFor`), and how many connections may lie idle (`IdleWithin`).
- **`Resumption_proofs`**, on `ResumeTokens` (`ResumeTokensAssumption`, `NoneIsNoToken`): `TypeCorrect`,
  `OneUseHolds`, `HeldIsPendingHolds`, `GoodUntilUsedHolds`.
  A token is accepted as the one that waits; so `IInv` says that waiting tokens are unused and differ
  between sessions; consume keeps it because it deletes in the same step, issue because serial numbers
  grow. The other two rest on `Sync`, for logins that do not overlap: a session has one login at a time;
  until its token is checked the client shows its own, after that its own is spent (too old or used), and
  what issue made is what the server expects. `Frame` says that nothing else disturbs this, time and the
  removal of old tokens included.

  On `ProxySync` (`SyncAssumption`, `NoNameIsZero`: 0 stands for no name; any names, versions, files,
  stores, frame size and bounds): `SyncInvariance`, `SyncTypeCorrect`, `TableAccountedHolds`,
  `ReportedSurvivesHolds`, `SidesAgreeHolds`, all properties of the run. `TableAccountedHolds` assumes
  `MaxProxies = 0`, the code's "no limit": at a limit a proxy that is announced again may be refused while
  its old entry stays (`ProxySync_quota.cfg`). The conjuncts of `SyncIInv`:
  - `Ages`: no registration is younger than its connection, and the client's connection is of its present
    process.
  - `Reconciling`, per session: the frames in the queue and the parts in the assembler are of one list, what
    was registered before the commit is on it, and what is on it is not left over from an earlier
    connection (`Reported`); before the commit the client sends nothing but its list, and a name that is
    answered or no longer waited for is not left over (`Announcing`, `Answered`); a reconciliation that is
    over leaves nothing, or under a limit only names of the list (`LeftoverListed`). Without this
    `HandleCommit` might take what was reported, or leave what was not.
  - `AddingOwn`: an add of the local interface that fails takes back its own entry and none of the file's,
    which `ConfigKept` needs.
  - `Backed`, for names without an excuse: one NewProxy or answer is under way at a time, only for an add in
    progress, and a command that removes a registered name comes before any answer.
  - `Numbered` and `Agreement`: the panel's commands carry growing numbers, so an acknowledgement with the
    newest number says that the client has read every command, that it agreed to this one, and that it
    has the proxy the panel is about to register.
  - `GaugeNotLow`, which is the second half of `TableAccounted` and inductive with `SyncTypes`: a close takes
    one off the gauge only for what it takes out of a table.
- **`PortGroups_proofs`** (`PortGroupsAssumption`: the configuration is a function of its type).
  `TypeCorrect`, `OneTenantHolds`, `LoopsOwnedHolds`, `GoneHoldNothingHolds`,
  `RegisteredIsBackendHolds`, `ListenerOutlivesCreatorHolds`, `TablesAgreeHolds`: all properties of the run.
  The invariant adds `Binding`, what a task owns while it binds: its reservation is in the group, the group
  has no listener, and nobody else binds for that port; without it `BindOk` could replace a listener.
- **`VhostTable_proofs`**. `TypeCorrect`, `RoutesDecidedHolds`, `LookupMostSpecificHolds`,
  `OthersUntouchedHolds`, `LeftoversExplainedHolds`: all properties of the run. That no two routes answer one
  request rests on `NoClash`: routes that share a path on a domain are of one client and of different
  users. The conflict test alone gives less, for it passes over routes of the same proxy; that these are
  disjoint comes from `Register`, which replaces the route of a proxy on a domain. That the search returns
  a route no other matching one is preferred to is a fact about any table of the right type: candidates
  run from the exact name to the catch-all, and in each the longest location and the named user win. CloseProxy takes every route the client has under the name,
  whether the proxy is in its table or was refused, and a leave all the client's routes: so
  `LeftoversExplainedHolds` explains a leftover by a refusal only until its name is closed or its client leaves.
- **`Relays_proofs`** (any rate, burst and packet sizes for `ServerRelay`; `SudpAssumption`, any capacity
  from 1, for `SudpRelay`). For `ServerRelay`: `TypeCorrect`, `ThroughputHolds`, `LedgerHolds`,
  `DebtHeldHolds`. The first two rest on the bucket's books (`Books`: what was granted and what is left is
  at most the burst and the time gone by), through refill, late readings and failures, and on `Covered`: a
  grant still waited for fits the bound at the end of its wait. `DebtHeld`
  compares the bucket's debt with what all directions wait for; the invariant keeps a ledger of single bytes
  instead: each granted byte is delivered, dropped or waited for by one direction (`Accounted`), and what the
  bucket owes was granted after every byte that has been delivered (`Paid`, `Covers`).
  For `SudpRelay`: `SudpTypeCorrect`, `LossExplainedHolds`, and `JamIsForEver`: once both sides wait in a
  full channel no step changes that. While a side runs, what was read for it is, in this order, what it has
  written, the packet in its hands, its channel, and the packet the other side is sending.
- **`Forwarding_proofs`**. `TypeCorrect`, `CountsExactHolds`, `FairPickHolds`: all properties of the run.
  Loads and permits are compared with the sets of connections that carry them (tcp and stcp; the relays of
  sudp visitors and virtual hosts carry none, see `Forwarding_total.cfg`); the invariant adds
  `ByStage` (what a connection carries at each stage) and `PickPends` (a pick in progress holds nothing
  yet). Fairness needs that the members are `Distinct`, the position of the cursor in its round (`Turns`:
  everyone behind it has had one turn more than everyone before it) and what the loop over the loads has
  seen (`Compared`), which holds although loads fall while it runs.
- **`NatHole_proofs`** (`NatHoleAssumption`, `PairingAssumption`). `TypeCorrect`, `AnsweredOnceHolds`,
  `WaysSoundHolds`: all properties of the run. For the answers the invariant adds `Shape`: open and swept
  sessions belong to requests that have arrived, and none is both. For the scores (`RecordsInvariance`) it
  adds that a report still owed finds its record, fresh, and that successes reported and still owed are at
  most the recommendations; a record without owed reports may grow old.

Where the code's order needs an induction (the longest location, the first of a queue), the proofs take a
least counterexample: every non-empty set of natural numbers has a least element (`LeastNat`).

**Only model-checked.** Liveness (`EverythingReturns`, `LeftOnlyByMeeting`, `HalfCloseEnds`,
`EndsUnlessJammed`) is beyond the prover: it needs ENABLED. Every other invariant and action property of a
passing run is stated by a theorem. The properties of the configurations in section 4 that name a finding
are violated, so there is nothing to prove.

## 6. What is not modelled

Transports, codecs, encryption, TLS, configuration files, web pages, logging and metrics (other than
the gauges) are byte-level or input and output: no property here would tell their states apart.
Authentication is its outcome. In `Sessions`, plugin calls and Ping are left out; in `ProxySync`, the
client's back-off, heartbeat and health checks, and the claims behind a name; in `VhostTable`, parsing,
header rewriting and the relay of HTTP; in `ServerRelay`, a change of the limit while connections run; in
`Forwarding`, access lists and knocking before the pick; in `WorkPool`, the bytes of a transfer; in
`ResumeTokens`, signatures and a change of the client's transport between two logins; in `NatHole`, the
UDP hello protocol of `p2p.rs`, pre_check, port prediction and both clients' side, which is packet timing.
The client's own throttle (`common/src/throttle.rs`), the identity token's lifetime, knock windows,
admission of connections before login and the virtual network are not modelled; `components` in
`PROJECT.json` says why for each.

## 7. Plan

Theorems first, now that every safety property of a run has one: what holds where a theorem assumes that
something does not happen. `Sessions` with the panel (which claims a kick may leave), `ResumeTokens` with
overlapping logins (what both sides can still agree on), `ProxySync` under a limit of proxies (that only
refused names may stay).

Then more of the system: the identity token's lifetime beside the resume token's; knock windows as
arithmetic on ticks; the client's control loop with back-off and health-driven registration as the
environment of `ProxySync`; the hello protocol of `p2p.rs`.
