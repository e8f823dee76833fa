---------------------------- MODULE ResumeTokens ----------------------------
(***************************************************************************)
(* The one-time tokens a client must show to resume its session:           *)
(* PendingTokens on the server (common nlink/session.rs), the order in     *)
(* which handle_control uses them (serve.rs 1363-1536), and the token the  *)
(* client process keeps (client nlink.rs).  Time passes in ticks.          *)
(*                                                                         *)
(* A session is the ConnectionId of one client process (nlink.resume on),  *)
(* which dials again whenever it has no connection; the server task of a   *)
(* connection the client has given up goes on.  A token is its serial      *)
(* number and its deadline: signature, user and client_id stand for        *)
(* "issued by this server for this session".  What parking does to         *)
(* proxies is in Sessions.                                                 *)
(***************************************************************************)
EXTENDS Naturals

CONSTANTS
  Conn,      \* connections that are ever dialed
  Session,   \* client processes
  TokenTtl,  \* resume_ttl.max(30), of a token
  ParkTtl,   \* resume_ttl(), of a suspended session
  MaxTime,   \* the last tick: the bound on time
  None       \* no token, no connection, no deadline

ASSUME ResumeTokensAssumption ==
  /\ TokenTtl \in Nat \ {0} /\ ParkTtl \in Nat \ {0} /\ MaxTime \in Nat
  /\ None \notin Conn \cup Nat

Token == [n : Nat, exp : Nat]

ASSUME NoneIsNoToken == None \notin Token

VARIABLES
  now,      \* the clock
  overlap,  \* may the client give up a dial the server still works on
  pending,  \* PendingTokens: the token of a session waiting to be used
  serial,   \* tokens issued so far
  used,     \* serial numbers that have been accepted
  parked,   \* the deadline of the suspended session, or None
  saved,    \* ClientNLink.resume_token
  dialed,   \* the connection the client reads from
  phase,    \* where the server task of a connection is
  sess,     \* its session
  shown,    \* the token its preamble carries
  ok,       \* token_ok
  fresh     \* the token its ResumeResp carries

clientVars == <<saved, dialed>>
connVars   == <<sess, shown, ok, fresh>>
vars == <<now, overlap, pending, serial, used, parked, clientVars, phase, connVars>>

Working == {"hello", "checked", "decided", "issued"}

Alive(deadline) == deadline # None /\ now < deadline

\* The connections of s the server is logging in.
LoggingIn(s) == {c \in Conn : sess[c] = s /\ phase[c] \in Working}

-----------------------------------------------------------------------------
(* PendingTokens *)

\* consume, up to its deletions: the token is the one that waits.
Accepted(s, t) == pending[s] # None /\ now < pending[s].exp /\ t = pending[s]

\* Mutant: an accepted token is looked at and left.
WithoutExpired(s, t) ==
  IF pending[s] # None /\ now >= pending[s].exp THEN None ELSE pending[s]

\* Mutant: any attempt uses the token up.
WithoutAny(s, t) == None

\* consume's deletions: the token it accepts, and one it finds expired.
Without(s, t) ==
  IF pending[s] # None /\ (now >= pending[s].exp \/ t = pending[s]) THEN None
  ELSE pending[s]

\* Mutant: a token without a deadline.
NewTokenForever == [n |-> serial + 1, exp |-> None]

\* issue_resume_token: signed for this session, with its deadline.
NewToken == [n |-> serial + 1, exp |-> now + TokenTtl]

\* What issue retains: tokens that have not expired.
Retained == [s \in Session |->
  IF pending[s] # None /\ now >= pending[s].exp THEN None ELSE pending[s]]

\* Mutant: a session that has a token keeps it.
WithFirst(s, t) == [Retained EXCEPT ![s] = IF @ # None THEN @ ELSE t]

\* issue: the new token replaces the last one of its session.
With(s, t) == [Retained EXCEPT ![s] = t]

-----------------------------------------------------------------------------
(* The client *)

\* A new connection, with the token kept from the last one.
Dial(s, c) ==
  /\ dialed[s] = None /\ phase[c] = "new"
  /\ overlap \/ LoggingIn(s) = {}
  /\ dialed' = [dialed EXCEPT ![s] = c]
  /\ phase'  = [phase EXCEPT ![c] = "hello"]
  /\ sess'   = [sess EXCEPT ![c] = s]
  /\ shown'  = [shown EXCEPT ![c] = saved[s]]
  /\ UNCHANGED <<now, overlap, pending, serial, used, parked, saved, ok, fresh>>

\* The client loses its connection, or tires of waiting; the server may learn later.
Lose(s) ==
  /\ dialed[s] # None
  /\ dialed' = [dialed EXCEPT ![s] = None]
  /\ UNCHANGED <<now, overlap, pending, serial, used, parked, saved, phase, connVars>>

-----------------------------------------------------------------------------
(* handle_control *)

\* An old client shows no token and is let through.
Consume(c) ==
  LET s == sess[c]  t == shown[c] IN
  /\ phase[c] = "hello"
  /\ phase' = [phase EXCEPT ![c] = "checked"]
  /\ IF t = None
     THEN /\ ok' = [ok EXCEPT ![c] = TRUE]
          /\ UNCHANGED <<pending, used>>
     ELSE /\ ok' = [ok EXCEPT ![c] = Accepted(s, t)]
          /\ pending' = [pending EXCEPT ![s] = Without(s, t)]
          /\ used' = IF Accepted(s, t) THEN used \cup {t.n} ELSE used
  /\ UNCHANGED <<now, overlap, serial, parked, clientVars, sess, shown, fresh>>

\* take_suspended_if takes what is parked, to serve it or, expired, to reclaim it.
Take(c) ==
  /\ phase[c] = "checked"
  /\ phase'  = [phase EXCEPT ![c] = "decided"]
  /\ parked' = IF ok[c] THEN [parked EXCEPT ![sess[c]] = None] ELSE parked
  /\ UNCHANGED <<now, overlap, pending, serial, used, clientVars, connVars>>

\* Resumed or not, the session gets the token of the next round.
Issue(c) ==
  /\ phase[c] = "decided"
  /\ phase'   = [phase EXCEPT ![c] = "issued"]
  /\ serial'  = serial + 1
  /\ fresh'   = [fresh EXCEPT ![c] = NewToken]
  /\ pending' = With(sess[c], NewToken)
  /\ UNCHANGED <<now, overlap, used, parked, clientVars, sess, shown, ok>>

\* The frame is written; only a client that still reads saves its token.
Send(c) ==
  /\ phase[c] = "issued"
  /\ phase' = [phase EXCEPT ![c] = "up"]
  /\ saved' = IF dialed[sess[c]] = c THEN [saved EXCEPT ![sess[c]] = fresh[c]] ELSE saved
  /\ UNCHANGED <<now, overlap, pending, serial, used, parked, dialed, connVars>>

SendFails(c) ==
  /\ phase[c] = "issued" /\ dialed[sess[c]] # c
  /\ phase' = [phase EXCEPT ![c] = "over"]
  /\ UNCHANGED <<now, overlap, pending, serial, used, parked, clientVars, connVars>>

\* The server notices the end and parks the session, unless one is parked.
End(c) ==
  /\ phase[c] = "up" /\ dialed[sess[c]] # c
  /\ phase'  = [phase EXCEPT ![c] = "over"]
  /\ parked' = IF parked[sess[c]] = None
               THEN [parked EXCEPT ![sess[c]] = now + ParkTtl] ELSE parked
  /\ UNCHANGED <<now, overlap, pending, serial, used, clientVars, connVars>>

\* It ends and parks nothing: refused by max_clients, kicked, or stopped.
Quit(c) ==
  /\ phase[c] = "up"
  /\ phase' = [phase EXCEPT ![c] = "over"]
  /\ UNCHANGED <<now, overlap, pending, serial, used, parked, clientVars, connVars>>

\* sweep_suspended, for a session whose time is over.
Sweep(s) ==
  /\ parked[s] # None /\ ~Alive(parked[s])
  /\ parked' = [parked EXCEPT ![s] = None]
  /\ UNCHANGED <<now, overlap, pending, serial, used, clientVars, phase, connVars>>

Tick ==
  /\ now < MaxTime
  /\ now' = now + 1
  /\ UNCHANGED <<overlap, pending, serial, used, parked, clientVars, phase, connVars>>

-----------------------------------------------------------------------------
Init ==
  /\ now = 0 /\ serial = 0 /\ used = {}
  /\ overlap \in BOOLEAN
  /\ pending = [s \in Session |-> None]
  /\ parked  = [s \in Session |-> None]
  /\ saved   = [s \in Session |-> None]
  /\ dialed  = [s \in Session |-> None]
  /\ phase   = [c \in Conn |-> "new"]
  /\ sess    = [c \in Conn |-> None]
  /\ shown   = [c \in Conn |-> None]
  /\ ok      = [c \in Conn |-> FALSE]
  /\ fresh   = [c \in Conn |-> None]

Next ==
  \/ \E s \in Session : Lose(s) \/ Sweep(s) \/ \E c \in Conn : Dial(s, c)
  \/ \E c \in Conn :
       Consume(c) \/ Take(c) \/ Issue(c) \/ Send(c) \/ SendFails(c) \/ End(c) \/ Quit(c)
  \/ Tick

Spec == Init /\ [][Next]_vars

-----------------------------------------------------------------------------
(* Properties *)

\* A token has a deadline, and a connection a token only once it has been issued one.
TypeOK ==
  /\ now \in Nat /\ overlap \in BOOLEAN /\ serial \in Nat /\ used \subseteq 1..serial
  /\ pending \in [Session -> Token \cup {None}]
  /\ parked \in [Session -> Nat \cup {None}]
  /\ saved \in [Session -> Token \cup {None}]
  /\ dialed \in [Session -> Conn \cup {None}]
  /\ phase \in [Conn -> {"new"} \cup Working \cup {"up", "over"}]
  /\ sess \in [Conn -> Session \cup {None}]
  /\ shown \in [Conn -> Token \cup {None}]
  /\ ok \in [Conn -> BOOLEAN]
  /\ fresh \in [Conn -> Token \cup {None}]

\* c's token is checked in this step.
Checks(c) == phase[c] = "hello" /\ phase'[c] = "checked"

\* A token is accepted once, however many connections show it, at once or one
\* after the other (consume checks and deletes under one lock).
OneUse ==
  [][\A c \in Conn :
       Checks(c) /\ shown[c] # None /\ ok'[c] => shown[c].n \notin used]_vars

\* A token that is still valid stops waiting only by being used or replaced: no
\* attempt with another token, of whatever age, can use it up (consume verifies
\* and compares before it deletes).
FailureUsesNothing ==
  [][\A s \in Session :
       /\ pending[s] # None /\ now < pending[s].exp
       /\ pending'[s] # pending[s]
       => \/ pending[s].n \in used'
          \/ pending'[s] # None /\ pending'[s].n > pending[s].n]_vars

\* As long as the client waits for the server's answer before it dials again,
\* every completed login, whatever was lost before it, leaves the client with the
\* token the server expects next.
HeldIsPending ==
  ~overlap =>
    \A s \in Session, c \in Conn :
      dialed[s] = c /\ phase[c] = "up" =>
        /\ saved[s] # None
        /\ pending[s] = saved[s] \/ (pending[s] = None /\ now >= saved[s].exp)

\* docs/nlink.md says the server keeps the session for resume_ttl seconds and a
\* client that comes back within them takes it over: while the session is parked
\* and its time not over, the newest token of its client is accepted.
ReturnInTimeResumes ==
  [][\A c \in Conn :
       /\ Checks(c) /\ ~overlap
       /\ shown[c] = saved[sess[c]] /\ Alive(parked[sess[c]])
       => ok'[c]]_vars

\* The token of a parked session's client is refused for its age, or because it
\* was accepted before and the answer with the next one was lost; for nothing else.
RefusedForReason ==
  [][\A c \in Conn :
       /\ Checks(c) /\ ~overlap
       /\ shown[c] # None /\ shown[c] = saved[sess[c]] /\ Alive(parked[sess[c]])
       => ok'[c] \/ now >= shown[c].exp \/ shown[c].n \in used]_vars

\* A token that should be good is: neither failures nor losses spoil it
\* (session.rs 470-520).
GoodUntilUsed == FailureUsesNothing /\ RefusedForReason
=============================================================================
