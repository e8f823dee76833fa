------------------------------ MODULE NatHole ------------------------------
(***************************************************************************)
(* Hole punching for xtcp (nathole_official.rs, and its entry in p2p.rs):  *)
(* a visitor asks for a provider, the server hands the provider a session  *)
(* id over a work connection, the provider answers with its addresses, and *)
(* both are told which way to try; what they report changes the scores.    *)
(*                                                                         *)
(* Four tasks may end a session: the provider's control loop, the errand   *)
(* that fetches the work connection, the session's own timer, and whoever  *)
(* opens another session, for that one throws out the ones that are old.   *)
(* The table has one lock; each of the four acts on what it took out.      *)
(***************************************************************************)
EXTENDS Integers, FiniteSets, SequencesExt

CONSTANTS
  Request,     \* requests of visitors; also their session ids
  Client,      \* ClientStates
  VisitorOf, ProviderOf,   \* the two ClientStates of a request
  Seen,        \* what a visitor saw of itself: [mapped, local]
  Offers,      \* what a provider may answer: [named, mapped, local]
  Configs,     \* the configurations considered
  None

Endpoint == [mapped : Seq(STRING \X (1 .. 65535)), local : SUBSET STRING]

\* max is MAX_SESSIONS (2048 in the code), reserve that
\* natholeAnalysisDataReserveHours is not 0; the rest are bounds: the requests
\* that arrive, how many of them grow old, and the clients whose control
\* connection may break, once each.
Config ==
  [max : Nat, reserve : BOOLEAN, comes : SUBSET Request, ages : Nat, breaks : SUBSET Client]

ASSUME NatHoleAssumption ==
  /\ IsFiniteSet(Request)
  /\ VisitorOf \in [Request -> Client] /\ ProviderOf \in [Request -> Client]
  /\ Configs \subseteq Config

VARIABLES
  config,   \* never changes
  asked,    \* requests that have arrived
  born,     \* sessions ever opened, in that order
  aged,     \* how many of them are older than WAIT_CLIENT
  open,     \* the table of sessions
  errand,   \* sessions whose work connection is being fetched
  timer,    \* sessions whose timer has not run
  told,     \* sessions whose id has reached the provider
  away,     \* clients that are suspended
  answers,  \* what visitors were told (history)
  missed,   \* answers that were dropped: the visitor was suspended (history)
  swept,    \* sessions another request has thrown out (history)
  records,  \* HoleRecords by fingerprint
  stale,    \* fingerprints whose last use is longer ago than the reserve
  reports,  \* ReportInfo by session id
  paired    \* what each pairing told the two sides (history)

sessionVars == <<born, aged, open, errand, timer, told, swept>>
answerVars  == <<answers, missed>>
scoreVars   == <<records, stale, reports, paired>>
vars == <<config, asked, sessionVars, away, answerVars, scoreVars>>

-----------------------------------------------------------------------------
(* Natures of a NAT *)

\* classify_nat_feature, of at least two addresses.
Feature(e) ==
  LET ip(i)   == e.mapped[i][1]
      port(i) == e.mapped[i][2]
      all     == DOMAIN e.mapped
      moved   == \E i \in all : ip(i) # ip(1)
      changed == \E i \in all : port(i) # port(1)
      ports   == {port(i) : i \in all}
  IN [ip      |-> ip(1),
      kind    |-> CASE moved /\ changed -> "both" [] moved -> "ip" [] changed -> "port" [] OTHER -> "same",
      regular |-> ~moved /\ changed /\ Max(ports) - Min(ports) <= 5,
      public  |-> \E i \in all : ip(i) \in e.local]

Classifies(e) == Len(e.mapped) >= 2
Hard(f) == f.kind # "same"

\* What a pairing tells the two sides, of which None is none.
Roles    == {"sender", "receiver"}
Features == {Feature(e) : e \in {o \in Offers \cup {Seen[r] : r \in Request} : Classifies(o)}}
Pairing  == [mode : 0 .. 4, c : Features, v : Features, crole : Roles, vrole : Roles]

ASSUME PairingAssumption == None \notin Pairing

\* fingerprint_key: everything but whether a side is public.
Fingerprint(c, v) == [v |-> <<v.ip, v.kind, v.regular>>, c |-> <<c.ip, c.kind, c.regular>>]

\* behaviors_by_mode: the role of the first of each pair; the other has the other.
FirstRole ==
  [m \in 0 .. 4 |->
     CASE m = 0 -> <<"sender", "receiver", "sender", "receiver", "sender", "receiver",
                     "sender", "sender", "receiver", "receiver">>
       [] m = 1 -> [i \in 1 .. 6 |-> "sender"]
       [] m = 3 -> [i \in 1 .. 6 |-> IF i <= 3 THEN "sender" ELSE "receiver"]
       [] OTHER -> [i \in 1 .. 3 |-> "sender"]]

-----------------------------------------------------------------------------
(* HoleRecords: the ways to try, with their scores.  base, tried and won     *)
(* are history.                                                              *)

\* Mutant: the indices of a mode's ways are off by one.
WaysShifted(mode, sends, receives) ==
  [i \in DOMAIN FirstRole[mode] |->
     LET s == IF FirstRole[mode][i] = "sender" THEN sends ELSE receives
     IN [mode |-> mode, index |-> i + 1, score |-> s, base |-> s, tried |-> 0, won |-> 0]]

\* scores_by_mode2: one score for ways whose first side sends, one for the rest.
Ways(mode, sends, receives) ==
  [i \in DOMAIN FirstRole[mode] |->
     LET s == IF FirstRole[mode][i] = "sender" THEN sends ELSE receives
     IN [mode |-> mode, index |-> i, score |-> s, base |-> s, tried |-> 0, won |-> 0]]

\* scores_by_mode
Even(mode, s) == Ways(mode, s, s)

\* HoleRecords::new
NewRecord(c, v) ==
  LET hard    == {f \in {"c", "v"} : Hard(IF f = "c" THEN c ELSE v)}
      regular == {f \in hard : (IF f = "c" THEN c ELSE v).regular}
      mode0   == IF c.public THEN Ways(0, 0, 1) ELSE IF v.public THEN Ways(0, 1, 0) ELSE Even(0, 0)
  IN CASE hard = {} -> mode0
       [] Cardinality(hard) = 1 /\ regular # {} -> Even(1, 0) \o Even(2, 0) \o mode0
       [] Cardinality(hard) = 1 /\ regular = {} -> Even(2, 0) \o Even(1, 0) \o mode0
       [] Cardinality(regular) = 2 -> Even(3, 0) \o Even(4, 0)
       [] Cardinality(hard) = 2 /\ Cardinality(regular) = 1 -> Even(4, 0)
       [] OTHER -> Even(0, 1) \o Even(1, 1) \o Even(3, 1)

\* The first of those with the highest score.
Best(rec) ==
  CHOOSE i \in DOMAIN rec :
    /\ \A j \in DOMAIN rec : rec[j].score <= rec[i].score
    /\ \A j \in 1 .. i - 1 : rec[j].score < rec[i].score

\* Mutant: a way is not marked down when it is recommended.
RecommendedAgain(rec) ==
  [rec EXCEPT ![Best(rec)].tried = @ + 1]

\* recommend: the one that is taken goes down by one.
Recommended(rec) ==
  [rec EXCEPT ![Best(rec)].score = @ - 1, ![Best(rec)].tried = @ + 1]

\* HoleRecords::report_success
Credited(rec, mode, index) ==
  [i \in DOMAIN rec |->
     IF rec[i].mode = mode /\ rec[i].index = index
       THEN [rec[i] EXCEPT !.score = IF @ + 2 > 10 THEN 10 ELSE @ + 2, !.won = @ + 1]
       ELSE rec[i]]

\* get_recommand_behaviors: which of the pair the client gets depends on the mode.
Swapped(mode, c) ==
  \/ mode = 1 /\ ~Hard(c)
  \/ mode = 2 /\ Hard(c)
  \/ mode = 4 /\ ~c.regular

\* Without a reserve nothing is ever too old.
Kept == [k \in {x \in DOMAIN records : ~config.reserve \/ x \notin stale} |-> records[k]]

-----------------------------------------------------------------------------
(* Requests and sessions *)

Old == {born[i] : i \in 1 .. aged}

\* forward_to_client: nothing is kept for a suspended client.
Answer(r, what) ==
  IF VisitorOf[r] \in away
    THEN missed' = [missed EXCEPT ![r] = @ + 1] /\ UNCHANGED answers
    ELSE answers' = [answers EXCEPT ![r] = Append(@, what)] /\ UNCHANGED missed

\* handle_nat_hole_visitor: no such provider, a bad signature, a user who may not.
Refuse(r) ==
  /\ r \in config.comes \ asked /\ VisitorOf[r] \notin away
  /\ asked' = asked \cup {r}
  /\ Answer(r, "error")
  /\ UNCHANGED <<sessionVars, away, scoreVars>>

\* start_session, with room in the table.
StartSession(r) ==
  /\ r \in config.comes \ asked /\ VisitorOf[r] \notin away
  /\ Cardinality(open \ Old) < config.max
  /\ asked' = asked \cup {r}
  /\ open' = (open \ Old) \cup {r}
  /\ swept' = swept \cup (open \cap Old)
  /\ born' = Append(born, r)
  /\ errand' = errand \cup {r} /\ timer' = timer \cup {r}
  /\ UNCHANGED <<aged, told, away, answerVars, scoreVars>>

\* start_session, without.
TooMany(r) ==
  /\ r \in config.comes \ asked /\ VisitorOf[r] \notin away
  /\ Cardinality(open \ Old) >= config.max
  /\ asked' = asked \cup {r}
  /\ open' = open \ Old
  /\ swept' = swept \cup (open \cap Old)
  /\ Answer(r, "error")
  /\ UNCHANGED <<born, aged, errand, timer, told, away, scoreVars>>

\* Mutant: who ends a session answers whether or not it was still there.
EndsAnyway(r) == open' = open \ {r} /\ Answer(r, "error")

\* Whoever takes the session out of the table answers for it, nobody else.
EndsWithError(r) ==
  /\ open' = open \ {r}
  /\ IF r \in open THEN Answer(r, "error") ELSE UNCHANGED answerVars

\* The errand has its work connection and has written the session id to it.
SidSent(r) ==
  /\ r \in errand /\ ProviderOf[r] \notin away
  /\ errand' = errand \ {r}
  /\ told' = told \cup {r}
  /\ UNCHANGED <<asked, born, aged, open, timer, swept, away, answerVars, scoreVars>>

\* No work connection within five seconds, or it fails.
ErrandFails(r) ==
  /\ r \in errand
  /\ errand' = errand \ {r}
  /\ EndsWithError(r)
  /\ UNCHANGED <<asked, born, aged, timer, told, swept, away, scoreVars>>

\* The session's timer.
TimesOut(r) ==
  /\ r \in timer /\ r \in Old
  /\ timer' = timer \ {r}
  /\ EndsWithError(r)
  /\ UNCHANGED <<asked, born, aged, errand, told, swept, away, scoreVars>>

-----------------------------------------------------------------------------
(* The provider's answer.  One that finds no session of its own changes      *)
(* nothing.                                                                  *)

Takes(c, r) == c = ProviderOf[r] /\ r \in open

\* handle_client: another proxy, too few addresses of either side.
Unfit(c, r, offer) ==
  /\ r \in told /\ c \notin away /\ Takes(c, r)
  /\ ~offer.named \/ ~Classifies(offer) \/ ~Classifies(Seen[r])
  /\ EndsWithError(r)
  /\ UNCHANGED <<asked, born, aged, errand, timer, told, swept, away, scoreVars>>

\* handle_client: both are told what to try. The code takes several locks in one
\* stretch without an await (848-987): it takes the session out, chooses and
\* scores the way under one lock, stores the report, answers. One step here,
\* because nobody else finds the session once it is out, and neither side can
\* report before the answer, which is sent after the report is stored.
Pair(c, r, offer) ==
  LET cf   == Feature(offer)
      vf   == Feature(Seen[r])
      key  == Fingerprint(cf, vf)
      rec  == IF key \in DOMAIN Kept THEN Kept[key] ELSE NewRecord(cf, vf)
      way  == rec[Best(rec)]
      first  == FirstRole[way.mode][way.index]
      second == IF first = "sender" THEN "receiver" ELSE "sender"
      crole  == IF Swapped(way.mode, cf) THEN second ELSE first
      vrole  == IF Swapped(way.mode, cf) THEN first ELSE second
  IN /\ r \in told /\ c \notin away /\ Takes(c, r)
     /\ offer.named /\ Classifies(offer) /\ Classifies(Seen[r])
     /\ open' = open \ {r}
     /\ records' = [k \in DOMAIN Kept \cup {key} |-> IF k = key THEN Recommended(rec) ELSE Kept[k]]
     /\ stale' = (stale \cap DOMAIN Kept) \ {key}
     /\ reports' = [reports EXCEPT ![r] = [key |-> key, mode |-> way.mode, index |-> way.index]]
     /\ paired' = [paired EXCEPT ![r] = [mode |-> way.mode, c |-> cf, v |-> vf, crole |-> crole, vrole |-> vrole]]
     /\ Answer(r, "paired")
     /\ UNCHANGED <<asked, born, aged, errand, timer, told, swept, away>>

\* handle_report, from the visitor or the provider, once or twice.
Report(r, success) ==
  LET info == reports[r] IN
  /\ info # None
  /\ reports' = [reports EXCEPT ![r] = None]
  /\ IF success /\ info.key \in DOMAIN records
       THEN /\ records' = [records EXCEPT ![info.key] = Credited(@, info.mode, info.index)]
            /\ stale' = stale \ {info.key}
       ELSE UNCHANGED <<records, stale>>
  /\ UNCHANGED <<asked, sessionVars, away, answerVars, paired>>

-----------------------------------------------------------------------------
(* Time and failures *)

\* A session reaches WAIT_CLIENT; none does before an older one.
SessionAges ==
  /\ aged < Len(born) /\ aged < config.ages
  /\ aged' = aged + 1
  /\ UNCHANGED <<asked, born, open, errand, timer, told, swept, away, answerVars, scoreVars>>

\* Sixty seconds after its pairing nobody may report any more.
ReportAges(r) ==
  /\ reports[r] # None
  /\ reports' = [reports EXCEPT ![r] = None]
  /\ UNCHANGED <<asked, sessionVars, away, answerVars, records, stale, paired>>

\* Hours after its last use a record is too old: its reports are long gone.
RecordAges(k) ==
  /\ k \in DOMAIN records \ stale
  /\ \A r \in Request : reports[r] # None => reports[r].key # k
  /\ stale' = stale \cup {k}
  /\ UNCHANGED <<asked, sessionVars, away, answerVars, records, reports, paired>>

\* A client's control connection breaks; its session is parked.
Leave(c) ==
  /\ c \in config.breaks \ away
  /\ away' = away \cup {c}
  /\ UNCHANGED <<asked, sessionVars, answerVars, scoreVars>>

-----------------------------------------------------------------------------
Init ==
  /\ config \in Configs
  /\ asked = {} /\ born = <<>> /\ aged = 0 /\ open = {} /\ errand = {} /\ timer = {}
  /\ told = {} /\ away = {} /\ swept = {}
  /\ answers = [r \in Request |-> <<>>] /\ missed = [r \in Request |-> 0]
  /\ records = <<>> /\ stale = {}
  /\ reports = [r \in Request |-> None] /\ paired = [r \in Request |-> None]

Step ==
  \/ \E r \in Request :
       \/ Refuse(r) \/ StartSession(r) \/ TooMany(r)
       \/ SidSent(r) \/ ErrandFails(r) \/ TimesOut(r)
       \/ \E c \in Client, offer \in Offers : Unfit(c, r, offer) \/ Pair(c, r, offer)
       \/ \E success \in BOOLEAN : Report(r, success)
       \/ ReportAges(r)
  \/ \E k \in DOMAIN records : RecordAges(k)
  \/ SessionAges
  \/ \E c \in Client : Leave(c)

Next == Step /\ UNCHANGED config

Spec == Init /\ [][Next]_vars

-----------------------------------------------------------------------------
(* Properties *)

TypeOK ==
  /\ config \in Configs
  /\ asked \subseteq config.comes /\ born \in Seq(Request) /\ aged \in 0 .. Len(born)
  /\ {open, errand, timer, told, swept} \subseteq SUBSET Request
  /\ away \subseteq Client
  /\ answers \in [Request -> Seq({"error", "paired"})] /\ missed \in [Request -> Nat]
  /\ stale \subseteq DOMAIN records
  /\ \A k \in DOMAIN records : \A i \in DOMAIN records[k] :
       /\ records[k][i].index \in DOMAIN FirstRole[records[k][i].mode]
       /\ records[k][i].score <= 10
  /\ \A r \in Request : reports[r] # None => paired[r] # None

\* A request is answered once, whichever of its tasks comes first and however
\* many come after; it is answered later only while its session is in the table,
\* and never only if another request has thrown out its session when it was old
\* (nathole_official.rs 725-838, p2p.rs 366-367).
AnsweredOnce ==
  \A r \in Request :
    Len(answers[r]) + missed[r] = (IF r \in asked /\ r \notin open /\ r \notin swept THEN 1 ELSE 0)

\* Every failure is answered (p2p.rs 366-367).
NobodyLeftSilent == swept = {}

\* Ways with the same initial score are tried in turn as long as none succeeds.
TriedInTurn ==
  \A k \in DOMAIN records :
    LET rec == records[k] IN
    (\A i \in DOMAIN rec : rec[i].won = 0) =>
      \A i \in {again \in DOMAIN rec : rec[again].tried > 1}, j \in DOMAIN rec :
        rec[i].base = rec[j].base => rec[i].tried <= rec[j].tried + 1

\* Both sides of a pairing may report, and late: it counts once.
CreditedOnce ==
  \A k \in DOMAIN records : \A i \in DOMAIN records[k] : records[k][i].won <= records[k][i].tried

\* The two sides never do the same, and the harder NAT has the role the mode
\* means it to have, although records are shared by all pairs of one fingerprint.
RolesFit ==
  \A r \in Request :
    paired[r] # None =>
      LET p == paired[r] IN
      /\ p.crole # p.vrole
      /\ p.mode = 1 /\ Hard(p.c) # Hard(p.v) => (Hard(p.c) <=> p.crole = "sender")
      /\ p.mode = 2 => (Hard(p.c) <=> p.crole = "receiver")
      /\ p.mode = 4 /\ p.c.regular # p.v.regular => (p.c.regular <=> p.crole = "sender")

\* The recommendation is fair and means something, however pairings and reports
\* interleave (nathole_official.rs 515-613, 636-659).
WaysSound == TriedInTurn /\ CreditedOnce /\ RolesFit

\* A side that is public always receives (nathole_official.rs 480-483, 1263).
PublicReceives ==
  \A r \in Request :
    paired[r] # None /\ paired[r].c.public # paired[r].v.public =>
      paired[r].c.public = (paired[r].crole = "receiver")

\* With a reserve of 0 nothing of an earlier pairing is used (nathole_official.rs 100-103).
ZeroKeepsNothing ==
  ~config.reserve =>
    \A k \in DOMAIN records : \A i, j \in DOMAIN records[k] :
      records[k][i].tried > 0 /\ records[k][j].tried > 0 => i = j /\ records[k][i].tried = 1
=============================================================================
