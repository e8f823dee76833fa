--------------------------- MODULE NatHole_proofs ---------------------------
(***************************************************************************)
(* What holds of NatHole for any requests, clients, addresses and limits:  *)
(* every request is answered once, and the ways that are recommended are   *)
(* taken in turn, credited once and give the two sides fitting roles.      *)
(*                                                                         *)
(* AnsweredOnce counts answers by membership in three sets; it is          *)
(* inductive once it is known that sessions in the table, and those thrown *)
(* out of it, belong to requests that have arrived, and that none is both. *)
(***************************************************************************)
EXTENDS NatHole, TLAPS, FiniteSetTheorems, WellFoundedInduction

Shape ==
  /\ answers \in [Request -> Seq({"error", "paired"})]
  /\ missed \in [Request -> Nat]
  /\ open \subseteq asked /\ swept \subseteq asked /\ open \cap swept = {}

Inv == Shape /\ AnsweredOnce

\* An answer is one more, delivered or not, and no other request's.
LEMMA OneAnswer ==
  ASSUME Shape, NEW r \in Request, NEW what \in {"error", "paired"}, Answer(r, what)
  PROVE  /\ answers' \in [Request -> Seq({"error", "paired"})]
         /\ missed' \in [Request -> Nat]
         /\ Len(answers[r]) \in Nat /\ missed[r] \in Nat
         /\ Len(answers'[r]) + missed'[r] = Len(answers[r]) + missed[r] + 1
         /\ \A d \in Request : d # r => Len(answers'[d]) = Len(answers[d]) /\ missed'[d] = missed[d]
<1>0. answers[r] \in Seq({"error", "paired"}) /\ missed[r] \in Nat /\ Len(answers[r]) \in Nat
  BY DEF Shape
<1>1. CASE VisitorOf[r] \in away
  <2>1. missed' = [missed EXCEPT ![r] = @ + 1] /\ answers' = answers
    BY <1>1 DEF Answer
  <2>2. missed' \in [Request -> Nat] /\ missed'[r] = missed[r] + 1
    BY <1>0, <2>1 DEF Shape
  <2>3. \A d \in Request : d # r => missed'[d] = missed[d]
    BY <2>1 DEF Shape
  <2>4. Len(answers'[r]) + missed'[r] = Len(answers[r]) + missed[r] + 1
    BY <1>0, <2>1, <2>2
  <2>. QED BY <1>0, <2>1, <2>2, <2>3, <2>4 DEF Shape
<1>2. CASE VisitorOf[r] \notin away
  <2>1. /\ answers' = [answers EXCEPT ![r] = Append(@, what)] /\ missed' = missed
    BY <1>2 DEF Answer
  <2>2. Append(answers[r], what) \in Seq({"error", "paired"})
        /\ Len(Append(answers[r], what)) = Len(answers[r]) + 1
    BY <1>0
  <2>3. /\ answers' \in [Request -> Seq({"error", "paired"})]
        /\ answers'[r] = Append(answers[r], what)
        /\ \A d \in Request : d # r => answers'[d] = answers[d]
    BY <2>1, <2>2 DEF Shape
  <2>4. Len(answers'[r]) + missed'[r] = Len(answers[r]) + missed[r] + 1
    <3>1. Len(answers'[r]) = Len(answers[r]) + 1 /\ missed'[r] = missed[r]
      BY <2>1, <2>2, <2>3
    <3>2. \A x, y \in Nat : (x + 1) + y = x + y + 1
      OBVIOUS
    <3>. QED BY <1>0, <3>1, <3>2
  <2>5. missed' \in [Request -> Nat]
    BY <2>1 DEF Shape
  <2>. QED BY <1>0, <2>1, <2>3, <2>4, <2>5
<1>. QED BY <1>1, <1>2

\* A request that arrives and is answered at once, whatever it throws out.
LEMMA RefusedAtOnce ==
  ASSUME Inv, NEW r \in Request, r \notin asked, asked' = asked \cup {r}, Answer(r, "error"),
         NEW S \in SUBSET open, open' = open \ S, swept' = swept \cup S
  PROVE  Inv'
<1>1. Len(answers[r]) + missed[r] = 0
  BY DEF Inv, AnsweredOnce
<1>2. Shape'
  BY OneAnswer DEF Inv, Shape
<1>3. AnsweredOnce'
  BY <1>1, OneAnswer DEF Inv, Shape, AnsweredOnce
<1>. QED BY <1>2, <1>3 DEF Inv

\* A session that leaves the table with one answer to its request.
LEMMA TakenOut ==
  ASSUME Inv, NEW r \in Request, NEW what \in {"error", "paired"}, r \in open,
         open' = open \ {r}, Answer(r, what), UNCHANGED <<asked, swept>>
  PROVE  Inv'
<1>1. Len(answers[r]) + missed[r] = 0 /\ r \in asked /\ r \notin swept
  BY DEF Inv, Shape, AnsweredOnce
<1>2. Shape'
  BY OneAnswer DEF Inv, Shape
<1>3. Len(answers'[r]) + missed'[r] = 1
  <2>1. Shape BY DEF Inv
  <2>2. Len(answers'[r]) + missed'[r] = Len(answers[r]) + missed[r] + 1
    BY <2>1, OneAnswer
  <2>. QED BY <1>1, <2>2
<1>4. \A d \in Request : d # r => Len(answers'[d]) + missed'[d] = Len(answers[d]) + missed[d]
  BY OneAnswer DEF Inv
<1>5. AnsweredOnce'
  BY <1>1, <1>3, <1>4 DEF Inv, AnsweredOnce
<1>. QED BY <1>2, <1>5 DEF Inv

\* Nothing that AnsweredOnce speaks of changes.
LEMMA Untouched ==
  ASSUME Inv, UNCHANGED <<asked, open, swept, answers, missed>> PROVE Inv'
BY DEF Inv, Shape, AnsweredOnce

\* Whoever ends a session with an error answers if it was there.
LEMMA EndStep ==
  ASSUME Inv, NEW r \in Request, EndsWithError(r), UNCHANGED <<asked, swept>>
  PROVE  Inv'
<1>1. CASE r \in open
  BY <1>1, TakenOut DEF EndsWithError
<1>2. CASE r \notin open
  <2>1. open' = open /\ UNCHANGED answerVars
    BY <1>2 DEF EndsWithError
  <2>. QED BY <2>1, Untouched DEF answerVars
<1>. QED BY <1>1, <1>2

\* A session that is opened may throw out others.
LEMMA StartStep ==
  ASSUME Inv, NEW r \in Request, StartSession(r) PROVE Inv'
<1>1. /\ asked' = asked \cup {r} /\ open' = (open \ Old) \cup {r}
      /\ swept' = swept \cup (open \cap Old) /\ r \notin asked
      /\ UNCHANGED <<answers, missed>>
  BY DEF StartSession, answerVars
<1>2. Shape'
  BY <1>1 DEF Inv, Shape
<1>3. AnsweredOnce'
  BY <1>1 DEF Inv, Shape, AnsweredOnce
<1>. QED BY <1>2, <1>3 DEF Inv

\* The empty table, and nobody answered.
LEMMA InitInv == Init => Inv
<1>. SUFFICES ASSUME Init PROVE Inv OBVIOUS
<1>1. <<>> \in Seq({"error", "paired"}) /\ Len(<<>>) = 0
  OBVIOUS
<1>. QED BY <1>1 DEF Init, Inv, Shape, AnsweredOnce

-----------------------------------------------------------------------------
\* Every step keeps the invariant.
LEMMA StepInv == Inv /\ [Next]_vars => Inv'
<1>. SUFFICES ASSUME Inv, [Next]_vars PROVE Inv' OBVIOUS
<1>1. ASSUME NEW r \in Request, Refuse(r) PROVE Inv'
  <2>1. /\ r \notin asked /\ asked' = asked \cup {r} /\ Answer(r, "error")
        /\ open' = open \ {} /\ swept' = swept \cup {}
    BY <1>1 DEF Refuse, sessionVars
  <2>2. PICK S \in SUBSET open : open' = open \ S /\ swept' = swept \cup S
    BY <2>1
  <2>. QED BY <2>1, <2>2, RefusedAtOnce
<1>2. ASSUME NEW r \in Request, TooMany(r) PROVE Inv'
  <2>1. /\ r \notin asked /\ asked' = asked \cup {r} /\ Answer(r, "error")
        /\ open' = open \ (open \cap Old) /\ swept' = swept \cup (open \cap Old)
    BY <1>2 DEF TooMany
  <2>. QED BY <2>1, RefusedAtOnce
<1>3. ASSUME NEW r \in Request, StartSession(r) PROVE Inv'
  BY <1>3, StartStep
<1>4. ASSUME NEW r \in Request, ErrandFails(r) \/ TimesOut(r) PROVE Inv'
  BY <1>4, EndStep DEF ErrandFails, TimesOut
<1>5. ASSUME NEW r \in Request, NEW c \in Client, NEW offer \in Offers, Unfit(c, r, offer)
      PROVE  Inv'
  BY <1>5, EndStep DEF Unfit
<1>6. ASSUME NEW r \in Request, NEW c \in Client, NEW offer \in Offers, Pair(c, r, offer)
      PROVE  Inv'
  <2>1. /\ r \in open /\ open' = open \ {r} /\ Answer(r, "paired")
        /\ UNCHANGED <<asked, swept>>
    BY <1>6 DEF Pair, Takes
  <2>. QED BY <2>1, TakenOut
<1>7. ASSUME NEW r \in Request, SidSent(r) \/ ReportAges(r) \/ \E success \in BOOLEAN : Report(r, success)
      PROVE  Inv'
  <2>1. UNCHANGED <<asked, open, swept, answers, missed>>
    BY <1>7 DEF SidSent, ReportAges, Report, sessionVars, answerVars
  <2>. QED BY <2>1, Untouched
<1>8. CASE SessionAges \/ (\E k \in DOMAIN records : RecordAges(k)) \/ (\E c \in Client : Leave(c))
  <2>1. UNCHANGED <<asked, open, swept, answers, missed>>
    BY <1>8 DEF SessionAges, RecordAges, Leave, sessionVars, answerVars
  <2>. QED BY <2>1, Untouched
<1>9. CASE UNCHANGED vars
  BY <1>9, Untouched DEF vars, sessionVars, answerVars
<1>. QED BY <1>1, <1>2, <1>3, <1>4, <1>5, <1>6, <1>7, <1>8, <1>9 DEF Next, Step

\* The inductive invariant of NatHole.
THEOREM Invariance == Spec => []Inv
BY InitInv, StepInv, PTL DEF Spec

\* A request is answered once, by whichever of its tasks comes first
\* (start_session, handle_client).
THEOREM AnsweredOnceHolds == Spec => []AnsweredOnce
<1>1. Inv => AnsweredOnce BY DEF Inv
<1>. QED BY <1>1, Invariance, PTL

-----------------------------------------------------------------------------
(* HoleRecords, one at a time.  A record is a finite sequence of ways, each *)
(* (mode, index) once.                                                      *)

Way == [mode : 0 .. 4, index : Nat, score : Int, base : Int, tried : Nat, won : Nat]

WellMade(rec) ==
  /\ rec \in Seq(Way) /\ Len(rec) > 0
  /\ \A i \in DOMAIN rec : rec[i].index \in DOMAIN FirstRole[rec[i].mode] /\ rec[i].score <= 10
  /\ \A i, j \in DOMAIN rec : rec[i].mode = rec[j].mode /\ rec[i].index = rec[j].index => i = j

\* As long as nothing has succeeded a score is the number of times its way was
\* passed over, and ways of one score are at most one recommendation apart.
InTurn(rec) ==
  (\A i \in DOMAIN rec : rec[i].won = 0) =>
     \A i, j \in DOMAIN rec :
       /\ rec[i].score = rec[i].base - rec[i].tried
       /\ rec[i].base = rec[j].base => rec[i].tried <= rec[j].tried + 1

\* A set of natural numbers has a least one: what stands for induction here.
LEMMA LeastNat ==
  ASSUME NEW S \in SUBSET Nat, S # {}
  PROVE  \E n \in S : \A m \in S : n <= m
<1>. DEFINE Less == OpToRel(<, Nat)
<1>1. IsWellFoundedOn(Less, Nat)
  BY NatLessThanWellFounded
<1>2. \A m, n \in Nat : m < n => <<m, n>> \in Less
  BY DEF OpToRel
<1>. HIDE DEF Less
<1>3. PICK n \in S : \A m \in S : <<m, n>> \notin Less
  BY <1>1, WFMin
<1>4. \A m \in S : m \in Nat /\ n \in Nat /\ ~(m < n)
  BY <1>2, <1>3, Zenon
<1>. QED BY <1>4

\* What a way is made of.
LEMMA WayFields ==
  ASSUME NEW w \in Way
  PROVE  /\ w.mode \in 0 .. 4 /\ w.index \in Nat /\ w.score \in Int /\ w.base \in Int
         /\ w.tried \in Nat /\ w.won \in Nat
BY DEF Way

\* A record is a finite, nonempty sequence of ways.
LEMMA RecordFields ==
  ASSUME NEW rec, WellMade(rec)
  PROVE  /\ DOMAIN rec = 1 .. Len(rec) /\ Len(rec) \in Nat \ {0}
         /\ \A i \in DOMAIN rec : rec[i] \in Way /\ rec[i].score \in Int /\ rec[i].score <= 10
<1>1. rec \in Seq(Way) /\ Len(rec) > 0 /\ \A i \in DOMAIN rec : rec[i].score <= 10
  BY DEF WellMade
<1>2. /\ Len(rec) \in Nat \ {0} /\ DOMAIN rec = 1 .. Len(rec)
      /\ \A i \in DOMAIN rec : rec[i] \in Way
  BY <1>1
<1>. QED BY <1>1, <1>2, WayFields

\* recommend finds a way, and none has a higher score.
LEMMA BestOfRecord ==
  ASSUME NEW rec, WellMade(rec)
  PROVE  /\ Best(rec) \in DOMAIN rec
         /\ \A j \in DOMAIN rec : rec[j].score <= rec[Best(rec)].score
<1>1. /\ DOMAIN rec = 1 .. Len(rec) /\ Len(rec) \in Nat \ {0}
      /\ \A i \in DOMAIN rec : rec[i].score \in Int /\ rec[i].score <= 10
  BY RecordFields
<1>. DEFINE lack == {10 - rec[i].score : i \in DOMAIN rec}
<1>2. lack \in SUBSET Nat /\ lack # {}
  BY <1>1
<1>3. PICK n \in lack : \A m \in lack : n <= m
  BY <1>2, LeastNat
<1>4. PICK k \in DOMAIN rec : n = 10 - rec[k].score
  BY <1>3
<1>5. \A j \in DOMAIN rec : rec[j].score <= rec[k].score
  <2>1. \A j \in DOMAIN rec : 10 - rec[j].score \in lack
    OBVIOUS
  <2>2. \A j \in DOMAIN rec : 10 - rec[k].score <= 10 - rec[j].score
    BY <1>3, <1>4, <2>1
  <2>. QED BY <1>1, <2>2
<1>. DEFINE top == {i \in DOMAIN rec : rec[i].score = rec[k].score}
<1>6. top \in SUBSET Nat /\ top # {}
  BY <1>1
<1>7. PICK b \in top : \A m \in top : b <= m
  BY <1>6, LeastNat
<1>8. /\ b \in DOMAIN rec
      /\ \A j \in DOMAIN rec : rec[j].score <= rec[b].score
      /\ \A j \in 1 .. b - 1 : rec[j].score < rec[b].score
  BY <1>1, <1>5, <1>7
<1>. QED BY <1>8 DEF Best

\* One way marked down.
LEMMA MarkedDown ==
  ASSUME NEW w \in Way, NEW x, x = [w EXCEPT !.score = w.score - 1, !.tried = w.tried + 1]
  PROVE  /\ x \in Way /\ x.mode = w.mode /\ x.index = w.index /\ x.won = w.won /\ x.base = w.base
         /\ x.tried = w.tried + 1 /\ x.score = w.score - 1
<1>1. w.score - 1 \in Int /\ w.tried + 1 \in Nat
  BY WayFields
<1>2. PICK y : y = [w EXCEPT !.score = w.score - 1]
  OBVIOUS
<1>3. /\ y \in Way /\ y.mode = w.mode /\ y.index = w.index /\ y.won = w.won /\ y.base = w.base
      /\ y.tried = w.tried /\ y.score = w.score - 1
  BY <1>1, <1>2 DEF Way
<1>4. x = [y EXCEPT !.tried = w.tried + 1]
  BY <1>2
<1>. QED BY <1>1, <1>3, <1>4 DEF Way

\* recommend marks one way down, the one with the highest score.
LEMMA RecommendedRecord ==
  ASSUME NEW rec, WellMade(rec), InTurn(rec)
  PROVE  /\ WellMade(Recommended(rec)) /\ InTurn(Recommended(rec))
         /\ DOMAIN Recommended(rec) = DOMAIN rec
         /\ \A i \in DOMAIN rec :
              /\ Recommended(rec)[i].mode = rec[i].mode /\ Recommended(rec)[i].index = rec[i].index
              /\ Recommended(rec)[i].won = rec[i].won
              /\ Recommended(rec)[i].tried = rec[i].tried + (IF i = Best(rec) THEN 1 ELSE 0)
<1>. DEFINE new == Recommended(rec)
<1>1. /\ DOMAIN rec = 1 .. Len(rec) /\ Len(rec) \in Nat \ {0}
      /\ \A i \in DOMAIN rec : rec[i] \in Way /\ rec[i].score <= 10
  BY RecordFields
<1>2. PICK b \in DOMAIN rec : b = Best(rec) /\ \A j \in DOMAIN rec : rec[j].score <= rec[b].score
  BY BestOfRecord
<1>3. new = [rec EXCEPT ![b].score = @ - 1, ![b].tried = @ + 1]
  BY <1>2 DEF Recommended
<1>. HIDE DEF new
<1>4. DOMAIN new = DOMAIN rec /\ \A i \in DOMAIN rec : i # b => new[i] = rec[i]
  BY <1>1, <1>3
<1>5. /\ new[b] \in Way /\ new[b].mode = rec[b].mode /\ new[b].index = rec[b].index
      /\ new[b].won = rec[b].won /\ new[b].base = rec[b].base
      /\ new[b].tried = rec[b].tried + 1 /\ new[b].score = rec[b].score - 1
  <2>1. rec[b] \in Way BY <1>1
  <2>2. new[b] = [rec[b] EXCEPT !.score = rec[b].score - 1, !.tried = rec[b].tried + 1]
    BY <1>1, <1>3 DEF Way
  <2>. QED BY <2>1, <2>2, MarkedDown
<1>6. new \in Seq(Way) /\ Len(new) = Len(rec)
  <2>1. \A i \in 1 .. Len(rec) : new[i] \in Way
    BY <1>1, <1>4, <1>5
  <2>2. new = [i \in 1 .. Len(rec) |-> new[i]]
    BY <1>1, <1>3
  <2>. QED BY <1>1, <2>1, <2>2
<1>7. WellMade(new)
  <2>1. \A i \in DOMAIN new : new[i].mode = rec[i].mode /\ new[i].index = rec[i].index
    BY <1>4, <1>5
  <2>2. \A i \in DOMAIN new : new[i].score <= 10
    <3>1. rec[b].score \in Int BY <1>1, WayFields
    <3>. QED BY <1>1, <1>4, <1>5, <3>1
  <2>. QED BY <1>1, <1>4, <1>6, <2>1, <2>2 DEF WellMade
<1>8. InTurn(new)
  <2>. SUFFICES ASSUME \A i \in DOMAIN rec : rec[i].won = 0,
                       NEW i \in DOMAIN rec, NEW j \in DOMAIN rec
                PROVE  /\ new[i].score = new[i].base - new[i].tried
                       /\ new[i].base = new[j].base => new[i].tried <= new[j].tried + 1
    BY <1>4, <1>5 DEF InTurn
  <2>1. /\ rec[i].score = rec[i].base - rec[i].tried
        /\ rec[j].score = rec[j].base - rec[j].tried
        /\ rec[i].base = rec[j].base => rec[i].tried <= rec[j].tried + 1
        /\ rec[b].score = rec[b].base - rec[b].tried
        /\ rec[j].score <= rec[b].score
    BY <1>2 DEF InTurn
  <2>2. /\ rec[i].base \in Int /\ rec[i].tried \in Nat
        /\ rec[j].base \in Int /\ rec[j].tried \in Nat
        /\ rec[b].base \in Int /\ rec[b].tried \in Nat
    BY <1>1, WayFields
  <2>3. CASE i = b
    <3>1. new[i].base = rec[b].base /\ new[i].tried = rec[b].tried + 1 /\ new[i].score = rec[b].score - 1
      BY <1>5, <2>3
    <3>2. CASE j = b BY <1>5, <2>1, <2>2, <3>1, <3>2
    <3>3. CASE j # b
      <4>1. new[j] = rec[j] BY <1>4, <3>3
      <4>. QED BY <2>1, <2>2, <3>1, <4>1
    <3>. QED BY <3>2, <3>3
  <2>4. CASE i # b
    <3>1. new[i] = rec[i] BY <1>4, <2>4
    <3>2. CASE j = b BY <1>5, <2>1, <2>2, <3>1, <3>2
    <3>3. CASE j # b
      <4>1. new[j] = rec[j] BY <1>4, <3>3
      <4>. QED BY <2>1, <2>2, <3>1, <4>1
    <3>. QED BY <3>2, <3>3
  <2>. QED BY <2>3, <2>4
<1>9. \A i \in DOMAIN rec :
        /\ new[i].mode = rec[i].mode /\ new[i].index = rec[i].index
        /\ new[i].won = rec[i].won
        /\ new[i].tried = rec[i].tried + (IF i = b THEN 1 ELSE 0)
  <2>1. \A i \in DOMAIN rec : rec[i].tried \in Nat BY <1>1, WayFields
  <2>. QED BY <1>4, <1>5, <2>1
<1>. QED BY <1>2, <1>4, <1>7, <1>8, <1>9 DEF new

\* report_success marks the way up that was reported, never above 10.
LEMMA CreditedRecord ==
  ASSUME NEW rec, WellMade(rec), InTurn(rec), NEW mode, NEW index
  PROVE  /\ WellMade(Credited(rec, mode, index)) /\ InTurn(Credited(rec, mode, index))
         /\ DOMAIN Credited(rec, mode, index) = DOMAIN rec
         /\ \A i \in DOMAIN rec :
              /\ Credited(rec, mode, index)[i].mode = rec[i].mode
              /\ Credited(rec, mode, index)[i].index = rec[i].index
              /\ Credited(rec, mode, index)[i].tried = rec[i].tried
              /\ Credited(rec, mode, index)[i].won
                   = rec[i].won + (IF rec[i].mode = mode /\ rec[i].index = index THEN 1 ELSE 0)
<1>. DEFINE new == Credited(rec, mode, index)
            hit(i) == rec[i].mode = mode /\ rec[i].index = index
<1>1. /\ DOMAIN rec = 1 .. Len(rec) /\ Len(rec) \in Nat \ {0}
      /\ \A i \in DOMAIN rec : rec[i] \in Way /\ rec[i].score <= 10
  BY RecordFields
<1>2. /\ DOMAIN new = DOMAIN rec
      /\ \A i \in DOMAIN rec : ~hit(i) => new[i] = rec[i]
  BY DEF Credited
<1>3. ASSUME NEW i \in DOMAIN rec, hit(i)
      PROVE  /\ new[i] \in Way /\ new[i].mode = rec[i].mode /\ new[i].index = rec[i].index
             /\ new[i].tried = rec[i].tried /\ new[i].won = rec[i].won + 1 /\ new[i].score <= 10
  <2>1. PICK w \in Way : w = rec[i]
    BY <1>1
  <2>2. PICK x : x = IF w.score + 2 > 10 THEN 10 ELSE w.score + 2
    OBVIOUS
  <2>3. x \in Int /\ x <= 10 /\ w.won + 1 \in Nat
    BY <2>2, WayFields
  <2>4. PICK y : y = [w EXCEPT !.score = x]
    OBVIOUS
  <2>5. /\ y \in Way /\ y.mode = w.mode /\ y.index = w.index /\ y.won = w.won
        /\ y.tried = w.tried /\ y.score = x
    BY <2>3, <2>4 DEF Way
  <2>6. new[i] = [y EXCEPT !.won = w.won + 1]
    BY <1>3, <2>1, <2>2, <2>4, <2>5 DEF Credited, Way
  <2>. QED BY <2>1, <2>3, <2>5, <2>6 DEF Way
<1>. HIDE DEF new
<1>4. \A i \in DOMAIN rec :
        /\ new[i] \in Way /\ new[i].mode = rec[i].mode /\ new[i].index = rec[i].index
        /\ new[i].tried = rec[i].tried /\ new[i].score <= 10
  BY <1>1, <1>2, <1>3
<1>5. \A i \in DOMAIN rec :
        new[i].won = rec[i].won + (IF rec[i].mode = mode /\ rec[i].index = index THEN 1 ELSE 0)
  <2>1. \A i \in DOMAIN rec : rec[i].won \in Nat
    BY <1>1, WayFields
  <2>. QED BY <1>2, <1>3, <2>1
<1>6. new \in Seq(Way) /\ Len(new) = Len(rec)
  <2>1. new = [i \in 1 .. Len(rec) |-> new[i]]
    BY <1>1 DEF new, Credited
  <2>. QED BY <1>1, <1>4, <2>1
<1>7. WellMade(new)
  BY <1>1, <1>2, <1>4, <1>6 DEF WellMade
<1>8. InTurn(new)
  <2>. SUFFICES ASSUME \A i \in DOMAIN rec : new[i].won = 0
                PROVE  \A i, j \in DOMAIN rec :
                         /\ new[i].score = new[i].base - new[i].tried
                         /\ new[i].base = new[j].base => new[i].tried <= new[j].tried + 1
    BY <1>2 DEF InTurn
  <2>1. \A i \in DOMAIN rec : rec[i].won \in Nat
    BY <1>1, WayFields
  <2>2. \A i \in DOMAIN rec : ~hit(i) /\ rec[i].won = 0
    BY <1>5, <2>1
  <2>3. \A i \in DOMAIN rec : new[i] = rec[i] /\ rec[i].won = 0
    BY <1>2, <2>2
  <2>. QED BY <2>3 DEF InTurn
<1>. QED BY <1>2, <1>4, <1>5, <1>7, <1>8 DEF new

-----------------------------------------------------------------------------
(* HoleRecords::new *)

\* Nothing tried yet, and all the ways are of some modes.
Unused(rec, M) ==
  /\ WellMade(rec)
  /\ \A i \in DOMAIN rec : /\ rec[i].mode \in M /\ rec[i].tried = 0 /\ rec[i].won = 0
                           /\ rec[i].score = rec[i].base

\* Every mode has some ways, numbered from 1, and one of two roles for each
\* (behaviors_by_mode).
LEMMA WaysOfMode ==
  ASSUME NEW mode \in 0 .. 4
  PROVE  /\ \E n \in Nat \ {0} : DOMAIN FirstRole[mode] = 1 .. n
         /\ \A i \in DOMAIN FirstRole[mode] : FirstRole[mode][i] \in Roles
         /\ mode \in {1, 2, 4} => \A i \in DOMAIN FirstRole[mode] : FirstRole[mode][i] = "sender"
<1>1. CASE mode = 0
  <2>1. FirstRole[0] = <<"sender", "receiver", "sender", "receiver", "sender", "receiver",
                         "sender", "sender", "receiver", "receiver">>
    BY DEF FirstRole
  <2>2. DOMAIN FirstRole[0] = 1 .. 10
    BY <2>1
  <2>3. \A i \in 1 .. 10 : FirstRole[0][i] \in {"sender", "receiver"}
    BY <2>1
  <2>. QED BY <1>1, <2>2, <2>3 DEF Roles
<1>2. CASE mode = 1
  <2>1. FirstRole[1] = [i \in 1 .. 6 |-> "sender"]
    BY DEF FirstRole
  <2>. QED BY <1>2, <2>1 DEF Roles
<1>3. CASE mode = 3
  <2>1. FirstRole[3] = [i \in 1 .. 6 |-> IF i <= 3 THEN "sender" ELSE "receiver"]
    BY DEF FirstRole
  <2>. QED BY <1>3, <2>1 DEF Roles
<1>4. CASE mode \in {2, 4}
  <2>1. FirstRole[mode] = [i \in 1 .. 3 |-> "sender"]
    BY <1>4 DEF FirstRole
  <2>. QED BY <1>4, <2>1 DEF Roles
<1>. QED BY <1>1, <1>2, <1>3, <1>4

\* The ways of one mode.
LEMMA WaysMade ==
  ASSUME NEW mode \in 0 .. 4, NEW s \in 0 .. 1, NEW t \in 0 .. 1
  PROVE  Unused(Ways(mode, s, t), {mode})
<1>. DEFINE rec == Ways(mode, s, t)
<1>1. PICK n \in Nat \ {0} : DOMAIN FirstRole[mode] = 1 .. n
  BY WaysOfMode
<1>2. DOMAIN rec = 1 .. n
  BY <1>1 DEF Ways
<1>3. ASSUME NEW i \in 1 .. n
      PROVE  \E b \in 0 .. 1 :
               rec[i] = [mode |-> mode, index |-> i, score |-> b, base |-> b, tried |-> 0, won |-> 0]
  <2>1. rec[i] = LET b == IF FirstRole[mode][i] = "sender" THEN s ELSE t
                 IN [mode |-> mode, index |-> i, score |-> b, base |-> b, tried |-> 0, won |-> 0]
    BY <1>1, <1>3 DEF Ways
  <2>. QED BY <2>1
<1>4. ASSUME NEW i \in 1 .. n
      PROVE  /\ rec[i] \in Way /\ rec[i].mode = mode /\ rec[i].index = i
             /\ rec[i].score <= 10 /\ rec[i].tried = 0 /\ rec[i].won = 0 /\ rec[i].score = rec[i].base
  <2>1. PICK b \in 0 .. 1 :
          rec[i] = [mode |-> mode, index |-> i, score |-> b, base |-> b, tried |-> 0, won |-> 0]
    BY <1>3
  <2>. HIDE DEF rec
  <2>. QED BY <2>1 DEF Way
<1>5. rec \in Seq(Way) /\ Len(rec) = n
  <2>1. rec = [i \in 1 .. n |-> rec[i]]
    BY <1>1, <1>2 DEF Ways
  <2>. HIDE DEF rec
  <2>. QED BY <1>4, <2>1
<1>. HIDE DEF rec
<1>6. WellMade(rec)
  BY <1>1, <1>2, <1>4, <1>5 DEF WellMade
<1>7. Unused(rec, {mode})
  BY <1>2, <1>4, <1>6 DEF Unused
<1>. QED BY <1>7 DEF rec

\* The ways of some modes and then those of others.
LEMMA MoreWays ==
  ASSUME NEW a, NEW b, NEW M, NEW N, Unused(a, M), Unused(b, N), M \cap N = {}
  PROVE  Unused(a \o b, M \cup N)
<1>. DEFINE c == a \o b
<1>1. /\ a \in Seq(Way) /\ b \in Seq(Way)
      /\ DOMAIN a = 1 .. Len(a) /\ Len(a) \in Nat \ {0}
      /\ DOMAIN b = 1 .. Len(b) /\ Len(b) \in Nat \ {0}
  BY RecordFields DEF Unused, WellMade
<1>2. /\ c \in Seq(Way) /\ Len(c) = Len(a) + Len(b) /\ DOMAIN c = 1 .. Len(a) + Len(b)
      /\ \A i \in DOMAIN c : c[i] = IF i <= Len(a) THEN a[i] ELSE b[i - Len(a)]
  BY <1>1
<1>. HIDE DEF c
<1>3. \A i \in DOMAIN c :
        \/ i \in DOMAIN a /\ c[i] = a[i]
        \/ i - Len(a) \in DOMAIN b /\ c[i] = b[i - Len(a)]
  BY <1>1, <1>2
<1>4. /\ \A i \in DOMAIN a : a[i].mode \in M
      /\ \A i \in DOMAIN b : b[i].mode \in N
      /\ \A i, j \in DOMAIN a : a[i].mode = a[j].mode /\ a[i].index = a[j].index => i = j
      /\ \A i, j \in DOMAIN b : b[i].mode = b[j].mode /\ b[i].index = b[j].index => i = j
  BY DEF Unused, WellMade
<1>5. \A i, j \in DOMAIN c : c[i].mode = c[j].mode /\ c[i].index = c[j].index => i = j
  <2>. SUFFICES ASSUME NEW i \in DOMAIN c, NEW j \in DOMAIN c,
                       c[i].mode = c[j].mode, c[i].index = c[j].index
                PROVE  i = j
    OBVIOUS
  <2>1. CASE i \in DOMAIN a /\ c[i] = a[i] /\ j \in DOMAIN a /\ c[j] = a[j]
    BY <1>4, <2>1
  <2>2. CASE /\ i - Len(a) \in DOMAIN b /\ c[i] = b[i - Len(a)]
             /\ j - Len(a) \in DOMAIN b /\ c[j] = b[j - Len(a)]
    <3>1. i - Len(a) = j - Len(a)
      BY <1>4, <2>2
    <3>. QED BY <1>1, <1>2, <3>1
  <2>3. CASE /\ i \in DOMAIN a /\ c[i] = a[i]
             /\ j - Len(a) \in DOMAIN b /\ c[j] = b[j - Len(a)]
    BY <1>4, <2>3
  <2>4. CASE /\ j \in DOMAIN a /\ c[j] = a[j]
             /\ i - Len(a) \in DOMAIN b /\ c[i] = b[i - Len(a)]
    BY <1>4, <2>4
  <2>. QED BY <1>3, <2>1, <2>2, <2>3, <2>4
<1>6. /\ \A i \in DOMAIN c : c[i].index \in DOMAIN FirstRole[c[i].mode] /\ c[i].score <= 10
      /\ \A i \in DOMAIN c : /\ c[i].mode \in M \cup N /\ c[i].tried = 0 /\ c[i].won = 0
                             /\ c[i].score = c[i].base
  BY <1>3 DEF Unused, WellMade
<1>7. WellMade(c)
  BY <1>1, <1>2, <1>5, <1>6 DEF WellMade
<1>8. Unused(c, M \cup N)
  BY <1>6, <1>7 DEF Unused
<1>. QED BY <1>8 DEF c

\* A new record has nothing tried yet, whatever the two natures.
LEMMA NewRecordMade ==
  ASSUME NEW c, NEW v
  PROVE  /\ WellMade(NewRecord(c, v)) /\ InTurn(NewRecord(c, v))
         /\ \A i \in DOMAIN NewRecord(c, v) : /\ NewRecord(c, v)[i].tried = 0
                                              /\ NewRecord(c, v)[i].won = 0
<1>1. PICK m0 : m0 = IF c.public THEN Ways(0, 0, 1) ELSE IF v.public THEN Ways(0, 1, 0) ELSE Even(0, 0)
  OBVIOUS
<1>2. NewRecord(c, v) \in {m0, Even(1, 0) \o Even(2, 0) \o m0, Even(2, 0) \o Even(1, 0) \o m0,
                           Even(3, 0) \o Even(4, 0), Even(4, 0), Even(0, 1) \o Even(1, 1) \o Even(3, 1)}
  BY <1>1 DEF NewRecord
<1>3. Unused(m0, {0})
  BY <1>1, WaysMade DEF Even
<1>4. \A mode \in 0 .. 4, s \in 0 .. 1 : Unused(Even(mode, s), {mode})
  BY WaysMade DEF Even
<1>5. Unused(Even(1, 0) \o Even(2, 0) \o m0, {1} \cup {2} \cup {0})
  <2>1. Unused(Even(1, 0) \o Even(2, 0), {1} \cup {2})
    BY <1>4, MoreWays
  <2>. QED BY <1>3, <2>1, MoreWays
<1>6. Unused(Even(2, 0) \o Even(1, 0) \o m0, {2} \cup {1} \cup {0})
  <2>1. Unused(Even(2, 0) \o Even(1, 0), {2} \cup {1})
    BY <1>4, MoreWays
  <2>. QED BY <1>3, <2>1, MoreWays
<1>7. Unused(Even(3, 0) \o Even(4, 0), {3} \cup {4})
  BY <1>4, MoreWays
<1>8. Unused(Even(0, 1) \o Even(1, 1) \o Even(3, 1), {0} \cup {1} \cup {3})
  <2>1. Unused(Even(0, 1) \o Even(1, 1), {0} \cup {1})
    BY <1>4, MoreWays
  <2>. QED BY <1>4, <2>1, MoreWays
<1>9. Unused(Even(4, 0), {4})
  BY <1>4
<1>10. PICK rec, M : rec = NewRecord(c, v) /\ Unused(rec, M)
  BY <1>2, <1>3, <1>5, <1>6, <1>7, <1>8, <1>9
<1>11. InTurn(rec)
  <2>1. \A i \in DOMAIN rec : rec[i].score \in Int /\ rec[i].tried = 0 /\ rec[i].score = rec[i].base
    BY <1>10, RecordFields DEF Unused
  <2>. QED BY <2>1 DEF InTurn
<1>. QED BY <1>10, <1>11 DEF Unused

-----------------------------------------------------------------------------
(* The table of records, with the reports that may still come *)

\* The reports on one way that are still to come.
Owed(k, way) ==
  {r \in Request : /\ reports[r] # None /\ reports[r].key = k
                   /\ reports[r].mode = way.mode /\ reports[r].index = way.index}

\* The record that a report is about is still there, and fresh.
ReportsFindRecords ==
  \A r \in Request : reports[r] # None => reports[r].key \in DOMAIN records \ stale

\* Every success that was reported, or may be, was recommended before.
CreditCovered ==
  \A k \in DOMAIN records : \A i \in DOMAIN records[k] :
    records[k][i].won + Cardinality(Owed(k, records[k][i])) <= records[k][i].tried

RecordsInv ==
  /\ reports = [r \in Request |-> reports[r]] /\ paired = [r \in Request |-> paired[r]]
  /\ stale \subseteq DOMAIN records
  /\ \A k \in DOMAIN records : WellMade(records[k]) /\ InTurn(records[k])
  /\ ReportsFindRecords /\ CreditCovered /\ RolesFit

\* Fewer reports to come, and a record without one may grow old.
LEMMA OwedShrinks ==
  ASSUME NEW S, NEW T, S \subseteq T, T \subseteq Request
  PROVE  /\ Cardinality(S) \in Nat /\ Cardinality(T) \in Nat
         /\ Cardinality(S) <= Cardinality(T)
BY FS_Subset, FS_CardinalityType, NatHoleAssumption

\* One report more to come.
LEMMA OwedGrows ==
  ASSUME NEW S, NEW T, NEW r \in Request, S \subseteq T \cup {r}, T \subseteq Request
  PROVE  Cardinality(S) \in Nat /\ Cardinality(T) \in Nat /\ Cardinality(S) <= Cardinality(T) + 1
<1>1. IsFiniteSet(T) /\ IsFiniteSet(T \cup {r})
  BY FS_Subset, FS_AddElement, NatHoleAssumption
<1>2. Cardinality(T \cup {r}) <= Cardinality(T) + 1 /\ Cardinality(T) \in Nat
  BY <1>1, FS_AddElement, FS_CardinalityType
<1>3. Cardinality(S) <= Cardinality(T \cup {r}) /\ IsFiniteSet(S)
  BY <1>1, FS_Subset
<1>. QED BY <1>1, <1>2, <1>3, FS_CardinalityType

\* One report has come in.
LEMMA OwedComesIn ==
  ASSUME NEW S, NEW T, NEW r \in T, S = T \ {r}, T \subseteq Request
  PROVE  Cardinality(S) \in Nat /\ Cardinality(T) \in Nat /\ Cardinality(S) = Cardinality(T) - 1
BY FS_Subset, FS_RemoveElement, FS_CardinalityType, NatHoleAssumption

\* The score table stays as it is and nobody else reports.
LEMMA RecordsUntouched ==
  ASSUME RecordsInv, UNCHANGED <<records, stale, reports, paired>>
  PROVE  RecordsInv'
<1>1. ReportsFindRecords'
  BY DEF RecordsInv, ReportsFindRecords
<1>2. CreditCovered'
  BY DEF RecordsInv, CreditCovered, Owed
<1>3. RolesFit'
  BY DEF RecordsInv, RolesFit
<1>. QED BY <1>1, <1>2, <1>3 DEF RecordsInv

\* A report that comes too late, or without success, or to no record: it is
\* only struck off (handle_report, clean).
LEMMA StruckOff ==
  ASSUME RecordsInv, NEW r \in Request, reports' = [reports EXCEPT ![r] = None],
         UNCHANGED <<records, stale, paired>>
  PROVE  RecordsInv'
<1>1. /\ reports' = [d \in Request |-> reports'[d]]
      /\ \A d \in Request : reports'[d] # None => d # r /\ reports'[d] = reports[d]
  BY DEF RecordsInv
<1>2. \A k \in DOMAIN records : \A i \in DOMAIN records[k] :
        /\ Owed(k, records[k][i])' \subseteq Owed(k, records[k][i])
        /\ Owed(k, records[k][i]) \subseteq Request
  BY <1>1 DEF Owed
<1>3. CreditCovered'
  <2>. SUFFICES ASSUME NEW k \in DOMAIN records, NEW i \in DOMAIN records[k]
                PROVE  records[k][i].won + Cardinality(Owed(k, records[k][i])')
                         <= records[k][i].tried
    BY DEF CreditCovered, Owed
  <2>1. records[k][i].won + Cardinality(Owed(k, records[k][i])) <= records[k][i].tried
    BY DEF RecordsInv, CreditCovered
  <2>2. records[k][i].won \in Nat /\ records[k][i].tried \in Nat
    BY RecordFields, WayFields DEF RecordsInv
  <2>3. /\ Cardinality(Owed(k, records[k][i])') \in Nat /\ Cardinality(Owed(k, records[k][i])) \in Nat
        /\ Cardinality(Owed(k, records[k][i])') <= Cardinality(Owed(k, records[k][i]))
    BY <1>2, OwedShrinks
  <2>. QED BY <2>1, <2>2, <2>3
<1>. QED BY <1>1, <1>3 DEF RecordsInv, ReportsFindRecords, RolesFit

\* A success that is reported in time is credited, and struck off
\* (handle_report, HoleRecords::report_success).
LEMMA ReportCredits ==
  ASSUME RecordsInv, NEW r \in Request, Report(r, TRUE), reports[r].key \in DOMAIN records
  PROVE  RecordsInv'
<1>k. PICK key \in DOMAIN records : key = reports[r].key
  OBVIOUS
<1>m. PICK mode, index : mode = reports[r].mode /\ index = reports[r].index
  OBVIOUS
<1>1. key = reports[r].key /\ mode = reports[r].mode /\ index = reports[r].index
  BY <1>k, <1>m
<1>2. /\ reports[r] # None /\ key \notin stale
      /\ reports' = [reports EXCEPT ![r] = None] /\ UNCHANGED paired
      /\ records' = [records EXCEPT ![key] = Credited(records[key], mode, index)]
      /\ stale' = stale \ {key}
  BY <1>1 DEF Report, RecordsInv, ReportsFindRecords
<1>3. /\ reports' = [d \in Request |-> reports'[d]]
      /\ \A d \in Request : reports'[d] # None => d # r /\ reports'[d] = reports[d]
      /\ \A d \in Request : d # r => reports'[d] = reports[d]
      /\ reports'[r] = None
  BY <1>2 DEF RecordsInv
<1>4. /\ DOMAIN records' = DOMAIN records
      /\ \A k \in DOMAIN records : k # key => records'[k] = records[k]
      /\ records'[key] = Credited(records[key], mode, index)
  BY <1>1, <1>2
<1>5. \A k \in DOMAIN records : WellMade(records[k]) /\ InTurn(records[k])
  BY DEF RecordsInv
<1>6. /\ WellMade(records'[key]) /\ InTurn(records'[key])
      /\ DOMAIN records'[key] = DOMAIN records[key]
      /\ \A i \in DOMAIN records[key] :
           /\ records'[key][i].mode = records[key][i].mode
           /\ records'[key][i].index = records[key][i].index
           /\ records'[key][i].tried = records[key][i].tried
           /\ records'[key][i].won = records[key][i].won
                + (IF records[key][i].mode = mode /\ records[key][i].index = index THEN 1 ELSE 0)
  BY <1>4, <1>5, CreditedRecord
<1>7. \A k \in DOMAIN records' : WellMade(records'[k]) /\ InTurn(records'[k])
  BY <1>4, <1>5, <1>6
<1>8. CreditCovered'
  <2>. SUFFICES ASSUME NEW k \in DOMAIN records, NEW i \in DOMAIN records'[k]
                PROVE  records'[k][i].won + Cardinality(Owed(k, records[k][i])')
                         <= records'[k][i].tried
    BY <1>4 DEF CreditCovered, Owed
  <2>1. i \in DOMAIN records[k]
    BY <1>4, <1>6
  <2>. DEFINE before == Owed(k, records[k][i])
              after  == {d \in Request : /\ reports'[d] # None /\ reports'[d].key = k
                                         /\ reports'[d].mode = records[k][i].mode
                                         /\ reports'[d].index = records[k][i].index}
  <2>2. Owed(k, records[k][i])' = after
    BY <1>4, <1>6, <2>1 DEF Owed
  <2>3. records[k][i].won + Cardinality(before) <= records[k][i].tried
    BY <2>1 DEF RecordsInv, CreditCovered
  <2>4. records[k][i].won \in Nat /\ records[k][i].tried \in Nat
    BY <1>5, <2>1, RecordFields, WayFields
  <2>5. CASE k = key /\ records[k][i].mode = mode /\ records[k][i].index = index
    <3>1. r \in before /\ after = before \ {r} /\ before \subseteq Request
      BY <1>1, <1>2, <1>3, <2>5 DEF Owed
    <3>2. /\ Cardinality(after) \in Nat /\ Cardinality(before) \in Nat
          /\ Cardinality(after) = Cardinality(before) - 1
      BY <3>1, OwedComesIn
    <3>3. records'[k][i].won = records[k][i].won + 1 /\ records'[k][i].tried = records[k][i].tried
      BY <1>6, <2>1, <2>5
    <3>. HIDE DEF before, after
    <3>. QED BY <2>2, <2>3, <2>4, <3>2, <3>3
  <2>6. CASE ~(k = key /\ records[k][i].mode = mode /\ records[k][i].index = index)
    <3>1. after \subseteq before /\ before \subseteq Request
      BY <1>3 DEF Owed
    <3>2. /\ Cardinality(after) \in Nat /\ Cardinality(before) \in Nat
          /\ Cardinality(after) <= Cardinality(before)
      BY <3>1, OwedShrinks
    <3>3. records'[k][i].won = records[k][i].won /\ records'[k][i].tried = records[k][i].tried
      BY <1>4, <1>6, <2>1, <2>4, <2>6
    <3>. HIDE DEF before, after
    <3>. QED BY <2>2, <2>3, <2>4, <3>2, <3>3
  <2>. QED BY <2>5, <2>6
<1>9. ReportsFindRecords'
  BY <1>2, <1>3, <1>4 DEF RecordsInv, ReportsFindRecords
<1>. QED BY <1>2, <1>3, <1>4, <1>7, <1>8, <1>9 DEF RecordsInv, RolesFit

\* What a nature says of itself is yes or no.
LEMMA FeatureTypes == \A e : Feature(e).regular \in BOOLEAN /\ Feature(e).public \in BOOLEAN
BY DEF Feature

\* The two roles of a way, handed out as its mode says.
LEMMA RolesHandedOut ==
  ASSUME NEW mode \in 0 .. 4, NEW index \in DOMAIN FirstRole[mode], NEW cf, NEW vf,
         cf.regular \in BOOLEAN, vf.regular \in BOOLEAN,
         NEW first, NEW second, NEW crole, NEW vrole,
         first = FirstRole[mode][index],
         second = IF first = "sender" THEN "receiver" ELSE "sender",
         crole = IF Swapped(mode, cf) THEN second ELSE first,
         vrole = IF Swapped(mode, cf) THEN first ELSE second
  PROVE  /\ crole # vrole
         /\ mode = 1 /\ Hard(cf) # Hard(vf) => (Hard(cf) <=> crole = "sender")
         /\ mode = 2 => (Hard(cf) <=> crole = "receiver")
         /\ mode = 4 /\ cf.regular # vf.regular => (cf.regular <=> crole = "sender")
<1>1. first \in {"sender", "receiver"} /\ (mode \in {1, 2, 4} => first = "sender")
  BY WaysOfMode DEF Roles
<1>. QED BY <1>1 DEF Swapped

\* A pairing recommends one way of one record, drops the records that are too
\* old, and lets two sides report (handle_client, get_recommand_behaviors).
LEMMA PairRecords ==
  ASSUME RecordsInv, NEW r \in Request, NEW c \in Client, NEW offer \in Offers, Pair(c, r, offer)
  PROVE  RecordsInv'
<1>. DEFINE cf == Feature(offer)
            vf == Feature(Seen[r])
<1>1. PICK key, rec, way :
        /\ key = Fingerprint(cf, vf)
        /\ rec = IF key \in DOMAIN Kept THEN Kept[key] ELSE NewRecord(cf, vf)
        /\ way = rec[Best(rec)]
  OBVIOUS
<1>2. /\ records' = [k \in DOMAIN Kept \cup {key} |-> IF k = key THEN Recommended(rec) ELSE Kept[k]]
      /\ stale' = (stale \cap DOMAIN Kept) \ {key}
      /\ reports' = [reports EXCEPT ![r] = [key |-> key, mode |-> way.mode, index |-> way.index]]
  BY <1>1 DEF Pair
<1>3. /\ DOMAIN Kept \subseteq DOMAIN records /\ DOMAIN records \ stale \subseteq DOMAIN Kept
      /\ \A k \in DOMAIN Kept : Kept[k] = records[k]
  BY DEF Kept
<1>4. /\ DOMAIN records' = DOMAIN Kept \cup {key}
      /\ records'[key] = Recommended(rec)
      /\ \A k \in DOMAIN Kept : k # key => records'[k] = records[k]
  BY <1>2, <1>3
<1>5. /\ WellMade(rec) /\ InTurn(rec)
      /\ \/ key \in DOMAIN Kept /\ rec = records[key]
         \/ /\ key \notin DOMAIN Kept
            /\ \A i \in DOMAIN rec : rec[i].tried = 0 /\ rec[i].won = 0
  <2>1. CASE key \in DOMAIN Kept
    BY <1>1, <1>3, <2>1 DEF RecordsInv
  <2>2. CASE key \notin DOMAIN Kept
    BY <1>1, <2>2, NewRecordMade
  <2>. QED BY <2>1, <2>2
<1>. HIDE DEF cf, vf
<1>6. PICK b \in DOMAIN rec : b = Best(rec) /\ way = rec[b]
  BY <1>1, <1>5, BestOfRecord
<1>7. /\ WellMade(records'[key]) /\ InTurn(records'[key])
      /\ DOMAIN records'[key] = DOMAIN rec
      /\ \A i \in DOMAIN rec :
           /\ records'[key][i].mode = rec[i].mode /\ records'[key][i].index = rec[i].index
           /\ records'[key][i].won = rec[i].won
           /\ records'[key][i].tried = rec[i].tried + (IF i = b THEN 1 ELSE 0)
  BY <1>4, <1>5, <1>6, RecommendedRecord
<1>8. \A k \in DOMAIN records' : WellMade(records'[k]) /\ InTurn(records'[k])
  BY <1>3, <1>4, <1>7 DEF RecordsInv
<1>9. /\ reports' = [d \in Request |-> reports'[d]]
      /\ reports'[r] = [key |-> key, mode |-> way.mode, index |-> way.index]
      /\ \A d \in Request : d # r => reports'[d] = reports[d]
  BY <1>2 DEF RecordsInv
<1>10. ReportsFindRecords' /\ stale' \subseteq DOMAIN records'
  <2>1. \A d \in Request : d # r /\ reports[d] # None => reports[d].key \in DOMAIN Kept \ stale
    BY <1>3 DEF RecordsInv, ReportsFindRecords
  <2>2. reports'[r].key = key
    BY <1>9
  <2>. QED BY <1>2, <1>4, <1>9, <2>1, <2>2 DEF ReportsFindRecords
<1>11. CreditCovered'
  <2>. SUFFICES ASSUME NEW k \in DOMAIN records', NEW i \in DOMAIN records'[k]
                PROVE  records'[k][i].won + Cardinality(Owed(k, records[k][i])')
                         <= records'[k][i].tried
    BY DEF CreditCovered, Owed
  <2>1. CASE k # key
    <3>1. k \in DOMAIN Kept /\ k \in DOMAIN records /\ records'[k] = records[k]
      BY <1>3, <1>4, <2>1
    <3>2. records[k][i].won + Cardinality(Owed(k, records[k][i])) <= records[k][i].tried
      BY <3>1 DEF RecordsInv, CreditCovered
    <3>3. records[k][i].won \in Nat /\ records[k][i].tried \in Nat
      BY <3>1, RecordFields, WayFields DEF RecordsInv
    <3>4. /\ Owed(k, records[k][i])' \subseteq Owed(k, records[k][i])
          /\ Owed(k, records[k][i]) \subseteq Request
      BY <1>9, <2>1, <3>1 DEF Owed
    <3>5. /\ Cardinality(Owed(k, records[k][i])') \in Nat /\ Cardinality(Owed(k, records[k][i])) \in Nat
          /\ Cardinality(Owed(k, records[k][i])') <= Cardinality(Owed(k, records[k][i]))
      BY <3>4, OwedShrinks
    <3>. QED BY <3>1, <3>2, <3>3, <3>5
  <2>2. CASE k = key
    <3>1. i \in DOMAIN rec /\ rec[i].won \in Nat /\ rec[i].tried \in Nat
      BY <1>5, <1>7, <2>2, RecordFields, WayFields
    <3>. DEFINE after == Owed(k, records[k][i])'
                before == IF key \in DOMAIN Kept THEN Owed(key, rec[i]) ELSE {}
    <3>2. after = {d \in Request : /\ reports'[d] # None /\ reports'[d].key = key
                                   /\ reports'[d].mode = rec[i].mode
                                   /\ reports'[d].index = rec[i].index}
      BY <1>7, <2>2, <3>1 DEF Owed
    <3>3. \A d \in Request : reports[d] # None /\ reports[d].key = key => key \in DOMAIN Kept
      BY <1>3 DEF RecordsInv, ReportsFindRecords
    <3>4. rec[i].won + Cardinality(before) <= rec[i].tried
      <4>1. CASE key \in DOMAIN Kept
        <5>1. key \in DOMAIN records /\ rec = records[key]
          BY <1>3, <1>5, <4>1
        <5>. QED BY <3>1, <4>1, <5>1 DEF RecordsInv, CreditCovered
      <4>2. CASE key \notin DOMAIN Kept
        BY <1>5, <3>1, <4>2, FS_EmptySet
      <4>. QED BY <4>1, <4>2
    <3>5. before \subseteq Request
      BY DEF Owed
    <3>6. CASE i = b
      <4>1. after \subseteq before \cup {r}
        BY <1>9, <3>2, <3>3 DEF Owed
      <4>. HIDE DEF before, after
      <4>2. /\ Cardinality(after) \in Nat /\ Cardinality(before) \in Nat
            /\ Cardinality(after) <= Cardinality(before) + 1
        BY <3>5, <4>1, OwedGrows
      <4>3. records'[k][i].won = rec[i].won /\ records'[k][i].tried = rec[i].tried + 1
        BY <1>7, <2>2, <3>1, <3>6
      <4>4. records'[k][i].won + Cardinality(after) <= records'[k][i].tried
        BY <3>1, <3>4, <4>2, <4>3
      <4>. QED BY <4>4 DEF after
    <3>7. CASE i # b
      <4>1. ~(way.mode = rec[i].mode /\ way.index = rec[i].index)
        BY <1>5, <1>6, <3>1, <3>7 DEF WellMade
      <4>2. after \subseteq before
        BY <1>9, <3>2, <3>3, <4>1 DEF Owed
      <4>. HIDE DEF before, after
      <4>3. /\ Cardinality(after) \in Nat /\ Cardinality(before) \in Nat
            /\ Cardinality(after) <= Cardinality(before)
        BY <3>5, <4>2, OwedShrinks
      <4>4. records'[k][i].won = rec[i].won /\ records'[k][i].tried = rec[i].tried
        BY <1>7, <2>2, <3>1, <3>7
      <4>5. records'[k][i].won + Cardinality(after) <= records'[k][i].tried
        BY <3>1, <3>4, <4>3, <4>4
      <4>. QED BY <4>5 DEF after
    <3>. QED BY <3>6, <3>7
  <2>. QED BY <2>1, <2>2
<1>12. RolesFit' /\ paired' = [d \in Request |-> paired'[d]]
  <2>1. way.mode \in 0 .. 4 /\ way.index \in DOMAIN FirstRole[way.mode]
    BY <1>5, <1>6, RecordFields, WayFields DEF WellMade
  <2>2. PICK first, second, crole, vrole :
          /\ first = FirstRole[way.mode][way.index]
          /\ second = IF first = "sender" THEN "receiver" ELSE "sender"
          /\ crole = IF Swapped(way.mode, cf) THEN second ELSE first
          /\ vrole = IF Swapped(way.mode, cf) THEN first ELSE second
    OBVIOUS
  <2>3. paired' = [paired EXCEPT ![r] = [mode |-> way.mode, c |-> cf, v |-> vf, crole |-> crole, vrole |-> vrole]]
    BY <1>1, <2>2 DEF Pair, cf, vf
  <2>4. /\ paired' = [d \in Request |-> paired'[d]]
        /\ \A d \in Request : d # r => paired'[d] = paired[d]
        /\ paired'[r] = [mode |-> way.mode, c |-> cf, v |-> vf, crole |-> crole, vrole |-> vrole]
    BY <2>3 DEF RecordsInv
  <2>5. cf.regular \in BOOLEAN /\ vf.regular \in BOOLEAN
    BY FeatureTypes DEF cf, vf
  <2>6. /\ crole # vrole
        /\ way.mode = 1 /\ Hard(cf) # Hard(vf) => (Hard(cf) <=> crole = "sender")
        /\ way.mode = 2 => (Hard(cf) <=> crole = "receiver")
        /\ way.mode = 4 /\ cf.regular # vf.regular => (cf.regular <=> crole = "sender")
    BY <2>1, <2>2, <2>5, RolesHandedOut
  <2>7. \A d \in Request : d # r /\ paired[d] # None =>
          LET p == paired[d] IN
          /\ p.crole # p.vrole
          /\ p.mode = 1 /\ Hard(p.c) # Hard(p.v) => (Hard(p.c) <=> p.crole = "sender")
          /\ p.mode = 2 => (Hard(p.c) <=> p.crole = "receiver")
          /\ p.mode = 4 /\ p.c.regular # p.v.regular => (p.c.regular <=> p.crole = "sender")
    BY DEF RecordsInv, RolesFit
  <2>. QED BY <2>4, <2>6, <2>7 DEF RolesFit
<1>. QED BY <1>8, <1>9, <1>10, <1>11, <1>12 DEF RecordsInv

\* A record that nobody will report on grows old (clean).
LEMMA RecordAgesStep ==
  ASSUME RecordsInv, NEW k \in DOMAIN records, RecordAges(k)
  PROVE  RecordsInv'
<1>1. /\ stale' = stale \cup {k} /\ UNCHANGED <<records, reports, paired>>
      /\ \A r \in Request : reports[r] # None => reports[r].key # k
  BY DEF RecordAges
<1>2. ReportsFindRecords'
  BY <1>1 DEF RecordsInv, ReportsFindRecords
<1>3. CreditCovered'
  BY <1>1 DEF RecordsInv, CreditCovered, Owed
<1>4. RolesFit'
  BY <1>1 DEF RecordsInv, RolesFit
<1>. QED BY <1>1, <1>2, <1>3, <1>4 DEF RecordsInv

\* Before the first pairing there is nothing.
LEMMA InitRecords == Init => RecordsInv
BY DEF Init, RecordsInv, ReportsFindRecords, CreditCovered, RolesFit

\* Every step keeps the records sound.
LEMMA StepRecords == RecordsInv /\ [Next]_vars => RecordsInv'
<1>. SUFFICES ASSUME RecordsInv, [Next]_vars PROVE RecordsInv' OBVIOUS
<1>1. ASSUME NEW r \in Request, NEW c \in Client, NEW offer \in Offers, Pair(c, r, offer)
      PROVE  RecordsInv'
  BY <1>1, PairRecords
<1>2. ASSUME NEW r \in Request, NEW success \in BOOLEAN, Report(r, success)
      PROVE  RecordsInv'
  <2>1. CASE success /\ reports[r].key \in DOMAIN records
    BY <1>2, <2>1, ReportCredits
  <2>2. CASE ~(success /\ reports[r].key \in DOMAIN records)
    <3>1. reports' = [reports EXCEPT ![r] = None] /\ UNCHANGED <<records, stale, paired>>
      BY <1>2, <2>2 DEF Report
    <3>. QED BY <3>1, StruckOff
  <2>. QED BY <2>1, <2>2
<1>3. ASSUME NEW r \in Request, ReportAges(r) PROVE RecordsInv'
  BY <1>3, StruckOff DEF ReportAges
<1>4. ASSUME NEW k \in DOMAIN records, RecordAges(k) PROVE RecordsInv'
  BY <1>4, RecordAgesStep
<1>5. ASSUME NEW r \in Request,
             \/ Refuse(r) \/ StartSession(r) \/ TooMany(r) \/ SidSent(r) \/ ErrandFails(r)
             \/ TimesOut(r) \/ \E c \in Client, offer \in Offers : Unfit(c, r, offer)
      PROVE  RecordsInv'
  BY <1>5, RecordsUntouched
  DEF Refuse, StartSession, TooMany, SidSent, ErrandFails, TimesOut, Unfit, scoreVars
<1>6. CASE SessionAges \/ (\E c \in Client : Leave(c)) \/ UNCHANGED vars
  BY <1>6, RecordsUntouched DEF SessionAges, Leave, vars, scoreVars
<1>. QED BY <1>1, <1>2, <1>3, <1>4, <1>5, <1>6 DEF Next, Step

\* The recommendations: what is owed is covered, and ways are taken in turn.
THEOREM RecordsInvariance == Spec => []RecordsInv
BY InitRecords, StepRecords, PTL DEF Spec

\* However pairings and reports interleave, ways of one score are tried in turn
\* until one succeeds, a success counts once and only for what was recommended,
\* and the two sides get the roles that fit their natures (recommend,
\* report_success, get_recommand_behaviors).
THEOREM WaysSoundHolds == Spec => []WaysSound
<1>1. ASSUME RecordsInv PROVE TriedInTurn
  BY <1>1 DEF RecordsInv, InTurn, TriedInTurn
<1>2. ASSUME RecordsInv PROVE CreditedOnce
  <2>. SUFFICES ASSUME NEW k \in DOMAIN records, NEW i \in DOMAIN records[k]
                PROVE  records[k][i].won <= records[k][i].tried
    BY DEF CreditedOnce
  <2>1. records[k][i].won \in Nat /\ records[k][i].tried \in Nat
    BY <1>2, RecordFields, WayFields DEF RecordsInv
  <2>2. Cardinality(Owed(k, records[k][i])) \in Nat
    BY OwedShrinks DEF Owed
  <2>3. records[k][i].won + Cardinality(Owed(k, records[k][i])) <= records[k][i].tried
    BY <1>2 DEF RecordsInv, CreditCovered
  <2>. QED BY <2>1, <2>2, <2>3
<1>3. RecordsInv => WaysSound
  BY <1>1, <1>2 DEF RecordsInv, WaysSound
<1>. QED BY <1>3, RecordsInvariance, PTL

-----------------------------------------------------------------------------
(* Types *)

Types ==
  /\ config \in Configs
  /\ asked \subseteq config.comes /\ born \in Seq(Request) /\ aged \in 0 .. Len(born)
  /\ {open, errand, timer, told, swept} \subseteq SUBSET Request
  /\ away \subseteq Client
  /\ paired = [r \in Request |-> paired[r]] /\ reports = [r \in Request |-> reports[r]]
  /\ \A r \in Request : reports[r] # None => paired[r] # None

\* Every step keeps the types; the answers and the records have theirs by Inv
\* and RecordsInv.
LEMMA StepTypes == Types /\ RecordsInv /\ [Next]_vars => Types'
<1>. SUFFICES ASSUME Types, RecordsInv, [Next]_vars PROVE Types' OBVIOUS
<1>0. config.comes \subseteq Request
  BY NatHoleAssumption DEF Types, Config
<1>1. ASSUME NEW r \in Request, Refuse(r) \/ StartSession(r) \/ TooMany(r), UNCHANGED config
      PROVE  Types'
  <2>1. /\ r \in config.comes /\ asked' = asked \cup {r} /\ born' \in {born, Append(born, r)}
        /\ UNCHANGED <<aged, away, reports, paired, told>>
    BY <1>1 DEF Refuse, StartSession, TooMany, sessionVars, scoreVars
  <2>2. open' \subseteq Request /\ errand' \subseteq Request /\ timer' \subseteq Request /\ swept' \subseteq Request
    BY <1>1 DEF Refuse, StartSession, TooMany, sessionVars, Types
  <2>3. born' \in Seq(Request) /\ Len(born') >= Len(born) /\ Len(born) \in Nat /\ Len(born') \in Nat
    BY <2>1 DEF Types
  <2>4. aged' \in 0 .. Len(born')
    BY <2>1, <2>3 DEF Types
  <2>. QED BY <1>1, <2>1, <2>2, <2>3, <2>4 DEF Types
<1>2. ASSUME NEW r \in Request, SidSent(r) \/ ErrandFails(r) \/ TimesOut(r), UNCHANGED config
      PROVE  Types'
  BY <1>2 DEF SidSent, ErrandFails, TimesOut, EndsWithError, scoreVars, Types
<1>3. ASSUME NEW r \in Request, NEW c \in Client, NEW offer \in Offers, Unfit(c, r, offer), UNCHANGED config
      PROVE  Types'
  BY <1>3 DEF Unfit, EndsWithError, scoreVars, Types
<1>4. ASSUME NEW r \in Request, NEW c \in Client, NEW offer \in Offers, Pair(c, r, offer), UNCHANGED config
      PROVE  Types'
  <2>1. PICK cf, vf, rec, b :
          /\ cf = Feature(offer) /\ vf = Feature(Seen[r])
          /\ rec = IF Fingerprint(cf, vf) \in DOMAIN Kept THEN Kept[Fingerprint(cf, vf)]
                                                           ELSE NewRecord(cf, vf)
          /\ b = Best(rec)
    OBVIOUS
  <2>2. WellMade(rec)
    <3>1. \A k \in DOMAIN Kept : Kept[k] = records[k] /\ k \in DOMAIN records
      BY DEF Kept
    <3>. QED BY <2>1, <3>1, NewRecordMade DEF RecordsInv
  <2>3. /\ rec[b].mode \in 0 .. 4 /\ rec[b].index \in DOMAIN FirstRole[rec[b].mode]
        /\ FirstRole[rec[b].mode][rec[b].index] \in Roles
    <3>1. b \in DOMAIN rec /\ rec[b] \in Way
      BY <2>1, <2>2, BestOfRecord, RecordFields
    <3>2. rec[b].mode \in 0 .. 4 /\ rec[b].index \in DOMAIN FirstRole[rec[b].mode]
      BY <2>2, <3>1, WayFields DEF WellMade
    <3>. QED BY <3>2, WaysOfMode
  <2>4. cf \in Features /\ vf \in Features
    BY <1>4, <2>1 DEF Pair, Features
  <2>5. PICK first, second, crole, vrole :
          /\ first = FirstRole[rec[b].mode][rec[b].index]
          /\ second = IF first = "sender" THEN "receiver" ELSE "sender"
          /\ crole = IF Swapped(rec[b].mode, cf) THEN second ELSE first
          /\ vrole = IF Swapped(rec[b].mode, cf) THEN first ELSE second
    OBVIOUS
  <2>6. crole \in Roles /\ vrole \in Roles
    BY <2>3, <2>5 DEF Roles
  <2>7. paired' = [paired EXCEPT ![r] =
                     [mode |-> rec[b].mode, c |-> cf, v |-> vf, crole |-> crole, vrole |-> vrole]]
    BY <1>4, <2>1, <2>5 DEF Pair
  <2>8. [mode |-> rec[b].mode, c |-> cf, v |-> vf, crole |-> crole, vrole |-> vrole] \in Pairing
    BY <2>3, <2>4, <2>6 DEF Pairing
  <2>9. /\ paired' = [d \in Request |-> paired'[d]] /\ paired'[r] # None
        /\ \A d \in Request : d # r => paired'[d] = paired[d]
    BY <2>7, <2>8, PairingAssumption DEF Types
  <2>10. PICK x : reports' = [reports EXCEPT ![r] = x]
    BY <1>4 DEF Pair
  <2>11. /\ reports' = [d \in Request |-> reports'[d]]
         /\ \A d \in Request : d # r => reports'[d] = reports[d]
    BY <2>10 DEF Types
  <2>12. /\ open' \subseteq open
         /\ UNCHANGED <<asked, born, aged, errand, timer, told, swept, away>>
    BY <1>4 DEF Pair
  <2>. QED BY <1>4, <2>9, <2>11, <2>12 DEF Types
<1>5. ASSUME NEW r \in Request, NEW success \in BOOLEAN, Report(r, success), UNCHANGED config
      PROVE  Types'
  BY <1>5 DEF Report, sessionVars, Types
<1>6. ASSUME NEW r \in Request, ReportAges(r), UNCHANGED config PROVE Types'
  BY <1>6 DEF ReportAges, sessionVars, Types
<1>7. ASSUME NEW k \in DOMAIN records, RecordAges(k), UNCHANGED config PROVE Types'
  BY <1>7 DEF RecordAges, sessionVars, Types
<1>8. CASE SessionAges /\ UNCHANGED config
  <2>1. aged' \in 0 .. Len(born)
    BY <1>8 DEF SessionAges, Types
  <2>. QED BY <1>8, <2>1 DEF SessionAges, scoreVars, Types
<1>9. ASSUME NEW c \in Client, Leave(c), UNCHANGED config PROVE Types'
  BY <1>9 DEF Leave, sessionVars, scoreVars, Types
<1>10. CASE UNCHANGED vars
  BY <1>10 DEF vars, sessionVars, scoreVars, Types
<1>. QED BY <1>1, <1>2, <1>3, <1>4, <1>5, <1>6, <1>7, <1>8, <1>9, <1>10 DEF Next, Step

\* Every variable keeps its type: a session is of a request that may come, a
\* record's ways are those of its mode with scores of at most 10, and nobody
\* may report on what was not paired (nathole_official.rs).
THEOREM TypeCorrect == Spec => []TypeOK
<1>1. Init => Types
  BY DEF Init, Types
<1>2. Inv /\ RecordsInv /\ Types => TypeOK
  <2>. SUFFICES ASSUME Inv, RecordsInv, Types PROVE TypeOK OBVIOUS
  <2>1. \A k \in DOMAIN records : \A i \in DOMAIN records[k] :
          /\ records[k][i].index \in DOMAIN FirstRole[records[k][i].mode]
          /\ records[k][i].score <= 10
    BY DEF RecordsInv, WellMade
  <2>. QED BY <2>1 DEF TypeOK, Types, Inv, Shape, RecordsInv
<1>3. Spec => []Types
  BY <1>1, StepTypes, RecordsInvariance, PTL DEF Spec
<1>. QED BY <1>2, <1>3, Invariance, RecordsInvariance, PTL
=============================================================================
