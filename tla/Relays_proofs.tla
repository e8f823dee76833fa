--------------------------- MODULE Relays_proofs ---------------------------
(***************************************************************************)
(* Proofs about the two relays of the server, for every value of their     *)
(* constants.                                                              *)
(*                                                                         *)
(* ServerRelay: the bound on what a limited proxy gets through.  The       *)
(* bucket's books balance (granted + tokens), and a grant that is still    *)
(* waited for fits the bound at the end of its wait.  Then the ledger of   *)
(* single bytes: every granted byte is delivered, waited for or dropped,   *)
(* and the bucket's debt covers those that are not delivered.              *)
(*                                                                         *)
(* SudpRelay: while a side runs, what was read for it is, in this order,   *)
(* what it has written, the packet it is writing, its channel, and the     *)
(* packet the other side is sending.                                       *)
(***************************************************************************)
EXTENDS ServerRelay, SudpRelay, FiniteSetTheorems, SequenceTheorems,
        WellFoundedInduction, TLAPS

Books == granted + bucket.tokens <= Burst + bucket.last + rewound

Stamped == \A t \in Tasks : copy[t].at = "lock" => copy[t].time <= clock

Covered ==
  \A t \in Tasks : copy[t].at = "sleep" =>
    /\ copy[t].n <= copy[t].upto /\ copy[t].upto <= granted
    /\ copy[t].upto <= Burst + copy[t].time + rewound

SentFits == \A k \in sent : k <= Burst + clock + rewound

\* A copy that waits for nothing holds no bytes.
Empty == \A t \in Tasks : copy[t].at \in {"read", "done"} => copy[t].n = 0 /\ copy[t].upto = 0

Inv == TypeOK /\ Books /\ Stamped /\ Covered /\ SentFits /\ Empty

-----------------------------------------------------------------------------
\* The arithmetic of TokenBucket::take.
LEMMA TakeArithmetic ==
  ASSUME TypeOK, NEW n \in Nat, NEW now \in Nat
  PROVE  /\ Wait(n, now) \in Nat /\ Left(n, now) \in Int
         /\ Left(n, now) <= Burst
         /\ n <= Wait(n, now) + Refilled(now)
         /\ Left(n, now) = Refilled(now) - n
         /\ Refilled(now) \in Int
         /\ Refilled(now) + bucket.last <= bucket.tokens + now + Saturating(bucket.last - now)
         /\ Saturating(bucket.last - now) \in Nat
<1>1. /\ bucket.tokens \in Int /\ bucket.last \in Nat /\ bucket.tokens <= Burst
  BY DEF TypeOK
<1>2. Burst \in Nat
  BY RelayAssumption
<1>. QED BY <1>1, <1>2, SMT DEF Wait, Left, Refilled, Elapsed, Saturating

\* Bytes that a copy holds were granted.
LEMMA BytesGranted ==
  ASSUME TypeOK, Covered, Empty, NEW t \in Tasks, copy[t].at # "lock"
  PROVE  Bytes(t) \subseteq 1 .. granted
<1>1. /\ copy[t] \in [at : {"read", "lock", "sleep", "done"}, n : Nat, time : Nat, upto : Nat]
      /\ granted \in Nat
  BY DEF TypeOK
<1>. QED BY <1>1 DEF Bytes, Covered, Empty

\* Every variable of a fresh relay has its type.
LEMMA InitInv == Init => Inv
<1>. SUFFICES ASSUME Init PROVE Inv OBVIOUS
<1>. USE RelayAssumption DEF Init, Idle
<1>1. TypeOK BY DEF TypeOK, Tasks
<1>. QED BY <1>1 DEF Inv, Books, Stamped, Covered, SentFits, Empty

\* No step breaks the invariant.
LEMMA StepInv == Inv /\ [Next]_vars => Inv'
<1>. SUFFICES ASSUME Inv, [Next]_vars PROVE Inv' OBVIOUS
<1>. USE RelayAssumption
<1>0. /\ TypeOK /\ Books /\ Stamped /\ Covered /\ SentFits /\ Empty
      /\ clock \in Nat /\ granted \in Nat /\ rewound \in Nat /\ Burst \in Nat
      /\ bucket.tokens \in Int /\ bucket.last \in Nat
  BY DEF Inv, TypeOK
<1>a. \A t \in Tasks : copy[t] \in [at : {"read", "lock", "sleep", "done"}, n : Nat, time : Nat, upto : Nat]
  BY DEF Inv, TypeOK
<1>1. CASE Tick
  BY <1>0, <1>1, <1>a DEF Tick, Inv, TypeOK, Books, Stamped, Covered, SentFits, Empty, ends, history
<1>2. ASSUME NEW t \in Tasks, Read(t) PROVE Inv'
  <2>1. TypeOK' BY <1>0, <1>2 DEF Read, TypeOK, ends, history
  <2>. QED BY <1>0, <1>2, <1>a, <2>1 DEF Read, Inv, TypeOK, Books, Stamped, Covered, SentFits, Empty, ends, history
<1>3. ASSUME NEW t \in Tasks, Take(t) PROVE Inv'
  <2>. DEFINE n == copy[t].n
              now == copy[t].time
  <2>1. n \in Nat /\ now \in Nat /\ now <= clock /\ copy[t].at = "lock"
    BY <1>0, <1>3, <1>a DEF Take, Stamped
  <2>2. /\ Wait(n, now) \in Nat /\ Left(n, now) \in Int
        /\ Left(n, now) <= Burst
        /\ n <= Wait(n, now) + Refilled(now)
        /\ Left(n, now) = Refilled(now) - n
        /\ Refilled(now) \in Int
        /\ Refilled(now) + bucket.last <= bucket.tokens + now + Saturating(bucket.last - now)
        /\ Saturating(bucket.last - now) \in Nat
    BY <1>0, <2>1, TakeArithmetic
  <2>3. /\ bucket' = [tokens |-> Left(n, now), last |-> now]
        /\ copy' = [copy EXCEPT ![t] =
              [at |-> "sleep", n |-> n, time |-> clock + Wait(n, now), upto |-> granted + n]]
        /\ granted' = granted + n
        /\ rewound' = rewound + Saturating(bucket.last - now)
        /\ UNCHANGED <<clock, open, shut, sent, dropped, reads, idle, faults>>
    BY <1>3 DEF Take, ends, counters
  <2>. HIDE DEF n, now
  <2>4. TypeOK'
    BY <1>0, <2>1, <2>2, <2>3 DEF TypeOK
  <2>5. Books'
    BY <1>0, <2>1, <2>2, <2>3 DEF Books
  <2>6. Stamped'
    BY <1>0, <1>a, <2>3 DEF Stamped, TypeOK
  <2>7. Covered'
    <3>1. /\ n <= granted' /\ granted + n <= Burst + (clock + Wait(n, now)) + rewound'
      BY <1>0, <2>1, <2>2, <2>3 DEF Books
    <3>. QED BY <1>0, <1>a, <2>1, <2>2, <2>3, <3>1 DEF Covered, TypeOK
  <2>8. SentFits'
    <3>1. \A k \in sent : k \in Nat
      BY <1>0 DEF TypeOK
    <3>. QED BY <1>0, <2>2, <2>3, <3>1 DEF SentFits
  <2>9. Empty'
    BY <1>0, <1>a, <2>3 DEF Empty, TypeOK
  <2>. QED BY <2>4, <2>5, <2>6, <2>7, <2>8, <2>9 DEF Inv
<1>4. ASSUME NEW t \in Tasks, Write(t) PROVE Inv'
  <2>. DEFINE n == copy[t].n
              upto == copy[t].upto
  <2>1. /\ n \in Nat /\ upto \in Nat /\ n <= upto /\ upto <= granted
        /\ upto <= Burst + clock + rewound
    BY <1>0, <1>4, <1>a DEF Write, Covered
  <2>2. /\ sent' = sent \cup ((upto - n + 1) .. upto)
        /\ copy' = [copy EXCEPT ![t] = Idle("read")]
        /\ UNCHANGED <<clock, bucket, open, shut, granted, rewound, dropped, reads, idle, faults>>
    BY <1>4 DEF Write, Bytes, ends, counters
  <2>. HIDE DEF n, upto
  <2>3. \A k \in (upto - n + 1) .. upto : k \in 1 .. granted /\ k <= Burst + clock + rewound
    BY <1>0, <2>1
  <2>4. TypeOK'
    BY <1>0, <2>2, <2>3 DEF TypeOK, Idle
  <2>5. SentFits'
    BY <1>0, <2>2, <2>3 DEF SentFits
  <2>. QED BY <1>0, <1>a, <2>2, <2>4, <2>5 DEF Inv, Books, Stamped, Covered, Empty, Idle, TypeOK
<1>5. ASSUME NEW t \in Tasks, Eof(t) PROVE Inv'
  <2>1. Other(t) \in Tasks
    BY DEF Other, Tasks, Opposite, Ends
  <2>2. TypeOK' BY <1>0, <1>5, <2>1 DEF Eof, TypeOK, Idle, history, counters
  <2>. QED BY <1>0, <1>5, <1>a, <2>2 DEF Eof, Inv, TypeOK, Books, Stamped, Covered, SentFits, Empty, Idle, history, counters
<1>6. ASSUME NEW t \in Tasks, Fail(t) PROVE Inv'
  <2>1. Other(t) \in Tasks
    BY DEF Other, Tasks, Opposite, Ends
  <2>2. dropped' \subseteq 1 .. granted
    <3>1. /\ copy[t].at # "lock" /\ copy[Other(t)].at # "lock"
          /\ dropped' = dropped \cup Bytes(t) \cup Bytes(Other(t))
      BY <1>6 DEF Fail, Polled
    <3>2. \A u \in Tasks : copy[u].at # "lock" => Bytes(u) \subseteq 1 .. granted
      BY <1>0, BytesGranted
    <3>. QED BY <1>0, <2>1, <3>1, <3>2 DEF TypeOK
  <2>3. /\ copy' = [u \in Tasks |-> IF u[1] = t[1] THEN Idle("done") ELSE copy[u]]
        /\ faults < MaxFaults /\ faults' = faults + 1
        /\ UNCHANGED <<clock, bucket, open, shut, granted, sent, rewound, reads, idle>>
    BY <1>6 DEF Fail, ends
  <2>4. TypeOK' BY <1>0, <1>a, <2>2, <2>3 DEF TypeOK, Idle
  <2>. QED BY <1>0, <1>a, <2>3, <2>4 DEF Inv, Books, Stamped, Covered, SentFits, Empty, Idle, TypeOK
<1>7. ASSUME NEW t \in Tasks, CloseEnd(t) PROVE Inv'
  <2>1. TypeOK' BY <1>0, <1>7 DEF CloseEnd, TypeOK, history
  <2>. QED BY <1>0, <1>7, <1>a, <2>1 DEF CloseEnd, Inv, Books, Stamped, Covered, SentFits, Empty, history
<1>8. CASE UNCHANGED vars
  BY <1>0, <1>8 DEF vars, ends, history, counters, Inv, TypeOK, Books, Stamped, Covered, SentFits, Empty
<1>. QED BY <1>1, <1>2, <1>3, <1>4, <1>5, <1>6, <1>7, <1>8 DEF Next

\* The inductive invariant holds in every reachable state.
THEOREM Invariance == Spec => []Inv
BY InitInv, StepInv, PTL DEF Spec

\* Every variable of ServerRelay keeps its type, and the bucket never holds
\* more than the burst.
THEOREM TypeCorrect == Spec => []TypeOK
<1>1. Inv => TypeOK BY DEF Inv
<1>. QED BY <1>1, Invariance, PTL

\* All connections of a proxy together never get more through than the
\* burst and the rate allow, but for the late readings of the clock.
THEOREM ThroughputHolds == Spec => []Throughput
<1>1. Inv => Throughput
  <2>. SUFFICES ASSUME Inv PROVE Throughput OBVIOUS
  <2>. DEFINE B == Burst + clock + rewound
  <2>1. B \in Nat /\ \A k \in sent : k \in 1 .. B
    BY RelayAssumption DEF Inv, TypeOK, SentFits
  <2>2. IsFiniteSet(1 .. B) /\ Cardinality(1 .. B) = B
    BY <2>1, FS_Interval
  <2>3. sent \in SUBSET (1 .. B)
    BY <2>1
  <2>. HIDE DEF B
  <2>4. Cardinality(sent) <= Cardinality(1 .. B)
    BY <2>2, <2>3, FS_Subset
  <2>5. Cardinality(sent) <= B
    BY <2>2, <2>4
  <2>. QED BY <2>5 DEF B, Throughput
<1>. QED BY <1>1, Invariance, PTL

-----------------------------------------------------------------------------
(* The ledger: every byte that was granted was sent, is waited for, or was     *)
(* dropped, and what the bucket owes is not more than was granted behind a     *)
(* copy that has done waiting.                                                 *)

Accounted ==
  \A k \in 1 .. granted :
    \/ k \in sent \cup dropped
    \/ \E t \in Tasks : copy[t].at = "sleep" /\ copy[t].upto - copy[t].n < k /\ k <= copy[t].upto

\* What the bucket owes once time x has come.
Debt(x) == bucket.last - bucket.tokens - x

Paid == Debt(clock) <= granted /\ \A k \in sent : Debt(clock) <= granted - k

\* What it will owe when a wait is over, or owes now if that was in the past.
Covers ==
  \A t \in Tasks : copy[t].at = "sleep" =>
    \/ clock <= copy[t].time /\ Debt(copy[t].time) <= granted - copy[t].upto
    \/ copy[t].time <= clock /\ Debt(clock) <= granted - copy[t].upto

Ledger == Accounted /\ Paid /\ Covers

\* A grant adds its own size to what the bucket owes, if it owed anything, and
\* its own wait covers all of it (TokenBucket::take).
LEMMA TakeDebt ==
  ASSUME TypeOK, NEW n \in Nat, NEW now \in Nat, now <= clock
  PROVE  /\ \A x \in Nat : now <= x =>
               \/ now - Left(n, now) - x <= n + Debt(x)
               \/ now - Left(n, now) - x <= n
         /\ now - Left(n, now) - (clock + Wait(n, now)) <= 0
<1>1. /\ bucket.tokens \in Int /\ bucket.last \in Nat /\ bucket.tokens <= Burst
      /\ Burst \in Nat /\ clock \in Nat
  BY RelayAssumption DEF TypeOK
<1>. QED BY <1>1, SMT DEF Wait, Left, Refilled, Elapsed, Saturating, Debt

\* Every step keeps the ledger.
LEMMA StepLedger ==
  ASSUME Inv, Ledger, [Next]_vars
  PROVE  Ledger'
<1>0. /\ TypeOK /\ Covered /\ Stamped /\ Empty /\ Accounted /\ Paid /\ Covers
      /\ clock \in Nat /\ granted \in Nat /\ bucket.tokens \in Int /\ bucket.last \in Nat
      /\ \A k \in sent : k \in Nat
  BY DEF Inv, Ledger, TypeOK
<1>a. \A t \in Tasks : copy[t] \in [at : {"read", "lock", "sleep", "done"}, n : Nat, time : Nat, upto : Nat]
  BY DEF Inv, TypeOK
<1>1. CASE Tick
  <2>1. clock' = clock + 1 /\ UNCHANGED <<bucket, copy, granted, sent, dropped>>
    BY <1>1 DEF Tick, history
  <2>2. Accounted' /\ Paid'
    BY <1>0, <2>1 DEF Accounted, Paid, Debt
  <2>3. Covers'
    BY <1>0, <1>a, <2>1 DEF Covers, Debt
  <2>. QED BY <2>2, <2>3 DEF Ledger
<1>2. ASSUME NEW t \in Tasks, Take(t) PROVE Ledger'
  <2>. DEFINE n == copy[t].n
              now == copy[t].time
  <2>1. n \in Nat /\ now \in Nat /\ now <= clock /\ copy[t].at = "lock"
    BY <1>0, <1>2, <1>a DEF Take, Stamped
  <2>2. Wait(n, now) \in Nat /\ Left(n, now) \in Int
    BY <1>0, <2>1, TakeArithmetic
  <2>3. /\ bucket' = [tokens |-> Left(n, now), last |-> now]
        /\ copy' = [copy EXCEPT ![t] =
              [at |-> "sleep", n |-> n, time |-> clock + Wait(n, now), upto |-> granted + n]]
        /\ granted' = granted + n
        /\ UNCHANGED <<clock, sent, dropped>>
    BY <1>2 DEF Take
  <2>4. /\ \A x \in Nat : now <= x =>
              now - Left(n, now) - x <= n + Debt(x) \/ now - Left(n, now) - x <= n
        /\ now - Left(n, now) - (clock + Wait(n, now)) <= 0
    BY <1>0, <2>1, TakeDebt
  <2>. HIDE DEF n, now
  <2>5. PICK left \in Int, w \in Nat : left = Left(n, now) /\ w = Wait(n, now)
    BY <2>2
  <2>6. /\ \A u \in Tasks : u # t => copy'[u] = copy[u]
        /\ copy'[t].at = "sleep" /\ copy'[t].n = n /\ copy'[t].time = clock + w /\ copy'[t].upto = granted + n
        /\ bucket'.tokens = left /\ bucket'.last = now
    BY <1>0, <2>3, <2>5 DEF TypeOK
  <2>7. \A x \in Nat : clock <= x => (Debt(x))' <= n + Debt(x) \/ (Debt(x))' <= n
    BY <1>0, <2>1, <2>4, <2>5, <2>6 DEF Debt
  <2>8. Accounted'
    <3>. SUFFICES ASSUME NEW k \in 1 .. granted'
                  PROVE  \/ k \in sent \cup dropped
                         \/ \E u \in Tasks : /\ copy'[u].at = "sleep" /\ k <= copy'[u].upto
                                             /\ copy'[u].upto - copy'[u].n < k
      BY <2>3 DEF Accounted
    <3>1. CASE k <= granted
      <4>1. k \in 1 .. granted
        BY <1>0, <2>1, <2>3, <3>1
      <4>. QED BY <1>0, <2>1, <2>6, <4>1 DEF Accounted
    <3>2. CASE ~(k <= granted)
      BY <1>0, <2>1, <2>3, <2>6, <3>2
    <3>. QED BY <3>1, <3>2
  <2>9. Paid'
    <3>1. now - left - clock <= n + Debt(clock) \/ now - left - clock <= n
      BY <1>0, <2>1, <2>4, <2>5
    <3>2. \A k \in sent : k \in 1 .. granted
      BY <1>0 DEF TypeOK
    <3>3. Debt(clock) \in Int
      BY <1>0 DEF Debt
    <3>4. now - left - clock <= granted + n /\ \A k \in sent : now - left - clock <= granted + n - k
      BY <1>0, <2>1, <2>5, <3>1, <3>2, <3>3 DEF Paid
    <3>5. /\ bucket'.last = now /\ bucket'.tokens = left
          /\ clock' = clock /\ granted' = granted + n /\ sent' = sent
      BY <2>3, <2>6
    <3>6. /\ now \in Int /\ left \in Int /\ clock \in Int /\ granted \in Int /\ n \in Int
          /\ \A k \in sent : k \in Int
      BY <1>0, <2>1, <2>5
    <3>. QED BY <3>4, <3>5, <3>6 DEF Paid, Debt
  <2>10. Covers'
    <3>1. ASSUME NEW u \in Tasks, copy'[u].at = "sleep", u # t
          PROVE  \/ clock <= copy'[u].time /\ (Debt(copy[u].time))' <= granted' - copy'[u].upto
                 \/ copy'[u].time <= clock /\ (Debt(clock))' <= granted' - copy'[u].upto
      BY <1>0, <1>a, <2>1, <2>3, <2>6, <2>7, <3>1 DEF Covers, Covered, Debt
    <3>2. clock <= copy'[t].time /\ now - left - copy'[t].time <= granted' - copy'[t].upto
      BY <1>0, <2>1, <2>3, <2>4, <2>5, <2>6
    <3>. QED BY <2>3, <2>6, <3>1, <3>2 DEF Covers, Debt
  <2>. QED BY <2>8, <2>9, <2>10 DEF Ledger
<1>3. ASSUME NEW t \in Tasks, Write(t) PROVE Ledger'
  <2>1. /\ copy[t].at = "sleep" /\ copy[t].time <= clock
        /\ \A u \in Tasks : copy'[u] = IF u = t THEN Idle("read") ELSE copy[u]
        /\ sent' = sent \cup Bytes(t)
        /\ UNCHANGED <<clock, bucket, granted, dropped>>
    BY <1>0, <1>3 DEF Write, TypeOK
  <2>2. Debt(clock) <= granted - copy[t].upto
    BY <1>0, <1>a, <2>1 DEF Covers, Debt
  <2>3. Accounted'
    BY <1>0, <1>a, <2>1 DEF Accounted, Bytes, Idle
  <2>4. Paid'
    BY <1>0, <1>a, <2>1, <2>2 DEF Paid, Bytes, Debt
  <2>5. Covers'
    BY <1>0, <2>1 DEF Covers, Debt, Idle
  <2>. QED BY <2>3, <2>4, <2>5 DEF Ledger
<1>4. ASSUME NEW t \in Tasks, Fail(t) PROVE Ledger'
  <2>1. Other(t) \in Tasks /\ \A u \in Tasks : u[1] = t[1] => u = t \/ u = Other(t)
    BY DEF Other, Tasks, Opposite, Ends
  <2>2. /\ copy' = [u \in Tasks |-> IF u[1] = t[1] THEN Idle("done") ELSE copy[u]]
        /\ dropped' = dropped \cup Bytes(t) \cup Bytes(Other(t))
        /\ UNCHANGED <<clock, bucket, granted, sent>>
    BY <1>4 DEF Fail
  <2>3. Accounted'
    BY <1>0, <1>a, <2>1, <2>2 DEF Accounted, Bytes, Idle
  <2>4. Paid' /\ Covers'
    BY <1>0, <2>2 DEF Paid, Covers, Debt, Idle
  <2>. QED BY <2>3, <2>4 DEF Ledger
<1>5. ASSUME NEW t \in Tasks, Read(t) \/ Eof(t) PROVE Ledger'
  <2>1. /\ copy[t].at = "read" /\ copy'[t].at # "sleep"
        /\ \A u \in Tasks : u # t => copy'[u] = copy[u]
        /\ UNCHANGED <<clock, bucket, granted, sent, dropped>>
    BY <1>0, <1>5 DEF Read, Eof, Idle, history, TypeOK
  <2>2. Accounted'
    BY <1>0, <2>1 DEF Accounted
  <2>3. Paid' /\ Covers'
    BY <1>0, <2>1 DEF Paid, Covers, Debt
  <2>. QED BY <2>2, <2>3 DEF Ledger
<1>6. ASSUME NEW t \in Tasks, CloseEnd(t) PROVE Ledger'
  BY <1>6 DEF CloseEnd, history, Ledger, Accounted, Paid, Covers, Debt
<1>7. CASE UNCHANGED vars
  BY <1>7 DEF vars, history, Ledger, Accounted, Paid, Covers, Debt
<1>. QED BY <1>1, <1>2, <1>3, <1>4, <1>5, <1>6, <1>7 DEF Next

\* The ledger balances in every reachable state.
THEOREM LedgerHolds == Spec => []Ledger
<1>1. Init => Ledger
  <2>. SUFFICES ASSUME Init PROVE Ledger OBVIOUS
  <2>. QED BY RelayAssumption DEF Init, Idle, Ledger, Accounted, Paid, Covers, Debt
<1>2. Inv /\ Ledger /\ [Next]_vars => Ledger'
  BY StepLedger
<1>. QED BY <1>1, <1>2, Invariance, PTL DEF Spec

\* A nonempty set of naturals has a least element.
LEMMA LeastNat ==
  ASSUME NEW S \in SUBSET Nat, S # {}
  PROVE  \E n \in S : \A m \in S : n <= m
<1>. DEFINE Less == OpToRel(<, Nat)
<1>1. IsWellFoundedOn(Less, Nat)
  BY NatLessThanWellFounded
<1>2. \A m, n \in Nat : m < n => <<m, n>> \in Less
  BY DEF OpToRel
<1>. HIDE DEF Less
<1>3. PICK n \in S : \A m \in S : <<m, n>> \notin Less
  BY <1>1, WFMin
<1>4. \A m \in S : m \in Nat /\ n \in Nat /\ ~(m < n)
  BY <1>2, <1>3, Zenon
<1>. QED BY <1>4

\* Nobody waits for more than is held at the moment: what the bucket owes is
\* covered by the reads that wait and by those that were cancelled, for any
\* interleaving of grants, late clock readings, writes and failures
\* (ratelimit.rs 88-102).
THEOREM DebtHeldHolds == Spec => []DebtHeld
<1>1. Inv /\ Ledger => DebtHeld
  <2>. SUFFICES ASSUME Inv, Ledger PROVE DebtHeld OBVIOUS
  <2>1. /\ clock \in Nat /\ granted \in Nat /\ bucket.tokens \in Int /\ bucket.last \in Nat
        /\ sent \subseteq 1 .. granted /\ dropped \subseteq 1 .. granted
        /\ TypeOK /\ Covered /\ Empty /\ Accounted /\ Paid
    BY DEF Inv, Ledger, TypeOK
  \* Nothing above granted - j was sent.
  <2>2. PICK j \in Nat : /\ j <= granted /\ Debt(clock) <= j
                         /\ \A k \in sent : k <= granted - j
    <3>. DEFINE S == {j \in Nat : j <= granted /\ (j = granted \/ granted - j \in sent)}
    <3>1. granted \in S
      BY <2>1
    <3>2. PICK j \in S : \A i \in S : j <= i
      BY <3>1, LeastNat
    <3>3. Debt(clock) \in Int
      BY <2>1 DEF Debt
    <3>4. Debt(clock) <= j
      BY <2>1, <3>2, <3>3 DEF Paid
    <3>5. ASSUME NEW k \in sent PROVE k <= granted - j
      <4>1. k \in 1 .. granted /\ granted - k \in Nat /\ granted - (granted - k) = k
        BY <2>1
      <4>2. granted - k \in S
        BY <4>1, <2>1
      <4>3. j <= granted - k
        BY <3>2, <4>2
      <4>. QED BY <2>1, <3>2, <4>1, <4>3
    <3>. QED BY <3>2, <3>4, <3>5
  <2>. DEFINE Behind == (granted - j + 1) .. granted
  <2>3. IsFiniteSet(Behind) /\ Cardinality(Behind) = j
    <3>1. /\ granted - j + 1 \in Int /\ granted \in Int
          /\ j = IF granted - j + 1 > granted THEN 0 ELSE granted - (granted - j + 1) + 1
      BY <2>1, <2>2
    <3>2. /\ IsFiniteSet(Behind)
          /\ Cardinality(Behind) = IF granted - j + 1 > granted THEN 0 ELSE granted - (granted - j + 1) + 1
      BY <3>1, FS_Interval
    <3>. QED BY <3>1, <3>2
  <2>4. Waiting \subseteq 1 .. granted
    <3>1. \A t \in Tasks : copy[t].at = "sleep" => Bytes(t) \subseteq 1 .. granted
      BY <2>1, BytesGranted
    <3>. QED BY <3>1 DEF Waiting
  <2>5. IsFiniteSet(Waiting) /\ IsFiniteSet(dropped)
    <3>1. 1 \in Int /\ granted \in Int
      BY <2>1
    <3>2. IsFiniteSet(1 .. granted)
      BY <3>1, FS_Interval, Zenon
    <3>. QED BY <2>1, <2>4, <3>2, FS_Subset
  <2>6. Behind \subseteq Waiting \cup dropped
    <3>. SUFFICES ASSUME NEW k \in Behind PROVE k \in Waiting \cup dropped OBVIOUS
    <3>1. k \in 1 .. granted /\ k \notin sent
      BY <2>1, <2>2
    <3>2. CASE k \notin dropped
      <4>1. PICK t \in Tasks : /\ copy[t].at = "sleep" /\ copy[t].upto - copy[t].n < k
                               /\ k <= copy[t].upto
        BY <2>1, <3>1, <3>2 DEF Accounted
      <4>2. copy[t].n \in Nat /\ copy[t].upto \in Nat
        BY <2>1 DEF TypeOK
      <4>3. k \in Bytes(t)
        BY <3>1, <4>1, <4>2 DEF Bytes
      <4>. QED BY <4>1, <4>3 DEF Waiting
    <3>. QED BY <3>2
  <2>. HIDE DEF Behind
  <2>7. IsFiniteSet(Waiting \cup dropped) /\ Cardinality(Behind) <= Cardinality(Waiting \cup dropped)
    BY <2>5, <2>6, FS_Union, FS_Subset
  <2>8. /\ Cardinality(Waiting) \in Nat /\ Cardinality(dropped) \in Nat
        /\ Cardinality(Waiting \cap dropped) \in Nat
        /\ Cardinality(Waiting \cup dropped)
           = Cardinality(Waiting) + Cardinality(dropped) - Cardinality(Waiting \cap dropped)
    BY <2>5, FS_Union, FS_Intersection, FS_CardinalityType
  <2>9. j <= Cardinality(Waiting) + Cardinality(dropped)
    BY <2>3, <2>7, <2>8
  <2>10. 0 - (bucket.tokens + (clock - bucket.last)) = Debt(clock) /\ Debt(clock) \in Int
    BY <2>1 DEF Debt
  <2>11. Debt(clock) <= Cardinality(Waiting) + Cardinality(dropped)
    BY <2>2, <2>8, <2>9, <2>10
  <2>. QED BY <2>10, <2>11 DEF DebtHeld
<1>. QED BY <1>1, Invariance, LedgerHolds, PTL

-----------------------------------------------------------------------------
(* The relay of a SUDP connection.                                         *)

\* Packets that have left the channel into s.
Taken(s) == IF side[s].at = "write" THEN Len(written[s]) + 1 ELSE Len(written[s])

InOrder(s) == \A i \in 1 .. Len(written[s]) : written[s][i] = i

Running(s) ==
  ~Ended(s) =>
    /\ side[s].at = "write" => side[s].packet = Len(written[s]) + 1
    /\ \A i \in 1 .. Len(chan[s]) : chan[s][i] = Taken(s) + i
    /\ side[Peer(s)].at = "send" => read[Peer(s)] = Taken(s) + Len(chan[s]) + 1
    /\ side[Peer(s)].at # "send" => read[Peer(s)] = Taken(s) + Len(chan[s])

Sending(s) == side[s].at = "send" => side[s].packet = read[s]

Over(s) ==
  Ended(s) =>
    \/ s \notin attached \/ s \in bounced
    \/ Ended(Peer(s)) /\ Len(written[s]) = read[Peer(s)]

Ordered(s) == InOrder(s) /\ Running(s) /\ Sending(s) /\ Over(s)

SudpInv == SudpTypeOK /\ \A s \in Sides : Ordered(s)

-----------------------------------------------------------------------------
\* The other side is the other of the two.
LEMMA OtherSide ==
  ASSUME NEW s \in Sides
  PROVE  /\ Peer(s) \in Sides /\ Peer(s) # s /\ Peer(Peer(s)) = s
         /\ \A t \in Sides : t = s \/ t = Peer(s)
BY DEF Sides, Peer

\* The types of the parts, side by side.
LEMMA Types ==
  ASSUME SudpTypeOK, NEW s \in Sides
  PROVE  /\ side[s].at \in {"select", "send", "write", "ended"}
         /\ side[s].packet \in 0 .. MaxPackets
         /\ read[s] \in 0 .. MaxPackets
         /\ chan[s] \in Seq(1 .. MaxPackets) /\ Len(chan[s]) \in Nat /\ Len(chan[s]) <= Cap
         /\ written[s] \in Seq(1 .. MaxPackets) /\ Len(written[s]) \in Nat
BY SudpAssumption, LenProperties DEF SudpTypeOK

\* Where a future goes, the other stays.
LEMMA GotoSide ==
  ASSUME SudpTypeOK, NEW s \in Sides, NEW where, NEW packet, Goto(s, where, packet)
  PROVE  /\ side'[s].at = where /\ side'[s].packet = packet
         /\ side'[Peer(s)] = side[Peer(s)]
         /\ packet \in 0 .. MaxPackets /\ where \in {"select", "send", "write", "ended"} =>
              side' \in [Sides -> [at : {"select", "send", "write", "ended"}, packet : 0 .. MaxPackets]]
BY OtherSide DEF SudpTypeOK, Goto, At

\* The relay starts in order.
LEMMA SudpInitInv == SudpInit => SudpInv
<1>. SUFFICES ASSUME SudpInit PROVE SudpInv OBVIOUS
<1>. USE SudpAssumption DEF SudpInit, At
<1>1. SudpTypeOK BY DEF SudpTypeOK
<1>2. ASSUME NEW s \in Sides PROVE Ordered(s)
  BY OtherSide DEF Ordered, InOrder, Running, Sending, Over, Taken, Ended
<1>. QED BY <1>1, <1>2 DEF SudpInv

\* No step takes a variable out of its type.
LEMMA StepType ==
  ASSUME SudpInv, NEW s \in Sides, RecvMsg(s) \/ Step(s) \/ EndCloses(s)
  PROVE  SudpTypeOK'
<1>. USE SudpAssumption
<1>0. SudpTypeOK /\ Sending(s) /\ Running(s) BY DEF SudpInv, Ordered
<1>o. Peer(s) \in Sides BY OtherSide
<1>1. CASE RecvMsg(s)
  BY <1>0, <1>1, Types DEF RecvMsg, Goto, At, SudpTypeOK
<1>2. CASE RecvClosed(s) \/ SendFails(s) \/ RecvNone(s) \/ WriteFails(s)
  <2>1. /\ Goto(s, "ended", 0) /\ UNCHANGED <<attached, chan, read, written>>
        /\ bounced' = bounced \/ bounced' = bounced \cup {s}
    BY <1>2 DEF RecvClosed, SendFails, RecvNone, WriteFails
  <2>2. side' \in [Sides -> [at : {"select", "send", "write", "ended"}, packet : 0 .. MaxPackets]]
    BY <1>0, <2>1, GotoSide
  <2>. QED BY <1>0, <2>1, <2>2 DEF SudpTypeOK
<1>3. CASE Send(s)
  <2>1. side[s].packet \in 1 .. MaxPackets
    <3>1. side[s].packet = read[s] BY <1>0, <1>3 DEF Send, Sending
    <3>2. Ordered(Peer(s)) BY <1>o DEF SudpInv
    <3>3. read[s] = Taken(Peer(s)) + Len(chan[Peer(s)]) + 1
      BY <1>3, <3>2, OtherSide DEF Send, Ordered, Running
    <3>4. Taken(Peer(s)) \in Nat /\ Len(chan[Peer(s)]) \in Nat
      BY <1>0, <1>o, Types DEF Taken
    <3>5. read[s] \in 0 .. MaxPackets
      BY <1>0, Types
    <3>. QED BY <3>1, <3>3, <3>4, <3>5
  <2>2. /\ Append(chan[Peer(s)], side[s].packet) \in Seq(1 .. MaxPackets)
        /\ Len(Append(chan[Peer(s)], side[s].packet)) <= Cap
    BY <1>0, <1>3, <1>o, <2>1, Types DEF Send
  <2>. QED BY <1>0, <1>3, <1>o, <2>2 DEF Send, Goto, At, SudpTypeOK
<1>4. CASE RecvPacket(s)
  <2>1. /\ Tail(chan[s]) \in Seq(1 .. MaxPackets) /\ Len(Tail(chan[s])) <= Cap
        /\ Head(chan[s]) \in 1 .. MaxPackets
    <3>1. /\ chan[s] \in Seq(1 .. MaxPackets) /\ chan[s] # <<>>
          /\ Len(chan[s]) \in Nat /\ Len(chan[s]) <= Cap
      BY <1>0, <1>4, Types DEF RecvPacket
    <3>2. Len(Tail(chan[s])) = Len(chan[s]) - 1
      BY <3>1, HeadTailProperties
    <3>3. Tail(chan[s]) \in Seq(1 .. MaxPackets) /\ Head(chan[s]) \in 1 .. MaxPackets
      BY <3>1, HeadTailProperties
    <3>. QED BY <3>1, <3>2, <3>3
  <2>. QED BY <1>0, <1>4, <2>1 DEF RecvPacket, Goto, At, SudpTypeOK
<1>5. CASE WritePacket(s)
  <2>1. side[s].packet \in 1 .. MaxPackets
    BY <1>0, <1>5, Types DEF WritePacket, Running, Ended
  <2>2. Append(written[s], side[s].packet) \in Seq(1 .. MaxPackets)
    BY <1>0, <2>1, Types
  <2>. QED BY <1>0, <1>5, <2>2 DEF WritePacket, Goto, At, SudpTypeOK
<1>6. CASE EndCloses(s)
  BY <1>0, <1>6 DEF EndCloses, SudpTypeOK
<1>. QED BY <1>1, <1>2, <1>3, <1>4, <1>5, <1>6 DEF Step

\* No step breaks the order on the side that takes it, or on the other.
LEMMA StepOrdered ==
  ASSUME SudpInv, NEW s \in Sides, RecvMsg(s) \/ Step(s) \/ EndCloses(s)
  PROVE  Ordered(s)' /\ Ordered(Peer(s))'
<1>. DEFINE o == Peer(s)
<1>0. /\ SudpTypeOK /\ Ordered(s) /\ Ordered(o)
      /\ o \in Sides /\ o # s /\ Peer(o) = s
  BY OtherSide DEF SudpInv
<1>t. /\ side[s].at \in {"select", "send", "write", "ended"}
      /\ side[o].at \in {"select", "send", "write", "ended"}
      /\ read[s] \in Nat /\ read[o] \in Nat
      /\ chan[s] \in Seq(1 .. MaxPackets) /\ chan[o] \in Seq(1 .. MaxPackets)
      /\ Len(chan[s]) \in Nat /\ Len(chan[o]) \in Nat
      /\ written[s] \in Seq(1 .. MaxPackets) /\ written[o] \in Seq(1 .. MaxPackets)
      /\ Len(written[s]) \in Nat /\ Len(written[o]) \in Nat
  BY <1>0, Types, SudpAssumption
<1>u. /\ read = [t \in Sides |-> read[t]]
      /\ chan = [t \in Sides |-> chan[t]] /\ written = [t \in Sides |-> written[t]]
  BY <1>0 DEF SudpTypeOK
<1>. HIDE DEF o
<1>o. Peer(s) = o BY DEF o
<1>k. /\ Taken(s) \in Nat /\ Taken(o) \in Nat
      /\ side[s].at # "write" => Taken(s) = Len(written[s])
      /\ side[s].at = "write" => Taken(s) = Len(written[s]) + 1
  BY <1>t DEF Taken
<1>1. CASE RecvMsg(s)
  <2>1. /\ side[s].at = "select" /\ side'[s].at = "send" /\ side'[s].packet = read[s] + 1
        /\ side'[o] = side[o] /\ read'[s] = read[s] + 1 /\ read'[o] = read[o]
        /\ UNCHANGED <<attached, chan, written, bounced>>
    BY <1>0, <1>1, <1>o, <1>u, GotoSide DEF RecvMsg
  <2>2. Taken(s)' = Taken(s) /\ Taken(o)' = Taken(o)
    BY <2>1 DEF Taken
  <2>. QED BY <1>0, <1>t, <1>k, <1>o, <2>1, <2>2
           DEF Ordered, InOrder, Running, Sending, Over, Ended
<1>2. CASE RecvClosed(s) \/ SendFails(s) \/ RecvNone(s) \/ WriteFails(s)
  <2>1. Goto(s, "ended", 0)
    BY <1>2 DEF RecvClosed, SendFails, RecvNone, WriteFails
  <2>2. /\ side'[s].at = "ended" /\ side'[o] = side[o]
        /\ UNCHANGED <<attached, chan, read, written>> /\ bounced \subseteq bounced'
        /\ side[s].at = "select" \/ s \notin attached \/ (side[s].at = "send" /\ Ended(o))
        /\ s \notin attached \/ s \in bounced' \/ (side[s].at = "select" /\ chan[s] = <<>> /\ Ended(o))
        /\ side[s].at # "ended"
    BY <1>0, <1>2, <1>o, <2>1, GotoSide DEF RecvClosed, SendFails, RecvNone, WriteFails
  <2>3. Ordered(s)'
    <3>1. CASE s \notin attached \/ s \in bounced'
      BY <1>0, <2>2, <3>1 DEF Ordered, InOrder, Running, Sending, Over, Ended
    <3>2. CASE side[s].at = "select" /\ chan[s] = <<>> /\ Ended(o)
      <4>1. Len(chan[s]) = 0 BY <3>2
      <4>2. Len(written[s]) = read[o]
        BY <1>0, <1>t, <1>k, <1>o, <3>2, <4>1 DEF Ordered, Running, Ended
      <4>. QED BY <1>0, <1>o, <2>2, <3>2, <4>2 DEF Ordered, InOrder, Running, Sending, Over, Ended
    <3>. QED BY <2>2, <3>1, <3>2
  <2>4. Ordered(o)'
    <3>1. CASE side[s].at # "send"
      BY <1>0, <1>t, <2>2, <3>1 DEF Ordered, InOrder, Running, Sending, Over, Taken, Ended
    <3>2. CASE side[s].at = "send" /\ Ended(o)
      BY <1>0, <1>t, <2>2, <3>2 DEF Ordered, InOrder, Running, Sending, Over, Taken, Ended
    <3>3. side[s].at # "send" \/ Ended(o)
      BY <1>2, <1>o DEF RecvClosed, SendFails, RecvNone, WriteFails
    <3>. QED BY <3>1, <3>2, <3>3
  <2>. QED BY <1>o, <2>3, <2>4
<1>3. CASE Send(s)
  <2>1. /\ side[s].at = "send" /\ side[o].at # "ended"
        /\ side'[s].at = "select" /\ side'[o] = side[o]
        /\ chan'[o] = Append(chan[o], side[s].packet) /\ chan'[s] = chan[s]
        /\ UNCHANGED <<attached, read, written, bounced>>
    BY <1>0, <1>3, <1>o, <1>u, GotoSide DEF Send, Ended
  <2>2. /\ side[s].packet = read[s] /\ read[s] = Taken(o) + Len(chan[o]) + 1
    BY <1>0, <1>o, <2>1 DEF Ordered, Running, Sending, Ended
  <2>3. side[s].packet \in 1 .. MaxPackets
    <3>1. read[s] \in 0 .. MaxPackets BY <1>0, Types
    <3>. QED BY <1>t, <1>k, <2>2, <3>1
  <2>4. /\ Len(chan'[o]) = Len(chan[o]) + 1
        /\ \A i \in 1 .. Len(chan[o]) : chan'[o][i] = chan[o][i]
        /\ chan'[o][Len(chan[o]) + 1] = side[s].packet
    BY <1>t, <2>1, <2>3, AppendProperties
  <2>5. \A i \in 1 .. Len(chan'[o]) : chan'[o][i] = Taken(o) + i
    <3>1. \A i \in 1 .. Len(chan[o]) : chan[o][i] = Taken(o) + i
      BY <1>0, <2>1 DEF Ordered, Running, Ended
    <3>. TAKE i \in 1 .. Len(chan'[o])
    <3>2. CASE i \in 1 .. Len(chan[o])
      BY <2>4, <3>1, <3>2
    <3>3. CASE i = Len(chan[o]) + 1
      <4>1. chan'[o][i] = read[s]
        BY <2>2, <2>4, <3>3
      <4>2. read[s] = Taken(o) + i
        <5>. DEFINE l == Len(chan[o])
        <5>1. l \in Nat /\ Taken(o) \in Nat /\ read[s] = Taken(o) + l + 1 /\ i = l + 1
          BY <1>t, <1>k, <2>2, <3>3
        <5>. HIDE DEF l
        <5>. QED BY <5>1
      <4>. QED BY <4>1, <4>2
    <3>. QED BY <1>t, <2>4, <3>2, <3>3
  <2>6. Taken(s)' = Taken(s) /\ Taken(o)' = Taken(o)
    <3>1. side[s].at # "write" /\ side'[s].at # "write" /\ side'[o] = side[o] /\ written' = written
      BY <2>1
    <3>. QED BY <3>1 DEF Taken
  <2>a. read[s] = Taken(o) + Len(chan'[o])
    <3>. DEFINE l == Len(chan[o])
    <3>1. l \in Nat /\ Taken(o) \in Nat /\ read[s] = Taken(o) + l + 1 /\ Len(chan'[o]) = l + 1
      BY <1>t, <1>k, <2>2, <2>4
    <3>. HIDE DEF l
    <3>. QED BY <3>1
  <2>b. InOrder(o)' /\ Sending(o)' /\ Over(o)'
    BY <1>0, <1>o, <2>1 DEF Ordered, InOrder, Sending, Over, Ended
  <2>c. Running(o)'
    <3>1. side[o].at = "write" => side[o].packet = Len(written[o]) + 1
      BY <1>0, <2>1 DEF Ordered, Running, Ended
    <3>. QED BY <1>0, <2>1, <2>5, <2>6, <2>a, <3>1 DEF Running
  <2>7. Ordered(o)'
    BY <2>b, <2>c DEF Ordered
  <2>8. Ordered(s)'
    BY <1>0, <1>t, <1>k, <1>o, <2>1, <2>6
       DEF Ordered, InOrder, Running, Sending, Over, Ended
  <2>. QED BY <1>o, <2>7, <2>8
<1>4. CASE RecvPacket(s)
  <2>1. /\ side[s].at = "select" /\ chan[s] # <<>>
        /\ side'[s].at = "write" /\ side'[s].packet = Head(chan[s]) /\ side'[o] = side[o]
        /\ chan'[s] = Tail(chan[s]) /\ chan'[o] = chan[o]
        /\ UNCHANGED <<attached, read, written, bounced>>
    BY <1>0, <1>4, <1>o, <1>u, GotoSide DEF RecvPacket
  <2>2. /\ Len(chan[s]) >= 1 /\ Head(chan[s]) = chan[s][1]
        /\ Len(chan'[s]) = Len(chan[s]) - 1
        /\ \A i \in 1 .. Len(chan'[s]) : chan'[s][i] = chan[s][i + 1]
    BY <1>t, <2>1, HeadTailProperties
  <2>3. \A i \in 1 .. Len(chan[s]) : chan[s][i] = Len(written[s]) + i
    BY <1>0, <1>k, <2>1 DEF Ordered, Running, Ended
  <2>4. /\ side'[s].packet = Len(written[s]) + 1
        /\ \A i \in 1 .. Len(chan'[s]) : chan'[s][i] = Len(written[s]) + 1 + i
    <3>1. 1 \in 1 .. Len(chan[s]) /\ side'[s].packet = chan[s][1]
      BY <1>t, <2>1, <2>2
    <3>2. side'[s].packet = Len(written[s]) + 1
      BY <2>3, <3>1
    <3>3. ASSUME NEW i \in 1 .. Len(chan'[s])
          PROVE  chan'[s][i] = Len(written[s]) + 1 + i
      <4>. DEFINE l == Len(chan[s])
                  w == Len(written[s])
      <4>1. l \in Nat /\ w \in Nat /\ i \in 1 .. l - 1
        BY <1>t, <2>2
      <4>2. chan'[s][i] = chan[s][i + 1]
        BY <2>2
      <4>3. \A j \in 1 .. l : chan[s][j] = w + j
        BY <2>3
      <4>. HIDE DEF l, w
      <4>4. i + 1 \in 1 .. l
        BY <4>1
      <4>5. chan'[s][i] = w + (i + 1)
        BY <4>2, <4>3, <4>4
      <4>6. w + (i + 1) = w + 1 + i
        BY <4>1
      <4>. QED BY <4>5, <4>6 DEF w
    <3>. QED BY <3>2, <3>3
  <2>5. Taken(s)' = Len(written[s]) + 1 /\ Taken(o)' = Taken(o)
    <3>1. side'[s].at = "write" /\ side'[o] = side[o] /\ written' = written
      BY <2>1
    <3>. QED BY <3>1 DEF Taken
  <2>a. \A r \in Nat : r = Taken(s) + Len(chan[s]) => r = Len(written[s]) + 1 + Len(chan'[s])
    <3>. DEFINE l == Len(chan[s])
                w == Len(written[s])
    <3>1. /\ l \in Nat /\ w \in Nat /\ Len(chan'[s]) = l - 1 /\ Taken(s) = w
      BY <1>t, <1>k, <2>1, <2>2
    <3>. HIDE DEF l, w
    <3>2. \A r \in Nat : r = w + l => r = w + 1 + (l - 1)
      BY <3>1
    <3>. QED BY <3>1, <3>2 DEF l, w
  <2>b. InOrder(s)' /\ Sending(s)' /\ Over(s)'
    BY <1>0, <1>o, <2>1 DEF Ordered, InOrder, Sending, Over, Ended
  <2>c. Running(s)'
    <3>1. side[o].at # "send" => read[o] = Taken(s) + Len(chan[s])
      BY <1>0, <1>o, <2>1 DEF Ordered, Running, Ended
    <3>2. side[o].at = "send" => read[o] = Taken(s) + Len(chan[s]) + 1
      BY <1>0, <1>o, <2>1 DEF Ordered, Running, Ended
    <3>3. side[o].at = "send" => read[o] - 1 \in Nat /\ read[o] - 1 = Taken(s) + Len(chan[s])
      BY <1>t, <1>k, <3>2
    <3>4. side[o].at # "send" => read[o] = Len(written[s]) + 1 + Len(chan'[s])
      BY <1>t, <2>a, <3>1
    <3>5. Len(chan'[s]) \in Nat
      BY <1>t, <2>2
    <3>6. side[o].at = "send" => read[o] = Len(written[s]) + 1 + Len(chan'[s]) + 1
      <4>. DEFINE n == Len(written[s]) + 1 + Len(chan'[s])
      <4>1. side[o].at = "send" => read[o] - 1 = n
        BY <2>a, <3>3
      <4>2. n \in Nat /\ read[o] \in Nat
        <5>. DEFINE w == Len(written[s])
                    l == Len(chan'[s])
        <5>1. w \in Nat /\ l \in Nat BY <1>t, <3>5
        <5>. HIDE DEF w, l
        <5>2. w + 1 + l \in Nat BY <5>1
        <5>. QED BY <1>t, <5>2 DEF w, l
      <4>. HIDE DEF n
      <4>3. side[o].at = "send" => read[o] = n + 1
        BY <4>1, <4>2
      <4>. QED BY <4>3 DEF n
    <3>. QED BY <1>o, <2>1, <2>4, <2>5, <3>4, <3>6 DEF Running
  <2>6. Ordered(s)'
    BY <2>b, <2>c DEF Ordered
  <2>7. Ordered(o)'
    BY <1>0, <1>t, <1>k, <1>o, <2>1, <2>5
       DEF Ordered, InOrder, Running, Sending, Over, Ended
  <2>. QED BY <1>o, <2>6, <2>7
<1>5. CASE WritePacket(s)
  <2>1. /\ side[s].at = "write" /\ side'[s].at = "select" /\ side'[o] = side[o]
        /\ written'[s] = Append(written[s], side[s].packet) /\ written'[o] = written[o]
        /\ UNCHANGED <<attached, chan, read, bounced>>
    BY <1>0, <1>5, <1>o, <1>u, GotoSide DEF WritePacket
  <2>2. side[s].packet = Len(written[s]) + 1 /\ side[s].packet \in 1 .. MaxPackets
    BY <1>0, <1>t, <2>1, Types DEF Ordered, Running, Ended
  <2>3. /\ Len(written'[s]) = Len(written[s]) + 1
        /\ \A i \in 1 .. Len(written[s]) : written'[s][i] = written[s][i]
        /\ written'[s][Len(written[s]) + 1] = side[s].packet
    BY <1>t, <2>1, <2>2, AppendProperties
  <2>4. InOrder(s)'
    <3>1. \A i \in 1 .. Len(written[s]) : written[s][i] = i
      BY <1>0 DEF Ordered, InOrder
    <3>2. ASSUME NEW i \in 1 .. Len(written[s]) + 1 PROVE written'[s][i] = i
      <4>1. CASE i \in 1 .. Len(written[s])
        BY <2>3, <3>1, <4>1
      <4>2. CASE i = Len(written[s]) + 1
        BY <2>2, <2>3, <4>2
      <4>3. i \in 1 .. Len(written[s]) \/ i = Len(written[s]) + 1
        <5>. DEFINE w == Len(written[s])
        <5>1. w \in Nat /\ i \in 1 .. w + 1 BY <1>t
        <5>. HIDE DEF w
        <5>2. i \in 1 .. w \/ i = w + 1 BY <5>1
        <5>. QED BY <5>2 DEF w
      <4>. QED BY <4>1, <4>2, <4>3
    <3>. QED BY <2>3, <3>2 DEF InOrder
  <2>5. Taken(s)' = Taken(s) /\ Taken(o)' = Taken(o)
    BY <1>t, <1>k, <2>1, <2>3 DEF Taken
  <2>6. Ordered(s)'
    BY <1>0, <1>t, <1>k, <1>o, <2>1, <2>3, <2>4, <2>5
       DEF Ordered, Running, Sending, Over, Ended
  <2>7. Ordered(o)'
    BY <1>0, <1>t, <1>k, <1>o, <2>1, <2>5
       DEF Ordered, InOrder, Running, Sending, Over, Ended
  <2>. QED BY <1>o, <2>6, <2>7
<1>6. CASE EndCloses(s)
  <2>1. /\ side'[s] = side[s] /\ side'[o] = side[o]
        /\ chan' = chan /\ read' = read /\ written' = written /\ bounced' = bounced
        /\ attached' \subseteq attached
    BY <1>6 DEF EndCloses
  <2>2. Taken(s)' = Taken(s) /\ Taken(o)' = Taken(o)
    BY <2>1 DEF Taken
  <2>3. /\ InOrder(s)' /\ InOrder(o)' /\ Sending(s)' /\ Sending(o)'
    BY <1>0, <1>o, <2>1 DEF Ordered, InOrder, Sending
  <2>4. Running(s)' /\ Running(o)'
    BY <1>0, <1>o, <2>1, <2>2 DEF Ordered, Running, Ended
  <2>5. Over(s)' /\ Over(o)'
    BY <1>0, <1>o, <2>1 DEF Ordered, Over, Ended
  <2>. QED BY <1>o, <2>3, <2>4, <2>5 DEF Ordered
<1>. QED BY <1>1, <1>2, <1>3, <1>4, <1>5, <1>6 DEF Step

\* The invariant is inductive.
LEMMA SudpStepInv == SudpInv /\ [SudpNext]_sudpVars => SudpInv'
<1>. SUFFICES ASSUME SudpInv, [SudpNext]_sudpVars PROVE SudpInv' OBVIOUS
<1>1. CASE UNCHANGED sudpVars
  BY <1>1 DEF sudpVars, SudpInv, SudpTypeOK, Ordered, InOrder, Running, Sending, Over, Taken, Ended
<1>2. ASSUME NEW s \in Sides, RecvMsg(s) \/ Step(s) \/ EndCloses(s) PROVE SudpInv'
  <2>1. SudpTypeOK' BY <1>2, StepType
  <2>2. Ordered(s)' /\ Ordered(Peer(s))' BY <1>2, StepOrdered
  <2>3. \A t \in Sides : t = s \/ t = Peer(s) BY OtherSide
  <2>. QED BY <2>1, <2>2, <2>3 DEF SudpInv
<1>. QED BY <1>1, <1>2 DEF SudpNext

\* The inductive invariant holds in every reachable state.
THEOREM SudpInvariance == SudpSpec => []SudpInv
BY SudpInitInv, SudpStepInv, PTL DEF SudpSpec

\* Every variable keeps its type, and a channel never holds more than its
\* capacity.
THEOREM SudpTypeCorrect == SudpSpec => []SudpTypeOK
<1>1. SudpInv => SudpTypeOK BY DEF SudpInv
<1>. QED BY <1>1, SudpInvariance, PTL

\* Packets keep their order, and none is lost without a reason.
THEOREM LossExplainedHolds == SudpSpec => []LossExplained
<1>1. SudpInv => LossExplained
  BY OtherSide DEF SudpInv, Ordered, InOrder, Over, LossExplained, Ended
<1>. QED BY <1>1, SudpInvariance, PTL

\* A jam is for ever: neither side ever takes a step again, and what their
\* ends do does not matter.
THEOREM JamIsForEver == SudpSpec => [][Jammed => Jammed']_sudpVars
<1>1. SudpInv /\ [SudpNext]_sudpVars => [Jammed => Jammed']_sudpVars
  <2>. SUFFICES ASSUME SudpInv, Jammed, NEW s \in Sides, RecvMsg(s) \/ Step(s) \/ EndCloses(s)
       PROVE Jammed'
    BY DEF SudpNext
  <2>1. side[s].at = "send" /\ side[Peer(s)].at = "send" /\ ~(Len(chan[Peer(s)]) < Cap)
    BY OtherSide, Types, SudpAssumption DEF SudpInv, Jammed
  <2>2. EndCloses(s)
    BY <2>1 DEF Step, RecvMsg, RecvClosed, Send, SendFails, RecvPacket, RecvNone, WritePacket, WriteFails, Ended
  <2>. QED BY <2>2 DEF EndCloses, Jammed
<1>. QED BY <1>1, SudpInvariance, PTL DEF SudpSpec
=============================================================================
