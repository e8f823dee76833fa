-------------------------- MODULE WorkPool_proofs --------------------------
(***************************************************************************)
(* Proofs about the work-connection pool, for any users, waiters and       *)
(* configurations.                                                         *)
(*                                                                         *)
(* A queue that holds each element once is its set of elements and their   *)
(* order.  What the code does to one - reap a prefix, pop the front, push  *)
(* at the back, take one out - is stated for both (SuffixFacts,            *)
(* AppendFacts, RemoveFacts) and used for the queue of users and for the   *)
(* listeners of work_notify.                                               *)
(*                                                                         *)
(* Inv adds to the properties where each permit is, that nobody queues     *)
(* while a connection is idle (Calmly), that who queues has asked or is    *)
(* about to (AskedFor), and the bound on idle connections (IdleWithin).    *)
(***************************************************************************)
EXTENDS WorkPool, Integers, FiniteSetTheorems, SequenceTheorems,
        WellFoundedInduction, TLAPS

Elems(q) == {q[i] : i \in 1..Len(q)}

\* u stands somewhere in front of v.
Before(q, u, v) == \E i \in 1..Len(q) : q[i] = u /\ \E j \in i+1..Len(q) : q[j] = v

Line(q, S) == q \in Seq(S) /\ Injective(q)

\* r is what is left of q when k elements have left its front.
Suffix(r, q, k) == Len(r) = Len(q) - k /\ \A i \in 1..Len(r) : r[i] = q[i + k]

-----------------------------------------------------------------------------
(* Lines *)

\* A non-empty set of numbers has a least one.
LEMMA LeastNat ==
  ASSUME NEW S \in SUBSET Nat, S # {}
  PROVE  \E n \in S : \A m \in S : n <= m
<1>. DEFINE Less == OpToRel(<, Nat)
<1>1. IsWellFoundedOn(Less, Nat)
  BY NatLessThanWellFounded
<1>2. \A m, n \in Nat : m < n => <<m, n>> \in Less
  BY DEF OpToRel
<1>. HIDE DEF Less
<1>3. PICK n \in S : \A m \in S : <<m, n>> \notin Less
  BY <1>1, WFMin
<1>4. \A m \in S : m \in Nat /\ n \in Nat /\ ~(m < n)
  BY <1>2, <1>3, Zenon
<1>. QED BY <1>4

\* The length and the elements of a line.
LEMMA LineFacts ==
  ASSUME NEW S, NEW q \in Seq(S)
  PROVE  /\ Len(q) \in Nat /\ Elems(q) \subseteq S
         /\ \A i \in 1..Len(q) : q[i] \in S /\ q[i] \in Elems(q)
         /\ \A x \in Elems(q) : \E i \in 1..Len(q) : q[i] = x
         /\ q = <<>> <=> Elems(q) = {}
         /\ q = <<>> <=> Len(q) = 0
<1>1. Len(q) \in Nat /\ \A i \in 1..Len(q) : q[i] \in S
  BY LenProperties, ElementOfSeq
<1>2. q # <<>> => Len(q) \in Nat \ {0}
  BY EmptySeq
<1>3. q = <<>> => Len(q) = 0
  OBVIOUS
<1>4. Len(q) \in Nat \ {0} => 1 \in 1..Len(q)
  BY <1>1
<1>5. Len(q) = 0 => 1..Len(q) = {}
  BY <1>1
<1>6. /\ Elems(q) \subseteq S /\ \A i \in 1..Len(q) : q[i] \in Elems(q)
      /\ \A x \in Elems(q) : \E i \in 1..Len(q) : q[i] = x
  BY <1>1 DEF Elems
<1>7. q = <<>> => Elems(q) = {}
  BY <1>3, <1>5 DEF Elems
<1>8. q # <<>> => Elems(q) # {} /\ Len(q) # 0
  BY <1>2, <1>4, <1>6
<1>. QED BY <1>1, <1>3, <1>6, <1>7, <1>8

\* What leaves the front of a line leaves the others, in their order.
LEMMA SuffixFacts ==
  ASSUME NEW S, NEW q, Line(q, S), NEW r \in Seq(S), NEW k \in 0..Len(q), Suffix(r, q, k)
  PROVE  /\ Line(r, S)
         /\ Elems(r) = Elems(q) \ {q[i] : i \in 1..k}
         /\ \A u, v \in Elems(r) : Before(q, u, v) => Before(r, u, v)
<1>. DEFINE n == Len(q)
            m == Len(r)
<1>1. n \in Nat /\ m \in Nat /\ m = n - k /\ k \in 0..n /\ \A i \in 1..m : r[i] = q[i + k]
  BY LineFacts DEF Suffix, Line
<1>2. \A i, j \in 1..n : q[i] = q[j] => i = j
  BY DEF Line, Injective
<1>3. Elems(q) = {q[i] : i \in 1..n} /\ Elems(r) = {r[i] : i \in 1..m}
  BY DEF Elems
<1>b. /\ \A u, v : Before(q, u, v) <=> \E i \in 1..n : q[i] = u /\ \E j \in i+1..n : q[j] = v
      /\ \A u, v : Before(r, u, v) <=> \E i \in 1..m : r[i] = u /\ \E j \in i+1..m : r[j] = v
  BY DEF Before
<1>i. Injective(r) <=> \A i, j \in 1..m : r[i] = r[j] => i = j
  BY DEF Injective
<1>. HIDE DEF n, m
<1>4. \A i \in 1..m : i + k \in 1..n
  BY <1>1
<1>5. \A i \in 1..n : i \in 1..k \/ (i - k \in 1..m /\ (i - k) + k = i)
  BY <1>1
<1>6. \A i, j \in 1..m : r[i] = r[j] => i = j
  <2>. SUFFICES ASSUME NEW i \in 1..m, NEW j \in 1..m, r[i] = r[j] PROVE i = j OBVIOUS
  <2>1. i + k = j + k
    BY <1>1, <1>2, <1>4
  <2>. QED BY <1>1, <2>1
<1>7. Elems(r) = {q[i] : i \in 1..n} \ {q[i] : i \in 1..k}
  <2>1. ASSUME NEW i \in 1..m
        PROVE  r[i] \in {q[a] : a \in 1..n} \ {q[a] : a \in 1..k}
    <3>1. i + k \in 1..n /\ r[i] = q[i + k]
      BY <1>1, <1>4
    <3>2. ASSUME NEW a \in 1..k PROVE r[i] # q[a]
      <4>1. a \in 1..n /\ a # i + k
        BY <1>1
      <4>. QED BY <1>2, <3>1, <4>1
    <3>. QED BY <3>1, <3>2
  <2>2. ASSUME NEW i \in 1..n, q[i] \notin {q[a] : a \in 1..k}
        PROVE  q[i] \in {r[a] : a \in 1..m}
    <3>1. i \notin 1..k
      BY <2>2
    <3>2. i - k \in 1..m /\ (i - k) + k = i
      BY <1>5, <3>1
    <3>3. r[i - k] = q[i]
      BY <1>1, <3>2
    <3>. QED BY <3>2, <3>3
  <2>. QED BY <1>3, <2>1, <2>2
<1>8. ASSUME NEW u \in Elems(r), NEW v \in Elems(r), Before(q, u, v) PROVE Before(r, u, v)
  <2>0. PICK i \in 1..n : q[i] = u /\ \E j \in i+1..n : q[j] = v
    BY <1>8, <1>b
  <2>1. PICK j \in i+1..n : q[j] = v
    BY <2>0
  <2>2. PICK a \in 1..m, b \in 1..m : r[a] = u /\ r[b] = v
    BY <1>3
  <2>3. q[a + k] = u /\ q[b + k] = v /\ a + k \in 1..n /\ b + k \in 1..n /\ j \in 1..n
    BY <1>1, <1>4, <2>1, <2>2
  <2>4. i = a + k /\ j = b + k
    BY <1>2, <2>0, <2>1, <2>3
  <2>5. b \in a+1..m
    BY <1>1, <2>1, <2>2, <2>4
  <2>. QED BY <1>b, <2>2, <2>5
<1>. QED BY <1>3, <1>6, <1>7, <1>8, <1>i DEF Line

\* Drop leaves a suffix.
LEMMA DropSuffix ==
  ASSUME NEW S, NEW q \in Seq(S), NEW k \in 0..Len(q)
  PROVE  Drop(q, k) \in Seq(S) /\ Suffix(Drop(q, k), q, k)
<1>. DEFINE n == Len(q)
            d == Drop(q, k)
<1>1. n \in Nat /\ k \in 0..n /\ \A i \in 1..n : q[i] \in S
  BY LineFacts
<1>d. d = SubSeq(q, k + 1, n)
  BY DEF Drop
<1>. HIDE DEF n, d
<1>2. \A i \in k+1..n : q[i] \in S
  BY <1>1
<1>3. /\ d \in Seq(S)
      /\ Len(d) = IF k + 1 <= n THEN n - (k + 1) + 1 ELSE 0
      /\ \A i \in 1..n - (k + 1) + 1 : d[i] = q[k + 1 + i - 1]
  BY <1>1, <1>2, <1>d, SubSeqProperties
<1>4. Len(d) = n - k
  BY <1>1, <1>3
<1>5. n - (k + 1) + 1 = n - k /\ \A i \in 1..n - k : k + 1 + i - 1 = i + k
  BY <1>1
<1>6. \A i \in 1..n - k : d[i] = q[k + 1 + i - 1]
  BY <1>3, <1>5
<1>. QED BY <1>3, <1>4, <1>5, <1>6 DEF Suffix, n, d

\* Whoever is served stands at the front; the others keep their order.
LEMMA FrontFacts ==
  ASSUME NEW S, NEW q, Line(q, S), q # <<>>
  PROVE  /\ Head(q) \in Elems(q)
         /\ Line(Tail(q), S) /\ Elems(Tail(q)) = Elems(q) \ {Head(q)}
         /\ Len(Tail(q)) = Len(q) - 1
         /\ \A u, v \in Elems(Tail(q)) : Before(q, u, v) => Before(Tail(q), u, v)
         /\ \A u : ~Before(q, u, Head(q))
<1>1. q \in Seq(S) /\ Len(q) \in Nat \ {0} /\ Head(q) = q[1] /\ 1 \in 1..Len(q)
  BY EmptySeq DEF Line
<1>2. /\ Tail(q) \in Seq(S) /\ Len(Tail(q)) = Len(q) - 1
      /\ \A i \in 1..Len(Tail(q)) : Tail(q)[i] = q[i + 1]
  BY <1>1, HeadTailProperties
<1>3. Suffix(Tail(q), q, 1) /\ 1 \in 0..Len(q)
  BY <1>1, <1>2 DEF Suffix
<1>4. {q[i] : i \in 1..1} = {Head(q)}
  BY <1>1
<1>5. /\ Line(Tail(q), S) /\ Elems(Tail(q)) = Elems(q) \ {q[i] : i \in 1..1}
      /\ \A u, v \in Elems(Tail(q)) : Before(q, u, v) => Before(Tail(q), u, v)
  <2>. DEFINE r == Tail(q)
              k == 1
  <2>1. r \in Seq(S) /\ k \in 0..Len(q) /\ Suffix(r, q, k)
    BY <1>2, <1>3
  <2>. HIDE DEF r, k
  <2>2. /\ Line(r, S) /\ Elems(r) = Elems(q) \ {q[i] : i \in 1..k}
        /\ \A u, v \in Elems(r) : Before(q, u, v) => Before(r, u, v)
    BY <2>1, SuffixFacts
  <2>. QED BY <2>2 DEF r, k
<1>6. ASSUME NEW u, Before(q, u, Head(q)) PROVE FALSE
  <2>1. PICK i \in 1..Len(q) : \E j \in i+1..Len(q) : q[j] = q[1]
    BY <1>1, <1>6 DEF Before
  <2>2. PICK j \in i+1..Len(q) : q[j] = q[1]
    BY <2>1
  <2>3. j \in 1..Len(q) /\ j # 1
    BY <1>1
  <2>. QED BY <1>1, <2>2, <2>3 DEF Line, Injective
<1>. QED BY <1>1, <1>2, <1>4, <1>5, <1>6 DEF Elems

\* Who joins at the back is behind everybody.
LEMMA AppendFacts ==
  ASSUME NEW S, NEW q, Line(q, S), NEW x \in S, x \notin Elems(q)
  PROVE  /\ Line(Append(q, x), S)
         /\ Elems(Append(q, x)) = Elems(q) \cup {x}
         /\ Len(Append(q, x)) = Len(q) + 1
         /\ \A u, v : Before(q, u, v) => Before(Append(q, x), u, v)
         /\ \A u \in Elems(q) : Before(Append(q, x), u, x)
<1>. DEFINE n == Len(q)
            r == Append(q, x)
<1>1. q \in Seq(S) /\ n \in Nat /\ (\A i, j \in 1..n : q[i] = q[j] => i = j)
  BY LineFacts DEF Line, Injective
<1>2. r \in Seq(S) /\ Len(r) = n + 1 /\ (\A i \in 1..n : r[i] = q[i]) /\ r[n + 1] = x
  BY <1>1, AppendProperties
<1>3. Elems(q) = {q[i] : i \in 1..n} /\ Elems(r) = {r[i] : i \in 1..n + 1}
  BY <1>2 DEF Elems
<1>b. /\ \A u, v : Before(q, u, v) <=> \E i \in 1..n : q[i] = u /\ \E j \in i+1..n : q[j] = v
      /\ \A u, v : Before(r, u, v) <=> \E i \in 1..n+1 : r[i] = u /\ \E j \in i+1..n+1 : r[j] = v
  BY <1>2 DEF Before
<1>i. Injective(r) <=> \A i, j \in 1..n+1 : r[i] = r[j] => i = j
  BY <1>2 DEF Injective
<1>l. Len(r) = Len(q) + 1
  BY <1>2
<1>. HIDE DEF n, r
<1>4. \A i \in 1..n+1 : i \in 1..n \/ i = n + 1
  BY <1>1
<1>5. \A i \in 1..n : i \in 1..n+1 /\ n + 1 \in i+1..n+1
  BY <1>1
<1>6. \A i \in 1..n : q[i] # x
  BY <1>3
<1>7. \A i, j \in 1..n+1 : r[i] = r[j] => i = j
  BY <1>1, <1>2, <1>4, <1>6
<1>8. Elems(r) = Elems(q) \cup {x}
  <2>1. n + 1 \in 1..n+1
    BY <1>1
  <2>. QED BY <1>2, <1>3, <1>4, <1>5, <2>1
<1>9. ASSUME NEW u, NEW v, Before(q, u, v) PROVE Before(r, u, v)
  <2>1. PICK i \in 1..n : q[i] = u /\ \E j \in i+1..n : q[j] = v
    BY <1>9, <1>b
  <2>2. PICK j \in i+1..n : q[j] = v
    BY <2>1
  <2>3. i \in 1..n+1 /\ j \in 1..n /\ j \in i+1..n+1
    BY <1>1, <2>1, <2>2
  <2>4. r[i] = u /\ r[j] = v
    BY <1>2, <2>1, <2>2, <2>3
  <2>. QED BY <1>b, <2>3, <2>4
<1>10. ASSUME NEW u \in Elems(q) PROVE Before(r, u, x)
  <2>1. PICK i \in 1..n : q[i] = u
    BY <1>3
  <2>. QED BY <1>2, <1>5, <1>b, <2>1
<1>. QED BY <1>2, <1>7, <1>8, <1>9, <1>10, <1>i, <1>l DEF Line, r

\* Who is taken out of a line leaves the others.
LEMMA RemoveFacts ==
  ASSUME NEW S, NEW q, Line(q, S), NEW k \in 1..Len(q), NEW r,
         r = SubSeq(q, 1, k - 1) \o SubSeq(q, k + 1, Len(q))
  PROVE  Line(r, S) /\ Elems(r) = Elems(q) \ {q[k]}
<1>. DEFINE n == Len(q)
            x == SubSeq(q, 1, k - 1)
            y == SubSeq(q, k + 1, n)
<1>1. /\ n \in Nat /\ k \in 1..n /\ (\A i \in 1..n : q[i] \in S) /\ r = x \o y
      /\ \A i, j \in 1..n : q[i] = q[j] => i = j
  BY LineFacts DEF Line, Injective
<1>2. x \in Seq(S) /\ Len(x) = k - 1 /\ \A i \in 1..k - 1 : x[i] = q[i]
  <2>1. \A i \in 1..k - 1 : q[i] \in S
    BY <1>1
  <2>2. /\ x \in Seq(S)
        /\ Len(x) = IF 1 <= k - 1 THEN (k - 1) - 1 + 1 ELSE 0
        /\ \A i \in 1..(k - 1) - 1 + 1 : x[i] = q[1 + i - 1]
    BY <1>1, <2>1, SubSeqProperties
  <2>. QED BY <1>1, <2>2
<1>3. y \in Seq(S) /\ Len(y) = n - k /\ \A i \in 1..n - k : y[i] = q[k + i]
  <2>1. \A i \in k + 1..n : q[i] \in S
    BY <1>1
  <2>2. /\ y \in Seq(S)
        /\ Len(y) = IF k + 1 <= n THEN n - (k + 1) + 1 ELSE 0
        /\ \A i \in 1..n - (k + 1) + 1 : y[i] = q[k + 1 + i - 1]
    BY <1>1, <2>1, SubSeqProperties
  <2>. QED BY <1>1, <2>2
<1>4. Elems(q) = {q[i] : i \in 1..n}
  BY DEF Elems
<1>. HIDE DEF n, x, y
<1>c. /\ x \o y \in Seq(S) /\ Len(x \o y) = Len(x) + Len(y)
      /\ \A i \in 1..Len(x) + Len(y) : (x \o y)[i] = IF i <= Len(x) THEN x[i] ELSE y[i - Len(x)]
  BY <1>2, <1>3, ConcatProperties
<1>d. r = x \o y
  BY <1>1
<1>s. Len(x) + Len(y) = n - 1
  BY <1>1, <1>2, <1>3
<1>5. /\ r \in Seq(S) /\ Len(r) = n - 1
      /\ \A i \in 1..n - 1 : r[i] = IF i <= k - 1 THEN x[i] ELSE y[i - (k - 1)]
  BY <1>2, <1>c, <1>d, <1>s
<1>n. n \in Nat /\ k \in 1..n
  BY <1>1
<1>. DEFINE At(i) == IF i < k THEN i ELSE i + 1
<1>7. \A i \in 1..n - 1 : At(i) \in 1..n /\ At(i) # k /\ r[i] = q[At(i)]
  <2>. TAKE i \in 1..n - 1
  <2>1. CASE i < k
    <3>1. i <= k - 1 /\ i \in 1..k - 1 /\ i \in 1..n /\ i # k
      BY <1>n, <2>1
    <3>2. r[i] = q[i]
      BY <1>2, <1>5, <3>1
    <3>. QED BY <2>1, <3>1, <3>2
  <2>2. CASE ~(i < k)
    <3>1. ~(i <= k - 1) /\ i - (k - 1) \in 1..n - k /\ k + (i - (k - 1)) = i + 1
      BY <1>n, <2>2
    <3>2. r[i] = y[i - (k - 1)]
      BY <1>5, <3>1
    <3>3. At(i) = i + 1 /\ i + 1 \in 1..n /\ i + 1 # k
      BY <1>n, <2>2
    <3>. QED BY <1>3, <3>1, <3>2, <3>3
  <2>. QED BY <2>1, <2>2
<1>8. \A i, j \in 1..n - 1 : At(i) = At(j) => i = j
  BY <1>n
<1>9. \A j \in 1..n : j # k => \E i \in 1..n - 1 : At(i) = j
  <2>. TAKE j \in 1..n
  <2>. HAVE j # k
  <2>1. CASE j < k
    BY <1>n, <2>1
  <2>2. CASE ~(j < k)
    <3>1. j - 1 \in 1..n - 1 /\ At(j - 1) = j
      BY <1>n, <2>2
    <3>. QED BY <3>1
  <2>. QED BY <2>1, <2>2
<1>. HIDE DEF At
<1>10. \A i, j \in 1..n - 1 : r[i] = r[j] => i = j
  BY <1>1, <1>7, <1>8
<1>11. {r[i] : i \in 1..n - 1} = {q[i] : i \in 1..n} \ {q[k]}
  <2>1. \A i, j \in 1..n : q[i] = q[j] => i = j
    BY <1>1
  <2>2. ASSUME NEW i \in 1..n - 1 PROVE r[i] \in {q[j] : j \in 1..n} \ {q[k]}
    <3>1. PICK j \in 1..n : j # k /\ r[i] = q[j]
      BY <1>7
    <3>. QED BY <1>n, <2>1, <3>1
  <2>3. ASSUME NEW j \in 1..n, q[j] # q[k] PROVE q[j] \in {r[i] : i \in 1..n - 1}
    <3>1. PICK i \in 1..n - 1 : At(i) = j
      BY <1>9, <2>3
    <3>. QED BY <1>7, <3>1
  <2>. QED BY <2>2, <2>3
<1>. QED BY <1>4, <1>5, <1>10, <1>11 DEF Line, Injective, Elems

-----------------------------------------------------------------------------
(* Reaping *)

\* reap stops at the first that is not overdue: at most all of them.
LEMMA OverdueFacts ==
  ASSUME NEW old, Len(old) \in Nat
  PROVE  Overdue(old) \in 0..Len(old)
<1>. DEFINE n == Len(old)
            Young == {k \in 0..n : k < n => ~old[k + 1]}
<1>1. n \in Young /\ Young \in SUBSET Nat
  OBVIOUS
<1>2. PICK k \in Young : \A m \in Young : k <= m
  BY <1>1, LeastNat
<1>3. ASSUME NEW i \in 1..k PROVE old[i]
  <2>1. i - 1 \in 0..n /\ i - 1 < n /\ (i - 1) + 1 = i /\ ~(k <= i - 1)
    BY <1>2
  <2>2. i - 1 \notin Young
    BY <1>2, <2>1
  <2>. QED BY <2>1, <2>2
<1>4. \E m \in 0..Len(old) : (\A i \in 1..m : old[i]) /\ (m < Len(old) => ~old[m + 1])
  BY <1>2, <1>3
<1>. QED BY <1>4 DEF Overdue

\* The queue and the listeners are lines, and upc and wpc say who is in them.
Fits(q, S, pc, at) == Line(q, S) /\ \A x \in S : pc[x] = at <=> x \in Elems(q)

Kinds ==
  /\ config \in Configs
  /\ link \in {"up", "ended", "parked", "gone"}
  /\ upc \in [User -> {"away", "checked", "queued", "served", "done", "refused", "reaped"}]
  /\ late \subseteq {u \in User : upc[u] = "queued"}
  /\ idle \in Seq(BOOLEAN)
  /\ asking \subseteq User /\ queueHeld \subseteq User
  /\ idleHeld \subseteq User \cup Waiter
  /\ wpc \in [Waiter -> {"away", "checked", "loop", "asked", "listening", "woken",
                         "served", "done", "failed"}]
  /\ permit \in BOOLEAN
  /\ notifying \in Nat /\ cmds \in Nat /\ asked \in Nat /\ arriving \in Nat

\* TypeOK, part by part.
LEMMA TypeParts ==
  ASSUME TypeOK
  PROVE  Kinds /\ Fits(users, User, upc, "queued") /\ Fits(listeners, Waiter, wpc, "listening")
BY DEF TypeOK, Kinds, Fits, Line, Elems

\* What reaping leaves of the queue.
LEMMA KeptFacts ==
  ASSUME TypeOK
  PROVE  /\ Line(KeptUsers, User)
         /\ ReapedUsers \subseteq User /\ \A u \in ReapedUsers : upc[u] = "queued"
         /\ Elems(KeptUsers) = Elems(users) \ ReapedUsers
         /\ Len(users) \in Nat /\ Len(KeptUsers) \in Nat /\ Len(KeptUsers) <= Len(users)
         /\ users = <<>> => KeptUsers = <<>>
         /\ \A u, v \in Elems(KeptUsers) : Before(users, u, v) => Before(KeptUsers, u, v)
<1>. DEFINE k == Overdue(OldUsers)
<1>1. Line(users, User) /\ users \in Seq(User) /\ \A u \in User : upc[u] = "queued" <=> u \in Elems(users)
  BY TypeParts DEF Fits, Line
<1>2. Len(users) \in Nat
  BY <1>1, LineFacts
<1>3. Len(OldUsers) = Len(users)
  BY <1>2 DEF OldUsers
<1>4. k \in 0..Len(users)
  BY <1>2, <1>3, OverdueFacts
<1>5. KeptUsers = Drop(users, k) /\ ReapedUsers = {users[i] : i \in 1..k}
  BY DEF KeptUsers, ReapedUsers
<1>. HIDE DEF k
<1>6. KeptUsers \in Seq(User) /\ Suffix(KeptUsers, users, k)
  BY <1>1, <1>4, <1>5, DropSuffix
<1>7. /\ Line(KeptUsers, User) /\ Elems(KeptUsers) = Elems(users) \ ReapedUsers
      /\ \A u, v \in Elems(KeptUsers) : Before(users, u, v) => Before(KeptUsers, u, v)
  BY <1>1, <1>4, <1>5, <1>6, SuffixFacts
<1>8. Len(KeptUsers) \in Nat /\ Len(KeptUsers) <= Len(users)
  BY <1>2, <1>4, <1>6, LineFacts DEF Suffix
<1>9. ASSUME NEW u \in ReapedUsers PROVE u \in User /\ upc[u] = "queued"
  <2>1. PICK i \in 1..k : u = users[i]
    BY <1>5
  <2>2. i \in 1..Len(users)
    BY <1>2, <1>4
  <2>3. u \in User /\ u \in Elems(users)
    BY <1>1, <2>1, <2>2, LineFacts
  <2>. QED BY <1>1, <2>3
<1>10. users = <<>> => KeptUsers = <<>>
  <2>1. users = <<>> => Elems(users) = {}
    BY <1>1, LineFacts
  <2>. QED BY <1>6, <1>7, <2>1, LineFacts
<1>. QED BY <1>2, <1>7, <1>8, <1>9, <1>10

\* What reaping leaves of the idle work connections.
LEMMA IdleFacts ==
  ASSUME TypeOK
  PROVE  /\ KeptIdle \in Seq(BOOLEAN)
         /\ Len(idle) \in Nat /\ Len(KeptIdle) \in Nat /\ Len(KeptIdle) <= Len(idle)
         /\ idle = <<>> => KeptIdle = <<>>
         /\ idle # <<>> => Tail(idle) \in Seq(BOOLEAN) /\ Len(Tail(idle)) = Len(idle) - 1
         /\ KeptIdle # <<>> => Tail(KeptIdle) \in Seq(BOOLEAN) /\ Len(Tail(KeptIdle)) = Len(KeptIdle) - 1
<1>. DEFINE k == Overdue(idle)
<1>1. idle \in Seq(BOOLEAN) /\ Len(idle) \in Nat
  BY LineFacts DEF TypeOK
<1>2. k \in 0..Len(idle)
  BY <1>1, OverdueFacts
<1>3. KeptIdle = Drop(idle, k)
  BY DEF KeptIdle
<1>. HIDE DEF k
<1>4. KeptIdle \in Seq(BOOLEAN) /\ Suffix(KeptIdle, idle, k)
  BY <1>1, <1>2, <1>3, DropSuffix
<1>5. Len(KeptIdle) \in Nat /\ Len(KeptIdle) <= Len(idle)
  BY <1>1, <1>2, <1>4, LineFacts DEF Suffix
<1>6. idle = <<>> => KeptIdle = <<>>
  BY <1>1, <1>4, <1>5, LineFacts
<1>. QED BY <1>1, <1>4, <1>5, <1>6, HeadTailProperties

-----------------------------------------------------------------------------
(* Types *)

\* A line that stays, while nobody is said to join or leave it.
LEMMA FitsKept ==
  ASSUME NEW q, NEW S, NEW pc, NEW qc, NEW at, Fits(q, S, pc, at),
         \A x \in S : qc[x] = at <=> pc[x] = at
  PROVE  Fits(q, S, qc, at)
BY DEF Fits

\* The queue and upc agree after each step: whoever is reaped, paired or pushed.
LEMMA UsersFit ==
  ASSUME TypeOK, [Next]_vars
  PROVE  Fits(users', User, upc', "queued")
<1>. DEFINE Old == Fits(users, User, upc, "queued")
            New == Fits(users', User, upc', "queued")
<1>0. /\ Old /\ Line(users, User)
      /\ upc \in [User -> {"away", "checked", "queued", "served", "done", "refused", "reaped"}]
      /\ \A u \in User : upc[u] = "queued" <=> u \in Elems(users)
  BY TypeParts DEF Kinds, Fits
<1>k. /\ Line(KeptUsers, User) /\ ReapedUsers \subseteq User
      /\ \A u \in ReapedUsers : upc[u] = "queued"
      /\ Elems(KeptUsers) = Elems(users) \ ReapedUsers
  BY KeptFacts
<1>1. CASE UNCHANGED <<users, upc>>
  BY <1>0, <1>1
<1>2. ASSUME NEW u \in User, NoSlot(u) \/ Check(u) \/ EndTransfer(u) PROVE New
  <2>1. /\ users' = users
        /\ \A x \in User : upc'[x] = "queued" <=> upc[x] = "queued"
    BY <1>0, <1>2 DEF NoSlot, Check, EndTransfer
  <2>. QED BY <1>0, <2>1, FitsKept
<1>3. ASSUME NEW u \in User, SubmitPaired(u) \/ SubmitFull(u) PROVE New
  <2>1. /\ users' = KeptUsers /\ upc[u] = "checked"
        /\ upc' = Reap([upc EXCEPT ![u] = "served"]) \/ upc' = Reap([upc EXCEPT ![u] = "refused"])
    BY <1>3 DEF SubmitPaired, SubmitFull, Queue
  <2>2. ASSUME NEW x \in User PROVE upc'[x] = "queued" <=> x \in Elems(KeptUsers)
    BY <1>0, <1>k, <2>1 DEF Reap
  <2>. QED BY <1>k, <2>1, <2>2 DEF Fits
<1>4. ASSUME NEW u \in User, SubmitQueued(u) PROVE New
  <2>1. /\ users' = Append(KeptUsers, u) /\ upc[u] = "checked"
        /\ upc' = Reap([upc EXCEPT ![u] = "queued"])
    BY <1>4 DEF SubmitQueued, Queue, Enqueued
  <2>2. u \notin Elems(KeptUsers)
    BY <1>0, <1>k, <2>1
  <2>3. Line(users', User) /\ Elems(users') = Elems(KeptUsers) \cup {u}
    BY <1>k, <2>1, <2>2, AppendFacts
  <2>4. ASSUME NEW x \in User PROVE upc'[x] = "queued" <=> x \in Elems(users')
    BY <1>0, <1>k, <2>1, <2>3 DEF Reap
  <2>. QED BY <2>3, <2>4 DEF Fits
<1>5. ASSUME Deliver PROVE New
  <2>1. CASE SomebodyQueues
    <3>1. /\ users' = Tail(KeptUsers) /\ upc' = Reap([upc EXCEPT ![Head(KeptUsers)] = "served"])
          /\ KeptUsers # <<>>
      BY <1>5, <2>1 DEF Deliver, Queue, SomebodyQueues
    <3>2. /\ Line(users', User) /\ Elems(users') = Elems(KeptUsers) \ {Head(KeptUsers)}
      BY <1>k, <3>1, FrontFacts
    <3>3. ASSUME NEW x \in User PROVE upc'[x] = "queued" <=> x \in Elems(users')
      BY <1>0, <1>k, <3>1, <3>2 DEF Reap
    <3>. QED BY <3>2, <3>3 DEF Fits
  <2>2. CASE ~SomebodyQueues
    <3>1. users' = KeptUsers /\ upc' = Reap(upc)
      BY <1>5, <2>2 DEF Deliver, Queue
    <3>2. ASSUME NEW x \in User PROVE upc'[x] = "queued" <=> x \in Elems(users')
      BY <1>0, <1>k, <3>1 DEF Reap
    <3>. QED BY <1>k, <3>1, <3>2 DEF Fits
  <2>. QED BY <2>1, <2>2
<1>6. ASSUME NEW u \in User, Ask(u) \/ UserLate(u) PROVE UNCHANGED <<users, upc>>
  BY <1>6 DEF Ask, UserLate
<1>7. ASSUME NEW w \in Waiter, WaiterStep(w) PROVE UNCHANGED <<users, upc>>
  BY <1>7 DEF WaiterStep, Begin, Take, AskAgain, Listen, GiveUp, EndUse, userVars
<1>8. ASSUME SendRequest \/ Open \/ Silent \/ Notify \/ (\E i \in 1..Len(idle) : WorkOld(i))
             \/ LoopEnds \/ Park \/ Resume \/ Stop \/ UNCHANGED vars
      PROVE UNCHANGED <<users, upc>>
  BY <1>8 DEF SendRequest, Open, Silent, Notify, WorkOld, LoopEnds, Park, Resume, Stop, vars, userVars
<1>. QED BY <1>1, <1>2, <1>3, <1>4, <1>5, <1>6, <1>7, <1>8 DEF Next, UserStep, Submit

\* The listeners and wpc agree after each step.
LEMMA ListenersFit ==
  ASSUME TypeOK, [Next]_vars
  PROVE  Fits(listeners', Waiter, wpc', "listening")
<1>. DEFINE New == Fits(listeners', Waiter, wpc', "listening")
<1>0. /\ Fits(listeners, Waiter, wpc, "listening") /\ Line(listeners, Waiter)
      /\ wpc \in [Waiter -> {"away", "checked", "loop", "asked", "listening", "woken",
                             "served", "done", "failed"}]
      /\ \A w \in Waiter : wpc[w] = "listening" <=> w \in Elems(listeners)
  BY TypeParts DEF Kinds, Fits
<1>1. CASE UNCHANGED <<listeners, wpc>>
  BY <1>0, <1>1
<1>2. ASSUME NEW w \in Waiter, Begin(w) \/ Take(w) \/ AskAgain(w) \/ EndUse(w) PROVE New
  <2>1. /\ listeners' = listeners
        /\ \A x \in Waiter : wpc'[x] = "listening" <=> wpc[x] = "listening"
    BY <1>0, <1>2 DEF Begin, Take, AskAgain, EndUse
  <2>. QED BY <1>0, <2>1, FitsKept
<1>3. ASSUME NEW w \in Waiter, Listen(w) PROVE New
  <2>1. CASE permit
    <3>1. /\ listeners' = listeners
          /\ \A x \in Waiter : wpc'[x] = "listening" <=> wpc[x] = "listening"
      BY <1>0, <1>3, <2>1 DEF Listen
    <3>. QED BY <1>0, <3>1, FitsKept
  <2>2. CASE ~permit
    <3>1. /\ listeners' = Append(listeners, w) /\ wpc[w] = "asked"
          /\ wpc' = [wpc EXCEPT ![w] = "listening"]
      BY <1>3, <2>2 DEF Listen
    <3>2. Line(listeners', Waiter) /\ Elems(listeners') = Elems(listeners) \cup {w}
      BY <1>0, <3>1, AppendFacts
    <3>. QED BY <1>0, <3>1, <3>2 DEF Fits
  <2>. QED BY <2>1, <2>2
<1>4. ASSUME NEW w \in Waiter, GiveUp(w) PROVE New
  <2>1. wpc' = [wpc EXCEPT ![w] = "failed"]
    BY <1>4 DEF GiveUp
  <2>2. CASE wpc[w] = "loop" /\ listeners' = listeners
    <3>1. \A x \in Waiter : wpc'[x] = "listening" <=> wpc[x] = "listening"
      BY <1>0, <2>1, <2>2
    <3>. QED BY <1>0, <2>2, <3>1, FitsKept
  <2>3. CASE \E i \in 1..Len(listeners) :
               /\ listeners[i] = w
               /\ listeners' = SubSeq(listeners, 1, i - 1) \o SubSeq(listeners, i + 1, Len(listeners))
    <3>1. PICK i \in 1..Len(listeners) :
               /\ listeners[i] = w
               /\ listeners' = SubSeq(listeners, 1, i - 1) \o SubSeq(listeners, i + 1, Len(listeners))
      BY <2>3
    <3>2. Line(listeners', Waiter) /\ Elems(listeners') = Elems(listeners) \ {w}
      <4>. DEFINE r == listeners'
      <4>1. /\ Line(listeners, Waiter) /\ i \in 1..Len(listeners)
            /\ r = SubSeq(listeners, 1, i - 1) \o SubSeq(listeners, i + 1, Len(listeners))
        BY <1>0, <3>1
      <4>. HIDE DEF r
      <4>2. Line(r, Waiter) /\ Elems(r) = Elems(listeners) \ {listeners[i]}
        BY <4>1, RemoveFacts, Zenon
      <4>. QED BY <3>1, <4>2 DEF r
    <3>. QED BY <1>0, <2>1, <3>2 DEF Fits
  <2>. QED BY <1>4, <2>2, <2>3 DEF GiveUp
<1>5. ASSUME Notify PROVE New
  <2>1. CASE listeners # <<>>
    <3>1. /\ listeners' = Tail(listeners) /\ wpc' = [wpc EXCEPT ![Head(listeners)] = "woken"]
      BY <1>5, <2>1 DEF Notify
    <3>2. /\ Line(listeners', Waiter) /\ Elems(listeners') = Elems(listeners) \ {Head(listeners)}
      BY <1>0, <2>1, <3>1, FrontFacts
    <3>. QED BY <1>0, <3>1, <3>2 DEF Fits
  <2>2. CASE listeners = <<>>
    BY <1>1, <1>5, <2>2 DEF Notify, waiterVars
  <2>. QED BY <2>1, <2>2
<1>6. ASSUME Stop PROVE New
  <2>1. /\ listeners' = <<>>
        /\ wpc' = [w \in Waiter |-> IF wpc[w] = "listening" THEN "woken" ELSE wpc[w]]
    BY <1>6 DEF Stop
  <2>2. Line(<<>>, Waiter) /\ Elems(<<>>) = {}
    BY EmptySeq DEF Line, Injective, Elems
  <2>. QED BY <1>0, <2>1, <2>2 DEF Fits
<1>7. ASSUME NEW u \in User, UserStep(u) PROVE UNCHANGED <<listeners, wpc>>
  BY <1>7 DEF UserStep, NoSlot, Check, Submit, SubmitPaired, SubmitQueued, SubmitFull, Ask,
              EndTransfer, UserLate, waiterVars
<1>8. ASSUME SendRequest \/ Open \/ Silent \/ Deliver \/ (\E i \in 1..Len(idle) : WorkOld(i))
             \/ LoopEnds \/ Park \/ Resume \/ UNCHANGED vars
      PROVE UNCHANGED <<listeners, wpc>>
  BY <1>8 DEF SendRequest, Open, Silent, Deliver, WorkOld, LoopEnds, Park, Resume, vars, waiterVars
<1>. QED BY <1>1, <1>2, <1>3, <1>4, <1>5, <1>6, <1>7, <1>8 DEF Next, WaiterStep

\* Every other variable keeps its type.
LEMMA KindsKept ==
  ASSUME TypeOK, [Next]_vars
  PROVE  Kinds'
<1>0. /\ Kinds
      /\ \A u \in User : upc'[u] = "queued" <=> u \in Elems(users')
      /\ config \in Config /\ config.prewarm \in Nat /\ config.batch \in Nat
      /\ Len(users) \in Nat
  BY TypeParts, UsersFit, WorkPoolAssumption, KeptFacts DEF Fits, Kinds, Config
<1>. USE DEF Kinds
<1>q. \A q : Queue(q) => users' = q /\ late' = late \cap Elems(q)
  BY DEF Queue, Elems
<1>l. \A q : Queue(q) => late' \subseteq {u \in User : upc'[u] = "queued"}
  BY <1>0, <1>q
<1>i. /\ KeptIdle \in Seq(BOOLEAN)
      /\ KeptIdle # <<>> => Tail(KeptIdle) \in Seq(BOOLEAN)
      /\ idle # <<>> => Tail(idle) \in Seq(BOOLEAN)
      /\ Append(KeptIdle, FALSE) \in Seq(BOOLEAN)
  BY IdleFacts
<1>1. ASSUME NEW u \in User, NoSlot(u) \/ Check(u) \/ EndTransfer(u) PROVE Kinds'
  BY <1>0, <1>1 DEF NoSlot, Check, EndTransfer, waiterVars, clientVars
<1>2. ASSUME NEW u \in User, SubmitPaired(u) PROVE Kinds'
  <2>1. late' \subseteq {x \in User : upc'[x] = "queued"}
    BY <1>2, <1>l DEF SubmitPaired
  <2>2. upc' \in [User -> {"away", "checked", "queued", "served", "done", "refused", "reaped"}]
    BY <1>0, <1>2 DEF SubmitPaired, Reap
  <2>. QED BY <1>0, <1>2, <1>i, <2>1, <2>2 DEF SubmitPaired, waiterVars, clientVars
<1>3. ASSUME NEW u \in User, SubmitQueued(u) \/ SubmitFull(u) PROVE Kinds'
  <2>1. late' \subseteq {x \in User : upc'[x] = "queued"}
    BY <1>3, <1>l DEF SubmitQueued, SubmitFull
  <2>2. upc' \in [User -> {"away", "checked", "queued", "served", "done", "refused", "reaped"}]
    BY <1>0, <1>3 DEF SubmitQueued, SubmitFull, Reap
  <2>. QED BY <1>0, <1>3, <1>i, <2>1, <2>2 DEF SubmitQueued, SubmitFull, waiterVars, clientVars
<1>4. ASSUME NEW u \in User, Ask(u) PROVE Kinds'
  BY <1>0, <1>4 DEF Ask, Request, waiterVars, clientVars
<1>5. ASSUME NEW u \in User, UserLate(u) PROVE Kinds'
  BY <1>0, <1>5 DEF UserLate, waiterVars, clientVars
<1>6. ASSUME NEW w \in Waiter, Begin(w) \/ AskAgain(w) \/ EndUse(w) PROVE Kinds'
  BY <1>0, <1>6 DEF Begin, AskAgain, EndUse, Request, userVars, clientVars
<1>7. ASSUME NEW w \in Waiter, Take(w) PROVE Kinds'
  BY <1>0, <1>7, <1>i DEF Take, userVars, clientVars
<1>8. ASSUME NEW w \in Waiter, Listen(w) \/ GiveUp(w) PROVE Kinds'
  BY <1>0, <1>8 DEF Listen, GiveUp, userVars, clientVars
<1>9. ASSUME SendRequest PROVE Kinds'
  <2>1. \A n \in {1} \cup BatchSizes : n \in Nat
    BY <1>0 DEF BatchSizes
  <2>2. cmds' \in Nat /\ asked' \in Nat
    BY <1>0, <1>9, <2>1 DEF SendRequest
  <2>. QED BY <1>0, <1>9, <2>2 DEF SendRequest, userVars, waiterVars
<1>10. ASSUME Open \/ Silent PROVE Kinds'
  BY <1>0, <1>10 DEF Open, Silent, userVars, waiterVars
<1>11. ASSUME Deliver PROVE Kinds'
  <2>1. late' \subseteq {x \in User : upc'[x] = "queued"}
    BY <1>11, <1>l DEF Deliver
  <2>2. upc' \in [User -> {"away", "checked", "queued", "served", "done", "refused", "reaped"}]
    <3>1. PICK pc \in [User -> {"away", "checked", "queued", "served", "done", "refused", "reaped"}] :
               upc' = Reap(pc)
      BY <1>0, <1>11 DEF Deliver
    <3>. QED BY <3>1 DEF Reap
  <2>3. idle' \in Seq(BOOLEAN)
    BY <1>11, <1>i DEF Deliver
  <2>4. notifying' \in Nat /\ arriving' \in Nat
    <3>1. notifying' \in {notifying, notifying + 1} /\ arriving' = arriving - 1 /\ arriving > 0
      BY <1>11, Zenon DEF Deliver
    <3>2. notifying \in Nat /\ arriving \in Nat
      BY <1>0
    <3>. QED BY <3>1, <3>2
  <2>. QED BY <1>0, <1>11, <2>1, <2>2, <2>3, <2>4 DEF Deliver, waiterVars
<1>12. ASSUME Notify PROVE Kinds'
  <2>1. wpc' \in [Waiter -> {"away", "checked", "loop", "asked", "listening", "woken",
                             "served", "done", "failed"}]
    BY <1>0, <1>12 DEF Notify, waiterVars
  <2>2. permit' \in BOOLEAN
    BY <1>0, <1>12 DEF Notify
  <2>3. /\ UNCHANGED <<config, link, users, late, upc, asking, queueHeld, idle, idleHeld,
                        cmds, asked, arriving>>
        /\ notifying' = notifying - 1 /\ notifying > 0
    BY <1>12 DEF Notify, userVars, clientVars
  <2>. QED BY <1>0, <2>1, <2>2, <2>3
<1>13. ASSUME NEW i \in 1..Len(idle), WorkOld(i) PROVE Kinds'
  <2>1. idle' \in Seq(BOOLEAN)
    BY <1>0, <1>13, ExceptSeq DEF WorkOld
  <2>. QED BY <1>0, <1>13, <2>1 DEF WorkOld, userVars, waiterVars, clientVars
<1>14. ASSUME LoopEnds \/ Park \/ Resume PROVE Kinds'
  BY <1>0, <1>14 DEF LoopEnds, Park, Resume, userVars, waiterVars
<1>15. ASSUME Stop PROVE Kinds'
  BY <1>0, <1>15, EmptySeq DEF Stop, userVars
<1>16. CASE UNCHANGED vars
  BY <1>0, <1>16 DEF vars, userVars, waiterVars, clientVars
<1>. QED BY <1>1, <1>2, <1>3, <1>4, <1>5, <1>6, <1>7, <1>8, <1>9, <1>10, <1>11, <1>12, <1>13, <1>14, <1>15, <1>16
         DEF Next, UserStep, Submit, WaiterStep

\* Types, and who is in which line, for any users, waiters and configurations.
THEOREM TypeCorrect == Spec => []TypeOK
<1>1. Init => TypeOK
  <2>. SUFFICES ASSUME Init PROVE TypeOK OBVIOUS
  <2>1. config.prewarm \in Nat
    BY WorkPoolAssumption DEF Init, Config
  <2>2. Len(<<>>) = 0 /\ <<>> \in Seq(User) /\ <<>> \in Seq(Waiter) /\ <<>> \in Seq(BOOLEAN)
    BY EmptySeq
  <2>3. /\ Injective(<<>>) /\ ~(\E i \in 1..Len(<<>>) : TRUE)
    BY <2>2 DEF Injective
  <2>4. \A x : ~(\E i \in 1..Len(<<>>) : <<>>[i] = x)
    BY <2>3
  <2>5. /\ users = <<>> /\ listeners = <<>>
        /\ \A u \in User : upc[u] # "queued"
        /\ \A w \in Waiter : wpc[w] # "listening"
    BY DEF Init
  <2>6. /\ users \in Seq(User) /\ Injective(users)
        /\ \A u \in User : upc[u] = "queued" <=> \E i \in 1..Len(users) : users[i] = u
        /\ listeners \in Seq(Waiter) /\ Injective(listeners)
        /\ \A w \in Waiter : wpc[w] = "listening" <=> \E i \in 1..Len(listeners) : listeners[i] = w
    BY <2>2, <2>3, <2>4, <2>5
  <2>7. Kinds
    BY <2>1, <2>2 DEF Init, Kinds
  <2>. QED BY <2>6, <2>7 DEF TypeOK, Kinds
<1>2. TypeOK /\ [Next]_vars => TypeOK'
  <2>. SUFFICES ASSUME TypeOK, [Next]_vars PROVE TypeOK' OBVIOUS
  <2>1. Kinds' /\ Fits(users', User, upc', "queued") /\ Fits(listeners', Waiter, wpc', "listening")
    BY KindsKept, UsersFit, ListenersFit
  <2>2. /\ users' \in Seq(User) /\ Injective(users')
        /\ \A u \in User : upc'[u] = "queued" <=> \E i \in 1..Len(users') : users'[i] = u
    BY <2>1 DEF Fits, Line, Elems
  <2>3. /\ listeners' \in Seq(Waiter) /\ Injective(listeners')
        /\ \A w \in Waiter : wpc'[w] = "listening" <=> \E i \in 1..Len(listeners') : listeners'[i] = w
    BY <2>1 DEF Fits, Line, Elems
  <2>. QED BY <2>1, <2>2, <2>3 DEF TypeOK, Kinds, Injective
<1>. QED BY <1>1, <1>2, PTL DEF Spec

-----------------------------------------------------------------------------
(* The pool is sound.  A queued user holds a permit of backlog_limit, and the  *)
(* permits given are no more than there are; while nothing goes wrong the      *)
(* control loop runs; whoever has its RequestWork still to send was queued     *)
(* once.                                                                       *)

Permits ==
  /\ \A u \in User : upc[u] = "queued" => u \in queueHeld
  /\ config.backlog > 0 => Cardinality(queueHeld) <= config.backlog

Calmly == config.faults = {} => link = "up"

AskedFor == \A u \in asking : upc[u] \notin {"away", "checked"}

IdleWithin == IdleCap > 0 => Len(idle) <= IdleCap

Inv == TypeOK /\ Permits /\ Calmly /\ AskedFor /\ NoIdleWhileQueued /\ QueueCovered /\ IdleWithin

\* Nobody takes a permit but by being queued; a reaped one gives it back.
LEMMA PermitsKept ==
  ASSUME Inv, [Next]_vars
  PROVE  Permits'
<1>0. /\ Permits /\ queueHeld \subseteq User /\ IsFiniteSet(User)
      /\ upc \in [User -> {"away", "checked", "queued", "served", "done", "refused", "reaped"}]
      /\ config.backlog \in Nat
  BY WorkPoolAssumption, TypeParts DEF Inv, Kinds, Config
<1>c. IsFiniteSet(queueHeld) /\ Cardinality(queueHeld) \in Nat
  BY <1>0, FS_Subset, FS_CardinalityType
<1>k. /\ ReapedUsers \subseteq User /\ \A u \in ReapedUsers : upc[u] = "queued"
  BY KeptFacts DEF Inv
<1>1. ASSUME config' = config, queueHeld' \subseteq queueHeld,
             \A u \in User : upc'[u] = "queued" => upc[u] = "queued" /\ (u \in queueHeld => u \in queueHeld')
      PROVE  Permits'
  <2>1. Cardinality(queueHeld') <= Cardinality(queueHeld) /\ Cardinality(queueHeld') \in Nat
    BY <1>1, <1>c, FS_Subset, FS_CardinalityType
  <2>2. config.backlog > 0 => Cardinality(queueHeld') <= config.backlog
    BY <1>0, <1>c, <2>1 DEF Permits
  <2>. QED BY <1>0, <1>1, <2>2 DEF Permits
<1>2. ASSUME NEW u \in User, NoSlot(u) \/ Check(u) \/ EndTransfer(u) PROVE Permits'
  <2>1. /\ config' = config /\ queueHeld' \subseteq queueHeld
        /\ \A x \in User : upc'[x] = "queued" => upc[x] = "queued" /\ (x \in queueHeld => x \in queueHeld')
    BY <1>0, <1>2 DEF NoSlot, Check, EndTransfer
  <2>. QED BY <1>1, <2>1
<1>3. ASSUME NEW u \in User, SubmitPaired(u) \/ SubmitFull(u) PROVE Permits'
  <2>1. /\ config' = config /\ queueHeld' = queueHeld \ ReapedUsers
        /\ upc' = Reap([upc EXCEPT ![u] = "served"]) \/ upc' = Reap([upc EXCEPT ![u] = "refused"])
    BY <1>3 DEF SubmitPaired, SubmitFull
  <2>2. \A x \in User : upc'[x] = "queued" => upc[x] = "queued" /\ (x \in queueHeld => x \in queueHeld')
    BY <1>0, <2>1 DEF Reap
  <2>. QED BY <1>1, <2>1, <2>2
<1>4. ASSUME NEW u \in User, SubmitQueued(u) PROVE Permits'
  <2>. DEFINE rest == queueHeld \ ReapedUsers
  <2>1. /\ config' = config /\ queueHeld' = rest \cup {u} /\ ~InUse(rest, config.backlog)
        /\ upc' = Reap([upc EXCEPT ![u] = "queued"])
    BY <1>4 DEF SubmitQueued
  <2>2. \A x \in User : upc'[x] = "queued" => x = u \/ (upc[x] = "queued" /\ x \notin ReapedUsers)
    BY <1>0, <2>1 DEF Reap
  <2>3. IsFiniteSet(rest) /\ Cardinality(rest) \in Nat
    BY <1>c, FS_Subset, FS_CardinalityType
  <2>. HIDE DEF rest
  <2>4. Cardinality(rest \cup {u}) <= Cardinality(rest) + 1 /\ Cardinality(rest \cup {u}) \in Nat
    <3>1. /\ IsFiniteSet(rest \cup {u})
          /\ Cardinality(rest \cup {u}) = IF u \in rest THEN Cardinality(rest) ELSE Cardinality(rest) + 1
      BY <2>3, FS_AddElement
    <3>. QED BY <2>3, <3>1
  <2>5. config.backlog > 0 => ~(Cardinality(rest) >= config.backlog)
    BY <2>1 DEF InUse
  <2>6. config.backlog > 0 => Cardinality(queueHeld') <= config.backlog
    BY <1>0, <2>1, <2>3, <2>4, <2>5
  <2>7. \A x \in User : upc'[x] = "queued" => x \in queueHeld'
    BY <1>0, <2>1, <2>2 DEF Permits, rest
  <2>. QED BY <2>1, <2>6, <2>7 DEF Permits
<1>5. ASSUME Deliver PROVE Permits'
  <2>1. /\ config' = config /\ queueHeld' = queueHeld \ ReapedUsers
        /\ upc' = Reap(upc) \/ upc' = Reap([upc EXCEPT ![Head(KeptUsers)] = "served"])
    BY <1>5 DEF Deliver
  <2>2. \A x \in User : upc'[x] = "queued" => upc[x] = "queued" /\ (x \in queueHeld => x \in queueHeld')
    BY <1>0, <2>1 DEF Reap
  <2>. QED BY <1>1, <2>1, <2>2
<1>6. CASE UNCHANGED <<config, upc, queueHeld>>
  BY <1>1, <1>6
<1>7. ASSUME NEW u \in User, Ask(u) \/ UserLate(u) PROVE UNCHANGED <<config, upc, queueHeld>>
  BY <1>7 DEF Ask, UserLate
<1>8. ASSUME NEW w \in Waiter, WaiterStep(w) PROVE UNCHANGED <<config, upc, queueHeld>>
  BY <1>8 DEF WaiterStep, Begin, Take, AskAgain, Listen, GiveUp, EndUse, userVars
<1>9. ASSUME SendRequest \/ Open \/ Silent \/ Notify \/ (\E i \in 1..Len(idle) : WorkOld(i))
             \/ LoopEnds \/ Park \/ Resume \/ Stop \/ UNCHANGED vars
      PROVE UNCHANGED <<config, upc, queueHeld>>
  BY <1>9 DEF SendRequest, Open, Silent, Notify, WorkOld, LoopEnds, Park, Resume, Stop, vars, userVars
<1>. QED BY <1>2, <1>3, <1>4, <1>5, <1>6, <1>7, <1>8, <1>9 DEF Next, UserStep, Submit

\* The control loop ends only where something may go wrong.
LEMMA CalmlyKept ==
  ASSUME Inv, [Next]_vars
  PROVE  Calmly' /\ config' = config
<1>1. ASSUME NEW u \in User, UserStep(u) PROVE UNCHANGED <<config, link>>
  BY <1>1 DEF UserStep, NoSlot, Check, Submit, SubmitPaired, SubmitQueued, SubmitFull, Ask,
              EndTransfer, UserLate
<1>2. ASSUME NEW w \in Waiter, WaiterStep(w) PROVE UNCHANGED <<config, link>>
  BY <1>2 DEF WaiterStep, Begin, Take, AskAgain, Listen, GiveUp, EndUse
<1>3. ASSUME SendRequest \/ Open \/ Silent \/ Deliver \/ Notify \/ (\E i \in 1..Len(idle) : WorkOld(i))
             \/ UNCHANGED vars
      PROVE UNCHANGED <<config, link>>
  BY <1>3 DEF SendRequest, Open, Silent, Deliver, Notify, WorkOld, vars
<1>4. ASSUME LoopEnds \/ Park \/ Resume \/ Stop PROVE config' = config /\ config.faults # {}
  BY <1>4 DEF LoopEnds, Park, Resume, Stop, May, Inv, Calmly
<1>. QED BY <1>1, <1>2, <1>3, <1>4 DEF Next, Inv, Calmly

\* A user asks after it was queued, and is never checked again.
LEMMA AskedForKept ==
  ASSUME Inv, [Next]_vars
  PROVE  AskedFor'
<1>0. /\ AskedFor /\ asking \subseteq User
      /\ upc \in [User -> {"away", "checked", "queued", "served", "done", "refused", "reaped"}]
  BY TypeParts DEF Inv, Kinds
<1>1. ASSUME NEW u \in User, NoSlot(u) \/ Check(u) \/ EndTransfer(u) PROVE AskedFor'
  BY <1>0, <1>1 DEF NoSlot, Check, EndTransfer, AskedFor
<1>2. ASSUME NEW u \in User, SubmitPaired(u) \/ SubmitQueued(u) \/ SubmitFull(u) PROVE AskedFor'
  <2>1. /\ asking' \subseteq asking \cup {u}
        /\ \E at \in {"served", "queued", "refused"} : upc' = Reap([upc EXCEPT ![u] = at])
    BY <1>2 DEF SubmitPaired, SubmitQueued, SubmitFull
  <2>. QED BY <1>0, <2>1 DEF AskedFor, Reap
<1>3. ASSUME Deliver PROVE AskedFor'
  <2>1. /\ asking' = asking
        /\ upc' = Reap(upc) \/ upc' = Reap([upc EXCEPT ![Head(KeptUsers)] = "served"])
    BY <1>3 DEF Deliver
  <2>. QED BY <1>0, <2>1 DEF AskedFor, Reap
<1>4. CASE asking' \subseteq asking /\ upc' = upc
  BY <1>0, <1>4 DEF AskedFor
<1>5. ASSUME NEW u \in User, Ask(u) \/ UserLate(u) PROVE asking' \subseteq asking /\ upc' = upc
  BY <1>5 DEF Ask, UserLate
<1>6. ASSUME NEW w \in Waiter, WaiterStep(w) PROVE asking' \subseteq asking /\ upc' = upc
  BY <1>6 DEF WaiterStep, Begin, Take, AskAgain, Listen, GiveUp, EndUse, userVars
<1>7. ASSUME SendRequest \/ Open \/ Silent \/ Notify \/ (\E i \in 1..Len(idle) : WorkOld(i))
             \/ LoopEnds \/ Park \/ Resume \/ Stop \/ UNCHANGED vars
      PROVE asking' \subseteq asking /\ upc' = upc
  BY <1>7 DEF SendRequest, Open, Silent, Notify, WorkOld, LoopEnds, Park, Resume, Stop, vars, userVars
<1>. QED BY <1>1, <1>2, <1>3, <1>4, <1>5, <1>6, <1>7 DEF Next, UserStep, Submit

\* submit_user and submit_work test each other's deque: whoever fills one found
\* the other empty.
LEMMA IdleOrQueued ==
  ASSUME Inv, [Next]_vars
  PROVE  NoIdleWhileQueued'
<1>0. NoIdleWhileQueued /\ TypeOK
  BY DEF Inv
<1>i. /\ idle = <<>> => KeptIdle = <<>>
      /\ idle # <<>> => Len(Tail(idle)) = Len(idle) - 1
  BY <1>0, IdleFacts
<1>u. users = <<>> => KeptUsers = <<>>
  BY <1>0, KeptFacts
<1>1. ASSUME NEW u \in User, SubmitPaired(u) PROVE NoIdleWhileQueued'
  <2>1. users' = KeptUsers /\ KeptIdle # <<>>
    BY <1>1 DEF SubmitPaired, Queue
  <2>. QED BY <1>0, <1>i, <1>u, <2>1 DEF NoIdleWhileQueued
<1>2. ASSUME NEW u \in User, SubmitQueued(u) \/ SubmitFull(u) PROVE NoIdleWhileQueued'
  BY <1>2 DEF SubmitQueued, SubmitFull, NoIdleWhileQueued
<1>3. ASSUME Deliver PROVE NoIdleWhileQueued'
  <2>1. CASE SomebodyQueues
    <3>1. idle' = KeptIdle /\ KeptUsers # <<>>
      BY <1>3, <2>1 DEF Deliver, SomebodyQueues
    <3>. QED BY <1>0, <1>i, <1>u, <3>1 DEF NoIdleWhileQueued
  <2>2. CASE ~SomebodyQueues
    <3>1. users' = KeptUsers /\ KeptUsers = <<>>
      BY <1>3, <2>2 DEF Deliver, Queue, SomebodyQueues
    <3>. QED BY <3>1 DEF NoIdleWhileQueued
  <2>. QED BY <2>1, <2>2
<1>4. ASSUME users' = users, idle' = idle \/ (idle # <<>> /\ idle' = Tail(idle)) \/ idle' = <<>>
      PROVE  NoIdleWhileQueued'
  BY <1>0, <1>4 DEF NoIdleWhileQueued
<1>5. ASSUME NEW u \in User, NoSlot(u) \/ Check(u) \/ EndTransfer(u) \/ Ask(u) \/ UserLate(u)
      PROVE  users' = users /\ idle' = idle
  BY <1>5 DEF NoSlot, Check, EndTransfer, Ask, UserLate
<1>6. ASSUME NEW w \in Waiter, WaiterStep(w)
      PROVE  users' = users /\ (idle' = idle \/ (idle # <<>> /\ idle' = Tail(idle)))
  BY <1>6 DEF WaiterStep, Begin, Take, AskAgain, Listen, GiveUp, EndUse, userVars
<1>7. ASSUME NEW i \in 1..Len(idle), WorkOld(i) PROVE NoIdleWhileQueued'
  <2>1. idle # <<>> /\ users' = users
    BY <1>7 DEF WorkOld, userVars
  <2>. QED BY <1>0, <2>1 DEF NoIdleWhileQueued
<1>8. ASSUME SendRequest \/ Open \/ Silent \/ Notify \/ LoopEnds \/ Park \/ Resume \/ Stop
             \/ UNCHANGED vars
      PROVE  users' = users /\ (idle' = idle \/ idle' = <<>>)
  BY <1>8 DEF SendRequest, Open, Silent, Notify, LoopEnds, Park, Resume, Stop, vars, userVars
<1>. QED BY <1>1, <1>2, <1>3, <1>4, <1>5, <1>6, <1>7, <1>8 DEF Next, UserStep, Submit

\* The limit of the pool is a number.
LEMMA IdleCapType ==
  ASSUME TypeOK
  PROVE  IdleCap \in Nat
<1>. DEFINE caps == {config.backlog, config.maxPool} \ {0}
<1>1. config.backlog \in Nat /\ config.maxPool \in Nat
  BY WorkPoolAssumption, TypeParts DEF Kinds, Config
<1>2. ASSUME caps # {} PROVE \E c \in caps : \A d \in caps : c <= d
  BY <1>1, <1>2
<1>3. caps \subseteq Nat
  BY <1>1
<1>. HIDE DEF caps
<1>4. caps # {} => (CHOOSE c \in caps : \A d \in caps : c <= d) \in Nat
  BY <1>2, <1>3
<1>. QED BY <1>4 DEF IdleCap, caps

\* Work connections enter the pool where a permit is left, and only there.
LEMMA IdleWithinKept ==
  ASSUME Inv, [Next]_vars
  PROVE  IdleWithin'
<1>0. /\ IdleWithin /\ TypeOK /\ IdleCap \in Nat /\ IdleCap' = IdleCap
      /\ IsFiniteSet(User) /\ IsFiniteSet(Waiter) /\ idleHeld \subseteq User \cup Waiter
      /\ idle \in Seq(BOOLEAN)
  <2>1. TypeOK /\ IdleWithin
    BY DEF Inv
  <2>2. IdleCap \in Nat /\ config' = config
    BY <2>1, IdleCapType, CalmlyKept
  <2>3. IdleCap' = IdleCap
    BY <2>2 DEF IdleCap
  <2>4. idleHeld \subseteq User \cup Waiter /\ idle \in Seq(BOOLEAN)
    BY <2>1 DEF TypeOK
  <2>. QED BY <2>1, <2>2, <2>3, <2>4, WorkPoolAssumption
<1>c. Cardinality(idleHeld) \in Nat
  BY <1>0, FS_Union, FS_Subset, FS_CardinalityType
<1>i. /\ Len(idle) \in Nat /\ Len(KeptIdle) \in Nat /\ Len(KeptIdle) <= Len(idle)
      /\ KeptIdle \in Seq(BOOLEAN)
      /\ idle # <<>> => Len(Tail(idle)) = Len(idle) - 1
      /\ KeptIdle # <<>> => Len(Tail(KeptIdle)) = Len(KeptIdle) - 1
      /\ Len(<<>>) = 0
  BY <1>0, IdleFacts
<1>1. ASSUME Len(idle') \in Nat, Len(idle') <= Len(idle) PROVE IdleWithin'
  BY <1>0, <1>1, <1>i DEF IdleWithin
<1>2. ASSUME NEW u \in User, Submit(u) PROVE IdleWithin'
  <2>1. idle' = KeptIdle \/ (KeptIdle # <<>> /\ idle' = Tail(KeptIdle))
    BY <1>2 DEF Submit, SubmitPaired, SubmitQueued, SubmitFull
  <2>. QED BY <1>1, <1>i, <2>1, LineFacts
<1>3. ASSUME Deliver PROVE IdleWithin'
  <2>1. CASE idle' = KeptIdle
    BY <1>1, <1>i, <2>1
  <2>2. CASE IdleRoom /\ idle' = Append(KeptIdle, FALSE)
    <3>1. IdleCap > 0 => Len(KeptIdle) + Cardinality(idleHeld) < IdleCap
      BY <1>0, <2>2 DEF IdleRoom
    <3>2. Len(idle') = Len(KeptIdle) + 1
      BY <1>i, <2>2
    <3>3. IdleCap > 0 => Len(KeptIdle) + 1 <= IdleCap
      BY <1>0, <1>c, <1>i, <3>1
    <3>. QED BY <1>0, <3>2, <3>3 DEF IdleWithin
  <2>. QED BY <1>3, <2>1, <2>2 DEF Deliver
<1>4. ASSUME NEW u \in User, NoSlot(u) \/ Check(u) \/ EndTransfer(u) \/ Ask(u) \/ UserLate(u)
      PROVE  idle' = idle
  BY <1>4 DEF NoSlot, Check, EndTransfer, Ask, UserLate
<1>5. ASSUME NEW w \in Waiter, WaiterStep(w)
      PROVE  idle' = idle \/ (idle # <<>> /\ idle' = Tail(idle))
  BY <1>5 DEF WaiterStep, Begin, Take, AskAgain, Listen, GiveUp, EndUse
<1>6. ASSUME NEW i \in 1..Len(idle), WorkOld(i) PROVE Len(idle') = Len(idle)
  BY <1>0, <1>6, ExceptSeq DEF WorkOld
<1>7. ASSUME SendRequest \/ Open \/ Silent \/ Notify \/ LoopEnds \/ Park \/ Resume \/ Stop
             \/ UNCHANGED vars
      PROVE  idle' = idle \/ idle' = <<>>
  BY <1>7 DEF SendRequest, Open, Silent, Notify, LoopEnds, Park, Resume, Stop, vars
<1>8. ASSUME idle' = idle \/ (idle # <<>> /\ idle' = Tail(idle)) \/ idle' = <<>> PROVE IdleWithin'
  <2>1. idle # <<>> => Len(idle) - 1 \in Nat
    BY <1>0, <1>i, LineFacts
  <2>2. Len(idle') \in Nat /\ Len(idle') <= Len(idle)
    BY <1>8, <1>i, <2>1
  <2>. QED BY <1>1, <2>2
<1>. QED BY <1>1, <1>2, <1>3, <1>4, <1>5, <1>6, <1>7, <1>8, <1>i DEF Next, UserStep

\* A user that joins the queue will ask; a request on its way becomes a work
\* connection, and what arrives serves the queue first.
LEMMA QueueCoveredKept ==
  ASSUME Inv, [Next]_vars
  PROVE  QueueCovered'
<1>1. SUFFICES ASSUME config.faults = {}
               PROVE  Len(users') <= Cardinality(asking') + cmds' + asked' + arriving'
  BY CalmlyKept DEF QueueCovered
<1>2. TypeOK /\ link = "up" /\ \A f : ~May(f)
  BY <1>1 DEF Inv, Calmly, May
<1>3. asking \subseteq User /\ cmds \in Nat /\ asked \in Nat /\ arriving \in Nat
  BY <1>2 DEF TypeOK
<1>4. IsFiniteSet(asking) /\ Cardinality(asking) \in Nat
  BY <1>3, FS_Subset, FS_CardinalityType, WorkPoolAssumption
<1>5. Len(users) <= Cardinality(asking) + cmds + asked + arriving
  BY <1>1 DEF Inv, QueueCovered
<1>k. /\ Line(KeptUsers, User) /\ Len(users) \in Nat
      /\ Len(KeptUsers) \in Nat /\ Len(KeptUsers) <= Len(users)
  BY <1>2, KeptFacts
<1>6. ASSUME users' \in {users, KeptUsers}, UNCHANGED <<asking, cmds, asked, arriving>>
      PROVE  Len(users') <= Cardinality(asking') + cmds' + asked' + arriving'
  <2>1. Len(users') \in Nat /\ Len(users') <= Len(users)
    BY <1>6, <1>k
  <2>. QED BY <1>3, <1>4, <1>5, <1>6, <1>k, <2>1
<1>7. ASSUME NEW u \in User, SubmitPaired(u) \/ SubmitFull(u)
      PROVE  users' = KeptUsers /\ UNCHANGED <<asking, cmds, asked, arriving>>
  BY <1>7 DEF SubmitPaired, SubmitFull, Queue, clientVars
<1>8. ASSUME NEW u \in User, SubmitQueued(u)
      PROVE  Len(users') <= Cardinality(asking') + cmds' + asked' + arriving'
  <2>1. /\ users' = Append(KeptUsers, u) /\ asking' = asking \cup {u} /\ upc[u] = "checked"
        /\ UNCHANGED <<cmds, asked, arriving>>
    BY <1>8 DEF SubmitQueued, Queue, Enqueued, clientVars
  <2>2. u \notin asking
    BY <2>1 DEF Inv, AskedFor
  <2>3. Cardinality(asking') = Cardinality(asking) + 1
    BY <1>4, <2>1, <2>2, FS_AddElement
  <2>4. KeptUsers \in Seq(User)
    BY <1>k DEF Line
  <2>5. Len(users') = Len(KeptUsers) + 1
    BY <2>1, <2>4, AppendProperties
  <2>. QED BY <1>3, <1>4, <1>5, <1>k, <2>1, <2>3, <2>5
<1>9. ASSUME NEW u \in User, Ask(u)
      PROVE  Len(users') <= Cardinality(asking') + cmds' + asked' + arriving'
  <2>1. /\ users' = users /\ asking' = asking \ {u} /\ u \in asking
        /\ cmds' = cmds + 1 /\ UNCHANGED <<asked, arriving>>
    BY <1>2, <1>9 DEF Ask, Request
  <2>2. Cardinality(asking') = Cardinality(asking) - 1
    BY <1>4, <2>1, FS_RemoveElement
  <2>. QED BY <1>3, <1>4, <1>5, <1>k, <2>1, <2>2
<1>10. ASSUME NEW w \in Waiter, AskAgain(w)
       PROVE  Len(users') <= Cardinality(asking') + cmds' + asked' + arriving'
  <2>1. /\ UNCHANGED <<users, asking, asked, arriving>> /\ cmds' = cmds + 1
    BY <1>2, <1>10 DEF AskAgain, Request, userVars
  <2>. QED BY <1>3, <1>4, <1>5, <1>k, <2>1
<1>11. ASSUME SendRequest
       PROVE  Len(users') <= Cardinality(asking') + cmds' + asked' + arriving'
  <2>1. PICK n \in {1} \cup BatchSizes : asked' = asked + n
    BY <1>11 DEF SendRequest
  <2>2. config.batch \in Nat
    BY <1>2, WorkPoolAssumption, TypeParts DEF Kinds, Config
  <2>3. n \in Nat /\ n >= 1
    BY <1>k, <2>2 DEF BatchSizes
  <2>4. UNCHANGED <<users, asking, arriving>> /\ cmds > 0 /\ cmds' = cmds - 1
    BY <1>11 DEF SendRequest, userVars
  <2>. QED BY <1>3, <1>4, <1>5, <1>k, <2>1, <2>3, <2>4
<1>12. ASSUME Open
       PROVE  Len(users') <= Cardinality(asking') + cmds' + asked' + arriving'
  <2>1. UNCHANGED <<users, asking, cmds>> /\ asked' = asked - 1 /\ arriving' = arriving + 1 /\ asked > 0
    BY <1>12 DEF Open, userVars
  <2>. QED BY <1>3, <1>4, <1>5, <1>k, <2>1
<1>13. ASSUME Deliver
       PROVE  Len(users') <= Cardinality(asking') + cmds' + asked' + arriving'
  <2>0. UNCHANGED <<asking, cmds, asked>> /\ arriving > 0 /\ arriving' = arriving - 1
    BY <1>13 DEF Deliver
  <2>1. CASE SomebodyQueues
    <3>1. users' = Tail(KeptUsers) /\ KeptUsers # <<>>
      BY <1>13, <2>1 DEF Deliver, Queue, SomebodyQueues
    <3>2. Len(users') = Len(KeptUsers) - 1
      BY <1>k, <3>1, FrontFacts
    <3>. QED BY <1>3, <1>4, <1>5, <1>k, <2>0, <3>2
  <2>2. CASE ~SomebodyQueues
    <3>1. Len(users') = 0
      BY <1>13, <2>2 DEF Deliver, Queue, SomebodyQueues
    <3>. QED BY <1>3, <1>4, <2>0, <3>1
  <2>. QED BY <2>1, <2>2
<1>14. ASSUME NEW u \in User, NoSlot(u) \/ Check(u) \/ EndTransfer(u) \/ UserLate(u)
       PROVE  UNCHANGED <<users, asking, cmds, asked, arriving>>
  BY <1>14 DEF NoSlot, Check, EndTransfer, UserLate, clientVars
<1>15. ASSUME NEW w \in Waiter, Begin(w) \/ Take(w) \/ Listen(w) \/ GiveUp(w) \/ EndUse(w)
       PROVE  UNCHANGED <<users, asking, cmds, asked, arriving>>
  BY <1>15 DEF Begin, Take, Listen, GiveUp, EndUse, userVars, clientVars
<1>16. ASSUME Notify \/ (\E i \in 1..Len(idle) : WorkOld(i)) \/ UNCHANGED vars
       PROVE  UNCHANGED <<users, asking, cmds, asked, arriving>>
  BY <1>16 DEF Notify, WorkOld, vars, userVars, clientVars
<1>17. ~Silent /\ ~LoopEnds /\ ~Park /\ ~Resume /\ ~Stop
  BY <1>2 DEF Silent, LoopEnds, Park, Resume, Stop
<1>. QED BY <1>6, <1>7, <1>8, <1>9, <1>10, <1>11, <1>12, <1>13, <1>14, <1>15, <1>16, <1>17
         DEF Next, UserStep, Submit, WaiterStep

\* The inductive invariant holds in every reachable state.
THEOREM Invariance == Spec => []Inv
<1>1. Init /\ TypeOK => Inv
  <2>. SUFFICES ASSUME Init, TypeOK PROVE Inv OBVIOUS
  <2>1. /\ config.backlog \in Nat /\ IdleCap \in Nat /\ config.prewarm \in Nat
    BY WorkPoolAssumption, IdleCapType DEF Init, Config
  <2>2. Cardinality({}) = 0 /\ Len(<<>>) = 0
    BY FS_EmptySet
  <2>3. Permits
    BY <2>1, <2>2 DEF Init, Permits
  <2>4. QueueCovered
    BY <2>1, <2>2 DEF Init, QueueCovered
  <2>. QED BY <2>1, <2>2, <2>3, <2>4 DEF Init, Inv, Calmly, AskedFor, NoIdleWhileQueued, IdleWithin
<1>2. Inv /\ TypeOK' /\ [Next]_vars => Inv'
  BY PermitsKept, CalmlyKept, AskedForKept, IdleOrQueued, IdleWithinKept, QueueCoveredKept DEF Inv
<1>. QED BY <1>1, <1>2, TypeCorrect, PTL DEF Spec

\* A line of different elements is no longer than the set it is drawn from.
LEMMA LineBound ==
  ASSUME NEW S, NEW q, Line(q, S), NEW T, Elems(q) \subseteq T, IsFiniteSet(T)
  PROVE  Len(q) <= Cardinality(T)
<1>. DEFINE n == Len(q)
<1>1. q \in Seq(S) /\ n \in Nat /\ q \in [1..n -> S]
  BY LenProperties DEF Line
<1>2. q \in [1..n -> T]
  BY <1>1 DEF Elems
<1>3. \A i, j \in 1..n : q[i] = q[j] => i = j
  BY DEF Line, Injective
<1>. HIDE DEF n
<1>4. q \in Injection(1..n, T)
  BY <1>2, <1>3 DEF Injection, IsInjective
<1>5. Cardinality(1..n) <= Cardinality(T)
  BY <1>4, FS_Injection
<1>6. Cardinality(1..n) = n
  BY <1>1, FS_Interval
<1>. QED BY <1>5, <1>6 DEF n

\* The pool forgets nobody and keeps its limits, whatever arrives late, is reaped,
\* given up or dropped with the session (pool.rs 880-960).
THEOREM PoolSoundHolds == Spec => []PoolSound
<1>1. Inv => PoolSound
  <2>. SUFFICES ASSUME Inv PROVE PoolSound OBVIOUS
  <2>1. /\ Line(users, User) /\ Len(users) \in Nat
        /\ \A u \in User : upc[u] = "queued" <=> u \in Elems(users)
        /\ queueHeld \subseteq User /\ config.backlog \in Nat
    <3>1. TypeOK
      BY DEF Inv
    <3>2. Fits(users, User, upc, "queued") /\ Kinds
      BY <3>1, TypeParts
    <3>3. config.backlog \in Nat
      BY <3>2, WorkPoolAssumption DEF Kinds, Config
    <3>. QED BY <3>1, <3>2, <3>3, KeptFacts DEF Fits, Kinds
  <2>2. Elems(users) \subseteq queueHeld
    <3>1. Elems(users) \subseteq User
      BY <2>1, LineFacts DEF Line
    <3>. QED BY <2>1, <3>1 DEF Inv, Permits
  <2>3. IsFiniteSet(queueHeld) /\ Cardinality(queueHeld) \in Nat
    BY <2>1, FS_Subset, FS_CardinalityType, WorkPoolAssumption
  <2>4. Len(users) <= Cardinality(queueHeld)
    BY <2>1, <2>2, <2>3, LineBound
  <2>5. config.backlog > 0 => Len(users) <= config.backlog
    BY <2>1, <2>3, <2>4 DEF Inv, Permits
  <2>. QED BY <2>5 DEF Inv, PoolSound, NoUserForgotten, WithinLimits, IdleWithin
<1>. QED BY <1>1, Invariance, PTL

-----------------------------------------------------------------------------
(* First come, first served. *)

\* No step serves or queues v in front of a queued u it came after.
LEMMA OrderKept ==
  ASSUME Inv, [Next]_vars, NEW u \in User, NEW v \in User,
         u \in Elems(users), upc[v] = "checked" \/ Before(users, u, v), upc'[u] = "queued"
  PROVE  /\ upc'[v] # "served"
         /\ upc'[v] = "queued" => u \in Elems(users') /\ Before(users', u, v)
<1>. DEFINE Goal == /\ upc'[v] # "served"
                    /\ upc'[v] = "queued" => u \in Elems(users') /\ Before(users', u, v)
<1>0. /\ TypeOK /\ Line(users, User)
      /\ upc \in [User -> {"away", "checked", "queued", "served", "done", "refused", "reaped"}]
      /\ \A x \in User : upc[x] = "queued" <=> x \in Elems(users)
  BY TypeParts DEF Inv, Kinds, Fits
<1>k. /\ Line(KeptUsers, User) /\ Elems(KeptUsers) = Elems(users) \ ReapedUsers
      /\ users = <<>> => KeptUsers = <<>>
      /\ \A x, y \in Elems(KeptUsers) : Before(users, x, y) => Before(KeptUsers, x, y)
      /\ \A x \in ReapedUsers : upc[x] = "queued"
  BY <1>0, KeptFacts
<1>v. /\ upc[u] = "queued"
      /\ upc[v] = "checked" \/ (upc[v] = "queued" /\ v \in Elems(users) /\ Before(users, u, v))
  <2>1. ASSUME Before(users, u, v) PROVE v \in Elems(users)
    <3>1. Len(users) \in Nat
      BY <1>0, LineFacts DEF Line
    <3>2. PICK i \in 1..Len(users) : \E j \in i+1..Len(users) : users[j] = v
      BY <2>1 DEF Before
    <3>3. PICK j \in i+1..Len(users) : users[j] = v
      BY <3>2
    <3>4. j \in 1..Len(users)
      BY <3>1
    <3>. QED BY <3>3, <3>4 DEF Elems
  <2>. QED BY <1>0, <2>1
<1>1. ASSUME users' = users, upc'[v] = upc[v] PROVE Goal
  BY <1>1, <1>v
<1>2. ASSUME NEW w \in User, NoSlot(w) \/ Check(w) \/ EndTransfer(w) PROVE Goal
  <2>1. users' = users /\ upc'[v] = upc[v]
    BY <1>0, <1>2, <1>v DEF NoSlot, Check, EndTransfer
  <2>. QED BY <1>1, <2>1
<1>3. ASSUME NEW next, upc' = Reap(next)
      PROVE  u \in Elems(KeptUsers) /\ next[u] = "queued"
             /\ (v \in Elems(KeptUsers) => Before(KeptUsers, u, v))
             /\ (v \in ReapedUsers => upc'[v] = "reaped") /\ (v \notin ReapedUsers => upc'[v] = next[v])
             /\ KeptIdle = <<>>
  <2>1. /\ u \notin ReapedUsers /\ next[u] = "queued"
        /\ v \in ReapedUsers => upc'[v] = "reaped"
        /\ v \notin ReapedUsers => upc'[v] = next[v]
    BY <1>3 DEF Reap
  <2>2. u \in Elems(KeptUsers)
    BY <1>k, <2>1
  <2>3. v \in Elems(KeptUsers) => Before(KeptUsers, u, v)
    BY <1>0, <1>k, <1>v, <2>2
  <2>4. KeptUsers # <<>>
    BY <1>k, <2>2, LineFacts DEF Line
  <2>5. KeptIdle = <<>>
    BY <1>0, <1>k, <2>4, IdleFacts DEF Inv, NoIdleWhileQueued
  <2>. QED BY <2>1, <2>2, <2>3, <2>5
<1>4. ASSUME NEW w \in User, SubmitPaired(w) PROVE FALSE
  <2>1. upc' = Reap([upc EXCEPT ![w] = "served"]) /\ KeptIdle # <<>>
    BY <1>4 DEF SubmitPaired
  <2>. QED BY <1>3, <2>1
<1>5. ASSUME NEW w \in User, SubmitFull(w) PROVE Goal
  <2>1. upc' = Reap([upc EXCEPT ![w] = "refused"]) /\ users' = KeptUsers
    BY <1>5 DEF SubmitFull, Queue
  <2>2. v \notin ReapedUsers => upc'[v] \in {"refused", upc[v]}
    BY <1>0, <2>1 DEF Reap
  <2>3. v \notin ReapedUsers /\ upc[v] = "queued" => v \in Elems(KeptUsers)
    BY <1>0, <1>k
  <2>. QED BY <1>3, <1>v, <2>1, <2>2, <2>3
<1>6. ASSUME NEW w \in User, SubmitQueued(w) PROVE Goal
  <2>1. /\ upc' = Reap([upc EXCEPT ![w] = "queued"]) /\ users' = Append(KeptUsers, w)
        /\ upc[w] = "checked"
    BY <1>6 DEF SubmitQueued, Queue, Enqueued
  <2>2. w \notin Elems(KeptUsers)
    BY <1>0, <1>k, <2>1
  <2>3. /\ Elems(users') = Elems(KeptUsers) \cup {w}
        /\ \A x, y : Before(KeptUsers, x, y) => Before(users', x, y)
        /\ \A x \in Elems(KeptUsers) : Before(users', x, w)
    BY <1>k, <2>1, <2>2, AppendFacts
  <2>4. u \in Elems(users') /\ u \in Elems(KeptUsers)
    BY <1>3, <2>1, <2>3
  <2>5. CASE v = w
    <3>1. v \notin ReapedUsers /\ upc'[v] = "queued"
      BY <1>0, <1>k, <2>1, <2>5 DEF Reap
    <3>. QED BY <2>3, <2>4, <2>5, <3>1
  <2>6. CASE v # w
    <3>1. v \notin ReapedUsers => upc'[v] = upc[v]
      BY <1>0, <2>1, <2>6 DEF Reap
    <3>2. v \notin ReapedUsers /\ upc[v] = "queued" => Before(users', u, v)
      BY <1>0, <1>3, <1>k, <2>1, <2>3
    <3>. QED BY <1>3, <1>v, <2>1, <2>4, <3>1, <3>2
  <2>. QED BY <2>5, <2>6
<1>7. ASSUME Deliver PROVE Goal
  <2>1. CASE SomebodyQueues
    <3>. DEFINE h == Head(KeptUsers)
    <3>1. /\ upc' = Reap([upc EXCEPT ![h] = "served"]) /\ users' = Tail(KeptUsers)
          /\ KeptUsers # <<>>
      BY <1>7, <2>1 DEF Deliver, Queue, SomebodyQueues
    <3>2. /\ h \in Elems(KeptUsers) /\ Elems(users') = Elems(KeptUsers) \ {h}
          /\ \A x, y \in Elems(users') : Before(KeptUsers, x, y) => Before(users', x, y)
          /\ \A x : ~Before(KeptUsers, x, h)
      BY <1>k, <3>1, FrontFacts
    <3>. HIDE DEF h
    <3>3. h \in User /\ upc[h] = "queued" /\ v # h
      <4>1. h \in User
        BY <1>k, <3>2, LineFacts DEF Line
      <4>2. upc[h] = "queued"
        BY <1>0, <1>k, <3>2, <4>1
      <4>3. ~Before(KeptUsers, u, h)
        BY <3>2
      <4>4. v # h
        BY <1>3, <3>1, <3>2, <4>3
      <4>. QED BY <4>1, <4>2, <4>4
    <3>4. u # h
      BY <1>0, <3>1, <3>3 DEF Reap
    <3>5. v \notin ReapedUsers => upc'[v] = upc[v]
      BY <1>0, <3>1, <3>3 DEF Reap
    <3>6. u \in Elems(users')
      BY <1>3, <3>1, <3>2, <3>4
    <3>7. v \notin ReapedUsers /\ upc[v] = "queued" => Before(users', u, v)
      <4>. SUFFICES ASSUME v \notin ReapedUsers, upc[v] = "queued" PROVE Before(users', u, v)
        OBVIOUS
      <4>1. v \in Elems(KeptUsers) /\ v \in Elems(users')
        BY <1>0, <1>k, <3>2, <3>3
      <4>2. Before(KeptUsers, u, v)
        BY <1>3, <3>1, <4>1
      <4>. QED BY <3>2, <3>6, <4>1, <4>2
    <3>. QED BY <1>3, <1>v, <3>1, <3>5, <3>6, <3>7
  <2>2. CASE ~SomebodyQueues
    <3>1. upc' = Reap(upc) /\ KeptUsers = <<>>
      BY <1>7, <2>2 DEF Deliver, SomebodyQueues
    <3>2. u \in Elems(KeptUsers)
      BY <1>3, <3>1
    <3>. QED BY <1>k, <3>1, <3>2, LineFacts DEF Line
  <2>. QED BY <2>1, <2>2
<1>8. ASSUME NEW w \in User, Ask(w) \/ UserLate(w) PROVE users' = users /\ upc'[v] = upc[v]
  BY <1>8 DEF Ask, UserLate
<1>9. ASSUME NEW w \in Waiter, WaiterStep(w) PROVE users' = users /\ upc'[v] = upc[v]
  BY <1>9 DEF WaiterStep, Begin, Take, AskAgain, Listen, GiveUp, EndUse, userVars
<1>10. ASSUME SendRequest \/ Open \/ Silent \/ Notify \/ (\E i \in 1..Len(idle) : WorkOld(i))
              \/ LoopEnds \/ Park \/ Resume \/ Stop \/ UNCHANGED vars
       PROVE users' = users /\ upc'[v] = upc[v]
  BY <1>10 DEF SendRequest, Open, Silent, Notify, WorkOld, LoopEnds, Park, Resume, Stop, vars, userVars
<1>. QED BY <1>1, <1>2, <1>4, <1>5, <1>6, <1>7, <1>8, <1>9, <1>10 DEF Next, UserStep, Submit

\* Nobody who comes later is served, or queued, in front of a queued user: the
\* order in which users were queued is the order in which they are served, with
\* reaping, refusals and waiters in between (pool.rs 880-960).
THEOREM FirstComeFirstServedHolds == Spec => FirstComeFirstServed
<1>. DEFINE Kept == \A u, v \in User :
                      Ahead(u, v) /\ upc'[u] = "queued" =>
                        upc'[v] # "served" /\ (upc'[v] = "queued" => Ahead(u, v)')
<1>1. Inv /\ [Next]_vars => [Kept]_vars
  <2>. SUFFICES ASSUME Inv, [Next]_vars, NEW u \in User, NEW v \in User,
                       Ahead(u, v), upc'[u] = "queued"
                PROVE  upc'[v] # "served" /\ (upc'[v] = "queued" => Ahead(u, v)')
    OBVIOUS
  <2>1. u \in Elems(users) /\ (upc[v] = "checked" \/ Before(users, u, v))
    <3>1. \E i \in 1..Len(users) :
            users[i] = u /\ (upc[v] = "checked" \/ \E j \in i+1..Len(users) : users[j] = v)
      BY DEF Ahead
    <3>. QED BY <3>1 DEF Elems, Before
  <2>2. /\ upc'[v] # "served"
        /\ upc'[v] = "queued" => Before(users', u, v)
    BY <2>1, OrderKept
  <2>. QED BY <2>2 DEF Ahead, Before
<1>. QED BY <1>1, Invariance, PTL DEF Spec, FirstComeFirstServed
=============================================================================
