-------------------------- MODULE Forwarding_proofs --------------------------
(***************************************************************************)
(* What holds of Forwarding for any connections, backends, limits and      *)
(* bounds: types, and that loads and permits are exactly what the          *)
(* connections carry.                                                      *)
(*                                                                         *)
(* CountsExact is not inductive: that a permit is taken once needs to know *)
(* that whoever takes it has none yet, and that a load goes up for a       *)
(* connection that carries none.  Both follow from the stage it is in.     *)
(*                                                                         *)
(* FairPick needs to know what the loop over the members has seen so far   *)
(* (Compared) and where the round-robin position stands (Turns).           *)
(***************************************************************************)
EXTENDS Forwarding, Integers, FiniteSetTheorems, SequenceTheorems, TLAPS

TotalHolders   == {c \in Conn : conn[c].total}
OwnHolders(k)  == {c \in Conn : conn[c].own /\ ClientFor(c) = k}
LoadHolders(b) == {c \in Conn : conn[c].load = b}

\* What a connection may carry in a stage.
Fits(t) ==
  /\ t.at \in {"new", "picking", "done"} => t.load = None
  /\ t.at \in {"new", "picking", "held", "done"} => ~t.total
  /\ t.at \in {"new", "picking", "held", "total", "done"} => ~t.own
  /\ t.at = "total" => (config.total # 0 => t.total)

ByStage == \A c \in Conn : Fits(conn[c])

\* The connection that is being picked for waits.
PickPends == pick # None => conn[pick.conn].at = "picking"

Inv == TypeOK /\ CountsExact /\ ByStage /\ PickPends

\* One connection more, or one less, carries a token.
LEMMA OneMore ==
  ASSUME NEW S, NEW T, NEW x, IsFiniteSet(S), x \notin S, T = S \cup {x}
  PROVE  Cardinality(T) = Cardinality(S) + 1
BY FS_AddElement

\* The same for the one less.
LEMMA OneLess ==
  ASSUME NEW S, NEW T, NEW x, IsFiniteSet(S), x \in S, T = S \ {x}
  PROVE  /\ Cardinality(T) = Cardinality(S) - 1
         /\ Cardinality(S) >= 1
<1>1. Cardinality(T) = Cardinality(S) - 1
  BY FS_RemoveElement
<1>2. Cardinality(S) \in Nat /\ S # {}
  BY FS_CardinalityType
<1>3. Cardinality(S) # 0
  BY <1>2, FS_EmptySet
<1>. QED BY <1>1, <1>2, <1>3

\* All sets of connections are finite.
LEMMA Finite == \A S \in SUBSET Conn : IsFiniteSet(S) /\ Cardinality(S) \in Nat
BY FS_Subset, FS_CardinalityType, ForwardingAssumption

\* Nobody carries anything at first.
LEMMA InitInv == Init => Inv
<1>. SUFFICES ASSUME Init PROVE Inv OBVIOUS
<1>. USE ForwardingAssumption DEF Init
<1>1. TypeOK
  <2>1. members \in Seq(Backends)
    OBVIOUS
  <2>2. config \in Config
    OBVIOUS
  <2>. QED BY <2>1, <2>2 DEF TypeOK, Config, Fresh, At, Stages
<1>2. /\ Cardinality(TotalHolders) = 0
      /\ \A k \in Client : Cardinality(OwnHolders(k)) = 0
      /\ \A b \in Backends : Cardinality(LoadHolders(b)) = 0
  <2>1. TotalHolders = {}
    BY DEF At, TotalHolders
  <2>2. \A k \in Client : OwnHolders(k) = {}
    BY DEF At, OwnHolders
  <2>3. \A b \in Backends : LoadHolders(b) = {}
    BY DEF At, LoadHolders
  <2>. QED BY <2>1, <2>2, <2>3, FS_EmptySet
<1>3. CountsExact
  <2>1. config.total \in Nat /\ config.own \in Nat
    BY DEF Config
  <2>2. total + Cardinality(TotalHolders) = config.total
    BY <1>2, <2>1
  <2>3. \A k \in Client : own[k] + Cardinality(OwnHolders(k)) = config.own
    BY <1>2, <2>1
  <2>4. \A b \in Backends : inflight[b] = Cardinality(LoadHolders(b))
    BY <1>2
  <2>5. \A c \in Conn : ~Counted(c)
    BY DEF Counted, At
  <2>. QED BY <2>2, <2>3, <2>4, <2>5 DEF CountsExact, TotalHolders, OwnHolders, LoadHolders
<1>4. ByStage /\ PickPends
  BY DEF ByStage, Fits, PickPends, At
<1>. QED BY <1>1, <1>3, <1>4 DEF Inv

-----------------------------------------------------------------------------
(* One connection c changes to t *)

Tokens == [at : Stages, load : Backends \cup {None}, total : BOOLEAN, own : BOOLEAN]
Num(p) == IF p THEN 1 ELSE 0

\* A set of connections that may gain or lose c alone.
LEMMA CountOne ==
  ASSUME NEW S \in SUBSET Conn, NEW T \in SUBSET Conn, NEW c \in Conn,
         \A d \in Conn : d # c => (d \in S <=> d \in T)
  PROVE  Cardinality(T) + Num(c \in S) = Cardinality(S) + Num(c \in T)
<1>1. IsFiniteSet(S) /\ IsFiniteSet(T) /\ Cardinality(S) \in Nat /\ Cardinality(T) \in Nat
  BY Finite
<1>2. CASE c \in S /\ c \notin T
  <2>1. T = S \ {c}
    BY <1>2
  <2>. QED BY <1>1, <1>2, <2>1, OneLess DEF Num
<1>3. CASE c \notin S /\ c \in T
  <2>1. T = S \cup {c}
    BY <1>3
  <2>. QED BY <1>1, <1>3, <2>1, OneMore DEF Num
<1>4. CASE c \in S <=> c \in T
  <2>1. S = T
    BY <1>4
  <2>. QED BY <1>1, <2>1
<1>. QED BY <1>2, <1>3, <1>4

\* The counters follow the one connection that changes.
LEMMA CountsStep ==
  ASSUME Inv, NEW c \in Conn, NEW t \in Tokens, conn' = [conn EXCEPT ![c] = t],
         config' = config,
         total' \in Nat, own' \in [Client -> Nat], inflight' \in [Backends -> Nat],
         total' + Num(t.total) = total + Num(conn[c].total),
         \A k \in Client : own'[k] + Num(t.own /\ ClientFor(c)' = k)
                           = own[k] + Num(conn[c].own /\ ClientFor(c) = k),
         \A b \in Backends : inflight'[b] + Num(conn[c].load = b) = inflight[b] + Num(t.load = b),
         Counted(c)' => (config.total # 0 => t.total) /\ (config.own # 0 => t.own)
  PROVE  CountsExact'
<1>. USE DEF Inv
<1>0. /\ conn \in [Conn -> Tokens] /\ conn' \in [Conn -> Tokens]
      /\ conn'[c] = t /\ \A d \in Conn : d # c => conn'[d] = conn[d]
  BY DEF TypeOK, Tokens
<1>1. total' + Cardinality(TotalHolders') = config.total
  <2>1. Cardinality(TotalHolders') + Num(c \in TotalHolders)
          = Cardinality(TotalHolders) + Num(c \in TotalHolders')
    <3>1. TotalHolders \in SUBSET Conn /\ TotalHolders' \in SUBSET Conn
      BY DEF TotalHolders
    <3>2. \A d \in Conn : d # c => (d \in TotalHolders <=> d \in TotalHolders')
      BY <1>0 DEF TotalHolders
    <3>. QED BY <3>1, <3>2, CountOne
  <2>2. /\ Num(c \in TotalHolders) = Num(conn[c].total)
        /\ Num(c \in TotalHolders') = Num(t.total)
        /\ Num(t.total) \in Nat /\ Num(conn[c].total) \in Nat
    <3>1. (c \in TotalHolders <=> conn[c].total) /\ (c \in TotalHolders' <=> t.total)
      BY <1>0 DEF TotalHolders
    <3>. QED BY <3>1 DEF Num
  <2>3. total + Cardinality(TotalHolders) = config.total
    BY DEF CountsExact, TotalHolders
  <2>4. Cardinality(TotalHolders) \in Nat /\ Cardinality(TotalHolders') \in Nat /\ total \in Nat
    BY Finite DEF TotalHolders, TypeOK
  <2>. HIDE DEF Num
  <2>. QED BY <2>1, <2>2, <2>3, <2>4
<1>2. ASSUME NEW k \in Client
      PROVE  own'[k] + Cardinality(OwnHolders(k)') = config.own
  <2>1. Cardinality(OwnHolders(k)') + Num(c \in OwnHolders(k))
          = Cardinality(OwnHolders(k)) + Num(c \in OwnHolders(k)')
    <3>1. OwnHolders(k) \in SUBSET Conn /\ OwnHolders(k)' \in SUBSET Conn
      BY DEF OwnHolders
    <3>2. \A d \in Conn : d # c => (d \in OwnHolders(k) <=> d \in OwnHolders(k)')
      BY <1>0 DEF OwnHolders, ClientFor
    <3>. QED BY <3>1, <3>2, CountOne
  <2>2. /\ c \in OwnHolders(k) <=> conn[c].own /\ ClientFor(c) = k
        /\ c \in OwnHolders(k)' <=> t.own /\ ClientFor(c)' = k
    BY <1>0 DEF OwnHolders
  <2>3. own[k] + Cardinality(OwnHolders(k)) = config.own
    BY DEF CountsExact, OwnHolders
  <2>4. /\ Cardinality(OwnHolders(k)) \in Nat /\ Cardinality(OwnHolders(k)') \in Nat
        /\ own[k] \in Nat /\ own'[k] \in Nat
    BY Finite DEF OwnHolders, TypeOK
  <2>. QED BY <2>1, <2>2, <2>3, <2>4 DEF Num
<1>3. ASSUME NEW b \in Backends
      PROVE  inflight'[b] = Cardinality(LoadHolders(b)')
  <2>1. Cardinality(LoadHolders(b)') + Num(c \in LoadHolders(b))
          = Cardinality(LoadHolders(b)) + Num(c \in LoadHolders(b)')
    <3>1. LoadHolders(b) \in SUBSET Conn /\ LoadHolders(b)' \in SUBSET Conn
      BY DEF LoadHolders
    <3>2. \A d \in Conn : d # c => (d \in LoadHolders(b) <=> d \in LoadHolders(b)')
      BY <1>0 DEF LoadHolders
    <3>. QED BY <3>1, <3>2, CountOne
  <2>2. (c \in LoadHolders(b) <=> conn[c].load = b) /\ (c \in LoadHolders(b)' <=> t.load = b)
    BY <1>0 DEF LoadHolders
  <2>3. inflight[b] = Cardinality(LoadHolders(b))
    BY DEF CountsExact, LoadHolders
  <2>4. /\ Cardinality(LoadHolders(b)) \in Nat /\ Cardinality(LoadHolders(b)') \in Nat
        /\ inflight'[b] \in Nat
    BY Finite DEF LoadHolders
  <2>. QED BY <2>1, <2>2, <2>3, <2>4 DEF Num
<1>4. ASSUME NEW d \in Conn, Counted(d)'
      PROVE  (config.total # 0 => conn'[d].total) /\ (config.own # 0 => conn'[d].own)
  <2>1. CASE d = c
    BY <1>0, <1>4, <2>1
  <2>2. CASE d # c
    <3>1. Counted(d)
      BY <1>0, <1>4, <2>2 DEF Counted
    <3>. QED BY <1>0, <2>2, <3>1 DEF CountsExact
  <2>. QED BY <2>1, <2>2
<1>. QED BY <1>1, <1>2, <1>3, <1>4 DEF CountsExact, TotalHolders, OwnHolders, LoadHolders

\* A step of one connection that is not being picked for, past the port table.
LEMMA ConnStep ==
  ASSUME Inv, NEW c \in Conn, NEW t \in Tokens, conn' = [conn EXCEPT ![c] = t],
         UNCHANGED <<config, members, lives, cursor, pick, share>>,
         total' \in Nat, own' \in [Client -> Nat], inflight' \in [Backends -> Nat],
         total' + Num(t.total) = total + Num(conn[c].total),
         \A k \in Client : own'[k] + Num(t.own /\ ClientFor(c)' = k)
                           = own[k] + Num(conn[c].own /\ ClientFor(c) = k),
         \A b \in Backends : inflight'[b] + Num(conn[c].load = b) = inflight[b] + Num(t.load = b),
         Counted(c)' => (config.total # 0 => t.total) /\ (config.own # 0 => t.own),
         Fits(t), conn[c].at # "picking"
  PROVE  Inv'
<1>1. CountsExact'
  BY CountsStep
<1>2. conn \in [Conn -> Tokens] /\ conn' \in [Conn -> Tokens]
  BY DEF Inv, TypeOK, Tokens
<1>3. TypeOK'
  BY <1>2 DEF Inv, TypeOK, Tokens
<1>4. ByStage'
  BY <1>2 DEF Inv, ByStage, Fits
<1>5. PickPends'
  <2>. SUFFICES ASSUME pick # None PROVE conn'[pick.conn].at = "picking"
    BY DEF PickPends
  <2>1. pick.conn \in Conn /\ conn[pick.conn].at = "picking"
    BY DEF Inv, TypeOK, Picks, PickPends
  <2>. QED BY <1>2, <2>1
<1>. QED BY <1>1, <1>3, <1>4, <1>5 DEF Inv

\* The client a connection is forwarded to.
LEMMA ClientForType == TypeOK => \A c \in Conn : ClientFor(c) \in Client
BY ForwardingAssumption DEF TypeOK, ClientFor, Backends

\* What a connection that ends carried comes back, once.
LEMMA EndStep ==
  ASSUME Inv, NEW c \in Conn, End(c), conn[c].at # "picking"
  PROVE  Inv'
<1>. DEFINE t == [conn[c] EXCEPT !.at = "done", !.load = None, !.total = FALSE, !.own = FALSE]
<1>0. conn[c] \in Tokens /\ TypeOK
  BY DEF Inv, TypeOK, Tokens
<1>1. /\ t \in Tokens /\ t.at = "done" /\ t.load = None /\ t.total = FALSE /\ t.own = FALSE
      /\ conn' = [conn EXCEPT ![c] = t]
  BY <1>0 DEF End, Tokens, Stages
<1>2. /\ total' \in Nat
      /\ total' + Num(t.total) = total + Num(conn[c].total)
  BY <1>0, <1>1 DEF End, TypeOK, Tokens, Num
<1>3. /\ own' \in [Client -> Nat]
      /\ \A k \in Client : own'[k] + Num(t.own /\ ClientFor(c)' = k)
                           = own[k] + Num(conn[c].own /\ ClientFor(c) = k)
  <2>1. ClientFor(c) \in Client
    BY <1>0, ClientForType
  <2>. QED BY <1>0, <1>1, <2>1 DEF End, TypeOK, Num
<1>4. /\ inflight' \in [Backends -> Nat]
      /\ \A b \in Backends : inflight'[b] + Num(conn[c].load = b) = inflight[b] + Num(t.load = b)
  <2>1. CASE conn[c].load = None
    BY <1>0, <1>1, <2>1, ForwardingAssumption DEF End, TypeOK, Num
  <2>2. CASE conn[c].load # None
    <3>1. conn[c].load \in Backends
      BY <1>0, <2>2 DEF Tokens
    <3>2. inflight[conn[c].load] # 0
      <4>1. inflight[conn[c].load] = Cardinality(LoadHolders(conn[c].load))
        BY <3>1 DEF Inv, CountsExact, LoadHolders
      <4>2. c \in LoadHolders(conn[c].load) /\ IsFiniteSet(LoadHolders(conn[c].load))
        BY Finite DEF LoadHolders
      <4>. QED BY <4>1, <4>2, FS_EmptySet
    <3>3. inflight' = [inflight EXCEPT ![conn[c].load] = @ - 1]
      BY <2>2, <3>2 DEF End
    <3>. QED BY <1>0, <1>1, <3>1, <3>2, <3>3, ForwardingAssumption DEF TypeOK, Num
  <2>. QED BY <2>1, <2>2
<1>5. Fits(t) /\ ~Counted(c)'
  <2>1. conn'[c].at = "done"
    BY <1>0, <1>1 DEF TypeOK
  <2>. QED BY <1>1, <2>1 DEF Fits, Counted
<1>6. UNCHANGED <<config, members, lives, cursor, pick, share>>
  BY DEF End
<1>. HIDE DEF t
<1>. QED BY <1>1, <1>2, <1>3, <1>4, <1>5, <1>6, ConnStep

\* A connection that only moves on takes along what it carries.
LEMMA MoveStep ==
  ASSUME Inv, NEW c \in Conn, NEW from \in Stages \ {"picking"}, NEW to \in {"queued", "bridge"},
         Moves(c, from, to),
         to = "queued" \/ KindOf[c] \in {"tcp", "stcp"} => Counted(c)
  PROVE  Inv'
<1>. DEFINE t == [conn[c] EXCEPT !.at = to]
<1>0. conn[c] \in Tokens /\ TypeOK /\ conn[c].at = from
  BY DEF Inv, TypeOK, Tokens, Moves
<1>1. /\ t \in Tokens /\ t.at = to
      /\ t.load = conn[c].load /\ t.total = conn[c].total /\ t.own = conn[c].own
      /\ conn' = [conn EXCEPT ![c] = t]
  BY <1>0 DEF Moves, Tokens, Stages, TypeOK
<1>2. /\ UNCHANGED <<config, members, lives, cursor, pick, share>>
      /\ UNCHANGED <<inflight, total, own>>
  BY DEF Moves, tokens
<1>3. conn'[c] = t
  BY <1>0, <1>1 DEF TypeOK
<1>. HIDE DEF t
<1>4. Fits(t)
  BY <1>1 DEF Fits
<1>5. Counted(c)' => (config.total # 0 => t.total) /\ (config.own # 0 => t.own)
  BY <1>1, <1>3 DEF Counted, Inv, CountsExact
<1>6. ClientFor(c)' = ClientFor(c)
  BY <1>1, <1>3 DEF ClientFor
<1>7. /\ total' \in Nat /\ own' \in [Client -> Nat] /\ inflight' \in [Backends -> Nat]
      /\ total' + Num(t.total) = total + Num(conn[c].total)
      /\ \A k \in Client : own'[k] + Num(t.own /\ ClientFor(c)' = k)
                           = own[k] + Num(conn[c].own /\ ClientFor(c) = k)
      /\ \A b \in Backends : inflight'[b] + Num(conn[c].load = b) = inflight[b] + Num(t.load = b)
  BY <1>0, <1>1, <1>2, <1>6 DEF TypeOK
<1>. QED BY <1>0, <1>1, <1>2, <1>4, <1>5, <1>7, ConnStep

\* The first permit (ConnSlot::acquire).
LEMMA TakeTotalStep ==
  ASSUME Inv, NEW c \in Conn, TakeTotal(c) PROVE Inv'
<1>. DEFINE t == [conn[c] EXCEPT !.at = "total", !.total = config.total # 0]
<1>0. conn[c] \in Tokens /\ TypeOK /\ conn[c].at \in {"held", "new"}
  BY DEF Inv, TypeOK, Tokens, TakeTotal, MayTakeSlot
<1>1. ~conn[c].total /\ ~conn[c].own
  BY <1>0 DEF Inv, ByStage, Fits
<1>2. /\ t \in Tokens /\ t.at = "total"
      /\ t.load = conn[c].load /\ (t.total <=> config.total # 0) /\ t.own = conn[c].own
      /\ conn' = [conn EXCEPT ![c] = t] /\ conn'[c] = t
  BY <1>0 DEF TakeTotal, Tokens, Stages, TypeOK
<1>3. UNCHANGED <<config, members, lives, cursor, pick, share>> /\ UNCHANGED <<inflight, own>>
  BY DEF TakeTotal
<1>4. total' \in Nat /\ total' + Num(t.total) = total + Num(conn[c].total)
  <2>1. CASE config.total = 0
    BY <1>0, <1>1, <1>2, <2>1 DEF TakeTotal, TypeOK, Num
  <2>2. CASE config.total # 0
    BY <1>0, <1>1, <1>2, <2>2 DEF TakeTotal, Grants, TypeOK, Num
  <2>. QED BY <2>1, <2>2
<1>. HIDE DEF t
<1>5. Fits(t)
  BY <1>1, <1>2 DEF Fits
<1>6. ClientFor(c)' = ClientFor(c) /\ ~Counted(c)'
  BY <1>2 DEF ClientFor, Counted
<1>7. /\ own' \in [Client -> Nat] /\ inflight' \in [Backends -> Nat]
      /\ \A k \in Client : own'[k] + Num(t.own /\ ClientFor(c)' = k)
                           = own[k] + Num(conn[c].own /\ ClientFor(c) = k)
      /\ \A b \in Backends : inflight'[b] + Num(conn[c].load = b) = inflight[b] + Num(t.load = b)
  BY <1>0, <1>2, <1>3, <1>6 DEF TypeOK
<1>. QED BY <1>0, <1>2, <1>3, <1>4, <1>5, <1>6, <1>7, ConnStep

\* The second permit.
LEMMA TakeOwnStep ==
  ASSUME Inv, NEW c \in Conn, TakeOwn(c) PROVE Inv'
<1>. DEFINE t == [conn[c] EXCEPT !.at = "slotted", !.own = config.own # 0]
<1>0. conn[c] \in Tokens /\ TypeOK /\ conn[c].at = "total"
  BY DEF Inv, TypeOK, Tokens, TakeOwn
<1>1. ~conn[c].own /\ (config.total # 0 => conn[c].total)
  BY <1>0 DEF Inv, ByStage, Fits
<1>2. /\ t \in Tokens /\ t.at = "slotted"
      /\ t.load = conn[c].load /\ t.total = conn[c].total /\ (t.own <=> config.own # 0)
      /\ conn' = [conn EXCEPT ![c] = t] /\ conn'[c] = t
  BY <1>0 DEF TakeOwn, Tokens, Stages, TypeOK
<1>3. UNCHANGED <<config, members, lives, cursor, pick, share>> /\ UNCHANGED <<inflight, total>>
  BY DEF TakeOwn
<1>4. ClientFor(c)' = ClientFor(c) /\ ClientFor(c) \in Client
  BY <1>0, <1>2, ClientForType DEF ClientFor
<1>5. /\ own' \in [Client -> Nat]
      /\ \A k \in Client : own'[k] + Num(t.own /\ ClientFor(c)' = k)
                           = own[k] + Num(conn[c].own /\ ClientFor(c) = k)
  <2>1. CASE config.own = 0
    BY <1>0, <1>1, <1>2, <1>4, <2>1 DEF TakeOwn, TypeOK, Num
  <2>2. CASE config.own # 0
    <3>1. own[ClientFor(c)] \in Nat \ {0} /\ own' = [own EXCEPT ![ClientFor(c)] = @ - 1]
      BY <1>0, <1>4, <2>2 DEF TakeOwn, Grants, TypeOK
    <3>. QED BY <1>0, <1>1, <1>2, <1>4, <2>2, <3>1 DEF TypeOK, Num
  <2>. QED BY <2>1, <2>2
<1>. HIDE DEF t
<1>6. Fits(t)
  BY <1>2 DEF Fits
<1>7. /\ total' \in Nat /\ inflight' \in [Backends -> Nat]
      /\ total' + Num(t.total) = total + Num(conn[c].total)
      /\ \A b \in Backends : inflight'[b] + Num(conn[c].load = b) = inflight[b] + Num(t.load = b)
  BY <1>0, <1>2, <1>3 DEF TypeOK
<1>. QED BY <1>0, <1>1, <1>2, <1>3, <1>5, <1>6, <1>7, ConnStep

\* The handler of a sudp visitor returns and drops the slot.
LEMMA SudpStep ==
  ASSUME Inv, NEW c \in Conn, conn[c].at = "slotted", KindOf[c] = "sudp",
         conn' = [conn EXCEPT ![c] = [@ EXCEPT !.at = "bridge", !.total = FALSE, !.own = FALSE]],
         total' = IF conn[c].total THEN total + 1 ELSE total,
         own' = IF conn[c].own THEN [own EXCEPT ![ClientFor(c)] = @ + 1] ELSE own,
         UNCHANGED <<config, members, lives, cursor, inflight, pick, share>>
  PROVE  Inv'
<1>. DEFINE t == [conn[c] EXCEPT !.at = "bridge", !.total = FALSE, !.own = FALSE]
<1>0. conn[c] \in Tokens /\ TypeOK
  BY DEF Inv, TypeOK, Tokens
<1>1. /\ t \in Tokens /\ t.at = "bridge" /\ t.load = conn[c].load
      /\ t.total = FALSE /\ t.own = FALSE
      /\ conn' = [conn EXCEPT ![c] = t] /\ conn'[c] = t
  BY <1>0 DEF Tokens, Stages, TypeOK
<1>2. total' \in Nat /\ total' + Num(t.total) = total + Num(conn[c].total)
  BY <1>0, <1>1 DEF TypeOK, Tokens, Num
<1>3. /\ own' \in [Client -> Nat]
      /\ \A k \in Client : own'[k] + Num(t.own /\ ClientFor(c)' = k)
                           = own[k] + Num(conn[c].own /\ ClientFor(c) = k)
  <2>1. ClientFor(c) \in Client
    BY <1>0, ClientForType
  <2>. QED BY <1>0, <1>1, <2>1 DEF TypeOK, Num
<1>. HIDE DEF t
<1>4. Fits(t) /\ ~Counted(c)'
  BY <1>1 DEF Fits, Counted
<1>5. /\ inflight' \in [Backends -> Nat]
      /\ \A b \in Backends : inflight'[b] + Num(conn[c].load = b) = inflight[b] + Num(t.load = b)
  BY <1>0, <1>1 DEF TypeOK
<1>. QED BY <1>1, <1>2, <1>3, <1>4, <1>5, ConnStep

-----------------------------------------------------------------------------
(* The port table and the accept loop *)

\* What carries tokens does not change.
LEMMA Still ==
  ASSUME Inv, TypeOK', PickPends', UNCHANGED <<config, conn, inflight, total, own>>
  PROVE  Inv'
<1>1. \A c \in Conn : ClientFor(c)' = ClientFor(c) /\ (Counted(c)' <=> Counted(c))
  BY DEF ClientFor, Counted
<1>2. CountsExact'
  BY <1>1 DEF Inv, CountsExact
<1>3. ByStage'
  BY DEF Inv, ByStage, Fits
<1>. QED BY <1>2, <1>3 DEF Inv

\* A registration waits for a pick and brings a Load of its own.
LEMMA RegisterStep ==
  ASSUME Inv, NEW p \in Proxy, Register(p) PROVE Inv'
<1>1. lives[p] + 1 \in 1 .. MaxLives
  BY ForwardingAssumption DEF Register, Inv, TypeOK, Config
<1>2. members' \in Seq(Backends) /\ lives' \in [Proxy -> 0 .. MaxLives]
  BY <1>1, ForwardingAssumption DEF Register, Inv, TypeOK, Backends
<1>3. TypeOK'
  BY <1>2 DEF Register, Inv, TypeOK, tokens, Fresh, Picks
<1>4. PickPends'
  BY DEF Register, Inv, PickPends
<1>. QED BY <1>3, <1>4, Still DEF Register, tokens

\* A member leaves the group.
LEMMA RemoveStep ==
  ASSUME Inv, NEW p \in Proxy, Remove(p) PROVE Inv'
<1>1. PICK i \in DOMAIN members :
        members' = SubSeq(members, 1, i - 1) \o SubSeq(members, i + 1, Len(members))
  BY DEF Remove
<1>2. members' \in Seq(Backends)
  <2>. DEFINE n == Len(members)
  <2>1. members \in Seq(Backends) /\ i \in 1 .. n /\ n \in Nat
    BY DEF Inv, TypeOK
  <2>2. SubSeq(members, 1, i - 1) \in Seq(Backends)
    BY <2>1
  <2>3. SubSeq(members, i + 1, n) \in Seq(Backends)
    BY <2>1
  <2>. QED BY <1>1, <2>2, <2>3
<1>3. TypeOK'
  BY <1>2 DEF Remove, Inv, TypeOK, tokens, Fresh, Picks
<1>4. PickPends'
  BY DEF Remove, Inv, PickPends
<1>. QED BY <1>3, <1>4, Still DEF Remove, tokens

\* One more load is read.
LEMMA CompareStep ==
  ASSUME Inv, Compare PROVE Inv'
<1>0. /\ pick \in Picks /\ pick.rest \in Seq(Backends) /\ pick.rest # <<>>
      /\ inflight \in [Backends -> Nat]
  BY DEF Compare, Locked, Inv, TypeOK, Picks
<1>1. Head(pick.rest) \in Backends /\ Tail(pick.rest) \in Seq(Backends)
  BY <1>0
<1>2. pick' \in Picks /\ pick'.conn = pick.conn
  BY <1>0, <1>1 DEF Compare, Picks
<1>3. TypeOK'
  BY <1>2 DEF Compare, Inv, TypeOK, tokens
<1>4. PickPends'
  BY <1>2 DEF Compare, Locked, Inv, PickPends
<1>. QED BY <1>3, <1>4, Still DEF Compare, tokens

\* The ring of a pick holds backends, and the one it starts with.
LEMMA RingType ==
  ASSUME Inv, members # <<>>, NEW i \in 1 .. Len(members)
  PROVE  Ring(i) \in Seq(Backends) /\ Ring(i) # <<>> /\ Ring(i)[1] \in Backends
         /\ Tail(Ring(i)) \in Seq(Backends)
<1>. DEFINE n == Len(members)
            x == SubSeq(members, i, n)
            y == SubSeq(members, 1, i - 1)
<1>1. members \in Seq(Backends) /\ n \in Nat /\ i \in 1 .. n
  BY DEF Inv, TypeOK
<1>2. x \in Seq(Backends) /\ Len(x) = n - i + 1
  BY <1>1
<1>3. y \in Seq(Backends)
  BY <1>1
<1>. HIDE DEF x, y, n
<1>4. (x \o y) \in Seq(Backends) /\ Len(x \o y) # 0
  BY <1>1, <1>2, <1>3
<1>5. Ring(i) = x \o y
  BY DEF Ring, x, y, n
<1>. DEFINE r == Ring(i)
<1>6. r \in Seq(Backends) /\ Len(r) # 0
  BY <1>4, <1>5
<1>. HIDE DEF r
<1>7. r # <<>> /\ r[1] \in Backends /\ Tail(r) \in Seq(Backends)
  BY <1>6
<1>. QED BY <1>6, <1>7 DEF r

\* A connection is accepted and the first member looked at.
LEMMA AcceptStep ==
  ASSUME Inv, NEW c \in Conn, Accept(c) PROVE Inv'
<1>. DEFINE i == (cursor % Len(members)) + 1
            ring == Ring(i)
            t == [conn[c] EXCEPT !.at = "picking"]
<1>0. conn[c] \in Tokens /\ TypeOK /\ conn[c].at = "new" /\ members # <<>>
  BY DEF Inv, TypeOK, Tokens, Accept
<1>1. i \in 1 .. Len(members)
  <2>. DEFINE n == Len(members)
  <2>1. n \in Nat \ {0} /\ cursor \in Nat
    BY <1>0 DEF TypeOK
  <2>. HIDE DEF n
  <2>2. (cursor % n) + 1 \in 1 .. n
    BY <2>1
  <2>. QED BY <2>2 DEF n
<1>2. ring \in Seq(Backends) /\ ring[1] \in Backends /\ Tail(ring) \in Seq(Backends)
  BY <1>0, <1>1, RingType
<1>3. /\ pick' = IF config.policy = "roundrobin"
                 THEN [conn |-> c, best |-> ring[1], seen |-> 0, rest |-> <<>>,
                       before |-> inflight, ring |-> ring]
                 ELSE [conn |-> c, best |-> ring[1], seen |-> inflight[ring[1]],
                       rest |-> Tail(ring), before |-> inflight, ring |-> ring]
      /\ share' = [share EXCEPT ![ring[1]] = @ + 1]
      /\ cursor' = cursor + 1
  BY DEF Accept, Leader
<1>4. /\ t \in Tokens /\ t.at = "picking"
      /\ t.load = conn[c].load /\ t.total = conn[c].total /\ t.own = conn[c].own
      /\ conn' = [conn EXCEPT ![c] = t] /\ conn'[c] = t
  BY <1>0 DEF Accept, Tokens, Stages, TypeOK
<1>5. UNCHANGED <<config, members, lives, inflight, total, own>>
  BY DEF Accept, tokens
<1>. HIDE DEF i, ring, t
<1>6. pick' \in Picks /\ pick'.conn = c
  BY <1>0, <1>2, <1>3 DEF Picks, TypeOK
<1>7. share' \in [Backends -> Nat] /\ cursor' \in Nat
  BY <1>0, <1>2, <1>3 DEF TypeOK
<1>8. TypeOK'
  BY <1>0, <1>4, <1>5, <1>6, <1>7 DEF TypeOK, Tokens
<1>9. PickPends'
  BY <1>4, <1>6 DEF PickPends
<1>10. ClientFor(c)' = ClientFor(c) /\ ~Counted(c)'
  BY <1>4 DEF ClientFor, Counted
<1>11. CountsExact'
  <2>1. /\ total' \in Nat /\ own' \in [Client -> Nat] /\ inflight' \in [Backends -> Nat]
        /\ total' + Num(t.total) = total + Num(conn[c].total)
        /\ \A k \in Client : own'[k] + Num(t.own /\ ClientFor(c)' = k)
                             = own[k] + Num(conn[c].own /\ ClientFor(c) = k)
        /\ \A b \in Backends : inflight'[b] + Num(conn[c].load = b) = inflight[b] + Num(t.load = b)
    BY <1>0, <1>4, <1>5, <1>10 DEF TypeOK
  <2>. QED BY <1>4, <1>5, <1>10, <2>1, CountsStep
<1>12. ByStage'
  BY <1>0, <1>4, <1>5 DEF Inv, ByStage, Fits, TypeOK
<1>. QED BY <1>8, <1>9, <1>11, <1>12 DEF Inv

\* The one that was picked carries one connection more.
LEMMA HoldStep ==
  ASSUME Inv, Hold PROVE Inv'
<1>. PICK c \in Conn, b \in Backends : c = pick.conn /\ b = pick.best
  BY DEF Hold, Inv, TypeOK, Picks
<1>. DEFINE t == [conn[c] EXCEPT !.at = "held", !.load = b]
<1>0. /\ c \in Conn /\ b \in Backends /\ conn[c] \in Tokens /\ TypeOK
      /\ conn[c].at = "picking"
  BY DEF Hold, Inv, TypeOK, Tokens, Picks, PickPends
<1>1. conn[c].load = None /\ ~conn[c].total /\ ~conn[c].own
  BY <1>0 DEF Inv, ByStage, Fits
<1>2. /\ t \in Tokens /\ t.at = "held" /\ t.load = b
      /\ t.total = conn[c].total /\ t.own = conn[c].own
      /\ conn' = [conn EXCEPT ![c] = t] /\ conn'[c] = t
  BY <1>0 DEF Hold, Tokens, Stages, TypeOK
<1>3. /\ inflight' = [inflight EXCEPT ![b] = @ + 1] /\ pick' = None
      /\ UNCHANGED <<config, members, lives, cursor, total, own, share>>
  BY DEF Hold
<1>. HIDE DEF t
<1>4. inflight' \in [Backends -> Nat]
      /\ \A e \in Backends : inflight'[e] + Num(conn[c].load = e) = inflight[e] + Num(t.load = e)
  BY <1>0, <1>1, <1>2, <1>3, ForwardingAssumption DEF TypeOK, Num
<1>5. TypeOK'
  BY <1>0, <1>2, <1>3, <1>4 DEF TypeOK, Tokens
<1>6. CountsExact'
  <2>1. ~Counted(c)'
    BY <1>2 DEF Counted
  <2>2. /\ total' \in Nat /\ own' \in [Client -> Nat]
        /\ total' + Num(t.total) = total + Num(conn[c].total)
        /\ \A k \in Client : own'[k] + Num(t.own /\ ClientFor(c)' = k)
                             = own[k] + Num(conn[c].own /\ ClientFor(c) = k)
    BY <1>0, <1>1, <1>2, <1>3 DEF TypeOK, Num
  <2>3. /\ t \in Tokens /\ conn' = [conn EXCEPT ![c] = t] /\ config' = config
        /\ inflight' \in [Backends -> Nat]
        /\ \A e \in Backends : inflight'[e] + Num(conn[c].load = e) = inflight[e] + Num(t.load = e)
    BY <1>2, <1>3, <1>4
  <2>. HIDE DEF Num
  <2>. QED BY ONLY Inv, <2>1, <2>2, <2>3, c \in Conn, CountsStep
<1>7. ByStage'
  BY <1>0, <1>1, <1>2, <1>3 DEF Inv, ByStage, Fits, TypeOK
<1>8. PickPends'
  BY <1>3 DEF PickPends
<1>. QED BY <1>5, <1>6, <1>7, <1>8 DEF Inv

-----------------------------------------------------------------------------
\* Every step keeps the invariant.
LEMMA StepInv == Inv /\ [Next]_vars => Inv'
<1>. SUFFICES ASSUME Inv, [Next]_vars PROVE Inv' OBVIOUS
<1>1. CASE UNCHANGED vars
  <2>1. TypeOK' /\ PickPends'
    BY <1>1 DEF vars, tokens, Inv, TypeOK, PickPends, Picks
  <2>. QED BY <1>1, <2>1, Still DEF vars, tokens
<1>2. ASSUME NEW p \in Proxy, Register(p) \/ Remove(p) PROVE Inv'
  BY <1>2, RegisterStep, RemoveStep
<1>3. ASSUME Compare \/ Hold PROVE Inv'
  BY <1>3, CompareStep, HoldStep
<1>4. ASSUME NEW c \in Conn,
             \/ Accept(c) \/ AcceptInVain(c)
             \/ TakeTotal(c) \/ RefuseTotal(c) \/ TakeOwn(c) \/ RefuseOwn(c)
             \/ Submit(c) \/ Served(c) \/ VisitorPaired(c) \/ VisitorFails(c) \/ VhostPaired(c)
             \/ BridgeEnds(c)
      PROVE Inv'
  <2>1. CASE Accept(c)
    BY <2>1, AcceptStep
  <2>2. CASE TakeTotal(c)
    BY <2>2, TakeTotalStep
  <2>3. CASE TakeOwn(c)
    BY <2>3, TakeOwnStep
  <2>4. ASSUME End(c), conn[c].at \in {"new", "held", "total", "slotted", "queued", "bridge"}
        PROVE  Inv'
    BY <2>4, EndStep
  <2>5. ASSUME conn[c].at \in {"slotted", "queued"}, NEW to \in {"queued", "bridge"},
               Moves(c, conn[c].at, to)
        PROVE  Inv'
    <3>1. Counted(c) /\ conn[c].at \in Stages \ {"picking"}
      BY <2>5 DEF Counted, Stages
    <3>. QED BY <2>5, <3>1, MoveStep
  <2>6. CASE Submit(c)
    <3>1. conn[c].at = "slotted"
      BY <2>6 DEF Submit, Moves
    <3>. QED BY <2>4, <2>5, <2>6, <3>1 DEF Submit
  <2>7. CASE Served(c)
    <3>1. conn[c].at = "queued"
      BY <2>7 DEF Served, Moves
    <3>. QED BY <2>4, <2>5, <2>7, <3>1 DEF Served
  <2>8. CASE VisitorPaired(c)
    BY <2>5, <2>8, SudpStep DEF VisitorPaired
  <2>9. CASE VhostPaired(c)
    <3>1. Moves(c, "new", "bridge") /\ KindOf[c] = "http"
      BY <2>9 DEF VhostPaired
    <3>. QED BY <3>1, MoveStep DEF Stages
  <2>10. CASE AcceptInVain(c) \/ RefuseTotal(c) \/ RefuseOwn(c) \/ VisitorFails(c) \/ BridgeEnds(c)
    BY <2>4, <2>10 DEF AcceptInVain, RefuseTotal, MayTakeSlot, RefuseOwn, VisitorFails, BridgeEnds
  <2>. QED BY <1>4, <2>1, <2>2, <2>3, <2>6, <2>7, <2>8, <2>9, <2>10
<1>. QED BY <1>1, <1>2, <1>3, <1>4 DEF Next

\* The inductive invariant of Forwarding.
THEOREM Invariance == Spec => []Inv
BY InitInv, StepInv, PTL DEF Spec

\* Every variable keeps its type: no permit is given that is not there.
THEOREM TypeCorrect == Spec => []TypeOK
<1>1. Inv => TypeOK BY DEF Inv
<1>. QED BY <1>1, Invariance, PTL

\* Loads and permits are exactly what connections carry, whatever way they end
\* (ConnSlot, LoadGuard).
THEOREM CountsExactHolds == Spec => []CountsExact
<1>1. Inv => CountsExact BY DEF Inv
<1>. QED BY <1>1, Invariance, PTL

-----------------------------------------------------------------------------
(* The choice is fair.  By turns, the shares of the members are those of   *)
(* whole rounds plus one turn for the places the cursor has passed since   *)
(* it was last where the group changed.  By load, nobody's load goes up    *)
(* while loads are read, because the accept loop itself is what raises     *)
(* them; so the least reading is still an upper bound when it is used.     *)

\* A proxy is a member at most once.
Distinct == \A i, j \in DOMAIN members : i # j => members[i] # members[j]

\* Place i has been passed on the way around from place r + 1 to p.
Passed(i, r, p) == IF r <= p THEN r < i /\ i <= p ELSE r < i \/ i <= p

\* Every member has had m turns, those that were passed one more.
Rounds(m, r) ==
  \A i \in DOMAIN members :
    share[members[i]] = IF Passed(i, r, cursor % Len(members)) THEN m + 1 ELSE m

Turns == members # <<>> => \E m \in Nat, r \in 0 .. Len(members) - 1 : Rounds(m, r)

\* What has been read so far is no less than the choice's reading.
Read(k) ==
  /\ pick.rest = SubSeq(pick.ring, k + 1, Len(pick.ring))
  /\ \A i \in 1 .. k : pick.seen <= pick.before[pick.ring[i]]

Compared ==
  config.policy = "leastconn" /\ pick # None =>
    /\ inflight[pick.best] <= pick.seen
    /\ \A b \in Backends : inflight[b] <= pick.before[b]
    /\ \E k \in DOMAIN pick.ring : Read(k)

Fair == Distinct /\ Turns /\ Compared

\* The places of a list and what is at them (PortGroup::members).
LEMMA Places ==
  ASSUME NEW S, NEW s \in Seq(S)
  PROVE  Len(s) \in Nat /\ DOMAIN s = 1 .. Len(s) /\ \A i \in 1 .. Len(s) : s[i] \in S
OBVIOUS

\* What is left of the ring after the first k members (pick_backend).
LEMMA RestOfList ==
  ASSUME NEW S, NEW d \in Seq(S), NEW k \in 0..Len(d)
  PROVE  /\ SubSeq(d, k + 1, Len(d)) \in Seq(S)
         /\ Len(SubSeq(d, k + 1, Len(d))) = Len(d) - k
<1>. DEFINE n == Len(d)
<1>1. n \in Int /\ k + 1 \in Int /\ k \in Int
  OBVIOUS
<1>2. \A i \in k + 1 .. n : d[i] \in S
  OBVIOUS
<1>3. k <= n
  OBVIOUS
<1>. HIDE DEF n
<1>4. /\ SubSeq(d, k + 1, n) \in Seq(S)
      /\ Len(SubSeq(d, k + 1, n)) = IF k + 1 <= n THEN n - (k + 1) + 1 ELSE 0
  BY <1>1, <1>2, SubSeqProperties
<1>5. Len(SubSeq(d, k + 1, n)) = n - k
  BY <1>1, <1>3, <1>4
<1>. QED BY <1>4, <1>5 DEF n

\* The cursor goes around the members (registry.rs 886).
LEMMA NextPlace ==
  ASSUME NEW n \in Nat \ {0}, NEW c \in Nat
  PROVE  /\ c % n \in 0 .. n - 1
         /\ (c + 1) % n = IF c % n = n - 1 THEN 0 ELSE (c % n) + 1
<1>. DEFINE q == c \div n
            r == c % n
            u == (c + 1) \div n
            s == (c + 1) % n
<1>1. /\ q \in Int /\ r \in 0 .. n - 1 /\ c = n * q + r
      /\ u \in Int /\ s \in 0 .. n - 1 /\ c + 1 = n * u + s
  OBVIOUS
<1>. HIDE DEF q, r, u, s
<1>2. n * (u - q) = r + 1 - s
  <2>1. n * (u - q) = n * u - n * q
    BY <1>1
  <2>2. n * u \in Int /\ n * q \in Int
    BY <1>1
  <2>. QED BY <1>1, <2>1, <2>2
<1>3. u - q = 0 \/ u - q = 1
  <2>. DEFINE d == u - q
  <2>1. d \in Int /\ n * d = r + 1 - s /\ r + 1 - s > -n /\ r + 1 - s <= n
    BY <1>1, <1>2
  <2>. HIDE DEF d
  <2>2. d > 1 => n * d >= n * 2
    BY <2>1
  <2>3. d < 0 => n * d <= -n
    BY <2>1
  <2>. QED BY <2>1, <2>2, <2>3 DEF d
<1>4. s = IF r = n - 1 THEN 0 ELSE r + 1
  <2>1. CASE u - q = 0
    BY <1>1, <1>2, <2>1
  <2>2. CASE u - q = 1
    BY <1>1, <1>2, <2>2
  <2>. QED BY <1>3, <2>1, <2>2
<1>. QED BY <1>1, <1>4 DEF r, s

\* While the group and the pick stay as they are, loads may fall.
LEMMA FairKept ==
  ASSUME TypeOK, TypeOK', Fair, UNCHANGED <<config, members, cursor, share, pick>>,
         \A b \in Backends : inflight'[b] <= inflight[b]
  PROVE  Fair'
<1>1. Distinct' /\ Turns'
  BY DEF Fair, Distinct, Turns, Rounds
<1>2. Compared'
  <2>. SUFFICES ASSUME config.policy = "leastconn", pick # None PROVE Compared'
    BY DEF Compared
  <2>1. pick \in Picks /\ pick.best \in Backends /\ pick.seen \in Nat /\ pick.before \in [Backends -> Nat]
    BY DEF TypeOK, Picks
  <2>2. /\ inflight[pick.best] <= pick.seen
        /\ \A b \in Backends : inflight[b] <= pick.before[b]
        /\ \E k \in DOMAIN pick.ring : Read(k)
    BY DEF Fair, Compared
  <2>3. \A b \in Backends : inflight[b] \in Nat /\ inflight'[b] \in Nat /\ pick.before[b] \in Nat
    BY <2>1 DEF TypeOK
  <2>4. inflight'[pick.best] <= pick.seen
    BY <2>1, <2>2, <2>3
  <2>5. \A b \in Backends : inflight'[b] <= pick.before[b]
    BY <2>2, <2>3
  <2>6. \E k \in DOMAIN pick.ring : Read(k)'
    BY <2>2 DEF Read
  <2>. QED BY <2>4, <2>5, <2>6 DEF Compared
<1>. QED BY <1>1, <1>2 DEF Fair

\* The end of a connection takes at most one from one load (LoadGuard::drop).
LEMMA EndFalls ==
  ASSUME TypeOK, NEW c \in Conn, End(c)
  PROVE  /\ UNCHANGED <<config, members, cursor, share, pick>>
         /\ \A b \in Backends : inflight'[b] <= inflight[b]
<1>. DEFINE l == conn[c].load
<1>1. l \in Backends \cup {None} /\ inflight \in [Backends -> Nat]
  BY DEF TypeOK
<1>2. inflight' = IF l = None \/ inflight[l] = 0 THEN inflight ELSE [inflight EXCEPT ![l] = @ - 1]
  BY DEF End
<1>. HIDE DEF l
<1>3. \A b \in Backends : inflight'[b] <= inflight[b]
  BY <1>1, <1>2
<1>. QED BY <1>3 DEF End

\* Of all steps of a connection only its acceptance touches the group and the
\* pick, and only Hold raises a load.
LEMMA ConnQuiet ==
  ASSUME TypeOK, NEW c \in Conn,
         \/ AcceptInVain(c)
         \/ TakeTotal(c) \/ RefuseTotal(c) \/ TakeOwn(c) \/ RefuseOwn(c)
         \/ Submit(c) \/ Served(c) \/ VisitorPaired(c) \/ VisitorFails(c) \/ VhostPaired(c)
         \/ BridgeEnds(c)
  PROVE  /\ UNCHANGED <<config, members, cursor, share, pick>>
         /\ \A b \in Backends : inflight'[b] <= inflight[b]
<1>1. CASE End(c)
  BY <1>1, EndFalls
<1>2. CASE UNCHANGED <<config, members, cursor, share, pick, inflight>>
  BY <1>2 DEF TypeOK
<1>3. End(c) \/ UNCHANGED <<config, members, cursor, share, pick, inflight>>
  BY DEF AcceptInVain, TakeTotal, RefuseTotal, TakeOwn, RefuseOwn, Submit, Served, VisitorPaired,
         VisitorFails, VhostPaired, BridgeEnds, Moves, tokens
<1>. QED BY <1>1, <1>2, <1>3

\* A member joins: all shares start from zero at the cursor (reserve_port).
LEMMA RegisterFair ==
  ASSUME Inv, Fair, NEW p \in Proxy, Register(p)
  PROVE  Fair'
<1>. DEFINE n == Len(members)
            b == <<p, lives[p] + 1>>
<1>1. /\ members \in Seq(Backends) /\ n \in Nat
      /\ members' = Append(members, b) /\ share' = Fresh
      /\ cursor' = cursor /\ cursor \in Nat
      /\ \A i \in 1 .. n : members[i][1] # p
  BY DEF Register, Inv, TypeOK
<1>2. b \in Backends
  <2>1. lives[p] + 1 \in 1 .. MaxLives
    BY ForwardingAssumption DEF Register, Inv, TypeOK, Config
  <2>. QED BY <2>1 DEF Backends
<1>3. /\ members' \in Seq(Backends) /\ Len(members') = n + 1 /\ members'[n + 1] = b
      /\ \A i \in 1 .. n : members'[i] = members[i]
  BY <1>1, <1>2
<1>4. Distinct'
  <2>1. \A i \in 1 .. n : members'[i] # members'[n + 1]
    BY <1>1, <1>3
  <2>2. \A i, j \in 1 .. n : i # j => members'[i] # members'[j]
    BY <1>1, <1>3 DEF Fair, Distinct
  <2>3. DOMAIN members' = 1 .. n + 1 /\ \A i \in 1 .. n + 1 : i \in 1 .. n \/ i = n + 1
    BY <1>1, <1>3
  <2>. QED BY <2>1, <2>2, <2>3 DEF Distinct
<1>5. Turns'
  <2>1. \A i \in DOMAIN members' : share'[members'[i]] = 0
    BY <1>1, <1>3 DEF Fresh
  <2>2. PICK r \in 0 .. (n + 1) - 1 : r = cursor' % (n + 1)
    <3>1. n + 1 \in Nat \ {0}
      BY <1>1
    <3>. HIDE DEF n
    <3>2. cursor % (n + 1) \in 0 .. (n + 1) - 1
      BY <1>1, <3>1, NextPlace
    <3>. QED BY <1>1, <3>2
  <2>3. \A i \in DOMAIN members' : ~Passed(i, r, r)
    BY <1>1, <1>3, <2>2 DEF Passed
  <2>4. r = cursor' % Len(members') /\ r \in 0 .. Len(members') - 1
    BY <1>3, <2>2
  <2>. HIDE DEF n
  <2>5. Rounds(0, r)'
    BY <2>1, <2>3, <2>4 DEF Rounds
  <2>. QED BY <2>4, <2>5 DEF Turns
<1>6. Compared'
  BY DEF Register, Fair, Compared, Read, tokens
<1>. QED BY <1>4, <1>5, <1>6 DEF Fair

\* A member leaves (release_port).
LEMMA RemoveFair ==
  ASSUME Inv, Fair, NEW p \in Proxy, Remove(p)
  PROVE  Fair'
<1>. DEFINE n == Len(members)
<1>1. /\ members \in Seq(Backends) /\ n \in Nat /\ cursor' \in Nat /\ share' = Fresh
  BY DEF Remove, Inv, TypeOK
<1>2. PICK i \in 1 .. n : members' = SubSeq(members, 1, i - 1) \o SubSeq(members, i + 1, n)
  <2>1. PICK i \in DOMAIN members :
          members' = SubSeq(members, 1, i - 1) \o SubSeq(members, i + 1, Len(members))
    BY DEF Remove
  <2>2. i \in 1 .. n
    BY <1>1
  <2>. QED BY <2>1, <2>2
<1>3. /\ members' \in Seq(Backends) /\ Len(members') = n - 1
      /\ \A j \in 1 .. n - 1 : members'[j] = IF j < i THEN members[j] ELSE members[j + 1]
  <2>. DEFINE x == SubSeq(members, 1, i - 1)
              y == SubSeq(members, i + 1, n)
  <2>1. x \in Seq(Backends) /\ Len(x) = i - 1 /\ \A j \in 1 .. i - 1 : x[j] = members[j]
    <3>1. \A j \in 1 .. i - 1 : members[j] \in Backends
      BY <1>1
    <3>2. /\ x \in Seq(Backends)
          /\ Len(x) = IF 1 <= i - 1 THEN (i - 1) - 1 + 1 ELSE 0
          /\ \A j \in 1 .. (i - 1) - 1 + 1 : x[j] = members[1 + j - 1]
      BY <1>1, <3>1, SubSeqProperties
    <3>. QED BY <1>1, <3>2
  <2>2. y \in Seq(Backends) /\ Len(y) = n - i /\ \A j \in 1 .. n - i : y[j] = members[i + j]
    <3>1. \A j \in i + 1 .. n : members[j] \in Backends
      BY <1>1
    <3>2. /\ y \in Seq(Backends)
          /\ Len(y) = IF i + 1 <= n THEN n - (i + 1) + 1 ELSE 0
          /\ \A j \in 1 .. n - (i + 1) + 1 : y[j] = members[i + 1 + j - 1]
      BY <1>1, <3>1, SubSeqProperties
    <3>. QED BY <1>1, <3>2
  <2>3. members' = x \o y
    BY <1>2
  <2>. HIDE DEF x, y, n
  <2>4. /\ x \o y \in Seq(Backends) /\ Len(x \o y) = Len(x) + Len(y)
        /\ \A j \in 1 .. Len(x) + Len(y) : (x \o y)[j] = IF j <= Len(x) THEN x[j] ELSE y[j - Len(x)]
    BY <2>1, <2>2, ConcatProperties
  <2>5. Len(x) + Len(y) = n - 1
    BY <1>1, <2>1, <2>2
  <2>6. ASSUME NEW j \in 1 .. n - 1
        PROVE  members'[j] = IF j < i THEN members[j] ELSE members[j + 1]
    <3>1. CASE j < i
      BY <1>1, <2>1, <2>3, <2>4, <2>5, <3>1
    <3>2. CASE ~(j < i)
      <4>1. ~(j <= Len(x)) /\ j - Len(x) \in 1 .. n - i /\ i + (j - Len(x)) = j + 1
        BY <1>1, <2>1, <3>2
      <4>2. members'[j] = y[j - Len(x)]
        BY <2>3, <2>4, <2>5, <4>1
      <4>. QED BY <2>2, <3>2, <4>1, <4>2
    <3>. QED BY <3>1, <3>2
  <2>. QED BY <2>3, <2>4, <2>5, <2>6
<1>4. Distinct'
  <2>. SUFFICES ASSUME NEW j \in DOMAIN members', NEW k \in DOMAIN members', j < k
                PROVE  members'[j] # members'[k]
    <3>1. DOMAIN members' \subseteq Int
      BY <1>3
    <3>. QED BY <3>1 DEF Distinct
  <2>1. j \in 1 .. n - 1 /\ k \in 1 .. n - 1
    BY <1>1, <1>3
  <2>2. \A a, b \in 1 .. n : a # b => members[a] # members[b]
    BY <1>1 DEF Fair, Distinct
  <2>3. j \in 1 .. n /\ j + 1 \in 1 .. n /\ k \in 1 .. n /\ k + 1 \in 1 .. n
    BY <1>1, <2>1
  <2>. QED BY <1>3, <2>1, <2>2, <2>3
<1>5. Turns'
  <2>. SUFFICES ASSUME members' # <<>> PROVE Turns'
    BY DEF Turns
  <2>1. \A j \in DOMAIN members' : share'[members'[j]] = 0 /\ j \in Nat
    BY <1>1, <1>3 DEF Fresh
  <2>2. n - 1 \in Nat \ {0}
    BY <1>1, <1>3
  <2>3. PICK r \in 0 .. (n - 1) - 1 : r = cursor' % (n - 1)
    <3>. HIDE DEF n
    <3>. QED BY <1>1, <2>2, NextPlace
  <2>4. r = cursor' % Len(members') /\ r \in 0 .. Len(members') - 1
    BY <1>3, <2>3
  <2>5. \A j \in DOMAIN members' : ~Passed(j, r, r)
    BY <2>1, <2>4 DEF Passed
  <2>. HIDE DEF n
  <2>6. Rounds(0, r)'
    BY <2>1, <2>4, <2>5 DEF Rounds
  <2>. QED BY <2>4, <2>6 DEF Turns
<1>6. Compared'
  BY DEF Remove, Fair, Compared, Read, tokens
<1>. QED BY <1>4, <1>5, <1>6 DEF Fair

\* One more load is read: it is compared with what was read before, and is no
\* more than it was when the first was read.
LEMMA CompareFair ==
  ASSUME Inv, Fair, Compare
  PROVE  Fair'
<1>0. /\ pick \in Picks /\ pick # None /\ pick.rest # <<>>
      /\ pick.ring \in Seq(Backends) /\ pick.seen \in Nat /\ pick.best \in Backends
      /\ pick.before \in [Backends -> Nat] /\ inflight \in [Backends -> Nat]
  BY DEF Compare, Locked, Inv, TypeOK, Picks
<1>1. UNCHANGED <<config, members, cursor, inflight, share>>
  BY DEF Compare, tokens
<1>2. Distinct' /\ Turns'
  BY <1>1 DEF Fair, Distinct, Turns, Rounds
<1>3. Compared'
  <2>. SUFFICES ASSUME config.policy = "leastconn" PROVE Compared'
    BY <1>1 DEF Compared
  <2>. DEFINE ring == pick.ring
              b == Head(pick.rest)
              n == Len(ring)
  <2>1. PICK k \in DOMAIN ring : Read(k)
    BY <1>0 DEF Fair, Compared
  <2>2. /\ inflight[pick.best] <= pick.seen
        /\ \A e \in Backends : inflight[e] <= pick.before[e]
    BY <1>0 DEF Fair, Compared
  <2>3. k \in 1 .. n /\ n \in Nat /\ k < n /\ k + 1 \in 1 .. n
    <3>1. k \in 1 .. n /\ n \in Nat
      BY <1>0, Places
    <3>2. n < k + 1 => SubSeq(ring, k + 1, n) = <<>>
      BY <3>1, SubSeqEmpty
    <3>3. SubSeq(ring, k + 1, n) # <<>>
      BY <1>0, <2>1 DEF Read
    <3>. QED BY <3>1, <3>2, <3>3
  <2>4. b = ring[k + 1] /\ Tail(pick.rest) = SubSeq(ring, (k + 1) + 1, n) /\ b \in Backends
    <3>1. /\ Head(SubSeq(ring, k + 1, n)) = ring[k + 1]
          /\ Tail(SubSeq(ring, k + 1, n)) = SubSeq(ring, (k + 1) + 1, n)
      <4>1. k + 1 \in 1 .. Len(ring) /\ n \in (k + 1) .. Len(ring)
        BY <2>3
      <4>. QED BY <1>0, <4>1, HeadTailOfSubSeq
    <3>2. pick.rest = SubSeq(ring, k + 1, n)
      BY <2>1 DEF Read
    <3>3. ring[k + 1] \in Backends
      BY <1>0, <2>3, Places
    <3>. QED BY <3>1, <3>2, <3>3
  <2>5. PICK best \in Backends, seen \in Nat :
          /\ pick'.best = best /\ pick'.seen = seen
          /\ \/ best = b /\ seen = inflight[b] /\ inflight[b] < pick.seen
             \/ best = pick.best /\ seen = pick.seen /\ ~(inflight[b] < pick.seen)
    BY <1>0, <2>4 DEF Compare, Picks
  <2>6. pick'.rest = Tail(pick.rest) /\ pick'.ring = ring /\ pick'.before = pick.before
    BY <1>0 DEF Compare, Picks
  <2>7. inflight[best] <= seen
    BY <1>0, <2>2, <2>4, <2>5
  <2>8. ASSUME NEW i \in 1 .. k + 1 PROVE seen <= pick.before[ring[i]]
    <3>1. i \in 1 .. n /\ ring[i] \in Backends
      <4>1. i \in 1 .. n
        BY <2>3
      <4>. QED BY <1>0, <4>1, Places
    <3>2. inflight[b] \in Nat /\ pick.before[ring[i]] \in Nat /\ pick.seen \in Nat
      BY <1>0, <2>4, <3>1
    <3>3. CASE i \in 1 .. k
      <4>1. pick.seen <= pick.before[ring[i]]
        BY <2>1, <3>3 DEF Read
      <4>. QED BY <2>5, <3>2, <4>1
    <3>4. CASE i = k + 1
      <4>1. ring[i] = b /\ inflight[b] <= pick.before[ring[i]]
        BY <2>2, <2>4, <3>4
      <4>. QED BY <2>5, <3>2, <4>1
    <3>. QED BY <2>3, <3>3, <3>4
  <2>9. k + 1 \in DOMAIN pick'.ring /\ Read(k + 1)'
    <3>1. k + 1 \in DOMAIN ring
      BY <1>0, <2>3
    <3>. QED BY <2>4, <2>5, <2>6, <2>8, <3>1 DEF Read
  <2>. QED BY <1>1, <2>2, <2>5, <2>6, <2>7, <2>9 DEF Compared
<1>. QED BY <1>2, <1>3 DEF Fair

\* The pick is over before a load goes up (Backend::hold).
LEMMA HoldFair ==
  ASSUME Inv, Fair, Hold
  PROVE  Fair'
<1>1. pick' = None /\ UNCHANGED <<config, members, cursor, share>>
  BY DEF Hold
<1>2. Distinct' /\ Turns'
  BY <1>1 DEF Fair, Distinct, Turns, Rounds
<1>3. Compared'
  BY <1>1 DEF Compared
<1>. QED BY <1>2, <1>3 DEF Fair

\* The ring begins with the member at its place.
LEMMA RingFirst ==
  ASSUME Inv, members # <<>>, NEW i \in 1 .. Len(members)
  PROVE  Ring(i)[1] = members[i]
<1>. DEFINE n == Len(members)
            x == SubSeq(members, i, n)
            y == SubSeq(members, 1, i - 1)
<1>1. members \in Seq(Backends) /\ n \in Nat /\ i \in 1 .. n
  BY DEF Inv, TypeOK
<1>2. x \in Seq(Backends) /\ Len(x) \in Nat \ {0} /\ x[1] = members[i]
  BY <1>1
<1>3. y \in Seq(Backends) /\ Len(y) \in Nat
  BY <1>1
<1>4. Ring(i) = x \o y
  BY DEF Ring
<1>. HIDE DEF x, y, n
<1>5. \A j \in 1 .. Len(x) + Len(y) : (x \o y)[j] = IF j <= Len(x) THEN x[j] ELSE y[j - Len(x)]
  BY <1>2, <1>3, ConcatProperties
<1>6. (x \o y)[1] = x[1]
  <2>1. 1 \in 1 .. Len(x) + Len(y) /\ 1 <= Len(x)
    BY <1>2, <1>3
  <2>. QED BY <1>5, <2>1
<1>. QED BY <1>2, <1>4, <1>6

\* The member the cursor points to has its turn, and the cursor goes on.
LEMMA AcceptTurns ==
  ASSUME Inv, Fair, NEW c \in Conn, Accept(c)
  PROVE  Turns'
<1>1. PICK n \in Nat \ {0} : n = Len(members) /\ DOMAIN members = 1 .. n
  <2>1. members \in Seq(Backends) /\ members # <<>>
    BY DEF Accept, Inv, TypeOK
  <2>. QED BY <2>1
<1>2. PICK p \in 0 .. n - 1 : p = cursor % n
  <2>1. cursor \in Nat
    BY DEF Inv, TypeOK
  <2>. QED BY <2>1, NextPlace
<1>3. /\ members \in Seq(Backends) /\ cursor \in Nat /\ share \in [Backends -> Nat]
      /\ cursor' = cursor + 1 /\ members' = members
  BY DEF Accept, Inv, TypeOK
<1>4. /\ p + 1 \in 1 .. n /\ members[p + 1] \in Backends
      /\ share' = [share EXCEPT ![members[p + 1]] = @ + 1]
  <2>1. p + 1 \in 1 .. n
    BY <1>1, <1>2
  <2>2. members # <<>>
    BY DEF Accept
  <2>3. Ring(p + 1)[1] = members[p + 1]
    BY <1>1, <2>1, <2>2, RingFirst
  <2>4. share' = [share EXCEPT ![Ring(p + 1)[1]] = @ + 1]
    BY <1>1, <1>2 DEF Accept
  <2>5. members[p + 1] \in Backends
    BY <1>1, <1>3, <2>1, Places
  <2>. QED BY <2>1, <2>3, <2>4, <2>5
<1>5. PICK q \in 0 .. n - 1 : q = cursor' % n /\ q = IF p = n - 1 THEN 0 ELSE p + 1
  <2>1. (cursor + 1) % n = IF cursor % n = n - 1 THEN 0 ELSE (cursor % n) + 1
    BY <1>1, <1>3, NextPlace
  <2>2. (IF p = n - 1 THEN 0 ELSE p + 1) \in 0 .. n - 1
    BY <1>1, <1>2
  <2>. QED BY <1>2, <1>3, <2>1, <2>2
<1>6. PICK m \in Nat, r \in 0 .. n - 1 : Rounds(m, r)
  BY <1>1 DEF Accept, Fair, Turns
<1>7. \A i \in 1 .. n : share[members[i]] = IF Passed(i, r, p) THEN m + 1 ELSE m
  BY <1>1, <1>2, <1>6 DEF Rounds
<1>8. \A i \in 1 .. n : share'[members[i]] = IF i = p + 1 THEN share[members[i]] + 1 ELSE share[members[i]]
  <2>. SUFFICES ASSUME NEW i \in 1 .. n
                PROVE  share'[members[i]] = IF i = p + 1 THEN share[members[i]] + 1 ELSE share[members[i]]
    OBVIOUS
  <2>1. members[i] \in Backends
    BY <1>1, <1>3
  <2>2. i # p + 1 => members[i] # members[p + 1]
    BY <1>1, <1>4 DEF Fair, Distinct
  <2>. QED BY <1>3, <1>4, <2>1, <2>2
<1>9. ~Passed(p + 1, r, p)
  BY <1>1, <1>2, <1>6 DEF Passed
\* The round goes on, or it was the last place of it.
<1>10. CASE q # r
  <2>1. ASSUME NEW i \in 1 .. n
        PROVE  Passed(i, r, q) <=> i = p + 1 \/ Passed(i, r, p)
    BY <1>1, <1>2, <1>5, <1>6, <1>10 DEF Passed
  <2>2. \A i \in 1 .. n : share'[members[i]] = IF Passed(i, r, q) THEN m + 1 ELSE m
    BY <1>7, <1>8, <1>9, <2>1
  <2>3. Rounds(m, r)'
    BY <1>1, <1>3, <1>5, <2>2 DEF Rounds
  <2>. QED BY <1>1, <1>3, <2>3 DEF Turns
<1>11. CASE q = r
  <2>1. ASSUME NEW i \in 1 .. n
        PROVE  i = p + 1 \/ Passed(i, r, p)
    BY <1>1, <1>2, <1>5, <1>6, <1>11 DEF Passed
  <2>2. \A i \in 1 .. n : ~Passed(i, r, q)
    BY <1>1, <1>5, <1>6, <1>11 DEF Passed
  <2>3. \A i \in 1 .. n : share'[members[i]] = m + 1
    BY <1>7, <1>8, <1>9, <2>1
  <2>4. Rounds(m + 1, r)'
    BY <1>1, <1>3, <1>5, <2>2, <2>3 DEF Rounds
  <2>5. m + 1 \in Nat
    OBVIOUS
  <2>. QED BY <1>1, <1>3, <2>4, <2>5 DEF Turns
<1>. QED BY <1>10, <1>11

\* The first reading is the load as it is.
LEMMA AcceptFair ==
  ASSUME Inv, Fair, NEW c \in Conn, Accept(c)
  PROVE  Fair'
<1>. DEFINE i == (cursor % Len(members)) + 1
            ring == Ring(i)
<1>1. Distinct'
  BY DEF Accept, Fair, Distinct
<1>2. Compared'
  <2>. SUFFICES ASSUME config.policy = "leastconn" PROVE Compared'
    BY DEF Accept, Compared
  <2>0. i \in 1 .. Len(members)
    <3>1. PICK n \in Nat \ {0} : n = Len(members)
      <4>1. members \in Seq(Backends) /\ members # <<>>
        BY DEF Accept, Inv, TypeOK
      <4>. QED BY <4>1
    <3>2. cursor % n \in 0 .. n - 1
      <4>1. cursor \in Nat
        BY DEF Inv, TypeOK
      <4>. QED BY <4>1, NextPlace
    <3>3. (cursor % n) + 1 \in 1 .. n
      BY <3>1, <3>2
    <3>. QED BY <3>1, <3>3
  <2>1. ring \in Seq(Backends) /\ ring # <<>> /\ ring[1] \in Backends
    BY <2>0, RingType DEF Accept
  <2>2. PICK o \in Seq(Backends) : o = ring
    BY <2>1
  <2>3. /\ pick'.best = o[1] /\ pick'.seen = inflight[o[1]] /\ pick'.rest = Tail(o)
        /\ pick'.before = inflight /\ pick'.ring = o
    BY <2>2 DEF Accept, Leader
  <2>4. inflight' = inflight /\ inflight \in [Backends -> Nat] /\ o[1] \in Backends
    BY <2>1, <2>2 DEF Accept, tokens, Inv, TypeOK
  <2>5. 1 \in DOMAIN o /\ Tail(o) = SubSeq(o, 1 + 1, Len(o))
    BY <2>1, <2>2, TailIsSubSeq
  <2>6. Read(1)'
    BY <2>3, <2>4, <2>5 DEF Read
  <2>. QED BY <2>3, <2>4, <2>5, <2>6 DEF Compared
<1>. QED BY <1>1, <1>2, AcceptTurns DEF Fair

\* Every step keeps the choice fair.
LEMMA StepFair == Inv /\ Inv' /\ Fair /\ [Next]_vars => Fair'
<1>. SUFFICES ASSUME Inv, Inv', Fair, [Next]_vars PROVE Fair' OBVIOUS
<1>0. TypeOK /\ TypeOK'
  BY DEF Inv
<1>1. CASE UNCHANGED vars
  <2>1. UNCHANGED <<config, members, cursor, share, pick, inflight>>
    BY <1>1 DEF vars
  <2>2. \A b \in Backends : inflight'[b] <= inflight[b]
    BY <1>0, <2>1 DEF TypeOK
  <2>. QED BY <1>0, <2>1, <2>2, FairKept
<1>2. ASSUME NEW p \in Proxy, Register(p) \/ Remove(p) PROVE Fair'
  BY <1>2, RegisterFair, RemoveFair
<1>3. ASSUME Compare \/ Hold PROVE Fair'
  BY <1>3, CompareFair, HoldFair
<1>4. ASSUME NEW c \in Conn, Accept(c) PROVE Fair'
  BY <1>4, AcceptFair
<1>5. ASSUME NEW c \in Conn,
             \/ AcceptInVain(c)
             \/ TakeTotal(c) \/ RefuseTotal(c) \/ TakeOwn(c) \/ RefuseOwn(c)
             \/ Submit(c) \/ Served(c) \/ VisitorPaired(c) \/ VisitorFails(c) \/ VhostPaired(c)
             \/ BridgeEnds(c)
      PROVE Fair'
  BY <1>0, <1>5, ConnQuiet, FairKept
<1>. QED BY <1>1, <1>2, <1>3, <1>4, <1>5 DEF Next

\* The choice between backends is fair, for any number of them and whatever
\* joins, leaves and ends in between: by turns nobody is two turns ahead, by
\* load the one picked is no busier than any was at the start (registry.rs
\* 885-917).
THEOREM FairPickHolds == Spec => []FairPick
<1>1. Init => Fair
  BY DEF Init, Fair, Distinct, Turns, Compared
<1>2. Inv /\ Fair => FairPick
  <2>. SUFFICES ASSUME Inv, Fair PROVE EvenShare /\ LeastChosen
    BY DEF FairPick
  <2>1. EvenShare
    <3>. SUFFICES ASSUME NEW i \in DOMAIN members, NEW j \in DOMAIN members
                  PROVE  share[members[i]] <= share[members[j]] + 1
      BY DEF EvenShare
    <3>1. members # <<>>
      OBVIOUS
    <3>2. PICK m \in Nat : \E r \in 0 .. Len(members) - 1 : Rounds(m, r)
      BY <3>1 DEF Fair, Turns
    <3>3. \A k \in DOMAIN members : share[members[k]] \in {m, m + 1}
      BY <3>2 DEF Rounds
    <3>4. share[members[i]] \in {m, m + 1} /\ share[members[j]] \in {m, m + 1}
      BY <3>3
    <3>. QED BY <3>4
  <2>2. LeastChosen
    <3>. SUFFICES ASSUME config.policy = "leastconn", pick # None, pick.rest = <<>>,
                         NEW i \in DOMAIN pick.ring
                  PROVE  inflight[pick.best] <= pick.before[pick.ring[i]]
      BY DEF LeastChosen
    <3>0. /\ pick.ring \in Seq(Backends) /\ pick.best \in Backends /\ pick.seen \in Nat
          /\ pick.before \in [Backends -> Nat] /\ inflight \in [Backends -> Nat]
      BY DEF Inv, TypeOK, Picks
    <3>1. inflight[pick.best] <= pick.seen
      BY DEF Fair, Compared
    <3>2. PICK k \in DOMAIN pick.ring : Read(k)
      BY DEF Fair, Compared
    <3>. DEFINE n == Len(pick.ring)
    <3>3. n \in Nat /\ k \in 1 .. n /\ i \in 1 .. n
      BY <3>0, Places
    <3>4. k = n
      <4>1. k \in 0 .. n
        BY <3>3
      <4>2. Len(SubSeq(pick.ring, k + 1, n)) = n - k
        BY <3>0, <4>1, RestOfList
      <4>3. Len(SubSeq(pick.ring, k + 1, n)) = 0
        BY <3>2 DEF Read
      <4>. QED BY <3>3, <4>2, <4>3
    <3>5. pick.seen <= pick.before[pick.ring[i]]
      BY <3>2, <3>3, <3>4 DEF Read
    <3>6. /\ inflight[pick.best] \in Nat /\ pick.seen \in Nat
          /\ pick.before[pick.ring[i]] \in Nat
      <4>1. pick.ring[i] \in Backends
        BY <3>0
      <4>. QED BY <3>0, <4>1
    <3>7. \A a, b, c \in Nat : a <= b /\ b <= c => a <= c
      OBVIOUS
    <3>. QED BY <3>1, <3>5, <3>6, <3>7
  <2>. QED BY <2>1, <2>2
<1>. QED BY <1>1, <1>2, StepFair, Invariance, PTL DEF Spec
=============================================================================
