----------------------------- MODULE MCNatHole -----------------------------
(* Three requests of two visitors, behind an easy and a hard NAT, for one   *)
(* provider, which answers from an easy NAT, from a regular hard one, or    *)
(* with something of no use.                                                *)
EXTENDS NatHole

CONSTANTS r1, r2, r3, r4, r5, r6, v1, v2, p1, p2

Visible == [mapped |-> <<<<"9.9.9.9", 20>>, <<"9.9.9.9", 20>>>>, local |-> {}]

VisitorOfRequest == [r \in Request |-> IF r \in {r3} THEN v2 ELSE v1]
ProviderOfRequest == [r \in Request |-> p1]
SeenByVisitor ==
  [r \in Request |->
     IF r = r3 THEN [mapped |-> <<<<"9.9.9.9", 20>>, <<"8.8.8.8", 29>>>>, local |-> {}] ELSE Visible]

At(from, to, own) == [named |-> TRUE, mapped |-> <<<<"7.7.7.7", from>>, <<"7.7.7.7", to>>>>, local |-> own]

MCOffers == {At(30, 30, {}), At(30, 33, {}), [named |-> FALSE, mapped |-> <<>>, local |-> {}]}

(* All three at a table of two; two of them and a visitor that breaks.      *)
MCConfigs ==
  [max : {2}, reserve : {TRUE}, comes : {Request}, ages : {3}, breaks : {{}}]
  \cup [max : {1, 2}, reserve : {TRUE}, comes : {{r1, r2}, {r1, r3}}, ages : {2}, breaks : {{v1}}]

NoReserve == [max : {2}, reserve : {FALSE}, comes : {Request}, ages : {3}, breaks : {{}}]
OneByOne  == [max : {1}, reserve : {TRUE}, comes : {Request}, ages : {0}, breaks : {{}}]

(* A public provider and visitors that are not. *)
PublicOffer == {At(30, 30, {"7.7.7.7"})}

OneVisitor == [r \in Request |-> v1]
AllVisible == [r \in Request |-> Visible]

Alike == Permutations({r1, r2})
AllAlike == Permutations(Request)
=============================================================================
