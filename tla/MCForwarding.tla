---------------------------- MODULE MCForwarding ----------------------------
(* Three connections through the port, one of each kind past it; three      *)
(* backends of two clients.                                                 *)
EXTENDS Forwarding, TLC

CONSTANTS t1, t2, t3, v1, u1, h1, k1, k2, pa, pb, pc

MCKindOf == t1 :> "tcp" @@ t2 :> "tcp" @@ t3 :> "tcp" @@ v1 :> "stcp" @@ u1 :> "sudp" @@ h1 :> "http"
KindOfConn == [c \in Conn |-> MCKindOf[c]]
TargetOfConn == [c \in Conn |-> k1]
MCClientOf == [p \in Proxy |-> IF p = pb THEN k2 ELSE k1]

MCConfigs ==
  [policy : {"roundrobin"}, total : {0}, own : {0}, comes : {{t1, t2, t3}}, again : {2}]
  \cup [policy : {"leastconn"}, total : {0}, own : {0}, comes : {{t1, t2, t3}}, again : {1}]
  \cup [policy : {"leastconn"}, total : {2}, own : {1}, comes : {{t1, t2, v1, u1, h1}}, again : {1}]

Alike == Permutations({t1, t2}) \cup Permutations({pa, pc})
=============================================================================
