---------------------------- MODULE MCPortGroups ----------------------------
(* One shared port with everything that may meet on it, one exclusive port. *)
EXTENDS PortGroups, TLC

CONSTANTS a1, a2, b1, alice, bob, web1, web2, web3, dns1, solo2, ssh2, ssh3, p80, p22, lb, k

MCUserOf == a1 :> alice @@ a2 :> alice @@ b1 :> bob

Tcp(c, n, g) == [client |-> c, port |-> n, kind |-> "tcp", group |-> g, key |-> k]

\* web1 and web2 share; web3 knows group and key but is of another tenant;
\* dns1 is UDP under the same group; solo2 names no group.
MCConf ==
  web1 :> Tcp(a1, p80, lb) @@ web2 :> Tcp(a2, p80, lb) @@ web3 :> Tcp(b1, p80, lb) @@
  dns1 :> [client |-> a1, port |-> p80, kind |-> "udp", group |-> lb, key |-> k] @@
  solo2 :> Tcp(a2, p80, None) @@
  ssh2 :> Tcp(a2, p22, None) @@ ssh3 :> Tcp(b1, p22, None)
=============================================================================
