----------------------------- MODULE MCSessions -----------------------------
(* Small instances of Sessions for TLC. *)
EXTENDS Sessions, TLC

\* Connections and identities are interchangeable: no operator of Sessions
\* tells them apart, and no CHOOSE ranges over them.
Symmetry == Permutations(Conn) \cup Permutations(Ident)
=============================================================================
