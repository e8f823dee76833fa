--------------------------- MODULE MCResumeTokens ---------------------------
(* Connections and sessions for TLC. *)
EXTENDS ResumeTokens, TLC

CONSTANTS c1, c2, c3, c4, s1, s2

\* Connections are interchangeable, and so are sessions.
Symmetry == Permutations(Conn) \cup Permutations(Session)
=============================================================================
