---------------------------- MODULE SessionLease ----------------------------
(***************************************************************************)
(* What the server promises about a session and what it claimed in public. *)
(* A session is admitted while fewer than Max of them hold resources, may  *)
(* be parked and resumed any number of times, and ends once.  Claims are   *)
(* made and given up only while it is online, survive parking, and go with *)
(* it when it ends.  Connections, tables, permits and tasks do not appear: *)
(* Sessions implements this specification.                                 *)
(***************************************************************************)
EXTENDS Naturals, FiniteSets

CONSTANTS
  Client,   \* sessions, in the order of nothing
  Proxy,    \* public claims
  Max,      \* sessions that may hold resources at a time
  None

VARIABLES
  state,    \* "absent", "online", "parked" or "gone", for each session
  holder    \* the session that holds a claim

vars == <<state, holder>>

Alive == {c \in Client : state[c] \in {"online", "parked"}}

Init ==
  /\ state  = [c \in Client |-> "absent"]
  /\ holder = [p \in Proxy |-> None]

Admit(c) ==
  /\ state[c] = "absent"
  /\ Cardinality(Alive) < Max
  /\ state' = [state EXCEPT ![c] = "online"]
  /\ UNCHANGED holder

Park(c) ==
  /\ state[c] = "online"
  /\ state' = [state EXCEPT ![c] = "parked"]
  /\ UNCHANGED holder

Resume(c) ==
  /\ state[c] = "parked"
  /\ state' = [state EXCEPT ![c] = "online"]
  /\ UNCHANGED holder

\* One sweep may end several sessions.
End(C) ==
  /\ C # {} /\ C \subseteq Alive
  /\ state'  = [c \in Client |-> IF c \in C THEN "gone" ELSE state[c]]
  /\ holder' = [p \in Proxy |-> IF holder[p] \in C THEN None ELSE holder[p]]

Claim(c, p) ==
  /\ state[c] = "online" /\ holder[p] = None
  /\ holder' = [holder EXCEPT ![p] = c]
  /\ UNCHANGED state

GiveUp(c, p) ==
  /\ state[c] = "online" /\ holder[p] = c
  /\ holder' = [holder EXCEPT ![p] = None]
  /\ UNCHANGED state

Next ==
  \/ \E c \in Client : Admit(c) \/ Park(c) \/ Resume(c)
  \/ \E c \in Client, p \in Proxy : Claim(c, p) \/ GiveUp(c, p)
  \/ \E C \in SUBSET Client : End(C)

Spec == Init /\ [][Next]_vars
=============================================================================
