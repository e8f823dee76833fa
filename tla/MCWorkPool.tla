----------------------------- MODULE MCWorkPool -----------------------------
(* Configurations of the pool for TLC. *)
EXTENDS WorkPool

CONSTANTS u1, u2, u3, w1, w2

Calm(backlog, maxPool, batch, prewarm) ==
  [backlog |-> backlog, maxPool |-> maxPool, batch |-> batch, prewarm |-> prewarm,
   callers |-> {w1}, faults |-> {}]

Faulty(backlog, maxPool, faults) ==
  [Calm(backlog, maxPool, 0, 0) EXCEPT !.faults = faults]

\* Two calls of acquire_work_conn at once.
Both(c) == [c EXCEPT !.callers = {w1, w2}]

\* Unlimited with two calls, alone, with batches or with a reserve; the two
\* together; small limits; everything that goes wrong.
MCConfigs ==
  {Both(Calm(0, 0, 0, 0)), Both(Calm(0, 0, 2, 0)), Both(Calm(0, 0, 0, 1)),
   Calm(0, 0, 2, 1), Calm(2, 1, 2, 1), Calm(1, 0, 0, 1),
   Faulty(1, 2, FaultKinds), Faulty(0, 0, FaultKinds)}

\* Two waiters, an unlimited pool, nothing goes wrong.
MCSteady == {Both(Calm(0, 0, 0, 0))}

\* One place in the queue.
MCOnePlace == {Calm(1, 0, 0, 0)}

\* A client that does not answer.
MCSilent == {Faulty(0, 0, {"silent", "late"})}
=============================================================================
