---------------------------- MODULE ServerRelay ----------------------------
(***************************************************************************)
(* Forwarding on the server under a rate limit: bridge (serve.rs), its     *)
(* relay_throttled and copy_throttled (nlink.rs), and the token bucket     *)
(* that all connections of one proxy share (ratelimit.rs).                 *)
(*                                                                         *)
(* A bridge is one task that polls both of its directions: they interleave *)
(* only where the code awaits.  The tasks of different bridges run on      *)
(* different threads, so one may be stopped between reading the clock and  *)
(* taking the lock of the buckets.                                         *)
(*                                                                         *)
(* The unit of time is what the limit's rate takes for one byte, so the    *)
(* rate is 1 and every wait a number of bytes.                             *)
(***************************************************************************)
EXTENDS Integers, FiniteSets

CONSTANTS
  Bridges,   \* connections of one proxy of one user: they share a bucket
  Silent,    \* ends that send nothing: <<bridge, end>>
  Burst,     \* RateLimitRule::burst()
  Sizes,     \* what a read returns: at most one second of the rate, or 16 KiB
  MaxReads,  \* reads in one behaviour
  MaxIdle,   \* ticks in one behaviour that no sleeper waits for
  MaxFaults  \* failures and unprompted closings in one behaviour

ASSUME RelayAssumption ==
  /\ IsFiniteSet(Bridges) /\ Silent \subseteq Bridges \X {"user", "work"}
  /\ Burst \in Nat \ {0} /\ Sizes \subseteq Nat \ {0} 
  /\ MaxReads \in Nat /\ MaxIdle \in Nat /\ MaxFaults \in Nat

Ends == {"user", "work"}
Opposite(e) == IF e = "user" THEN "work" ELSE "user"
Tasks == Bridges \X Ends     \* a direction is named after the end it reads

VARIABLES
  clock,    \* Instant::now()
  bucket,   \* TokenBucket: tokens and last
  copy,     \* each copy_throttled: where it is, its bytes, a point in time, and
            \* how far the grants went with its own (history)
  open,     \* ends that may still send
  shut,     \* ends whose writer was shut down: their peer reads EOF
  granted,  \* bytes the bucket was asked for (history)
  sent,     \* those whose wait is over, numbered in the order of the grants (history)
  rewound,  \* time by which `last` was set back (history)
  dropped,  \* numbers of bytes granted to copies that were cancelled (history)
  reads, idle, faults

counters == <<reads, idle, faults>>
history == <<granted, sent, rewound, dropped>>
ends == <<open, shut>>
vars == <<clock, bucket, copy, ends, history, counters>>

(* Between the clock and the bucket there is no await: the bridge's other  *)
(* direction does not run.                                                 *)
Other(t) == <<t[1], Opposite(t[2])>>
Polled(t) == copy[Other(t)].at # "lock"
Idle(where) == [at |-> where, n |-> 0, time |-> 0, upto |-> 0]
Bytes(t) == (copy[t].upto - copy[t].n + 1) .. copy[t].upto
Waiting == UNION {Bytes(t) : t \in {u \in Tasks : copy[u].at = "sleep"}}

-----------------------------------------------------------------------------
(* TokenBucket::take.                                                      *)

Saturating(x) == IF x > 0 THEN x ELSE 0

Elapsed(now) == Saturating(now - bucket.last)

Refilled(now) ==
  LET sum == bucket.tokens + Elapsed(now) IN IF sum <= Burst THEN sum ELSE Burst

WaitSigned(n, now) == n - Refilled(now)
WaitCut(n, now) == IF Saturating(n - Refilled(now)) <= Burst THEN Saturating(n - Refilled(now)) ELSE Burst
Wait(n, now) == Saturating(n - Refilled(now))

LeftWithoutRefill(n, now) == IF Refilled(now) >= n THEN Refilled(now) - n ELSE bucket.tokens - n
Left(n, now) == Refilled(now) - n

-----------------------------------------------------------------------------
Init ==
  /\ clock = 0
  /\ bucket = [tokens |-> Burst, last |-> 0]
  /\ copy = [t \in Tasks |-> Idle("read")]
  /\ open = Tasks /\ shut = {}
  /\ granted = 0 /\ sent = {} /\ rewound = 0 /\ dropped = {}
  /\ reads = 0 /\ idle = 0 /\ faults = 0

Tick ==
  /\ clock' = clock + 1
  /\ IF \E t \in Tasks : copy[t].at = "sleep" /\ copy[t].time > clock
     THEN UNCHANGED idle
     ELSE idle < MaxIdle /\ idle' = idle + 1
  /\ UNCHANGED <<bucket, copy, ends, history, reads, faults>>

(* A read returns n bytes, and acquire reads the clock.                    *)
Read(t) ==
  /\ copy[t].at = "read" /\ Polled(t)
  /\ t \in open \ Silent /\ reads < MaxReads
  /\ \E n \in Sizes :
       copy' = [copy EXCEPT ![t] = [at |-> "lock", n |-> n, time |-> clock, upto |-> 0]]
  /\ reads' = reads + 1
  /\ UNCHANGED <<clock, bucket, ends, history, idle, faults>>

(* acquire_at under the lock, and the start of the sleep, if there is one. *)
Take(t) ==
  LET n == copy[t].n
      now == copy[t].time
  IN  /\ copy[t].at = "lock"
      /\ bucket' = [tokens |-> Left(n, now), last |-> now]
      /\ copy' = [copy EXCEPT ![t] =
                    [at |-> "sleep", n |-> n, time |-> clock + Wait(n, now), upto |-> granted + n]]
      /\ granted' = granted + n
      /\ rewound' = rewound + Saturating(bucket.last - now)
      /\ UNCHANGED <<clock, ends, sent, dropped, counters>>

(* The wait is over and the bytes are written.                             *)
Write(t) ==
  /\ copy[t].at = "sleep" /\ copy[t].time <= clock /\ Polled(t)
  /\ copy' = [copy EXCEPT ![t] = Idle("read")]
  /\ sent' = sent \cup Bytes(t)
  /\ UNCHANGED <<clock, bucket, ends, granted, rewound, dropped, counters>>

(* The end has closed its direction: the writer is shut down.              *)
EofForgetsShutdown(t) ==
  /\ copy[t].at = "read" /\ Polled(t)
  /\ t \notin open
  /\ copy' = [copy EXCEPT ![t] = Idle("done")]
  /\ UNCHANGED <<clock, bucket, ends, history, counters>>

Eof(t) ==
  /\ copy[t].at = "read" /\ Polled(t)
  /\ t \notin open
  /\ copy' = [copy EXCEPT ![t] = Idle("done")]
  /\ shut' = shut \cup {Other(t)}
  /\ UNCHANGED <<clock, bucket, open, history, counters>>

(* A read or a write fails: try_join! returns and drops the other copy,    *)
(* with what it was waiting to write.                                      *)
Fail(t) ==
  /\ copy[t].at = "read" \/ (copy[t].at = "sleep" /\ copy[t].time <= clock)
  /\ Polled(t)
  /\ copy' = [u \in Tasks |-> IF u[1] = t[1] THEN Idle("done") ELSE copy[u]]
  /\ dropped' = dropped \cup Bytes(t) \cup Bytes(Other(t))
  /\ faults < MaxFaults /\ faults' = faults + 1
  /\ UNCHANGED <<clock, bucket, ends, granted, sent, rewound, reads, idle>>

(* The program at an end closes its side: when it has read EOF, or by      *)
(* itself.                                                                 *)
CloseEnd(t) ==
  /\ t \in open /\ \E e \in Ends : copy[<<t[1], e>>].at # "done"
  /\ \/ t \in shut /\ UNCHANGED faults
     \/ t \notin shut /\ faults < MaxFaults /\ faults' = faults + 1
  /\ open' = open \ {t}
  /\ UNCHANGED <<clock, bucket, copy, shut, history, reads, idle>>

Next ==
  \/ Tick
  \/ \E t \in Tasks :
       Read(t) \/ Take(t) \/ Write(t) \/ Eof(t) \/ Fail(t) \/ CloseEnd(t)

(* The runtime polls tasks and timers; a program that reads EOF closes.    *)
Fairness ==
  /\ WF_vars(Tick)
  /\ \A t \in Tasks :
       /\ WF_vars(Take(t)) /\ WF_vars(Write(t)) /\ WF_vars(Eof(t))
       /\ WF_vars(t \in shut /\ CloseEnd(t))

Spec == Init /\ [][Next]_vars /\ Fairness

-----------------------------------------------------------------------------
(* Every variable keeps its type; the bucket never holds more than the     *)
(* burst, and reads the clock's past only (ratelimit.rs 88-92).            *)
TypeOK ==
  /\ clock \in Nat
  /\ bucket \in [tokens : Int, last : Nat]
  /\ bucket.tokens <= Burst /\ bucket.last <= clock
  /\ copy \in [Tasks -> [at : {"read", "lock", "sleep", "done"},
                         n : Nat, time : Nat, upto : Nat]]
  /\ open \subseteq Tasks /\ shut \subseteq Tasks
  /\ granted \in Nat /\ sent \subseteq 1 .. granted
  /\ rewound \in Nat /\ dropped \subseteq 1 .. granted
  /\ reads \in 0 .. MaxReads /\ idle \in 0 .. MaxIdle /\ faults \in 0 .. MaxFaults

(* All connections of the proxy together never get more through than the   *)
(* burst and the rate times the time passed, but for the time that late    *)
(* readings of the clock made the bucket count twice: the debt of a large  *)
(* read is kept in full (ratelimit.rs 97-99), and both directions of all   *)
(* connections pay from one bucket (nlink.rs 298-300).                     *)
Throughput == Cardinality(sent) <= Burst + clock + rewound

(* Nobody waits for more than the bytes that copies are holding now: what  *)
(* the bucket owes at this moment, refilled up to now, is covered by the   *)
(* reads that wait, and by those that were cancelled with their bridge.    *)
DebtHeld ==
  0 - (bucket.tokens + (clock - bucket.last)) <= Cardinality(Waiting) + Cardinality(dropped)

(* When one end of a connection has closed, its bridge ends and gives the  *)
(* work connection back, however long its copies wait for the bucket       *)
(* (nlink.rs 302-311).                                                     *)
HalfCloseEnds ==
  \A b \in Bridges :
    (\E e \in Ends : <<b, e>> \notin open) ~> (\A e \in Ends : copy[<<b, e>>].at = "done")
=============================================================================
