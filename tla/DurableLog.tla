----------------------------- MODULE DurableLog -----------------------------
(***************************************************************************)
(* What the write-ahead log promises its callers: one sequence of          *)
(* mutations that grows by writes still unanswered, loses only writes      *)
(* nobody was told succeeded, and in which an acknowledged mutation keeps  *)
(* its place, its revision, for ever.  Nothing here knows of segments,     *)
(* flushes, batches or the store behind the log.                           *)
(***************************************************************************)
EXTENDS Naturals, Sequences

CONSTANTS Request, Width

VARIABLES
  client,   \* what each caller knows of its write
  reply,    \* the revisions an acknowledged write was told
  log       \* the mutations logged, in order of revision

vars == <<client, reply, log>>

Init ==
  /\ client = [r \in Request |-> "idle"]
  /\ reply = [r \in Request |-> <<>>]
  /\ log = <<>>

Submit(r) ==
  /\ client[r] = "idle"
  /\ client' = [client EXCEPT ![r] = "waiting"]
  /\ UNCHANGED <<reply, log>>

Cancel(r) ==
  /\ client[r] = "waiting"
  /\ client' = [client EXCEPT ![r] = "cancelled"]
  /\ UNCHANGED <<reply, log>>

Logged(rec) == \E k \in 1..Len(log) : log[k] = rec

(* Mutations of unanswered writes join the log, each once. *)
Grow ==
  /\ Len(log') > Len(log)
  /\ SubSeq(log', 1, Len(log)) = log
  /\ \A k \in Len(log) + 1..Len(log') :
       /\ client[log'[k][1]] \in {"waiting", "cancelled"}
       /\ \A j \in 1..(k - 1) : log'[j] # log'[k]
  /\ UNCHANGED <<client, reply>>

(* A log cut to its first n mutations still holds every acknowledged one. *)
KeepsAcked(n) ==
  \A r \in Request : client[r] = "acked" =>
    \A i \in 1..Width[r] : reply[r][i] <= n

Retract ==
  /\ \E n \in 0..Len(log) : KeepsAcked(n) /\ log' = SubSeq(log, 1, n)
  /\ UNCHANGED <<client, reply>>

Acknowledge(r) ==
  /\ client[r] = "waiting"
  /\ client' = [client EXCEPT ![r] = "acked"]
  /\ \E k \in 0..Len(log) :
       /\ k + Width[r] <= Len(log)
       /\ reply' = [reply EXCEPT ![r] = [i \in 1..Width[r] |-> k + i]]
       /\ \A i \in 1..Width[r] : log[k + i] = <<r, i>>
  /\ UNCHANGED log

Refuse(r) ==
  /\ client[r] = "waiting"
  /\ \A i \in 1..Width[r] : ~Logged(<<r, i>>)
  /\ client' = [client EXCEPT ![r] = "refused"]
  /\ UNCHANGED <<reply, log>>

(* A crash: nobody who waits will be told, and the log may lose its tail. *)
Crash ==
  /\ client' = [r \in Request |->
                  IF client[r] = "waiting" THEN "unknown" ELSE client[r]]
  /\ \E n \in 0..Len(log) : KeepsAcked(n) /\ log' = SubSeq(log, 1, n)
  /\ UNCHANGED reply

Next ==
  \/ \E r \in Request :
       Submit(r) \/ Cancel(r) \/ Acknowledge(r) \/ Refuse(r)
  \/ Grow \/ Retract \/ Crash

Spec == Init /\ [][Next]_vars
=============================================================================
