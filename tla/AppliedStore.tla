---------------------------- MODULE AppliedStore ----------------------------
(***************************************************************************)
(* What the log relies on in the store behind it: the latest value of      *)
(* every key is what the applied part of the log makes it, that part grows *)
(* by what is applied and is cut by a crash, and a checkpoint fixes it.    *)
(* Nothing here knows of revisions, of an index or of compaction.          *)
(***************************************************************************)
EXTENDS SequencesExt, Naturals

CONSTANTS Key, Absent

VARIABLES
  log,      \* the mutations applied
  durable,  \* how many of them a checkpoint said no crash takes back
  values    \* the latest value of each key

vars == <<log, durable, values>>

(* The last mutation of a key decides its value. *)
ValueAfter(mutations, k) ==
  LET last == SelectLastInSeq(mutations, LAMBDA m : m.key = k)
  IN  IF last = 0 THEN Absent ELSE mutations[last].value

ValuesFollow == values' = [k \in Key |-> ValueAfter(log', k)]

Init ==
  /\ log = <<>> /\ durable = 0
  /\ values = [k \in Key |-> Absent]

Apply ==
  /\ Len(log') > Len(log) /\ IsPrefix(log, log')
  /\ UNCHANGED durable
  /\ ValuesFollow

Checkpoint == durable' = Len(log) /\ UNCHANGED <<log, values>>

Crash ==
  /\ \E n \in durable..Len(log) : log' = SubSeq(log, 1, n)
  /\ UNCHANGED durable
  /\ ValuesFollow

Next == Apply \/ Checkpoint \/ Crash

Spec == Init /\ [][Next]_vars
=============================================================================
