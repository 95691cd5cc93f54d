------------------------------ MODULE KvCalls -------------------------------
(***************************************************************************)
(* Concurrent callers of one KvStore: range, apply, compact and checkpoint *)
(* split into the steps between which other threads run.  Every call takes *)
(* the lock on the index first (shared for range, exclusive otherwise),    *)
(* then the writer slot of the storage contract, range included.           *)
(*                                                                         *)
(* Every mutation is a put, and a record is known by its revision; what    *)
(* deletions and crashes do is in KvStore.  Each of the calls may fail at  *)
(* its transaction, and then gives back the slot and the lock.             *)
(***************************************************************************)
EXTENDS Engine, FiniteSets, Sequences

CONSTANTS
  UserKey,       \* keys callers write
  MaxBatch,      \* bound: mutations of one apply
  CompactChunk,  \* COMPACT_CHUNK
  MaxCalls,      \* bound: calls in a behaviour
  NoThread       \* nobody

ASSUME CallsAssumption ==
  /\ Key \subseteq Nat /\ IsFiniteSet(Key) /\ NoThread \notin Thread
  /\ {MaxBatch, CompactChunk} \subseteq Nat \ {0} /\ MaxCalls \in Nat

VARIABLES
  readers, writer,   \* the lock: who shares it, who has it alone
  index,             \* revisions the index lists
  current, compacted,
  stage,             \* where each thread is in its call
  call,              \* the call and its local variables
  written,           \* history: the key of every revision the backend took
  acked,             \* history: the last revision a finished apply returned
  failed,            \* history: the highest revision a compaction failed at
  result,            \* what each thread's last range returned
  calls              \* how many calls there were

storeVars == <<readers, writer, index, current, compacted>>
vars == <<engineVars, storeVars, stage, call, written, acked, failed, result, calls>>

Batch == UNION { [1..n -> UserKey] : n \in 1..MaxBatch }

NoCall == [op |-> "none"]
NoResult == [at |-> 0, since |-> 0, found |-> {}, missing |-> {}]

(* Revisions a call names, and one past the newest. *)
Revisions == 0..(Cardinality(Key) + 1)

Latest(revisions, at, k) ==
  { r \in revisions : /\ r <= at /\ written[r] = k
                      /\ \A s \in revisions : s <= at /\ written[s] = k => s <= r }

Visible(revisions, at) == UNION { Latest(revisions, at, k) : k \in UserKey }

CallsTypeOK ==
  /\ EngineTypeOK
  /\ readers \subseteq Thread /\ writer \in Thread \cup {NoThread}
  /\ index \subseteq Key
  /\ current \in 0..Len(written) /\ compacted \in 0..current
  /\ written \in Seq(UserKey) /\ {acked, failed} \subseteq 0..current
  /\ stage \in [Thread -> {"idle", "lock", "begin", "txn", "index", "unlock"}]
  /\ calls \in 0..MaxCalls

Init ==
  /\ EngineInit
  /\ readers = {} /\ writer = NoThread
  /\ index = {} /\ current = 0 /\ compacted = 0
  /\ stage = [t \in Thread |-> "idle"]
  /\ call = [t \in Thread |-> NoCall]
  /\ written = <<>> /\ acked = 0 /\ failed = 0
  /\ result = [t \in Thread |-> NoResult]
  /\ calls = 0

Goes(t, from, to) == stage[t] = from /\ stage' = [stage EXCEPT ![t] = to]

-----------------------------------------------------------------------------
(* Calling, and the lock.                                                  *)

Calls(t, c) ==
  /\ Goes(t, "idle", "lock") /\ calls < MaxCalls
  /\ call' = [call EXCEPT ![t] = c]
  /\ calls' = calls + 1
  /\ UNCHANGED <<engineVars, storeVars, written, acked, failed, result>>

CallRange(t) ==
  \/ Calls(t, [op |-> "range", at |-> {}, since |-> acked])
  \/ \E at \in Revisions : Calls(t, [op |-> "range", at |-> {at}, since |-> 0])

(* Bound: Key has a revision for every mutation, with another batch's. *)
CallApply(t) ==
  \E batch \in Batch :
    /\ Len(written) + Len(batch) <= Cardinality(Key)
    /\ \A u \in Thread : call[u].op = "apply" /\ stage[u] \notin {"index", "unlock"} =>
         Len(written) + Len(call[u].batch) + Len(batch) <= Cardinality(Key)
    /\ Calls(t, [op |-> "apply", batch |-> batch, done |-> 0])

CallCompact(t) == \E at \in Revisions : Calls(t, [op |-> "compact", at |-> at])

CallCheckpoint(t) == Calls(t, [op |-> "checkpoint"])

LockShared(t) == writer = NoThread /\ readers' = readers \cup {t} /\ UNCHANGED writer

(* Mutant: a writer does not wait for readers. *)
LockExclusiveOverReaders(t) ==
  writer = NoThread /\ writer' = t /\ UNCHANGED readers

LockExclusive(t) ==
  /\ writer = NoThread /\ readers = {}
  /\ writer' = t
  /\ UNCHANGED readers

Unlock(t) ==
  /\ Goes(t, "unlock", "idle")
  /\ readers' = readers \ {t}
  /\ writer' = IF writer = t THEN NoThread ELSE writer
  /\ call' = [call EXCEPT ![t] = NoCall]
  /\ UNCHANGED <<engineVars, index, current, compacted, written, acked, failed, result, calls>>

(* Every call opens its transaction once it has the lock. *)
OpenTxn(t) ==
  /\ Goes(t, "begin", "txn") /\ BeginWrite(t)
  /\ UNCHANGED <<storeVars, call, written, acked, failed, result, calls>>

(* A compaction that fails has trimmed the index, leaves records behind,   *)
(* and does not move the compacted revision.                               *)
FailedBy(t) ==
  IF call[t].op = "compact" /\ call[t].at > failed THEN call[t].at ELSE failed

(* The backend gives no transaction. *)
BeginFails(t) ==
  /\ Goes(t, "begin", "unlock")
  /\ failed' = FailedBy(t)
  /\ UNCHANGED <<engineVars, storeVars, call, written, acked, result, calls>>

(* Mutant: a call that fails keeps its transaction. *)
TransactionFailsLeaking(t) ==
  /\ Goes(t, "txn", "unlock")
  /\ failed' = FailedBy(t)
  /\ UNCHANGED <<engineVars, storeVars, call, written, acked, result, calls>>

(* A read, a change or the commit fails: the transaction is dropped. *)
TransactionFails(t) ==
  /\ Goes(t, "txn", "unlock") /\ Abort(t)
  /\ failed' = FailedBy(t)
  /\ UNCHANGED <<storeVars, call, written, acked, result, calls>>

-----------------------------------------------------------------------------
(* range.                                                                  *)

(* No revision asks for the current one. *)
Resolved(at) == IF at = {} THEN current ELSE CHOOSE r \in at : TRUE

Refused(at) == at > current \/ at < compacted

RangeRefused(t) ==
  /\ Goes(t, "lock", "idle") /\ call[t].op = "range"
  /\ writer = NoThread /\ Refused(Resolved(call[t].at))
  /\ call' = [call EXCEPT ![t] = NoCall]
  /\ UNCHANGED <<engineVars, storeVars, written, acked, failed, result, calls>>

(* Mutant: the lock is given back once the index has been read. *)
RangeBeginsUnlocked(t) ==
  /\ Goes(t, "lock", "begin") /\ call[t].op = "range"
  /\ LET at == Resolved(call[t].at) IN
     /\ ~Refused(at)
     /\ call' = [call EXCEPT ![t] = [op |-> "range", at |-> at, since |-> @.since,
                                     visible |-> Visible(index, at)]]
  /\ writer = NoThread
  /\ UNCHANGED <<engineVars, storeVars, written, acked, failed, result, calls>>

RangeBegins(t) ==
  /\ Goes(t, "lock", "begin") /\ call[t].op = "range"
  /\ LET at == Resolved(call[t].at) IN
     /\ ~Refused(at)
     /\ call' = [call EXCEPT ![t] = [op |-> "range", at |-> at, since |-> @.since,
                                     visible |-> Visible(index, at)]]
  /\ LockShared(t)
  /\ UNCHANGED <<engineVars, index, current, compacted, written, acked, failed, result, calls>>

(* Records are read through the transaction, which is then dropped. *)
RangeFetches(t) ==
  /\ Goes(t, "txn", "unlock") /\ call[t].op = "range"
  /\ result' = [result EXCEPT ![t] =
       [at |-> call[t].at, since |-> call[t].since,
        found |-> call[t].visible \cap OwnView(t),
        missing |-> call[t].visible \ OwnView(t)]]
  /\ Abort(t)
  /\ UNCHANGED <<storeVars, call, written, acked, failed, calls>>

-----------------------------------------------------------------------------
(* apply and checkpoint.                                                   *)

WriteBegins(t) ==
  /\ Goes(t, "lock", "begin") /\ call[t].op \in {"apply", "checkpoint"}
  /\ LockExclusive(t)
  /\ UNCHANGED <<engineVars, index, current, compacted, call, written, acked, failed, result, calls>>

(* An apply that finds no revision left, within the bound, can but fail.   *)
ApplyInserts(t) ==
  /\ stage[t] = "txn" /\ call[t].op = "apply" /\ call[t].done < Len(call[t].batch)
  /\ current + call[t].done + 1 \in Key
  /\ InsertKey(t, current + call[t].done + 1)
  /\ call' = [call EXCEPT ![t].done = @ + 1]
  /\ UNCHANGED <<storeVars, stage, written, acked, failed, result, calls>>

ApplyCommits(t) ==
  /\ Goes(t, "txn", "index") /\ call[t].op = "apply"
  /\ call[t].done = Len(call[t].batch)
  /\ Commit(t)
  /\ written' = written \o call[t].batch
  /\ UNCHANGED <<storeVars, call, acked, failed, result, calls>>

(* Mutant: the current revision is moved one too far. *)
ApplyIndexesPast(t) ==
  /\ Goes(t, "index", "unlock") /\ call[t].op = "apply"
  /\ index' = index \cup (current + 1)..(current + call[t].done)
  /\ current' = current + call[t].done + 1
  /\ acked' = current'
  /\ UNCHANGED <<engineVars, readers, writer, compacted, call, written, failed, result, calls>>

ApplyIndexes(t) ==
  /\ Goes(t, "index", "unlock") /\ call[t].op = "apply"
  /\ index' = index \cup (current + 1)..(current + call[t].done)
  /\ current' = current + call[t].done
  /\ acked' = current'
  /\ UNCHANGED <<engineVars, readers, writer, compacted, call, written, failed, result, calls>>

CheckpointCommits(t) ==
  /\ Goes(t, "txn", "unlock") /\ call[t].op = "checkpoint"
  /\ Commit(t)
  /\ UNCHANGED <<storeVars, call, written, acked, failed, result, calls>>

-----------------------------------------------------------------------------
(* compact.                                                                *)

CompactRefused(t) ==
  /\ Goes(t, "lock", "idle") /\ call[t].op = "compact"
  /\ writer = NoThread /\ readers = {} /\ Refused(call[t].at)
  /\ call' = [call EXCEPT ![t] = NoCall]
  /\ UNCHANGED <<engineVars, storeVars, written, acked, failed, result, calls>>

(* The index is trimmed first; the records go chunk by chunk. *)
CompactBegins(t) ==
  LET at == call[t].at
      dropped == { r \in index : r <= at } \ Visible(index, at)
  IN
  /\ call[t].op = "compact" /\ stage[t] = "lock" /\ ~Refused(at)
  /\ Goes(t, "lock", IF dropped = {} THEN "index" ELSE "begin")
  /\ LockExclusive(t)
  /\ index' = index \ dropped
  /\ call' = [call EXCEPT ![t] = [op |-> "compact", at |-> at,
                                  left |-> dropped, removed |-> 0]]
  /\ UNCHANGED <<engineVars, current, compacted, written, acked, failed, result, calls>>

Oldest(revisions) == CHOOSE r \in revisions : \A s \in revisions : r <= s

CompactRemoves(t) ==
  /\ stage[t] = "txn" /\ call[t].op = "compact"
  /\ call[t].left # {} /\ call[t].removed < CompactChunk
  /\ RemoveKey(t, Oldest(call[t].left))
  /\ call' = [call EXCEPT ![t].left = @ \ {Oldest(@)}, ![t].removed = @ + 1]
  /\ UNCHANGED <<storeVars, stage, written, acked, failed, result, calls>>

CompactCommits(t) ==
  /\ call[t].op = "compact" /\ stage[t] = "txn"
  /\ Goes(t, "txn", IF call[t].left = {} THEN "index" ELSE "begin")
  /\ (call[t].left = {} \/ call[t].removed = CompactChunk)
  /\ Commit(t)
  /\ call' = [call EXCEPT ![t].removed = 0]
  /\ UNCHANGED <<storeVars, written, acked, failed, result, calls>>

CompactEnds(t) ==
  /\ Goes(t, "index", "unlock") /\ call[t].op = "compact"
  /\ compacted' = call[t].at
  /\ UNCHANGED <<engineVars, readers, writer, index, current, call, written, acked, failed, result, calls>>

-----------------------------------------------------------------------------

Step(t) ==
  \/ OpenTxn(t) \/ TransactionFails(t) \/ Unlock(t)
  \/ RangeRefused(t) \/ RangeBegins(t) \/ RangeFetches(t)
  \/ WriteBegins(t) \/ ApplyInserts(t) \/ ApplyCommits(t)
  \/ ApplyIndexes(t) \/ CheckpointCommits(t)
  \/ CompactRefused(t) \/ CompactBegins(t) \/ CompactRemoves(t) \/ CompactCommits(t)
  \/ CompactEnds(t)

Next ==
  \E t \in Thread :
    \/ CallRange(t) \/ CallApply(t) \/ CallCompact(t) \/ CallCheckpoint(t)
    \/ BeginFails(t) \/ Step(t)

Spec == Init /\ [][Next]_vars

(* A thread inside a call keeps running.  One that waits for the writer    *)
(* slot is not helped by a backend that refuses it a transaction.          *)
FairSpec == Spec /\ \A t \in Thread : WF_vars(Step(t))

-----------------------------------------------------------------------------
(* Properties.                                                             *)

(* A range finds every record its index promised, and none that a newer    *)
(* one had replaced at its revision, whatever runs beside it; it sees an   *)
(* apply that returned before the call.  It finds all of its revision too, *)
(* unless a failed compaction was at a later one: such a range is not      *)
(* refused, although the index has lost what it should list.               *)
RangesExact ==
  \A t \in Thread :
    LET held == Visible(1..Len(written), result[t].at) IN
    /\ result[t].missing = {} /\ result[t].found \subseteq held
    /\ result[t].at >= failed => result[t].found = held
    /\ result[t].at >= result[t].since

(* What an index without r may answer for it: a newer record of the key,   *)
(* no newer than a compaction that returned, or failed.                    *)
Superseded(r) ==
  \E s \in index : /\ r < s /\ written[s] = written[r]
                   /\ s <= compacted \/ s <= failed

(* Whoever shares the lock finds no batch half in and no compaction half   *)
(* done: every record listed is in the backend, and one that is not listed *)
(* has been superseded; the two tell the same if no compaction failed.     *)
SharedSeesWhole ==
  readers # {} =>
    /\ current = Len(written) /\ index \subseteq committed
    /\ failed = 0 => index = committed
    /\ \A r \in 1..current : r \notin index => Superseded(r)

(* Every call returns: the lock and the writer slot are always taken in    *)
(* that order and given back on every path, the failing ones included.     *)
EveryCallReturns == \A t \in Thread : (stage[t] # "idle") ~> (stage[t] = "idle")
=============================================================================
