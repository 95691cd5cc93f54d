---------------------------- MODULE KvCallsProofs ----------------------------
(***************************************************************************)
(* Proofs about concurrent callers of one store: every range returns what  *)
(* its revision held, and whoever shares the lock finds index and backend  *)
(* telling the same, for any number of threads, calls, keys and mutations. *)
(***************************************************************************)
EXTENDS KvCalls, FiniteSetTheorems, WellFoundedInduction, TLAPS

-----------------------------------------------------------------------------
(* The inductive invariant.                                                *)

(* The stages in which a call has the lock. *)
Locked == {"begin", "txn", "index", "unlock"}

(* A call before it has the lock, and after. *)
RangeAsked == [op : {"range"}, at : {{}} \cup { {r} : r \in Nat }, since : Nat]
CompactAsked == [op : {"compact"}, at : Nat]
RangeCall == [op : {"range"}, at : Nat, since : Nat, visible : SUBSET Key]
ApplyCall == [op : {"apply"}, batch : Seq(UserKey), done : Nat]
CompactCall == [op : {"compact"}, at : Nat, left : SUBSET Key, removed : Nat]
CheckpointCall == [op : {"checkpoint"}]

CallInv ==
  /\ DOMAIN call = Thread
  /\ \A t \in Thread :
       /\ stage[t] = "idle" => call[t] = NoCall
       /\ stage[t] = "lock" =>
            /\ call[t] \in RangeAsked \cup ApplyCall \cup CompactAsked \cup CheckpointCall
            /\ call[t].op = "apply" => call[t].done = 0
       /\ stage[t] \in Locked =>
            call[t] \in RangeCall \cup ApplyCall \cup CompactCall \cup CheckpointCall
       /\ stage[t] = "index" => call[t].op \in {"apply", "compact"}

(* Ranges share the lock, the other calls have it alone. *)
LockInv ==
  /\ \A t \in Thread : t \in readers <=> stage[t] \in Locked /\ call[t].op = "range"
  /\ \A t \in Thread : t = writer <=> stage[t] \in Locked /\ call[t].op # "range"
  /\ writer # NoThread => readers = {}

(* A call has a transaction open in one stage, and nothing has changed in  *)
(* it but what an apply inserted or a compaction removed.                  *)
TxnInv ==
  \A t \in Thread :
    /\ txn[t] = IF stage[t] = "txn" THEN "write" ELSE "none"
    /\ stage[t] # "txn" \/ call[t].op \in {"range", "checkpoint"} => buffer[t] = Untouched
    /\ stage[t] = "txn" /\ call[t].op = "apply" =>
         buffer[t] = [k \in Key |-> IF k \in current + 1..current + call[t].done
                                    THEN "put" ELSE "kept"]
    /\ stage[t] = "txn" /\ call[t].op = "compact" =>
         \A k \in Key : buffer[t][k] # "put"

(* What the holder of the lock has still to do. *)
Whole ==
  /\ current = Len(written) /\ index \subseteq committed
  /\ failed = 0 => index = committed

WholeInv ==
  /\ writer = NoThread => Whole
  /\ \A t \in Thread : stage[t] \in Locked =>
       /\ call[t].op = "checkpoint" => Whole
       /\ call[t].op = "apply" =>
            /\ call[t].done <= Len(call[t].batch)
            /\ stage[t] # "unlock" => current + 1..current + call[t].done \subseteq Key
            /\ stage[t] = "begin" => call[t].done = 0
            /\ stage[t] # "index" => Whole
            /\ stage[t] = "index" =>
                 /\ index \cup current + 1..current + call[t].done \subseteq committed
                 /\ failed = 0 =>
                      committed = index \cup current + 1..current + call[t].done
                 /\ Len(written) = current + call[t].done
       /\ call[t].op = "compact" =>
            /\ current = Len(written)
            /\ compacted <= call[t].at /\ call[t].at <= current
            /\ stage[t] # "unlock" =>
                 /\ index \cup call[t].left \subseteq OwnView(t)
                 /\ index \cap call[t].left = {}
                 /\ failed = 0 => OwnView(t) = index \cup call[t].left
            /\ stage[t] \in {"begin", "txn"} => call[t].at > 0
            /\ stage[t] = "index" => call[t].left = {}
            /\ stage[t] = "unlock" => Whole /\ (call[t].at <= compacted \/ call[t].at <= failed)

(* A compaction up to this revision has trimmed the index, whether or not  *)
(* it then returned, or is trimming.                                       *)
Trimmed(s) ==
  \/ s <= compacted \/ s <= failed
  \/ \E t \in Thread : stage[t] \in Locked /\ call[t].op = "compact" /\ s <= call[t].at

(* What the index does not list has been superseded by what it lists, and  *)
(* nothing it lists by what it does not.                                   *)
IndexInv ==
  /\ index \subseteq 1..current
  /\ \A r \in 1..current : r \notin index =>
       \E s \in index : r < s /\ written[s] = written[r] /\ Trimmed(s)
  /\ \A r \in index, s \in 1..current : r < s /\ written[s] = written[r] => s \in index

(* The newest revision of each key at or below "at", among those of S.     *)
Seen(S, w, at) ==
  { r \in S : r <= at /\ \A s \in S : s <= at /\ w[s] = w[r] => s <= r }

(* What a range has read of the index, and what ranges returned.           *)
RangeInv ==
  \A t \in Thread :
    /\ stage[t] = "lock" /\ call[t].op = "range" =>
         /\ call[t].since <= acked
         /\ call[t].at # {} => call[t].since = 0
    /\ stage[t] \in Locked /\ call[t].op = "range" =>
         /\ compacted <= call[t].at /\ call[t].at <= current
         /\ call[t].since <= call[t].at
         /\ call[t].visible = Seen(index, written, call[t].at)

ResultInv ==
  /\ DOMAIN result = Thread
  /\ \A t \in Thread :
       /\ result[t].at \in Nat /\ result[t].at <= Len(written)
       /\ result[t].since \in Nat /\ result[t].since <= result[t].at
       /\ result[t].missing = {}
       /\ result[t].found \subseteq Seen(1..Len(written), written, result[t].at)
       /\ result[t].at >= failed =>
            result[t].found = Seen(1..Len(written), written, result[t].at)

CallsInv ==
  /\ CallsTypeOK
  /\ CallInv
  /\ LockInv
  /\ TxnInv
  /\ WholeInv
  /\ IndexInv
  /\ RangeInv
  /\ ResultInv
-----------------------------------------------------------------------------
(* Lemmas about ranges, transactions and the lock.                         *)

(* A nonempty set of numbers below a bound has a greatest one.             *)
LEMMA Greatest ==
  ASSUME NEW S \in SUBSET Nat, S # {}, NEW n \in Nat, \A s \in S : s <= n
  PROVE  \E g \in S : \A s \in S : s <= g
<1> DEFINE R == { p \in Nat \X Nat : p[1] < p[2] }
           T == { n - s : s \in S }
<1>1. IsWellFoundedOn(R, Nat)
  BY NatLessThanWellFounded, Zenon DEF OpToRel
<1>2. T \in SUBSET Nat /\ T # {}
  <2>1. \A s \in S : n - s \in Nat
    OBVIOUS
  <2> QED
    BY <2>1
<1>3. PICK x \in T : \A y \in T : <<y, x>> \notin R
  BY <1>1, <1>2, WFMin
<1>4. \A y \in T : x <= y
  <2> SUFFICES ASSUME NEW y \in T, y < x PROVE FALSE
    BY <1>2
  <2>1. <<y, x>> \in R
    BY <1>2
  <2> QED
    BY <1>3, <2>1
<1>5. PICK g \in S : x = n - g
  OBVIOUS
<1> HIDE DEF R
<1>6. \A s \in S : n - g <= n - s
  BY <1>4, <1>5
<1> QED
  BY <1>6

(* The oldest of some revisions is one of them.                            *)
LEMMA OldestIsOne ==
  ASSUME NEW S \in SUBSET Nat, S # {}
  PROVE  Oldest(S) \in S
<1> DEFINE R == { p \in Nat \X Nat : p[1] < p[2] }
<1>1. IsWellFoundedOn(R, Nat)
  BY NatLessThanWellFounded, Zenon DEF OpToRel
<1>2. PICK x \in S : \A y \in S : <<y, x>> \notin R
  BY <1>1, WFMin
<1>3. \A y \in S : x <= y
  <2> SUFFICES ASSUME NEW y \in S, y < x PROVE FALSE
    OBVIOUS
  <2>1. <<y, x>> \in R
    OBVIOUS
  <2> QED
    BY <1>2, <2>1
<1> QED
  BY <1>3 DEF Oldest

(* What a range sees, without reference to the keys callers write.         *)
LEMMA VisibleIsSeen ==
  ASSUME written \in Seq(UserKey), NEW S \in SUBSET (1..Len(written)), NEW at
  PROVE  Visible(S, at) = Seen(S, written, at)
<1>1. \A s \in S : written[s] \in UserKey
  OBVIOUS
<1>2. ASSUME NEW r \in Visible(S, at) PROVE r \in Seen(S, written, at)
  BY DEF Visible, Latest, Seen
<1>3. ASSUME NEW r \in Seen(S, written, at) PROVE r \in Visible(S, at)
  <2>1. r \in Latest(S, at, written[r]) /\ written[r] \in UserKey
    BY <1>1 DEF Latest, Seen
  <2> QED
    BY <2>1 DEF Visible
<1> QED
  BY <1>2, <1>3

(* Revisions written later change nothing for a range.                     *)
LEMMA SeenStays ==
  ASSUME NEW m \in Nat, NEW n \in Nat, m <= n, NEW v, NEW w,
         \A r \in 1..m : w[r] = v[r], NEW at \in Nat, at <= m
  PROVE  Seen(1..n, w, at) = Seen(1..m, v, at)
<1>1. \A r \in 1..n : r <= at => r \in 1..m
  OBVIOUS
<1>2. \A r \in 1..m : r \in 1..n
  OBVIOUS
<1> QED
  BY <1>1, <1>2 DEF Seen

(* The record of a call, by its kind and whether it has the lock.          *)
LEMMA CallParts ==
  ASSUME CallsInv, NEW t \in Thread
  PROVE  /\ stage[t] = "lock" =>
              /\ call[t].op \in {"range", "apply", "compact", "checkpoint"}
              /\ call[t].op = "range" => call[t] \in RangeAsked /\ call[t].since \in Nat
              /\ call[t].op = "compact" => call[t] \in CompactAsked /\ call[t].at \in Nat
         /\ stage[t] \in Locked =>
              /\ call[t].op \in {"range", "apply", "compact", "checkpoint"}
              /\ call[t].op = "range" =>
                   /\ call[t] \in RangeCall
                   /\ call[t].at \in Nat /\ call[t].since \in Nat
              /\ call[t].op = "compact" =>
                   /\ call[t] \in CompactCall
                   /\ call[t].at \in Nat /\ call[t].left \subseteq Key
                   /\ call[t].removed \in Nat
         /\ stage[t] \in Locked \cup {"lock"} /\ call[t].op = "apply" =>
              /\ call[t] \in ApplyCall
              /\ call[t].batch \in Seq(UserKey) /\ call[t].done \in Nat
<1>1. CASE stage[t] = "lock"
  BY <1>1 DEF CallsInv, CallInv, Locked, RangeAsked, CompactAsked, ApplyCall, CheckpointCall
<1>2. CASE stage[t] \in Locked
  BY <1>2 DEF CallsInv, CallInv, Locked, RangeCall, CompactCall, ApplyCall, CheckpointCall
<1> QED
  BY <1>1, <1>2 DEF Locked

(* What a range reads of the index nothing newer had replaced.             *)
LEMMA IndexIsNew ==
  ASSUME CallsInv, current = Len(written), NEW at \in Nat
  PROVE  Seen(index, written, at) \subseteq Seen(1..Len(written), written, at)
<1>1. index \subseteq 1..Len(written) /\ Len(written) \in Nat
  BY DEF CallsInv, IndexInv, CallsTypeOK
<1>2. ASSUME NEW r \in index, NEW s \in 1..Len(written), r < s, written[s] = written[r]
      PROVE  s \in index
  BY <1>2 DEF CallsInv, IndexInv
<1>3. SUFFICES ASSUME NEW r \in Seen(index, written, at), NEW s \in 1..Len(written),
                      s <= at, written[s] = written[r]
               PROVE  s <= r
  BY <1>1 DEF Seen
<1>4. r \in index /\ r \in Nat /\ s \in Nat
  BY <1>1 DEF Seen
<1>5. CASE r < s
  <2>1. s \in index
    BY <1>2, <1>3, <1>4, <1>5
  <2> QED
    BY <1>3, <2>1 DEF Seen
<1> QED
  BY <1>4, <1>5

(* What the index lists is what a range needs that is no older than any    *)
(* compaction that trimmed it.                                             *)
LEMMA IndexSuffices ==
  ASSUME CallsInv, current = Len(written), NEW at \in Nat, at <= current,
         \A s \in index : Trimmed(s) => s <= at
  PROVE  Seen(index, written, at) = Seen(1..Len(written), written, at)
<1>1. /\ index \subseteq 1..Len(written) /\ Len(written) \in Nat
  BY DEF CallsInv, IndexInv, CallsTypeOK
<1>2. ASSUME NEW r \in 1..Len(written), r \notin index
      PROVE  \E s \in index : s \in Nat /\ r < s /\ s <= at /\ written[s] = written[r]
  BY <1>1, <1>2 DEF CallsInv, IndexInv
<1>3. ASSUME NEW r \in Seen(1..Len(written), written, at)
      PROVE  r \in Seen(index, written, at)
  BY <1>1, <1>2 DEF Seen
<1>4. ASSUME NEW r \in Seen(index, written, at)
      PROVE  r \in Seen(1..Len(written), written, at)
  <2>1. r \in 1..Len(written) /\ r <= at
    BY <1>1 DEF Seen
  <2>2. ASSUME NEW s \in 1..Len(written), s <= at, written[s] = written[r]
        PROVE  s <= r
    <3>1. CASE s \in index
      BY <2>2, <3>1 DEF Seen
    <3>2. CASE s \notin index
      <4>1. PICK q \in index : q \in Nat /\ s < q /\ q <= at /\ written[q] = written[s]
        BY <1>2, <3>2
      <4>2. q <= r
        BY <2>2, <4>1 DEF Seen
      <4> QED
        BY <2>1, <4>1, <4>2
    <3> QED
      BY <3>1, <3>2
  <2> QED
    BY <2>1, <2>2 DEF Seen
<1> QED
  BY <1>3, <1>4

(* A transaction that changed nothing sees, and commits, the last commit.  *)
LEMMA AppliedNothing == \A c \in SUBSET Key : Applied(c, Untouched) = c
BY DEF Applied, Untouched

LEMMA ViewType == \A t \in Thread : OwnView(t) \subseteq Key
BY DEF OwnView, Applied

(* Who has the lock, has it alone unless all who have it are ranges.       *)
LEMMA HasAlone ==
  ASSUME CallsInv, NEW t \in Thread, stage[t] \in Locked, call[t].op # "range"
  PROVE  /\ writer = t /\ readers = {} /\ writer # NoThread
         /\ \A u \in Thread : stage[u] \in Locked => u = t
BY CallsAssumption DEF CallsInv, LockInv

LEMMA HasShared ==
  ASSUME CallsInv, NEW t \in Thread, stage[t] \in Locked, call[t].op = "range"
  PROVE  /\ t \in readers /\ writer = NoThread
         /\ \A u \in Thread : stage[u] \in Locked => call[u].op = "range"
BY CallsAssumption DEF CallsInv, LockInv, CallsTypeOK

(* What a step leaves of the invariant, by the parts it leaves alone.      *)
LEMMA IndexKept ==
  ASSUME CallsInv, UNCHANGED <<index, current>>,
         \A r \in 1..current : written'[r] = written[r],
         \A s \in index : Trimmed(s) => Trimmed(s)'
  PROVE  IndexInv'
BY DEF CallsInv, IndexInv

LEMMA TxnKept ==
  ASSUME CallsInv, NEW t \in Thread, UNCHANGED <<txn, buffer, current>>,
         stage[t] # "txn", stage'[t] # "txn",
         \A u \in Thread : u # t => stage'[u] = stage[u] /\ call'[u] = call[u]
  PROVE  TxnInv'
<1>1. TxnInv
  BY DEF CallsInv
<1>2. txn[t] = "none" /\ buffer[t] = Untouched
  BY <1>1 DEF TxnInv
<1> QED
  BY <1>1, <1>2 DEF TxnInv

LEMMA TxnClosed ==
  ASSUME CallsInv, NEW t \in Thread, current' = current,
         txn' = [txn EXCEPT ![t] = "none"], buffer' = [buffer EXCEPT ![t] = Untouched],
         stage'[t] # "txn",
         \A u \in Thread : u # t => stage'[u] = stage[u] /\ call'[u] = call[u]
  PROVE  TxnInv'
<1>1. TxnInv
  BY DEF CallsInv
<1>2. /\ txn'[t] = "none" /\ buffer'[t] = Untouched
      /\ \A u \in Thread : u # t => txn'[u] = txn[u] /\ buffer'[u] = buffer[u]
  BY DEF CallsInv, CallsTypeOK, EngineTypeOK
<1>3. ASSUME NEW u \in Thread, u # t
      PROVE  /\ stage'[u] = stage[u] /\ call'[u] = call[u] /\ txn'[u] = txn[u]
             /\ buffer'[u] = buffer[u] /\ current' = current
  BY <1>2, <1>3
<1> QED
  BY <1>1, <1>2, <1>3 DEF TxnInv

LEMMA ResultKept ==
  ASSUME CallsInv, UNCHANGED <<result, written, failed>>
  PROVE  ResultInv'
BY DEF CallsInv, ResultInv

LEMMA RangeKept ==
  ASSUME CallsInv, UNCHANGED <<index, current, compacted, written>>,
         acked' \in Nat, acked' >= acked,
         \A t \in Thread : stage'[t] \in Locked /\ call'[t].op = "range" =>
           stage[t] \in Locked /\ call'[t] = call[t],
         \A t \in Thread : stage'[t] = "lock" => stage[t] = "lock" /\ call'[t] = call[t]
  PROVE  RangeInv'
<1>1. ASSUME NEW t \in Thread, stage[t] = "lock", call[t].op = "range"
      PROVE  /\ call[t].since <= acked'
             /\ call[t].at # {} => call[t].since = 0
  <2>1. call[t].since \in Nat
    BY <1>1, CallParts
  <2>2. call[t].since <= acked /\ (call[t].at # {} => call[t].since = 0)
    BY <1>1 DEF CallsInv, RangeInv
  <2> QED
    BY <2>1, <2>2 DEF CallsInv, CallsTypeOK
<1>2. ASSUME NEW t \in Thread, stage[t] \in Locked, call[t].op = "range"
      PROVE  /\ compacted <= call[t].at /\ call[t].at <= current
             /\ call[t].since <= call[t].at
             /\ call[t].visible = Seen(index, written, call[t].at)
  BY <1>2 DEF CallsInv, RangeInv
<1> QED
  BY <1>1, <1>2 DEF RangeInv

-----------------------------------------------------------------------------
(* Every step keeps the invariant.                                         *)

(* A call begins, without the lock.                                        *)
LEMMA CallStep ==
  ASSUME CallsInv, NEW t \in Thread,
         CallRange(t) \/ CallApply(t) \/ CallCompact(t) \/ CallCheckpoint(t)
  PROVE  CallsInv'
<1>1. ASSUME NEW c, Calls(t, c),
             c \in RangeAsked \cup ApplyCall \cup CompactAsked \cup CheckpointCall,
             c.op = "apply" => c.done = 0,
             c.op = "range" => c.since <= acked /\ (c.at # {} => c.since = 0)
      PROVE  CallsInv'
  <2>1. /\ stage[t] = "idle" /\ stage' = [stage EXCEPT ![t] = "lock"]
        /\ call' = [call EXCEPT ![t] = c]
        /\ calls < MaxCalls /\ calls' = calls + 1
        /\ UNCHANGED <<engineVars, storeVars, written, acked, failed, result>>
    BY <1>1 DEF Calls, Goes
  <2>2. /\ stage'[t] = "lock" /\ call'[t] = c
        /\ \A u \in Thread : u # t => stage'[u] = stage[u] /\ call'[u] = call[u]
        /\ \A u \in Thread : stage'[u] \in Locked <=> stage[u] \in Locked
        /\ \A u \in Thread : stage'[u] \in Locked => call'[u] = call[u]
    BY <2>1 DEF CallsInv, CallsTypeOK, CallInv, Locked
  <2>3. CallsTypeOK'
    BY <2>1, CallsAssumption DEF CallsInv, CallsTypeOK, EngineTypeOK, engineVars, storeVars
  <2>4. CallInv'
    BY <1>1, <2>1, <2>2 DEF CallsInv, CallsTypeOK, CallInv, Locked
  <2>5. LockInv'
    BY <2>1, <2>2 DEF CallsInv, LockInv, storeVars
  <2>6. TxnInv'
    BY <2>1, <2>2, TxnKept DEF storeVars, engineVars
  <2>7. WholeInv'
    BY <2>1, <2>2 DEF CallsInv, WholeInv, Whole, OwnView, storeVars, engineVars, Locked
  <2>8. IndexInv'
    BY <2>1, <2>2, IndexKept DEF Trimmed, storeVars
  <2>9. RangeInv'
    <3>1. ASSUME NEW u \in Thread, stage'[u] = "lock", call'[u].op = "range"
          PROVE  call'[u].since <= acked' /\ (call'[u].at # {} => call'[u].since = 0)
      BY <1>1, <2>1, <2>2, <3>1 DEF CallsInv, RangeInv
    <3>2. ASSUME NEW u \in Thread, stage'[u] \in Locked, call'[u].op = "range"
          PROVE  /\ compacted' <= call'[u].at /\ call'[u].at <= current'
                 /\ call'[u].since <= call'[u].at
                 /\ call'[u].visible = Seen(index', written', call'[u].at)
      BY <2>1, <2>2, <3>2 DEF CallsInv, RangeInv, storeVars
    <3> QED
      BY <3>1, <3>2 DEF RangeInv
  <2>10. ResultInv'
    BY <2>1, ResultKept
  <2> QED
    BY <2>3, <2>4, <2>5, <2>6, <2>7, <2>8, <2>9, <2>10 DEF CallsInv
<1>2. acked \in Nat /\ Revisions \subseteq Nat
  <2>1. Cardinality(Key) \in Nat
    BY FS_CardinalityType, CallsAssumption
  <2> QED
    BY <2>1 DEF CallsInv, CallsTypeOK, Revisions
<1>3. CASE CallRange(t)
  <2>1. CASE Calls(t, [op |-> "range", at |-> {}, since |-> acked])
    BY <1>1, <1>2, <2>1 DEF RangeAsked
  <2>2. ASSUME NEW at \in Revisions, Calls(t, [op |-> "range", at |-> {at}, since |-> 0])
        PROVE  CallsInv'
    BY <1>1, <1>2, <2>2 DEF RangeAsked
  <2> QED
    BY <1>3, <2>1, <2>2 DEF CallRange
<1>4. CASE CallApply(t)
  <2>1. PICK batch \in Batch : Calls(t, [op |-> "apply", batch |-> batch, done |-> 0])
    BY <1>4 DEF CallApply
  <2>2. batch \in Seq(UserKey)
    <3>1. PICK n \in 1..MaxBatch : batch \in [1..n -> UserKey]
      BY DEF Batch
    <3> QED
      BY <3>1, CallsAssumption
  <2> QED
    BY <1>1, <2>1, <2>2 DEF ApplyCall
<1>5. CASE CallCompact(t)
  <2>1. PICK at \in Revisions : Calls(t, [op |-> "compact", at |-> at])
    BY <1>5 DEF CallCompact
  <2> QED
    BY <1>1, <1>2, <2>1 DEF CompactAsked
<1>6. CASE CallCheckpoint(t)
  BY <1>1, <1>6 DEF CallCheckpoint, CheckpointCall
<1> QED
  BY <1>3, <1>4, <1>5, <1>6

(* A call that is refused returns without having taken the lock.           *)
LEMMA RefusedStep ==
  ASSUME CallsInv, NEW t \in Thread, RangeRefused(t) \/ CompactRefused(t)
  PROVE  CallsInv'
<1>1. /\ stage[t] = "lock" /\ stage' = [stage EXCEPT ![t] = "idle"]
      /\ call' = [call EXCEPT ![t] = NoCall]
      /\ UNCHANGED <<engineVars, storeVars, written, acked, failed, result, calls>>
  BY DEF RangeRefused, CompactRefused, Goes
<1>2. /\ stage'[t] = "idle" /\ call'[t] = NoCall
      /\ \A u \in Thread : u # t => stage'[u] = stage[u] /\ call'[u] = call[u]
      /\ \A u \in Thread : stage'[u] \in Locked <=> stage[u] \in Locked
      /\ \A u \in Thread : stage'[u] \in Locked => call'[u] = call[u]
      /\ \A u \in Thread : stage'[u] = "lock" => stage[u] = "lock" /\ call'[u] = call[u]
  BY <1>1 DEF CallsInv, CallsTypeOK, CallInv, Locked
<1>3. CallsTypeOK'
  BY <1>1 DEF CallsInv, CallsTypeOK, EngineTypeOK, engineVars, storeVars
<1>4. CallInv'
  BY <1>1, <1>2 DEF CallsInv, CallsTypeOK, CallInv, Locked
<1>5. LockInv'
  BY <1>1, <1>2 DEF CallsInv, LockInv, storeVars
<1>6. TxnInv'
  BY <1>1, <1>2, TxnKept DEF storeVars, engineVars
<1>7. WholeInv'
  BY <1>1, <1>2 DEF CallsInv, WholeInv, Whole, OwnView, storeVars, engineVars, Locked
<1>8. IndexInv'
  BY <1>1, <1>2, IndexKept DEF Trimmed, storeVars
<1>9. RangeInv'
  BY <1>1, <1>2, RangeKept DEF storeVars, CallsInv, CallsTypeOK
<1>10. ResultInv'
  BY <1>1, ResultKept
<1> QED
  BY <1>3, <1>4, <1>5, <1>6, <1>7, <1>8, <1>9, <1>10 DEF CallsInv

(* A call gives the lock back: what it had to do is done.                  *)
LEMMA UnlockStep ==
  ASSUME CallsInv, NEW t \in Thread, Unlock(t)
  PROVE  CallsInv'
<1>1. /\ stage[t] = "unlock" /\ stage' = [stage EXCEPT ![t] = "idle"]
      /\ call' = [call EXCEPT ![t] = NoCall]
      /\ readers' = readers \ {t}
      /\ writer' = IF writer = t THEN NoThread ELSE writer
      /\ UNCHANGED <<index, current, compacted, written, acked, failed, result, calls>>
      /\ UNCHANGED <<committed, txn, snapshot, buffer>>
  BY DEF Unlock, Goes, engineVars
<1>2. /\ stage'[t] = "idle" /\ call'[t] = NoCall /\ stage[t] \in Locked
      /\ \A u \in Thread : u # t => stage'[u] = stage[u] /\ call'[u] = call[u]
      /\ \A u \in Thread : stage'[u] \in Locked => u # t /\ stage[u] \in Locked
  BY <1>1 DEF CallsInv, CallsTypeOK, CallInv, Locked
<1>3. CallsTypeOK'
  BY <1>1 DEF CallsInv, CallsTypeOK, EngineTypeOK
<1>4. CallInv'
  BY <1>1, <1>2 DEF CallsInv, CallInv, Locked
<1>5. LockInv'
  BY <1>1, <1>2, CallsAssumption DEF CallsInv, LockInv, Locked
<1>6. TxnInv'
  BY <1>1, <1>2, TxnKept
<1>7. WholeInv'
  <2>1. CASE call[t].op = "range"
    <3>1. Whole /\ \A u \in Thread : stage[u] \in Locked => call[u].op = "range"
      BY <1>2, <2>1, HasShared DEF CallsInv, WholeInv
    <3>2. Whole'
      BY <1>1, <3>1 DEF Whole
    <3> QED
      BY <1>2, <3>1, <3>2 DEF WholeInv
  <2>2. CASE call[t].op # "range"
    <3>1. \A u \in Thread : stage[u] \in Locked => u = t
      BY <1>2, <2>2, HasAlone
    <3>2. Whole
      <4>1. call[t].op \in {"apply", "compact", "checkpoint"}
        BY <1>2, <2>2, CallParts
      <4> QED
        BY <1>1, <1>2, <4>1 DEF CallsInv, WholeInv
    <3>3. Whole'
      BY <1>1, <3>2 DEF Whole
    <3> QED
      BY <1>2, <3>1, <3>3 DEF WholeInv
  <2> QED
    BY <2>1, <2>2
<1>8. IndexInv'
  <2>1. ASSUME NEW s \in index, Trimmed(s) PROVE Trimmed(s)'
    <3>1. CASE s <= compacted \/ s <= failed
      BY <1>1, <3>1 DEF Trimmed
    <3>2. ASSUME NEW u \in Thread, stage[u] \in Locked, call[u].op = "compact",
                 s <= call[u].at
          PROVE  Trimmed(s)'
      <4>1. CASE u = t
        <5>1. call[t].at <= compacted \/ call[t].at <= failed
          BY <1>1, <1>2, <3>2, <4>1 DEF CallsInv, WholeInv
        <5>2. /\ s \in Nat /\ call[t].at \in Nat
              /\ compacted \in Nat /\ failed \in Nat
          BY <1>2, <3>2, <4>1, CallParts DEF CallsInv, IndexInv, CallsTypeOK
        <5>3. s <= compacted \/ s <= failed
          BY <3>2, <4>1, <5>1, <5>2
        <5> QED
          BY <1>1, <5>3 DEF Trimmed
      <4>2. CASE u # t
        BY <1>2, <3>2, <4>2 DEF Trimmed
      <4> QED
        BY <4>1, <4>2
    <3> QED
      BY <2>1, <3>1, <3>2 DEF Trimmed
  <2> QED
    BY <1>1, <2>1, IndexKept
<1>9. RangeInv'
  BY <1>1, <1>2, RangeKept DEF CallsInv, CallsTypeOK
<1>10. ResultInv'
  BY <1>1, ResultKept
<1> QED
  BY <1>3, <1>4, <1>5, <1>6, <1>7, <1>8, <1>9, <1>10 DEF CallsInv

(* A call that has the lock opens its transaction.                         *)
LEMMA OpenStep ==
  ASSUME CallsInv, NEW t \in Thread, OpenTxn(t)
  PROVE  CallsInv'
<1>1. /\ stage[t] = "begin" /\ stage' = [stage EXCEPT ![t] = "txn"]
      /\ txn' = [txn EXCEPT ![t] = "write"]
      /\ UNCHANGED <<readers, writer, index, current, compacted>>
      /\ UNCHANGED <<call, written, acked, failed, result, calls, committed, snapshot, buffer>>
  BY DEF OpenTxn, Goes, BeginWrite, storeVars
<1>2. /\ stage'[t] = "txn"
      /\ \A u \in Thread : u # t => stage'[u] = stage[u]
      /\ \A u \in Thread : stage'[u] \in Locked <=> stage[u] \in Locked
      /\ \A u \in Thread : stage'[u] = "lock" => stage[u] = "lock"
  BY <1>1 DEF CallsInv, CallsTypeOK, Locked
<1>3. CallsTypeOK'
  BY <1>1 DEF CallsInv, CallsTypeOK, EngineTypeOK
<1>4. CallInv'
  BY <1>1, <1>2 DEF CallsInv, CallInv, Locked
<1>5. LockInv'
  BY <1>1, <1>2 DEF CallsInv, LockInv
<1>6. TxnInv'
  <2>1. TxnInv /\ buffer[t] = Untouched /\ txn'[t] = "write"
    BY <1>1 DEF CallsInv, TxnInv, CallsTypeOK, EngineTypeOK
  <2>2. call[t].op = "apply" =>
          Untouched = [k \in Key |-> IF k \in current + 1..current + call[t].done
                                     THEN "put" ELSE "kept"]
    <3>1. ASSUME call[t].op = "apply" PROVE call[t].done = 0 /\ current \in Nat
      BY <1>1, <3>1 DEF CallsInv, WholeInv, Locked, CallsTypeOK
    <3> QED
      BY <3>1 DEF Untouched
  <2>3. \A k \in Key : Untouched[k] # "put"
    BY DEF Untouched
  <2> QED
    BY <1>1, <1>2, <2>1, <2>2, <2>3 DEF TxnInv, CallsInv, CallsTypeOK, EngineTypeOK
<1>7. WholeInv'
  BY <1>1, <1>2 DEF CallsInv, WholeInv, Whole, OwnView, Locked
<1>8. IndexInv'
  BY <1>1, <1>2, IndexKept DEF Trimmed
<1>9. RangeInv'
  BY <1>1, <1>2, RangeKept DEF CallsInv, CallsTypeOK
<1>10. ResultInv'
  BY <1>1, ResultKept
<1> QED
  BY <1>3, <1>4, <1>5, <1>6, <1>7, <1>8, <1>9, <1>10 DEF CallsInv

(* A range takes the lock and reads the index.                             *)
LEMMA RangeBeginsStep ==
  ASSUME CallsInv, NEW t \in Thread, RangeBegins(t)
  PROVE  CallsInv'
<1> DEFINE at == Resolved(call[t].at)
           c == [op |-> "range", at |-> at, since |-> call[t].since,
                 visible |-> Visible(index, at)]
<1>1. /\ stage[t] = "lock" /\ stage' = [stage EXCEPT ![t] = "begin"]
      /\ call[t].op = "range" /\ ~(at > current) /\ ~(at < compacted)
      /\ call' = [call EXCEPT ![t] = c]
      /\ writer = NoThread /\ writer' = NoThread /\ readers' = readers \cup {t}
      /\ UNCHANGED <<index, current, compacted, written, acked, failed, result, calls>>
      /\ UNCHANGED <<committed, txn, snapshot, buffer>>
  BY DEF RangeBegins, Goes, LockShared, Refused, engineVars
<1>2. /\ stage'[t] = "begin" /\ call'[t] = c
      /\ \A u \in Thread : u # t => stage'[u] = stage[u] /\ call'[u] = call[u]
  BY <1>1 DEF CallsInv, CallsTypeOK, CallInv
<1>3. call[t].since \in Nat /\ call[t].at \in {{}} \cup { {r} : r \in Nat }
  BY <1>1, CallParts DEF RangeAsked
<1>4. at \in Nat /\ (call[t].at = {} => at = current)
  <2>1. CASE call[t].at = {}
    BY <2>1 DEF Resolved, CallsInv, CallsTypeOK
  <2>2. ASSUME NEW r \in Nat, call[t].at = {r} PROVE at \in Nat /\ call[t].at # {}
    BY <2>2 DEF Resolved
  <2> QED
    BY <1>3, <2>1, <2>2
<1>5. call[t].since <= at
  BY <1>1, <1>3, <1>4 DEF CallsInv, RangeInv, CallsTypeOK
<1>6. /\ index \subseteq 1..Len(written) /\ index \subseteq Key /\ Whole
      /\ written \in Seq(UserKey)
  BY <1>1 DEF CallsInv, WholeInv, Whole, IndexInv, CallsTypeOK
<1>7. c.visible = Seen(index, written, at)
  BY <1>6, VisibleIsSeen
<1>8. c.visible \subseteq Key
  BY <1>6, <1>7 DEF Seen
<1>9. compacted <= at /\ at <= current
  BY <1>1, <1>4 DEF CallsInv, CallsTypeOK
<1>10. c \in RangeCall /\ c.op = "range" /\ c.at = at /\ c.since = call[t].since
  BY <1>3, <1>4, <1>8 DEF RangeCall
<1> HIDE DEF at, c
<1>11. CallsTypeOK'
  BY <1>1 DEF CallsInv, CallsTypeOK, EngineTypeOK
<1>12. CallInv'
  BY <1>1, <1>2, <1>10 DEF CallsInv, CallInv, Locked
<1>13. LockInv'
  BY <1>1, <1>2, <1>10 DEF CallsInv, LockInv, CallsTypeOK, Locked
<1>14. TxnInv'
  BY <1>1, <1>2, TxnKept
<1>15. WholeInv'
  <2>1. Whole'
    BY <1>1, <1>6 DEF Whole
  <2>2. ASSUME NEW u \in Thread, stage'[u] \in Locked PROVE call'[u].op = "range"
    BY <1>1, <1>2, <1>10, <2>2, CallsAssumption DEF CallsInv, LockInv
  <2> QED
    BY <2>1, <2>2 DEF WholeInv
<1>16. IndexInv'
  <2>1. ASSUME NEW u \in Thread, stage[u] \in Locked, call[u].op = "compact"
        PROVE  stage'[u] \in Locked /\ call'[u] = call[u]
    BY <1>1, <1>2, <2>1
  <2> QED
    BY <1>1, <2>1, IndexKept DEF Trimmed
<1>17. RangeInv'
  <2>1. ASSUME NEW u \in Thread, stage'[u] = "lock", call'[u].op = "range"
        PROVE  /\ call'[u].since <= acked'
               /\ call'[u].at # {} => call'[u].since = 0
    BY <1>1, <1>2, <2>1 DEF CallsInv, RangeInv
  <2>2. ASSUME NEW u \in Thread, stage'[u] \in Locked, call'[u].op = "range"
        PROVE  /\ compacted' <= call'[u].at /\ call'[u].at <= current'
               /\ call'[u].since <= call'[u].at
               /\ call'[u].visible = Seen(index', written', call'[u].at)
    <3>1. CASE u = t
      BY <1>1, <1>2, <1>5, <1>7, <1>9, <1>10, <3>1
    <3>2. CASE u # t
      BY <1>1, <1>2, <2>2, <3>2 DEF CallsInv, RangeInv
    <3> QED
      BY <3>1, <3>2
  <2> QED
    BY <2>1, <2>2 DEF RangeInv
<1>18. ResultInv'
  BY <1>1, ResultKept
<1> QED
  BY <1>11, <1>12, <1>13, <1>14, <1>15, <1>16, <1>17, <1>18 DEF CallsInv

(* A range reads its records, all of them, and drops the transaction.      *)
LEMMA RangeFetchesStep ==
  ASSUME CallsInv, NEW t \in Thread, RangeFetches(t)
  PROVE  CallsInv'
<1>1. /\ stage[t] = "txn" /\ stage' = [stage EXCEPT ![t] = "unlock"]
      /\ call[t].op = "range"
      /\ result' = [result EXCEPT ![t] =
           [at |-> call[t].at, since |-> call[t].since,
            found |-> call[t].visible \cap OwnView(t),
            missing |-> call[t].visible \ OwnView(t)]]
      /\ txn' = [txn EXCEPT ![t] = "none"]
      /\ buffer' = [buffer EXCEPT ![t] = Untouched]
      /\ UNCHANGED <<readers, writer, index, current, compacted>>
      /\ UNCHANGED <<call, written, acked, failed, calls, committed, snapshot>>
  BY DEF RangeFetches, Goes, Abort, storeVars
<1>2. /\ stage'[t] = "unlock" /\ stage[t] \in Locked
      /\ \A u \in Thread : u # t => stage'[u] = stage[u]
      /\ \A u \in Thread : stage'[u] \in Locked <=> stage[u] \in Locked
      /\ \A u \in Thread : stage'[u] = "lock" => stage[u] = "lock"
  BY <1>1 DEF CallsInv, CallsTypeOK, Locked
<1>3. /\ writer = NoThread /\ Whole
      /\ \A u \in Thread : stage[u] \in Locked => call[u].op = "range"
  BY <1>1, <1>2, HasShared DEF CallsInv, WholeInv
<1>4. buffer[t] = Untouched /\ buffer' = buffer
  BY <1>1 DEF CallsInv, TxnInv, CallsTypeOK, EngineTypeOK
<1>5. index \subseteq OwnView(t)
  <2>1. OwnView(t) = committed
    BY <1>4, AppliedNothing DEF OwnView, CallsInv, CallsTypeOK, EngineTypeOK
  <2> QED
    BY <1>3, <2>1 DEF Whole
<1>6. /\ compacted <= call[t].at /\ call[t].at <= current
      /\ call[t].since <= call[t].at
      /\ call[t].visible = Seen(index, written, call[t].at)
      /\ call[t].at \in Nat /\ call[t].since \in Nat
  BY <1>1, <1>2, CallParts DEF CallsInv, RangeInv
<1>7. /\ Seen(index, written, call[t].at) \subseteq Seen(1..Len(written), written, call[t].at)
      /\ call[t].at >= failed =>
           Seen(index, written, call[t].at) = Seen(1..Len(written), written, call[t].at)
  <2>1. ASSUME call[t].at >= failed, NEW s, Trimmed(s), s \in index
        PROVE  s <= call[t].at
    BY <1>3, <1>6, <2>1 DEF Trimmed, CallsInv, CallsTypeOK, IndexInv
  <2>2. CASE call[t].at >= failed
    BY <1>3, <1>6, <2>1, <2>2, IndexSuffices DEF Whole
  <2>3. Seen(index, written, call[t].at) \subseteq Seen(1..Len(written), written, call[t].at)
    BY <1>3, <1>6, IndexIsNew DEF Whole
  <2> QED
    BY <2>2, <2>3
<1>8. /\ result'[t].at = call[t].at /\ result'[t].since = call[t].since
      /\ result'[t].missing = {}
      /\ result'[t].found \subseteq Seen(1..Len(written), written, call[t].at)
      /\ call[t].at >= failed =>
           result'[t].found = Seen(1..Len(written), written, call[t].at)
      /\ \A u \in Thread : u # t => result'[u] = result[u]
  <2>1. call[t].visible \subseteq OwnView(t)
    BY <1>5, <1>6 DEF Seen
  <2>2. result'[t].missing = {} /\ result'[t].found = call[t].visible
    BY <1>1, <2>1 DEF CallsInv, ResultInv
  <2> QED
    BY <1>1, <1>6, <1>7, <2>2 DEF CallsInv, ResultInv
<1>9. CallsTypeOK'
  BY <1>1, <1>4 DEF CallsInv, CallsTypeOK, EngineTypeOK
<1>10. CallInv'
  BY <1>1, <1>2 DEF CallsInv, CallInv, Locked
<1>11. LockInv'
  BY <1>1, <1>2 DEF CallsInv, LockInv
<1>12. TxnInv'
  BY <1>1, <1>2, <1>4 DEF CallsInv, TxnInv, CallsTypeOK, EngineTypeOK
<1>13. WholeInv'
  <2>1. Whole'
    BY <1>1, <1>3 DEF Whole
  <2> QED
    BY <1>1, <1>2, <1>3, <2>1 DEF WholeInv
<1>14. IndexInv'
  BY <1>1, <1>2, IndexKept DEF Trimmed
<1>15. RangeInv'
  BY <1>1, <1>2, RangeKept DEF CallsInv, CallsTypeOK
<1>16. ResultInv'
  <2>1. call[t].at <= Len(written) /\ DOMAIN result' = Thread
    BY <1>1, <1>3, <1>6 DEF Whole, CallsInv, ResultInv
  <2>2. written' = written /\ failed' = failed
    BY <1>1
  <2> QED
    BY <1>6, <1>8, <2>1, <2>2 DEF CallsInv, ResultInv
<1> QED
  BY <1>9, <1>10, <1>11, <1>12, <1>13, <1>14, <1>15, <1>16 DEF CallsInv

(* A call that writes takes the lock.                                      *)
LEMMA WriteBeginsStep ==
  ASSUME CallsInv, NEW t \in Thread, WriteBegins(t)
  PROVE  CallsInv'
<1>1. /\ stage[t] = "lock" /\ stage' = [stage EXCEPT ![t] = "begin"]
      /\ call[t].op \in {"apply", "checkpoint"}
      /\ writer = NoThread /\ readers = {} /\ writer' = t
      /\ UNCHANGED <<readers, index, current, compacted, call, written, acked, failed, result, calls>>
      /\ UNCHANGED <<committed, txn, snapshot, buffer>>
  BY DEF WriteBegins, Goes, LockExclusive, engineVars
<1>2. /\ stage'[t] = "begin"
      /\ \A u \in Thread : u # t => stage'[u] = stage[u]
      /\ \A u \in Thread : stage'[u] \in Locked <=> u = t
  BY <1>1, CallsAssumption DEF CallsInv, LockInv, CallsTypeOK, Locked
<1>3. CallsTypeOK'
  BY <1>1 DEF CallsInv, CallsTypeOK, EngineTypeOK
<1>4. CallInv'
  <2>1. call[t] \in ApplyCall \cup CheckpointCall
    BY <1>1 DEF CallsInv, CallInv, RangeAsked, CompactAsked
  <2> QED
    BY <1>1, <1>2, <2>1 DEF CallsInv, CallInv, Locked
<1>5. LockInv'
  BY <1>1, <1>2, CallsAssumption DEF LockInv
<1>6. TxnInv'
  BY <1>1, <1>2, TxnKept
<1>7. WholeInv'
  <2>1. Whole /\ Whole'
    BY <1>1 DEF CallsInv, WholeInv, Whole
  <2>2. ASSUME call[t].op = "apply"
        PROVE  /\ call[t].done = 0 /\ call[t].done <= Len(call[t].batch)
               /\ current + 1..current + call[t].done \subseteq Key
    <3>1. call[t].done = 0 /\ Len(call[t].batch) \in Nat /\ current \in Nat
      BY <1>1, <2>2, CallParts DEF CallsInv, CallInv, CallsTypeOK
    <3> QED
      BY <3>1
  <2> QED
    BY <1>1, <1>2, <2>1, <2>2, CallsAssumption DEF WholeInv
<1>8. IndexInv'
  <2>1. \A u \in Thread : stage[u] \notin Locked
    BY <1>1, CallsAssumption DEF CallsInv, LockInv
  <2> QED
    BY <1>1, <2>1, IndexKept DEF Trimmed
<1>9. RangeInv'
  BY <1>1, <1>2, RangeKept DEF CallsInv, CallsTypeOK
<1>10. ResultInv'
  BY <1>1, ResultKept
<1> QED
  BY <1>3, <1>4, <1>5, <1>6, <1>7, <1>8, <1>9, <1>10 DEF CallsInv

(* An apply inserts the record of its next revision.                       *)
LEMMA InsertStep ==
  ASSUME CallsInv, NEW t \in Thread, ApplyInserts(t)
  PROVE  CallsInv'
<1> DEFINE next == current + call[t].done + 1
<1>1. /\ stage[t] = "txn" /\ call[t].op = "apply"
      /\ call[t].done < Len(call[t].batch) /\ next \in Key
      /\ buffer' = [buffer EXCEPT ![t][next] = "put"]
      /\ call' = [call EXCEPT ![t].done = @ + 1]
      /\ UNCHANGED <<stage, readers, writer, index, current, compacted>>
      /\ UNCHANGED <<written, acked, failed, result, calls, committed, txn, snapshot>>
  BY DEF ApplyInserts, InsertKey, storeVars
<1>2. /\ stage[t] \in Locked /\ call[t] \in ApplyCall
      /\ call[t].batch \in Seq(UserKey) /\ call[t].done \in Nat
      /\ Len(call[t].batch) \in Nat /\ current \in Nat
  BY <1>1, CallParts DEF Locked, CallsInv, CallsTypeOK
<1>3. /\ call'[t] = [op |-> "apply", batch |-> call[t].batch, done |-> call[t].done + 1]
      /\ \A u \in Thread : u # t => call'[u] = call[u]
  BY <1>1, <1>2 DEF CallsInv, CallInv, ApplyCall
<1>4. /\ call'[t].op = "apply" /\ call'[t].batch = call[t].batch
      /\ call'[t].done = call[t].done + 1
      /\ call'[t] \in ApplyCall
  BY <1>2, <1>3 DEF ApplyCall
<1>5. \A u \in Thread : stage[u] \in Locked => u = t
  BY <1>1, <1>2, HasAlone
<1>6. CallsTypeOK'
  BY <1>1 DEF CallsInv, CallsTypeOK, EngineTypeOK
<1>7. CallInv'
  BY <1>1, <1>3, <1>4 DEF CallsInv, CallInv, Locked
<1>8. LockInv'
  BY <1>1, <1>3, <1>4 DEF CallsInv, LockInv
<1>9. TxnInv'
  <2>1. TxnInv /\ next \in Nat
    BY <1>2 DEF CallsInv
  <2>2. buffer'[t] = [buffer[t] EXCEPT ![next] = "put"]
    BY <1>1 DEF CallsInv, CallsTypeOK, EngineTypeOK
  <2>3. buffer[t] = [k \in Key |-> IF k \in current + 1..current + call[t].done
                                   THEN "put" ELSE "kept"]
    BY <1>1, <2>1 DEF TxnInv
  <2>4. \A k \in Key : k \in current + 1..current + call'[t].done
                         <=> k = next \/ k \in current + 1..current + call[t].done
    <3>1. \A d \in Nat : \A k \in Nat :
            k \in current + 1..current + (d + 1)
              <=> k = current + d + 1 \/ k \in current + 1..current + d
      BY <1>2
    <3> QED
      BY <1>2, <1>4, <3>1, CallsAssumption
  <2>5. buffer'[t] = [k \in Key |-> IF k \in current + 1..current + call'[t].done
                                    THEN "put" ELSE "kept"]
    BY <2>2, <2>3, <2>4
  <2>6. \A u \in Thread : u # t => buffer'[u] = buffer[u]
    BY <1>1 DEF CallsInv, CallsTypeOK, EngineTypeOK
  <2>7. \A u \in Thread : u # t => stage[u] # "txn"
    BY <1>5 DEF Locked
  <2>8. ASSUME NEW u \in Thread, u # t
        PROVE  /\ txn'[u] = IF stage'[u] = "txn" THEN "write" ELSE "none"
               /\ buffer'[u] = Untouched
    BY <1>1, <2>1, <2>6, <2>7, <2>8 DEF TxnInv
  <2>9. txn'[t] = "write"
    BY <1>1, <2>1 DEF TxnInv
  <2> QED
    BY <1>1, <1>4, <2>5, <2>7, <2>8, <2>9 DEF TxnInv
<1>10. WholeInv'
  <2>1. /\ Whole' /\ call'[t].done <= Len(call'[t].batch)
        /\ current + 1..current + call[t].done \subseteq Key
    BY <1>1, <1>2, <1>4 DEF CallsInv, WholeInv, Whole
  <2>2. current + 1..current + call'[t].done \subseteq Key
    BY <1>1, <1>2, <1>4, <2>1
  <2>3. writer' # NoThread
    BY <1>1, <1>2, HasAlone
  <2> QED
    BY <1>1, <1>4, <1>5, <2>1, <2>2, <2>3 DEF WholeInv
<1>11. IndexInv'
  BY <1>1, <1>3, IndexKept DEF Trimmed
<1>12. RangeInv'
  BY <1>1, <1>3, <1>4, RangeKept DEF CallsInv, CallsTypeOK
<1>13. ResultInv'
  BY <1>1, ResultKept
<1> QED
  BY <1>6, <1>7, <1>8, <1>9, <1>10, <1>11, <1>12, <1>13 DEF CallsInv

(* An apply commits: the backend takes the whole batch.                    *)
LEMMA ApplyCommitsStep ==
  ASSUME CallsInv, NEW t \in Thread, ApplyCommits(t)
  PROVE  CallsInv'
<1> DEFINE batch == call[t].batch
<1>1. /\ stage[t] = "txn" /\ stage' = [stage EXCEPT ![t] = "index"]
      /\ call[t].op = "apply" /\ call[t].done = Len(batch)
      /\ committed' = OwnView(t)
      /\ txn' = [txn EXCEPT ![t] = "none"]
      /\ buffer' = [buffer EXCEPT ![t] = Untouched]
      /\ written' = written \o batch
      /\ UNCHANGED <<readers, writer, index, current, compacted>>
      /\ UNCHANGED <<call, acked, failed, result, calls, snapshot>>
  BY DEF ApplyCommits, Goes, Commit, storeVars
<1>2. /\ stage[t] \in Locked /\ batch \in Seq(UserKey) /\ Len(batch) \in Nat
      /\ current \in Nat /\ written \in Seq(UserKey) /\ Len(written) \in Nat
  BY <1>1, CallParts DEF Locked, CallsInv, CallsTypeOK
<1>3. /\ stage'[t] = "index"
      /\ \A u \in Thread : u # t => stage'[u] = stage[u]
      /\ \A u \in Thread : stage'[u] \in Locked <=> stage[u] \in Locked
      /\ \A u \in Thread : stage'[u] \in Locked <=> u = t
      /\ writer # NoThread
  BY <1>1, <1>2, HasAlone DEF CallsInv, CallsTypeOK, Locked
<1>4. /\ Whole /\ current + 1..current + call[t].done \subseteq Key
      /\ call[t].done <= Len(batch)
  BY <1>1, <1>2 DEF CallsInv, WholeInv
<1>5. /\ written' \in Seq(UserKey) /\ Len(written') = Len(written) + Len(batch)
      /\ \A r \in 1..Len(written) : written'[r] = written[r]
  BY <1>1, <1>2
<1>6. /\ index \cup current + 1..current + call[t].done \subseteq committed'
      /\ failed = 0 => committed' = index \cup current + 1..current + call[t].done
  <2>1. buffer[t] = [k \in Key |-> IF k \in current + 1..current + call[t].done
                                   THEN "put" ELSE "kept"]
    BY <1>1 DEF CallsInv, TxnInv
  <2>2. /\ index \subseteq committed /\ committed \subseteq Key
        /\ failed = 0 => index = committed
    BY <1>4 DEF Whole, CallsInv, CallsTypeOK, EngineTypeOK
  <2>3. committed' = { k \in Key : k \in current + 1..current + call[t].done \/ k \in committed }
    BY <1>1, <2>1, <2>2 DEF OwnView, Applied
  <2> QED
    BY <1>4, <2>2, <2>3
<1>7. CallsTypeOK'
  <2>1. EngineTypeOK'
    BY <1>1, ViewType DEF CallsInv, CallsTypeOK, EngineTypeOK, Untouched
  <2>2. current' \in 0..Len(written')
    BY <1>1, <1>2, <1>5 DEF CallsInv, CallsTypeOK
  <2>3. stage' \in [Thread -> {"idle", "lock", "begin", "txn", "index", "unlock"}]
    BY <1>1 DEF CallsInv, CallsTypeOK
  <2> QED
    BY <1>1, <1>5, <2>1, <2>2, <2>3 DEF CallsInv, CallsTypeOK
<1>8. CallInv'
  BY <1>1, <1>3 DEF CallsInv, CallInv, Locked
<1>9. LockInv'
  BY <1>1, <1>3 DEF CallsInv, LockInv
<1>10. TxnInv'
  BY <1>1, <1>3 DEF CallsInv, TxnInv, CallsTypeOK, EngineTypeOK
<1>11. WholeInv'
  <2>1. Len(written') = current + call[t].done
    BY <1>1, <1>4, <1>5 DEF Whole
  <2> QED
    BY <1>1, <1>3, <1>4, <1>6, <2>1 DEF WholeInv
<1>12. IndexInv'
  BY <1>1, <1>3, <1>4, <1>5, IndexKept DEF Trimmed, Whole
<1>13. RangeInv'
  BY <1>1, <1>3, CallsAssumption DEF CallsInv, RangeInv, Locked
<1>14. ResultInv'
  <2>1. ASSUME NEW u \in Thread
        PROVE  /\ result[u].at <= Len(written')
               /\ result[u].found \subseteq Seen(1..Len(written'), written', result[u].at)
               /\ result[u].at >= failed =>
                    result[u].found = Seen(1..Len(written'), written', result[u].at)
    <3>1. /\ result[u].at \in Nat /\ result[u].at <= Len(written)
          /\ result[u].found \subseteq Seen(1..Len(written), written, result[u].at)
          /\ result[u].at >= failed =>
               result[u].found = Seen(1..Len(written), written, result[u].at)
      BY <2>1 DEF CallsInv, ResultInv
    <3>2. Len(written) <= Len(written') /\ Len(written') \in Nat
      BY <1>2, <1>5
    <3>3. Seen(1..Len(written'), written', result[u].at)
            = Seen(1..Len(written), written, result[u].at)
      <4>1. /\ Len(written) \in Nat /\ result[u].at \in Nat /\ result[u].at <= Len(written)
            /\ \A q \in 1..Len(written) : written'[q] = written[q]
        BY <1>2, <1>5, <3>1
      <4> QED
        BY <3>2, <4>1, SeenStays, SMTT(60)
    <3> QED
      BY <1>2, <3>1, <3>2, <3>3
  <2> QED
    BY <1>1, <2>1 DEF CallsInv, ResultInv
<1> QED
  BY <1>7, <1>8, <1>9, <1>10, <1>11, <1>12, <1>13, <1>14 DEF CallsInv

(* A checkpoint commits: the content stays as it was.                      *)
LEMMA CheckpointStep ==
  ASSUME CallsInv, NEW t \in Thread, CheckpointCommits(t)
  PROVE  CallsInv'
<1>1. /\ stage[t] = "txn" /\ stage' = [stage EXCEPT ![t] = "unlock"]
      /\ call[t].op = "checkpoint" /\ committed' = OwnView(t)
      /\ txn' = [txn EXCEPT ![t] = "none"]
      /\ buffer' = [buffer EXCEPT ![t] = Untouched]
      /\ UNCHANGED <<readers, writer, index, current, compacted>>
      /\ UNCHANGED <<call, written, acked, failed, result, calls, snapshot>>
  BY DEF CheckpointCommits, Goes, Commit, storeVars
<1>2. /\ stage'[t] = "unlock" /\ stage[t] \in Locked
      /\ \A u \in Thread : u # t => stage'[u] = stage[u]
      /\ \A u \in Thread : stage'[u] \in Locked <=> stage[u] \in Locked
  BY <1>1 DEF CallsInv, CallsTypeOK, Locked
<1>3. /\ \A u \in Thread : stage[u] \in Locked => u = t
      /\ writer # NoThread
  BY <1>1, <1>2, HasAlone
<1>4. committed' = committed
  <2>1. buffer[t] = Untouched
    BY <1>1 DEF CallsInv, TxnInv
  <2> QED
    BY <1>1, <2>1, AppliedNothing DEF OwnView, CallsInv, CallsTypeOK, EngineTypeOK
<1>5. Whole'
  <2>1. Whole
    BY <1>1, <1>2 DEF CallsInv, WholeInv
  <2> QED
    BY <1>1, <1>4, <2>1 DEF Whole
<1>6. CallsTypeOK'
  <2>1. EngineTypeOK'
    BY <1>1, <1>4 DEF CallsInv, CallsTypeOK, EngineTypeOK, Untouched
  <2>2. stage' \in [Thread -> {"idle", "lock", "begin", "txn", "index", "unlock"}]
    BY <1>1 DEF CallsInv, CallsTypeOK
  <2> QED
    BY <1>1, <2>1, <2>2 DEF CallsInv, CallsTypeOK
<1>7. CallInv'
  BY <1>1, <1>2 DEF CallsInv, CallInv, Locked
<1>8. LockInv'
  BY <1>1, <1>2 DEF CallsInv, LockInv
<1>9. TxnInv'
  BY <1>1, <1>2, TxnClosed
<1>10. WholeInv'
  BY <1>1, <1>2, <1>3, <1>5 DEF WholeInv
<1>11. IndexInv'
  BY <1>1, <1>2, IndexKept DEF Trimmed
<1>12. RangeInv'
  BY <1>1, <1>2, RangeKept DEF CallsInv, CallsTypeOK, Locked
<1>13. ResultInv'
  BY <1>1, ResultKept
<1> QED
  BY <1>6, <1>7, <1>8, <1>9, <1>10, <1>11, <1>12, <1>13 DEF CallsInv

(* A call fails at its transaction: the content stays as it was, and a     *)
(* compaction leaves what it had still to remove.                          *)
LEMMA FailStep ==
  ASSUME CallsInv, NEW t \in Thread, BeginFails(t) \/ TransactionFails(t)
  PROVE  CallsInv'
<1>1. /\ stage[t] \in {"begin", "txn"} /\ stage' = [stage EXCEPT ![t] = "unlock"]
      /\ failed' = FailedBy(t)
      /\ UNCHANGED <<readers, writer, index, current, compacted>>
      /\ UNCHANGED <<call, written, acked, result, calls, committed, snapshot>>
      /\ \/ UNCHANGED <<txn, buffer>> /\ stage[t] = "begin"
         \/ /\ txn' = [txn EXCEPT ![t] = "none"]
            /\ buffer' = [buffer EXCEPT ![t] = Untouched]
  BY DEF BeginFails, TransactionFails, Goes, Abort, storeVars, engineVars
<1>2. /\ stage'[t] = "unlock" /\ stage[t] \in Locked
      /\ \A u \in Thread : u # t => stage'[u] = stage[u]
      /\ \A u \in Thread : stage'[u] \in Locked <=> stage[u] \in Locked
      /\ \A u \in Thread : stage'[u] = "lock" => stage[u] = "lock"
  BY <1>1 DEF CallsInv, CallsTypeOK, Locked
<1>3. /\ failed \in Nat /\ failed' \in Nat /\ failed' >= failed
      /\ failed' <= current /\ current \in Nat
      /\ call[t].op # "compact" => failed' = failed
      /\ call[t].op = "compact" => call[t].at <= failed' /\ failed' # 0
  <2>1. failed \in Nat /\ failed <= current /\ current \in Nat
    BY DEF CallsInv, CallsTypeOK
  <2>2. ASSUME call[t].op = "compact"
        PROVE  call[t].at \in Nat /\ call[t].at > 0 /\ call[t].at <= current
    BY <1>1, <1>2, <2>2, CallParts DEF CallsInv, WholeInv
  <2> QED
    BY <1>1, <2>1, <2>2 DEF FailedBy
<1>4. CallsTypeOK'
  <2>1. EngineTypeOK'
    <3>1. EngineTypeOK /\ Untouched \in [Key -> {"kept", "put", "removed"}]
      BY DEF CallsInv, CallsTypeOK, Untouched
    <3>2. CASE UNCHANGED <<txn, buffer>>
      BY <1>1, <3>1, <3>2 DEF EngineTypeOK
    <3>3. CASE txn' = [txn EXCEPT ![t] = "none"] /\ buffer' = [buffer EXCEPT ![t] = Untouched]
      BY <1>1, <3>1, <3>3 DEF EngineTypeOK
    <3> QED
      BY <1>1, <3>2, <3>3
  <2>2. stage' \in [Thread -> {"idle", "lock", "begin", "txn", "index", "unlock"}]
    BY <1>1 DEF CallsInv, CallsTypeOK
  <2> QED
    BY <1>1, <1>3, <2>1, <2>2 DEF CallsInv, CallsTypeOK
<1>5. CallInv'
  BY <1>1, <1>2 DEF CallsInv, CallInv, Locked
<1>6. LockInv'
  BY <1>1, <1>2 DEF CallsInv, LockInv
<1>7. TxnInv'
  <2>1. stage'[t] # "txn"
    BY <1>2
  <2>2. \A u \in Thread : u # t => stage'[u] = stage[u] /\ call'[u] = call[u]
    BY <1>1, <1>2
  <2>3. CASE UNCHANGED <<txn, buffer>> /\ stage[t] = "begin"
    BY <1>1, <2>1, <2>2, <2>3, TxnKept
  <2>4. CASE txn' = [txn EXCEPT ![t] = "none"] /\ buffer' = [buffer EXCEPT ![t] = Untouched]
    BY <1>1, <2>1, <2>2, <2>4, TxnClosed
  <2> QED
    BY <1>1, <2>3, <2>4
<1>8. WholeInv'
  <2>1. CASE call[t].op = "range"
    <3>1. Whole /\ \A u \in Thread : stage[u] \in Locked => call[u].op = "range"
      BY <1>2, <2>1, HasShared DEF CallsInv, WholeInv
    <3>2. Whole'
      BY <1>1, <1>3, <2>1, <3>1 DEF Whole
    <3> QED
      BY <1>1, <1>2, <3>1, <3>2 DEF WholeInv
  <2>2. CASE call[t].op # "range"
    <3>1. /\ \A u \in Thread : stage[u] \in Locked => u = t
          /\ writer # NoThread
      BY <1>2, <2>2, HasAlone
    <3>2. ASSUME call[t].op = "compact"
          PROVE  Whole' /\ call[t].at <= failed' /\ current = Len(written)
                 /\ compacted <= call[t].at /\ call[t].at <= current
      <4>1. /\ current = Len(written) /\ index \subseteq OwnView(t)
            /\ compacted <= call[t].at /\ call[t].at <= current
        BY <1>1, <1>2, <3>2 DEF CallsInv, WholeInv
      <4>2. \A k \in Key : buffer[t][k] # "put"
        BY <1>1, <3>2 DEF CallsInv, TxnInv, Untouched
      <4>3. OwnView(t) \subseteq committed
        BY <4>2 DEF OwnView, Applied
      <4> QED
        BY <1>1, <1>3, <3>2, <4>1, <4>3 DEF Whole
    <3>3. ASSUME call[t].op \in {"apply", "checkpoint"}
          PROVE  /\ Whole'
                 /\ call[t].op = "apply" => call[t].done <= Len(call[t].batch)
      <4>1. Whole /\ (call[t].op = "apply" => call[t].done <= Len(call[t].batch))
        BY <1>1, <1>2, <3>3 DEF CallsInv, WholeInv
      <4> QED
        BY <1>1, <1>3, <3>3, <4>1 DEF Whole
    <3> QED
      BY <1>1, <1>2, <3>1, <3>2, <3>3 DEF WholeInv
  <2> QED
    BY <2>1, <2>2
<1>9. IndexInv'
  <2>1. ASSUME NEW s \in index, Trimmed(s) PROVE Trimmed(s)'
    <3>1. CASE s <= compacted \/ s <= failed
      <4>1. s \in Nat
        BY DEF CallsInv, IndexInv
      <4>2. s <= compacted \/ s <= failed'
        BY <1>3, <3>1, <4>1
      <4> QED
        BY <1>1, <4>2 DEF Trimmed
    <3>2. ASSUME NEW u \in Thread, stage[u] \in Locked, call[u].op = "compact",
                 s <= call[u].at
          PROVE  Trimmed(s)'
      BY <1>1, <1>2, <3>2 DEF Trimmed
    <3> QED
      BY <2>1, <3>1, <3>2 DEF Trimmed
  <2> QED
    BY <1>1, <2>1, IndexKept
<1>10. RangeInv'
  BY <1>1, <1>2, RangeKept DEF CallsInv, CallsTypeOK
<1>11. ResultInv'
  BY <1>1, <1>3 DEF CallsInv, ResultInv
<1> QED
  BY <1>4, <1>5, <1>6, <1>7, <1>8, <1>9, <1>10, <1>11 DEF CallsInv

(* An apply that committed lists its revisions and moves the current one.  *)
LEMMA ApplyIndexesStep ==
  ASSUME CallsInv, NEW t \in Thread, ApplyIndexes(t)
  PROVE  CallsInv'
<1>1. /\ stage[t] = "index" /\ stage' = [stage EXCEPT ![t] = "unlock"]
      /\ call[t].op = "apply"
      /\ index' = index \cup current + 1..current + call[t].done
      /\ current' = current + call[t].done
      /\ acked' = current'
      /\ UNCHANGED <<readers, writer, compacted, call, written, failed, result, calls>>
      /\ UNCHANGED <<committed, txn, snapshot, buffer>>
  BY DEF ApplyIndexes, Goes, engineVars
<1>2. /\ stage'[t] = "unlock" /\ stage[t] \in Locked
      /\ \A u \in Thread : u # t => stage'[u] = stage[u]
      /\ \A u \in Thread : stage'[u] \in Locked <=> stage[u] \in Locked
  BY <1>1 DEF CallsInv, CallsTypeOK, Locked
<1>3. /\ \A u \in Thread : stage[u] \in Locked => u = t
      /\ writer # NoThread
  BY <1>1, <1>2, HasAlone
<1>4. /\ call[t].done \in Nat /\ current \in Nat /\ compacted \in Nat /\ acked \in Nat
      /\ compacted <= current /\ acked <= current
      /\ call[t].done <= Len(call[t].batch)
      /\ current + 1..current + call[t].done \subseteq Key
      /\ index' \subseteq committed /\ (failed = 0 => committed = index')
      /\ Len(written) = current'
      /\ failed \in Nat /\ failed <= current
  BY <1>1, <1>2, CallParts DEF CallsInv, WholeInv, CallsTypeOK
<1>5. CallsTypeOK'
  <2>1. /\ index' \subseteq Key
        /\ current' \in 0..Len(written') /\ compacted' \in 0..current'
        /\ acked' \in 0..current' /\ failed' \in 0..current'
    BY <1>1, <1>4 DEF CallsInv, CallsTypeOK
  <2>2. stage' \in [Thread -> {"idle", "lock", "begin", "txn", "index", "unlock"}]
    BY <1>1 DEF CallsInv, CallsTypeOK
  <2> QED
    BY <1>1, <2>1, <2>2 DEF CallsInv, CallsTypeOK, EngineTypeOK
<1>6. CallInv'
  BY <1>1, <1>2 DEF CallsInv, CallInv, Locked
<1>7. LockInv'
  BY <1>1, <1>2 DEF CallsInv, LockInv
<1>8. TxnInv'
  <2>1. \A u \in Thread : stage[u] # "txn" /\ stage'[u] # "txn"
    BY <1>1, <1>2, <1>3 DEF Locked
  <2>2. \A u \in Thread : txn'[u] = "none" /\ buffer'[u] = Untouched
    BY <1>1, <2>1 DEF CallsInv, TxnInv
  <2> QED
    BY <2>1, <2>2 DEF TxnInv
<1>9. WholeInv'
  <2>1. Whole'
    BY <1>1, <1>4 DEF Whole
  <2> QED
    BY <1>1, <1>2, <1>3, <1>4, <2>1 DEF WholeInv
<1>10. IndexInv'
  <2>1. index' \subseteq 1..current'
    <3>1. index \subseteq 1..current /\ 1..current \subseteq 1..current'
      BY <1>1, <1>4 DEF CallsInv, IndexInv
    <3>2. current + 1..current + call[t].done \subseteq 1..current'
      BY <1>1, <1>4
    <3> QED
      BY <1>1, <3>1, <3>2
  <2>2. \A s : Trimmed(s)' <=> Trimmed(s)
    BY <1>1, <1>2 DEF Trimmed
  <2>3. ASSUME NEW r \in 1..current', r \notin index'
        PROVE  \E s \in index' : r < s /\ written'[s] = written'[r] /\ Trimmed(s)'
    <3>1. r \in 1..current /\ r \notin index
      BY <1>1, <1>4, <2>3
    <3>2. PICK s \in index : r < s /\ written[s] = written[r] /\ Trimmed(s)
      BY <3>1 DEF CallsInv, IndexInv
    <3> QED
      BY <1>1, <2>2, <3>2
  <2>4. ASSUME NEW q \in index', NEW s \in 1..current', q < s, written'[s] = written'[q]
        PROVE  s \in index'
    <3>1. CASE s \in current + 1..current + call[t].done
      BY <1>1, <3>1
    <3>2. CASE s \notin current + 1..current + call[t].done
      <4>1. s \in 1..current /\ q \in 1..current'
        BY <1>1, <1>4, <2>1, <2>4, <3>2
      <4>2. q \in index
        BY <1>1, <1>4, <2>4, <4>1
      <4> QED
        BY <1>1, <2>4, <4>1, <4>2 DEF CallsInv, IndexInv
    <3> QED
      BY <3>1, <3>2
  <2> QED
    BY <2>1, <2>3, <2>4 DEF IndexInv
<1>11. RangeInv'
  <2>1. ASSUME NEW u \in Thread, stage'[u] = "lock", call'[u].op = "range"
        PROVE  /\ call'[u].since <= acked'
               /\ call'[u].at # {} => call'[u].since = 0
    <3>1. stage[u] = "lock" /\ call[u].op = "range"
      BY <1>1, <1>2, <2>1
    <3>2. call[u].since \in Nat
      BY <3>1, CallParts
    <3>3. call[u].since <= acked /\ (call[u].at # {} => call[u].since = 0)
      BY <3>1 DEF CallsInv, RangeInv
    <3> QED
      BY <1>1, <1>4, <3>2, <3>3
  <2>2. \A u \in Thread : stage'[u] \in Locked => call'[u].op # "range"
    BY <1>1, <1>2, <1>3
  <2> QED
    BY <2>1, <2>2 DEF RangeInv
<1>12. ResultInv'
  BY <1>1, ResultKept
<1> QED
  BY <1>5, <1>6, <1>7, <1>8, <1>9, <1>10, <1>11, <1>12 DEF CallsInv

(* A compaction takes the lock and trims the index to what ranges at its   *)
(* revision or later can see.                                              *)
LEMMA CompactBeginsStep ==
  ASSUME CallsInv, NEW t \in Thread, CompactBegins(t)
  PROVE  CallsInv'
<1> DEFINE at == call[t].at
           dropped == { r \in index : r <= at } \ Visible(index, at)
           c == [op |-> "compact", at |-> at, left |-> dropped, removed |-> 0]
<1>1. /\ call[t].op = "compact" /\ stage[t] = "lock"
      /\ ~(at > current) /\ ~(at < compacted)
      /\ stage' = [stage EXCEPT ![t] = IF dropped = {} THEN "index" ELSE "begin"]
      /\ writer = NoThread /\ readers = {} /\ writer' = t
      /\ index' = index \ dropped
      /\ call' = [call EXCEPT ![t] = c]
      /\ UNCHANGED <<readers, current, compacted, written, acked, failed, result, calls>>
      /\ UNCHANGED <<committed, txn, snapshot, buffer>>
  BY DEF CompactBegins, Goes, LockExclusive, Refused, engineVars
<1>2. /\ stage'[t] = IF dropped = {} THEN "index" ELSE "begin"
      /\ call'[t] = c
      /\ \A u \in Thread : u # t => stage'[u] = stage[u] /\ call'[u] = call[u]
      /\ \A u \in Thread : stage[u] \notin Locked
      /\ \A u \in Thread : stage'[u] \in Locked <=> u = t
  BY <1>1, CallsAssumption DEF CallsInv, LockInv, CallsTypeOK, CallInv, Locked
<1>3. /\ Whole /\ index \subseteq Key /\ written \in Seq(UserKey)
      /\ index \subseteq 1..Len(written) /\ current \in Nat /\ compacted \in Nat
      /\ current = Len(written)
  BY <1>1 DEF CallsInv, WholeInv, Whole, IndexInv, CallsTypeOK
<1>4. at \in Nat /\ compacted <= at /\ at <= current
  BY <1>1, <1>3, CallParts
<1>5. dropped = { r \in index : r <= at } \ Seen(index, written, at)
  BY <1>3, VisibleIsSeen
<1>6. /\ c \in CompactCall /\ c.op = "compact" /\ c.at = at /\ c.left = dropped
      /\ dropped \subseteq index
  BY <1>3, <1>4 DEF CompactCall
<1> HIDE DEF at, dropped, c
<1>7. CallsTypeOK'
  BY <1>1 DEF CallsInv, CallsTypeOK, EngineTypeOK
<1>8. CallInv'
  BY <1>1, <1>2, <1>6 DEF CallsInv, CallInv, Locked
<1>9. LockInv'
  BY <1>1, <1>2, <1>6, CallsAssumption DEF LockInv
<1>10. TxnInv'
  <2>1. stage'[t] # "txn"
    BY <1>2
  <2> QED
    BY <1>1, <1>2, <2>1, TxnKept
<1>11. WholeInv'
  <2>1. /\ index' \cup call'[t].left \subseteq OwnView(t)'
        /\ failed' = 0 => OwnView(t)' = index' \cup call'[t].left
    <3>1. buffer[t] = Untouched /\ committed \subseteq Key
      BY <1>1 DEF CallsInv, TxnInv, CallsTypeOK, EngineTypeOK
    <3>2. OwnView(t)' = committed
      BY <1>1, <3>1, AppliedNothing DEF OwnView
    <3> QED
      BY <1>1, <1>2, <1>3, <1>6, <3>2 DEF Whole
  <2>2. /\ current' = Len(written') /\ call'[t].op = "compact" /\ call'[t].at = at
        /\ stage'[t] = "index" => call'[t].left = {}
        /\ stage'[t] = "begin" => call'[t].at > 0
        /\ stage'[t] \in {"index", "begin"} /\ writer' # NoThread
        /\ index' \cap call'[t].left = {}
    <3>1. current' = Len(written')
      BY <1>1, <1>3
    <3>2. t # NoThread
      BY CallsAssumption
    <3>3. ASSUME NEW q \in dropped PROVE at > 0
      <4>1. q \in 1..Len(written) /\ q <= at
        BY <1>3, <1>5, <1>6
      <4> QED
        BY <1>4, <4>1
    <3> QED
      BY <1>1, <1>2, <1>6, <3>1, <3>2, <3>3
  <2> QED
    BY <1>1, <1>2, <1>4, <2>1, <2>2 DEF WholeInv
<1>12. IndexInv'
  <2>1. \A s \in index : Trimmed(s) => s <= compacted \/ s <= failed
    BY <1>2 DEF Trimmed
  <2>2. ASSUME NEW s \in index, s <= at PROVE Trimmed(s)'
    BY <1>1, <1>2, <1>6, <2>2 DEF Trimmed
  <2>3. ASSUME NEW r \in dropped
        PROVE  \E g \in index' : r < g /\ written[g] = written[r] /\ Trimmed(g)'
    <3> DEFINE Q == { s \in index : s <= at /\ written[s] = written[r] }
    <3>1. r \in Q /\ r \in index /\ r \notin Seen(index, written, at)
      BY <1>5, <2>3
    <3>2. Q \in SUBSET Nat /\ Q # {} /\ \A s \in Q : s <= at
      <4>1. index \subseteq Nat
        BY <1>3
      <4> QED
        BY <3>1, <4>1
    <3>3. PICK g \in Q : \A s \in Q : s <= g
      BY <1>4, <3>2, Greatest
    <3>4. g \in Seen(index, written, at)
      BY <3>3 DEF Seen
    <3>5. g \in index' /\ r < g /\ written[g] = written[r] /\ g <= at /\ g \in index
      <4>1. g \notin dropped /\ g # r
        BY <1>5, <3>1, <3>4
      <4>2. r <= g /\ r \in Nat /\ g \in Nat
        BY <3>1, <3>2, <3>3
      <4> QED
        BY <1>1, <4>1, <4>2, <3>3
    <3> QED
      BY <2>2, <3>5
  <2>4. ASSUME NEW r \in 1..current', r \notin index'
        PROVE  \E s \in index' : r < s /\ written'[s] = written'[r] /\ Trimmed(s)'
    <3>1. CASE r \in dropped
      BY <1>1, <2>3, <3>1
    <3>2. CASE r \notin dropped
      <4>1. PICK s \in index : r < s /\ written[s] = written[r] /\ Trimmed(s)
        BY <1>1, <2>4, <3>2 DEF CallsInv, IndexInv
      <4>2. s \in Nat
        BY <1>3, <4>1
      <4>3. CASE s \in dropped
        <5>1. PICK g \in index' : s < g /\ written[g] = written[s] /\ Trimmed(g)'
          BY <2>3, <4>3
        <5>2. g \in Nat
          BY <1>1, <1>3
        <5> QED
          BY <1>1, <4>1, <4>2, <5>1, <5>2
      <4>4. CASE s \notin dropped
        <5>1. s <= at \/ s <= failed
          BY <1>3, <1>4, <2>1, <4>1, <4>2
        <5>2. Trimmed(s)'
          BY <1>1, <2>2, <4>1, <5>1 DEF Trimmed
        <5> QED
          BY <1>1, <4>1, <4>4, <5>2
      <4> QED
        BY <4>3, <4>4
    <3> QED
      BY <3>1, <3>2
  <2>5. index' \subseteq 1..current'
    BY <1>1, <1>3
  <2>6. ASSUME NEW q \in index', NEW s \in 1..current', q < s, written'[s] = written'[q]
        PROVE  s \in index'
    <3>1. q \in index /\ q \notin dropped /\ s \in index
      BY <1>1, <2>6 DEF CallsInv, IndexInv
    <3>2. q \in Nat /\ s \in Nat
      BY <1>3, <3>1
    <3>3. s \notin dropped
      <4>1. SUFFICES ASSUME s \in dropped PROVE FALSE
        OBVIOUS
      <4>2. s <= at
        BY <1>5, <4>1
      <4>3. q <= at /\ q \notin Seen(index, written, at)
        BY <1>1, <1>4, <2>6, <3>1, <3>2, <4>2 DEF Seen
      <4> QED
        BY <1>5, <3>1, <4>3
    <3> QED
      BY <1>1, <3>1, <3>3
  <2> QED
    BY <2>4, <2>5, <2>6 DEF IndexInv
<1>13. RangeInv'
  BY <1>1, <1>2, <1>6 DEF CallsInv, RangeInv, Locked
<1>14. ResultInv'
  BY <1>1, ResultKept
<1> QED
  BY <1>7, <1>8, <1>9, <1>10, <1>11, <1>12, <1>13, <1>14 DEF CallsInv

(* A compaction removes the oldest record it has left.                     *)
LEMMA RemoveStep ==
  ASSUME CallsInv, NEW t \in Thread, CompactRemoves(t)
  PROVE  CallsInv'
<1> DEFINE k == Oldest(call[t].left)
<1>1. /\ stage[t] = "txn" /\ call[t].op = "compact" /\ call[t].left # {}
      /\ buffer' = [buffer EXCEPT ![t][k] = "removed"]
      /\ call' = [call EXCEPT ![t].left = @ \ {k}, ![t].removed = @ + 1]
      /\ UNCHANGED <<stage, readers, writer, index, current, compacted>>
      /\ UNCHANGED <<written, acked, failed, result, calls, committed, txn, snapshot>>
  BY DEF CompactRemoves, RemoveKey, storeVars
<1>2. /\ stage[t] \in Locked /\ call[t] \in CompactCall
      /\ call[t].left \subseteq Key /\ call[t].at \in Nat /\ call[t].removed \in Nat
  BY <1>1, CallParts DEF Locked
<1>3. k \in call[t].left /\ k \in Key
  BY <1>1, <1>2, CallsAssumption, OldestIsOne
<1> HIDE DEF k
<1>4. /\ call'[t] = [op |-> "compact", at |-> call[t].at,
                     left |-> call[t].left \ {k}, removed |-> call[t].removed + 1]
      /\ \A u \in Thread : u # t => call'[u] = call[u]
  BY <1>1, <1>2 DEF CallsInv, CallInv, CompactCall
<1>5. /\ call'[t].op = "compact" /\ call'[t].at = call[t].at
      /\ call'[t].left = call[t].left \ {k}
      /\ call'[t] \in CompactCall
  BY <1>2, <1>4 DEF CompactCall
<1>6. /\ \A u \in Thread : stage[u] \in Locked => u = t
      /\ writer # NoThread
  BY <1>1, <1>2, HasAlone
<1>7. /\ buffer'[t] = [buffer[t] EXCEPT ![k] = "removed"]
      /\ \A u \in Thread : u # t => buffer'[u] = buffer[u]
      /\ buffer[t] \in [Key -> {"kept", "put", "removed"}]
  BY <1>1 DEF CallsInv, CallsTypeOK, EngineTypeOK
<1>8. CallsTypeOK'
  BY <1>1 DEF CallsInv, CallsTypeOK, EngineTypeOK
<1>9. CallInv'
  BY <1>1, <1>4, <1>5 DEF CallsInv, CallInv, Locked
<1>10. LockInv'
  BY <1>1, <1>4, <1>5 DEF CallsInv, LockInv
<1>11. TxnInv'
  <2>1. ASSUME NEW u \in Thread, u # t
        PROVE  /\ txn'[u] = "none" /\ buffer'[u] = Untouched /\ stage'[u] # "txn"
    BY <1>1, <1>6, <1>7, <2>1 DEF CallsInv, TxnInv, Locked
  <2>2. \A j \in Key : buffer'[t][j] # "put"
    <3>1. \A j \in Key : buffer[t][j] # "put"
      BY <1>1 DEF CallsInv, TxnInv
    <3> QED
      BY <1>7, <3>1
  <2>3. txn'[t] = "write"
    BY <1>1 DEF CallsInv, TxnInv
  <2>4. stage'[t] = "txn" /\ call'[t].op = "compact"
    BY <1>1, <1>5
  <2> QED
    BY <2>1, <2>2, <2>3, <2>4 DEF TxnInv
<1>12. WholeInv'
  <2>1. /\ current = Len(written) /\ compacted <= call[t].at /\ call[t].at <= current
        /\ index \cup call[t].left \subseteq OwnView(t) /\ index \cap call[t].left = {}
        /\ failed = 0 => OwnView(t) = index \cup call[t].left
        /\ call[t].at > 0
    BY <1>1, <1>2 DEF CallsInv, WholeInv
  <2>2. OwnView(t)' = OwnView(t) \ {k}
    BY <1>1, <1>3, <1>7 DEF OwnView, Applied
  <2>3. /\ index' \cup call'[t].left \subseteq OwnView(t)' /\ index' \cap call'[t].left = {}
        /\ failed' = 0 => OwnView(t)' = index' \cup call'[t].left
    BY <1>1, <1>3, <1>5, <2>1, <2>2
  <2> QED
    BY <1>1, <1>5, <1>6, <2>1, <2>3 DEF WholeInv
<1>13. IndexInv'
  <2>1. ASSUME NEW u \in Thread, stage[u] \in Locked, call[u].op = "compact"
        PROVE  call'[u].op = "compact" /\ call'[u].at = call[u].at
    BY <1>4, <1>5, <1>6, <2>1
  <2> QED
    BY <1>1, <2>1, IndexKept DEF Trimmed
<1>14. RangeInv'
  <2>1. \A u \in Thread : stage'[u] \in Locked => call'[u].op # "range"
    BY <1>1, <1>5, <1>6
  <2>2. \A u \in Thread : stage'[u] = "lock" => stage[u] = "lock" /\ call'[u] = call[u]
    BY <1>1, <1>4
  <2>3. UNCHANGED <<index, current, compacted, written, acked>>
    BY <1>1
  <2>4. acked \in Nat
    BY DEF CallsInv, CallsTypeOK
  <2> QED
    BY <2>1, <2>2, <2>3, <2>4, RangeKept
<1>15. ResultInv'
  BY <1>1, ResultKept
<1> QED
  BY <1>8, <1>9, <1>10, <1>11, <1>12, <1>13, <1>14, <1>15 DEF CallsInv

(* A compaction commits a chunk of removals, and goes on if some are left. *)
LEMMA CompactCommitsStep ==
  ASSUME CallsInv, NEW t \in Thread, CompactCommits(t)
  PROVE  CallsInv'
<1>1. /\ call[t].op = "compact" /\ stage[t] = "txn"
      /\ stage' = [stage EXCEPT ![t] = IF call[t].left = {} THEN "index" ELSE "begin"]
      /\ committed' = OwnView(t)
      /\ txn' = [txn EXCEPT ![t] = "none"]
      /\ buffer' = [buffer EXCEPT ![t] = Untouched]
      /\ call' = [call EXCEPT ![t].removed = 0]
      /\ UNCHANGED <<readers, writer, index, current, compacted>>
      /\ UNCHANGED <<written, acked, failed, result, calls, snapshot>>
  BY DEF CompactCommits, Goes, Commit, storeVars
<1>2. /\ stage[t] \in Locked /\ call[t] \in CompactCall
      /\ call[t].left \subseteq Key /\ call[t].at \in Nat
  BY <1>1, CallParts DEF Locked
<1>3. /\ call'[t] = [op |-> "compact", at |-> call[t].at,
                     left |-> call[t].left, removed |-> 0]
      /\ \A u \in Thread : u # t => call'[u] = call[u]
  BY <1>1, <1>2 DEF CallsInv, CallInv, CompactCall
<1>4. /\ call'[t].op = "compact" /\ call'[t].at = call[t].at
      /\ call'[t].left = call[t].left
      /\ call'[t] \in CompactCall
  BY <1>2, <1>3 DEF CompactCall
<1>5. /\ stage'[t] = IF call[t].left = {} THEN "index" ELSE "begin"
      /\ \A u \in Thread : u # t => stage'[u] = stage[u]
      /\ \A u \in Thread : stage'[u] \in Locked <=> stage[u] \in Locked
      /\ \A u \in Thread : stage'[u] = "lock" => stage[u] = "lock" /\ u # t
  BY <1>1, <1>2 DEF CallsInv, CallsTypeOK, Locked
<1>6. /\ \A u \in Thread : stage[u] \in Locked => u = t
      /\ writer # NoThread
  BY <1>1, <1>2, HasAlone
<1>7. CallsTypeOK'
  <2>1. EngineTypeOK'
    BY <1>1, ViewType DEF CallsInv, CallsTypeOK, EngineTypeOK, Untouched
  <2>2. stage' \in [Thread -> {"idle", "lock", "begin", "txn", "index", "unlock"}]
    BY <1>1 DEF CallsInv, CallsTypeOK
  <2> QED
    BY <1>1, <2>1, <2>2 DEF CallsInv, CallsTypeOK
<1>8. CallInv'
  <2>1. DOMAIN call' = Thread
    BY <1>1 DEF CallsInv, CallInv
  <2>2. ASSUME NEW u \in Thread, u # t
        PROVE  stage'[u] = stage[u] /\ call'[u] = call[u]
    BY <1>3, <1>5, <2>2
  <2>3. stage'[t] \in {"index", "begin"}
    BY <1>5
  <2> QED
    BY <1>4, <2>1, <2>2, <2>3 DEF CallsInv, CallInv, Locked
<1>9. LockInv'
  BY <1>1, <1>3, <1>4, <1>5 DEF CallsInv, LockInv
<1>10. TxnInv'
  <2>1. stage'[t] # "txn"
    BY <1>5
  <2> QED
    BY <1>1, <1>3, <1>5, <2>1, TxnClosed
<1>11. WholeInv'
  <2>1. /\ current = Len(written) /\ compacted <= call[t].at /\ call[t].at <= current
        /\ index \cup call[t].left \subseteq OwnView(t) /\ index \cap call[t].left = {}
        /\ failed = 0 => OwnView(t) = index \cup call[t].left
        /\ call[t].at > 0
    BY <1>1, <1>2 DEF CallsInv, WholeInv
  <2>2. OwnView(t)' = OwnView(t)
    <3>1. buffer'[t] = Untouched
      BY <1>1 DEF CallsInv, CallsTypeOK, EngineTypeOK
    <3>2. OwnView(t)' = committed'
      BY <1>1, <3>1, ViewType, AppliedNothing DEF OwnView
    <3> QED
      BY <1>1, <3>2
  <2>3. stage'[t] = "index" => call'[t].left = {}
    BY <1>4, <1>5
  <2>4. stage'[t] # "unlock"
    BY <1>5
  <2> QED
    BY <1>1, <1>4, <1>5, <1>6, <2>1, <2>2, <2>3, <2>4 DEF WholeInv
<1>12. IndexInv'
  <2>1. ASSUME NEW u \in Thread, stage[u] \in Locked, call[u].op = "compact"
        PROVE  stage'[u] \in Locked /\ call'[u].op = "compact" /\ call'[u].at = call[u].at
    BY <1>3, <1>4, <1>5, <1>6, <2>1
  <2> QED
    BY <1>1, <2>1, IndexKept DEF Trimmed
<1>13. RangeInv'
  <2>1. \A u \in Thread : stage'[u] \in Locked => call'[u].op # "range"
    BY <1>4, <1>5, <1>6
  <2>2. \A u \in Thread : stage'[u] = "lock" => stage[u] = "lock" /\ call'[u] = call[u]
    BY <1>3, <1>5
  <2> QED
    BY <1>1, <2>1, <2>2, RangeKept DEF CallsInv, CallsTypeOK
<1>14. ResultInv'
  BY <1>1, ResultKept
<1> QED
  BY <1>7, <1>8, <1>9, <1>10, <1>11, <1>12, <1>13, <1>14 DEF CallsInv

(* A compaction that removed everything moves the compacted revision.      *)
LEMMA CompactEndsStep ==
  ASSUME CallsInv, NEW t \in Thread, CompactEnds(t)
  PROVE  CallsInv'
<1>1. /\ stage[t] = "index" /\ stage' = [stage EXCEPT ![t] = "unlock"]
      /\ call[t].op = "compact" /\ compacted' = call[t].at
      /\ UNCHANGED <<readers, writer, index, current, call, written, acked, failed, result, calls>>
      /\ UNCHANGED <<committed, txn, snapshot, buffer>>
  BY DEF CompactEnds, Goes, engineVars
<1>2. /\ stage'[t] = "unlock" /\ stage[t] \in Locked
      /\ \A u \in Thread : u # t => stage'[u] = stage[u]
      /\ \A u \in Thread : stage'[u] \in Locked <=> stage[u] \in Locked
      /\ \A u \in Thread : stage'[u] = "lock" => stage[u] = "lock"
  BY <1>1 DEF CallsInv, CallsTypeOK, Locked
<1>3. /\ \A u \in Thread : stage[u] \in Locked => u = t
      /\ writer # NoThread
  BY <1>1, <1>2, HasAlone
<1>4. /\ current = Len(written) /\ compacted <= call[t].at /\ call[t].at <= current
      /\ index \subseteq OwnView(t) /\ (failed = 0 => OwnView(t) = index)
      /\ call[t].at \in Nat /\ compacted \in Nat
  <2>1. call[t].at \in Nat /\ compacted \in Nat
    BY <1>1, <1>2, CallParts DEF CallsInv, CallsTypeOK
  <2>2. /\ current = Len(written) /\ compacted <= call[t].at /\ call[t].at <= current
        /\ index \cup call[t].left \subseteq OwnView(t) /\ call[t].left = {}
        /\ failed = 0 => OwnView(t) = index \cup call[t].left
    BY <1>1, <1>2 DEF CallsInv, WholeInv
  <2> QED
    BY <2>1, <2>2
<1>5. CallsTypeOK'
  BY <1>1, <1>4 DEF CallsInv, CallsTypeOK, EngineTypeOK
<1>6. CallInv'
  BY <1>1, <1>2 DEF CallsInv, CallInv, Locked
<1>7. LockInv'
  BY <1>1, <1>2 DEF CallsInv, LockInv
<1>8. TxnInv'
  BY <1>1, <1>2, TxnKept
<1>9. WholeInv'
  <2>1. buffer[t] = Untouched /\ committed \subseteq Key
    BY <1>1 DEF CallsInv, TxnInv, CallsTypeOK, EngineTypeOK
  <2>2. OwnView(t) = committed
    BY <2>1, AppliedNothing DEF OwnView
  <2>3. Whole'
    BY <1>1, <1>4, <2>2 DEF Whole
  <2> QED
    BY <1>1, <1>2, <1>3, <1>4, <2>3 DEF WholeInv
<1>10. IndexInv'
  <2>1. ASSUME NEW s \in index, Trimmed(s) PROVE Trimmed(s)'
    <3>1. s \in Nat
      BY DEF CallsInv, IndexInv
    <3>2. s <= call[t].at \/ s <= failed
      BY <1>3, <1>4, <2>1, <3>1 DEF Trimmed
    <3> QED
      BY <1>1, <3>2 DEF Trimmed
  <2> QED
    BY <1>1, <2>1, IndexKept
<1>11. RangeInv'
  <2>1. \A u \in Thread : stage'[u] \in Locked => call'[u].op # "range"
    BY <1>1, <1>2, <1>3
  <2> QED
    BY <1>1, <1>2, <2>1 DEF CallsInv, RangeInv
<1>12. ResultInv'
  BY <1>1, ResultKept
<1> QED
  BY <1>5, <1>6, <1>7, <1>8, <1>9, <1>10, <1>11, <1>12 DEF CallsInv

-----------------------------------------------------------------------------
(* The invariant, and what follows from it.                                *)

(* A store nobody has called yet satisfies the invariant.                  *)
LEMMA CallsInitially == Init => CallsInv
<1> SUFFICES ASSUME Init PROVE CallsInv
  OBVIOUS
<1> USE DEF Init
<1>1. CallsTypeOK
  BY CallsAssumption DEF CallsTypeOK, EngineInit, EngineTypeOK, Untouched
<1>2. CallInv
  BY DEF CallInv, Locked
<1>3. LockInv
  BY CallsAssumption DEF LockInv, Locked
<1>4. TxnInv
  BY DEF TxnInv, EngineInit
<1>5. WholeInv
  BY DEF WholeInv, Whole, EngineInit, Locked
<1>6. IndexInv
  BY DEF IndexInv
<1>7. RangeInv
  BY DEF RangeInv, Locked
<1>8. ResultInv
  BY DEF ResultInv, NoResult, Seen
<1> QED
  BY <1>1, <1>2, <1>3, <1>4, <1>5, <1>6, <1>7, <1>8 DEF CallsInv

(* What the invariant mentions, left alone.                                *)
LEMMA CallsStutter ==
  ASSUME CallsInv, UNCHANGED vars
  PROVE  CallsInv'
<1>1. /\ UNCHANGED <<committed, txn, snapshot, buffer>>
      /\ UNCHANGED <<readers, writer, index, current, compacted>>
      /\ UNCHANGED <<stage, call, written, acked, failed, result, calls>>
  BY DEF vars, engineVars, storeVars
<1>2. CallsTypeOK' /\ CallInv' /\ LockInv'
  BY <1>1 DEF CallsInv, CallsTypeOK, EngineTypeOK, CallInv, LockInv
<1>3. TxnInv'
  BY <1>1 DEF CallsInv, TxnInv
<1>4. WholeInv'
  BY <1>1 DEF CallsInv, WholeInv, Whole, OwnView
<1>5. IndexInv'
  BY <1>1 DEF CallsInv, IndexInv, Trimmed
<1>6. RangeInv'
  BY <1>1 DEF CallsInv, RangeInv
<1>7. ResultInv'
  BY <1>1, ResultKept
<1> QED
  BY <1>2, <1>3, <1>4, <1>5, <1>6, <1>7 DEF CallsInv

(* Every call that runs beside others keeps the lock, the index and the    *)
(* backend in step, and a range that has the lock has read what it needs.  *)
THEOREM CallsInvariant == Spec => []CallsInv
<1>1. Init => CallsInv
  BY CallsInitially
<1>2. CallsInv /\ [Next]_vars => CallsInv'
  <2> SUFFICES ASSUME CallsInv, [Next]_vars PROVE CallsInv'
    OBVIOUS
  <2>1. ASSUME NEW t \in Thread,
               CallRange(t) \/ CallApply(t) \/ CallCompact(t) \/ CallCheckpoint(t)
        PROVE  CallsInv'
    BY <2>1, CallStep
  <2>2. ASSUME NEW t \in Thread, RangeRefused(t) \/ CompactRefused(t)
        PROVE  CallsInv'
    BY <2>2, RefusedStep
  <2>3. ASSUME NEW t \in Thread, OpenTxn(t) PROVE CallsInv'
    BY <2>3, OpenStep
  <2>4. ASSUME NEW t \in Thread, Unlock(t) PROVE CallsInv'
    BY <2>4, UnlockStep
  <2>5. ASSUME NEW t \in Thread, RangeBegins(t) PROVE CallsInv'
    BY <2>5, RangeBeginsStep
  <2>6. ASSUME NEW t \in Thread, RangeFetches(t) PROVE CallsInv'
    BY <2>6, RangeFetchesStep
  <2>7. ASSUME NEW t \in Thread, WriteBegins(t) PROVE CallsInv'
    BY <2>7, WriteBeginsStep
  <2>8. ASSUME NEW t \in Thread, ApplyInserts(t) PROVE CallsInv'
    BY <2>8, InsertStep
  <2>9. ASSUME NEW t \in Thread, ApplyCommits(t) PROVE CallsInv'
    BY <2>9, ApplyCommitsStep
  <2>10. ASSUME NEW t \in Thread, CheckpointCommits(t) PROVE CallsInv'
    BY <2>10, CheckpointStep
  <2>11. ASSUME NEW t \in Thread, ApplyIndexes(t) PROVE CallsInv'
    BY <2>11, ApplyIndexesStep
  <2>12. ASSUME NEW t \in Thread, CompactBegins(t) PROVE CallsInv'
    BY <2>12, CompactBeginsStep
  <2>13. ASSUME NEW t \in Thread, CompactRemoves(t) PROVE CallsInv'
    BY <2>13, RemoveStep
  <2>14. ASSUME NEW t \in Thread, CompactCommits(t) PROVE CallsInv'
    BY <2>14, CompactCommitsStep
  <2>15. ASSUME NEW t \in Thread, CompactEnds(t) PROVE CallsInv'
    BY <2>15, CompactEndsStep
  <2>16. ASSUME NEW t \in Thread, BeginFails(t) \/ TransactionFails(t)
         PROVE  CallsInv'
    BY <2>16, FailStep
  <2>17. CASE UNCHANGED vars
    BY <2>17, CallsStutter
  <2> QED
    BY <2>1, <2>2, <2>3, <2>4, <2>5, <2>6, <2>7, <2>8, <2>9, <2>10, <2>11, <2>12,
       <2>13, <2>14, <2>15, <2>16, <2>17 DEF Next, Step
<1> QED
  BY <1>1, <1>2, PTL DEF Spec

(* The state of the store and of its callers has its type, and no counter  *)
(* leaves its bounds.                                                      *)
THEOREM CallsTypes == Spec => []CallsTypeOK
<1>1. CallsInv => CallsTypeOK
  BY DEF CallsInv
<1> QED
  BY <1>1, CallsInvariant, PTL

(* Whoever shares the lock finds no half apply and no half compaction:     *)
(* what the index lists is in the backend, and what it does not list has   *)
(* been superseded up to a compaction that returned or failed.             *)
THEOREM SharedWhole == Spec => []SharedSeesWhole
<1>1. CallsInv => SharedSeesWhole
  <2> SUFFICES ASSUME CallsInv, readers # {}
               PROVE  Whole /\ \A r \in 1..current : r \notin index => Superseded(r)
    BY DEF SharedSeesWhole, Whole
  <2>1. writer = NoThread
    BY DEF CallsInv, LockInv
  <2>2. \A u \in Thread : stage[u] \in Locked => call[u].op # "compact"
    BY <2>1, CallsAssumption DEF CallsInv, LockInv
  <2>3. ASSUME NEW r \in 1..current, r \notin index PROVE Superseded(r)
    <3>1. PICK s \in index : r < s /\ written[s] = written[r] /\ Trimmed(s)
      BY <2>3 DEF CallsInv, IndexInv
    <3>2. s <= compacted \/ s <= failed
      BY <2>2, <3>1 DEF Trimmed
    <3> QED
      BY <3>1, <3>2 DEF Superseded
  <2> QED
    BY <2>1, <2>3 DEF CallsInv, WholeInv
<1> QED
  BY <1>1, CallsInvariant, PTL

(* Every range finds in the backend all that its index promised, nothing   *)
(* replaced at its revision, every apply that returned before it, and the  *)
(* whole of its revision unless a failed compaction was at a later one.    *)
THEOREM RangesReturnTheirRevision == Spec => []RangesExact
<1>1. CallsInv => RangesExact
  <2> SUFFICES ASSUME CallsInv, NEW t \in Thread
               PROVE  LET held == Visible(1..Len(written), result[t].at) IN
                      /\ result[t].missing = {} /\ result[t].found \subseteq held
                      /\ result[t].at >= failed => result[t].found = held
                      /\ result[t].at >= result[t].since
    BY DEF RangesExact
  <2>1. /\ result[t].at \in Nat /\ result[t].since \in Nat
        /\ result[t].since <= result[t].at /\ result[t].missing = {}
        /\ result[t].found \subseteq Seen(1..Len(written), written, result[t].at)
        /\ result[t].at >= failed =>
             result[t].found = Seen(1..Len(written), written, result[t].at)
    BY DEF CallsInv, ResultInv
  <2>2. Visible(1..Len(written), result[t].at)
          = Seen(1..Len(written), written, result[t].at)
    BY VisibleIsSeen DEF CallsInv, CallsTypeOK
  <2> QED
    BY <2>1, <2>2
<1> QED
  BY <1>1, CallsInvariant, PTL
=============================================================================
