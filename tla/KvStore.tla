------------------------------ MODULE KvStore -------------------------------
(***************************************************************************)
(* The store: mutations applied in batches, one backend transaction each,  *)
(* an index over their revisions, compaction of history in chunks, flushes *)
(* of the backend, crashes, and the rebuilding of the index on opening.    *)
(*                                                                         *)
(* Every method holds the state lock from its first step to its last, so   *)
(* apply and checkpoint are one step each.  A compaction is one step per   *)
(* backend transaction, as a crash or a failure may come between two.      *)
(***************************************************************************)
EXTENDS Index, Redb

CONSTANTS
  Value,          \* values of puts
  Deleted,        \* what a deletion stores in place of a value
  CompactChunk,   \* COMPACT_CHUNK
  MaxBatch,       \* bound: mutations in a batch
  MaxWrites,      \* bound: mutations applied in a behaviour
  Faults,         \* what may fail: "transaction", "compact", "crash"
  MaxFaults,      \* bound: failed compactions and crashes in a behaviour
  MaxCompactions  \* bound: compactions in a behaviour

ASSUME DeletedAssumption == Deleted \notin Value
ASSUME BoundsAssumption ==
  /\ CompactChunk \in Nat \ {0}
  /\ MaxBatch \in Nat \ {0}
  /\ Faults \subseteq {"transaction", "compact", "crash"}
  /\ {MaxWrites, MaxFaults, MaxCompactions} \subseteq Nat

Mutation == [key : Key, value : Value \cup {Deleted}]

IsTombstone(mutation) == mutation.value = Deleted

(* A mutation and the revision it was given. *)
Write == [revision : Revision, mutation : Mutation]

(* A backend key: the revision, and whether it marks a deletion. *)
BackendKey == Revision \X BOOLEAN

(* What the backend holds: a record per revision and the applied marker. *)
Backend(b) ==
  /\ DOMAIN b.records \subseteq BackendKey
  /\ b.records \in [DOMAIN b.records -> Mutation]
  /\ b.applied \in Nat

(* What is counted: compactions, and the faults that take their effect. *)
Counted == {"compactions", "compact", "crash"}

EmptyBackend == [records |-> [k \in {} |-> {}], applied |-> 0]

VARIABLES
  pc,         \* the store is open, compacting, or down
  index,      \* State.index
  current,    \* State.current
  compacted,  \* State.compacted
  applied,    \* State.applied
  commits,    \* backends a crash may leave, with the history each stands for
  target,     \* the running compaction's watermark
  dropping,   \* the keys and revisions it has still to remove
  hist,       \* the writes the store stands for, in order, with the
              \* revision each was given
  floor,      \* highest watermark of a compaction that was begun
  discarded,  \* highest watermark of a compaction that returned
  flushed,    \* the position the last checkpoint returned
  spent       \* how many compactions and faults of each kind there were

stateVars == <<index, current, compacted, applied>>
compactionVars == <<target, dropping>>
ghostVars == <<hist, floor, discarded, flushed>>
vars == <<pc, stateVars, commits, compactionVars, ghostVars, spent>>

(* The backend as transactions see it. *)
backend == Committed(commits).backend

TypeOK ==
  /\ pc \in {"open", "compacting", "down"}
  /\ DOMAIN index \subseteq Key
  /\ index \in [DOMAIN index -> Seq(Generation)]
  /\ {current, compacted, applied, target, floor, discarded, flushed} \subseteq Nat
  /\ commits # <<>>
  /\ \A i \in DOMAIN commits :
       commits[i].length \in 0..Len(hist) /\ Backend(commits[i].backend)
  /\ dropping \subseteq Key \X Revision
  /\ hist \in Seq(Write)
  /\ spent \in [Counted -> Nat]

Init ==
  /\ pc = "open"
  /\ index = EmptyIndex /\ current = 0 /\ compacted = 0 /\ applied = 0
  /\ commits = CreateTable([length |-> 0, backend |-> EmptyBackend])
  /\ target = 0 /\ dropping = {}
  /\ hist = <<>> /\ floor = 0 /\ discarded = 0 /\ flushed = 0
  /\ spent = [b \in Counted |-> 0]

Spent(bound) == spent' = [spent EXCEPT ![bound] = @ + 1]

Fault(kind) ==
  /\ kind \in Faults
  /\ spent["compact"] + spent["crash"] < MaxFaults
  /\ Spent(kind)

(* A commit, with the length of the history it stands for. *)
Snapshot(length, records, position) ==
  [length |-> length, backend |-> [records |-> records, applied |-> position]]

-----------------------------------------------------------------------------
(* Writing.                                                                *)

(* Each mutation takes its own revision, in order. *)
Numbered(batch) ==
  [i \in DOMAIN batch |-> [revision |-> current + i, mutation |-> batch[i]]]

(* One record joins an index. *)
Recorded(idx, key, revision, tombstone) ==
  IF tombstone THEN IndexTombstone(idx, key, revision)
               ELSE IndexPut(idx, key, revision)

(* The index after the mutations that follow "current", in their order. *)
Indexed(batch) ==
  LET upto[i \in 0..Len(batch)] ==
        IF i = 0 THEN index
        ELSE Recorded(upto[i - 1], batch[i].key, current + i, IsTombstone(batch[i]))
  IN  upto[Len(batch)]

(* Mutant: a deletion is stored under the key of a put. *)
RecordsUnmarked(batch) ==
  LET new == { <<current + i, FALSE>> : i \in DOMAIN batch } IN
  [k \in DOMAIN backend.records \cup new |->
     IF k \in new THEN batch[k[1] - current] ELSE backend.records[k]]

(* The backend's records with that of each mutation, under the key of its  *)
(* revision.                                                               *)
Records(batch) ==
  LET new == { <<current + i, IsTombstone(batch[i])>> : i \in DOMAIN batch } IN
  [k \in DOMAIN backend.records \cup new |->
     IF k \in new THEN batch[k[1] - current] ELSE backend.records[k]]

(* KvStore::apply, for a caller whose log then stands at "upto". *)
Apply(batch, upto) ==
  /\ pc = "open" /\ Len(hist) + Len(batch) <= MaxWrites
  /\ hist' = hist \o Numbered(batch)
  /\ commits' = Commit(commits, Snapshot(Len(hist'), Records(batch), upto))
  /\ index' = Indexed(batch)
  /\ current' = current + Len(batch)
  /\ applied' = upto
  /\ UNCHANGED <<pc, compacted, compactionVars, floor, discarded, flushed,
                 spent>>

-----------------------------------------------------------------------------
(* Flushing.                                                               *)

(* KvStore::checkpoint: what was committed is now durable, the position it *)
(* returns included.                                                       *)
Checkpoint ==
  /\ pc = "open"
  /\ commits' = CommitDurable(commits, Snapshot(Len(hist), backend.records, applied))
  /\ flushed' = applied
  /\ UNCHANGED <<pc, stateVars, compactionVars, hist, floor, discarded, spent>>

(* A transaction of apply or checkpoint that fails leaves the store as it  *)
(* was: memory is written after the commit.                                *)
TransactionFails ==
  /\ pc = "open" /\ "transaction" \in Faults
  /\ UNCHANGED vars

-----------------------------------------------------------------------------
(* Compaction.                                                             *)

(* Mutant: the watermark is not looked at. *)
ReadableFromFirst(at) == at <= current

(* Revisions a read or a compaction may name. *)
Readable(at) == at <= current /\ at >= compacted

(* KvStore::compact trims the index first. *)
CompactBegins(at) ==
  /\ pc = "open" /\ Readable(at)
  /\ spent["compactions"] < MaxCompactions /\ Spent("compactions")
  /\ dropping' = Dropped(index, at)
  /\ index' = IndexCompact(index, at)
  /\ target' = at
  /\ floor' = Max({floor, at})
  /\ pc' = "compacting"
  /\ UNCHANGED <<current, compacted, applied, commits, hist, discarded,
                 flushed>>

(* The next chunk: the first of what is dropped. *)
Chunks ==
  { c \in SUBSET dropping :
      /\ Cardinality(c) = Min({CompactChunk, Cardinality(dropping)})
      /\ \A p \in c, q \in dropping \ c : Before(p, q) }

Revisions(places) == { p[2] : p \in places }

Without(records, revisions) ==
  [k \in { j \in DOMAIN records : j[1] \notin revisions } |-> records[k]]

CompactNext ==
  /\ pc = "compacting" /\ dropping # {}
  /\ \E chunk \in Chunks :
       /\ commits' = Commit(commits,
                       Snapshot(Len(hist), Without(backend.records, Revisions(chunk)),
                                backend.applied))
       /\ dropping' = dropping \ chunk
  /\ UNCHANGED <<pc, stateVars, target, ghostVars, spent>>

(* The error is returned; the index stays trimmed. *)
CompactFails ==
  /\ pc = "compacting" /\ dropping # {}
  /\ Fault("compact")
  /\ dropping' = {} /\ target' = 0
  /\ pc' = "open"
  /\ UNCHANGED <<stateVars, commits, ghostVars>>

CompactEnds ==
  /\ pc = "compacting" /\ dropping = {}
  /\ compacted' = target
  /\ discarded' = Max({discarded, target})
  /\ target' = 0
  /\ pc' = "open"
  /\ UNCHANGED <<index, current, applied, commits, dropping, hist, floor,
                 flushed, spent>>

-----------------------------------------------------------------------------
(* Crashes and opening.                                                    *)

(* The process ends, and the backend is left at the i-th of its commits. *)
FallTo(i) ==
  /\ pc # "down"
  /\ commits' = SubSeq(commits, 1, i)
  /\ hist' = SubSeq(hist, 1, commits[i].length)
  /\ pc' = "down"
  /\ index' = EmptyIndex /\ current' = 0 /\ compacted' = 0 /\ applied' = 0
  /\ target' = 0 /\ dropping' = {}
  /\ UNCHANGED <<floor, discarded, flushed>>

(* The contract orders commits and promises no more, so any may be left.   *)
Crash == Fault("crash") /\ \E i \in DOMAIN commits : FallTo(i)

(* Mutant: the last revision is taken from the puts alone. *)
NewestPut(records) == Max({0} \cup { k[1] : k \in { j \in DOMAIN records : ~j[2] } })

Newest(records) == Max({0} \cup { k[1] : k \in DOMAIN records })

(* The record under a backend key, if there is one, joins an index. *)
Scanned(idx, records, k) ==
  IF k \in DOMAIN records THEN Recorded(idx, records[k].key, k[1], k[2]) ELSE idx

(* The scan in the byte order of the backend keys: revision by revision,   *)
(* a deletion's key being the longer one.                                  *)
Rebuilt(records) ==
  LET upto[r \in 0..Newest(records)] ==
        IF r = 0 THEN EmptyIndex
        ELSE Scanned(Scanned(upto[r - 1], records, <<r, FALSE>>), records, <<r, TRUE>>)
  IN  upto[Newest(records)]

(* KvStore::open. *)
Open ==
  /\ pc = "down"
  /\ index' = Rebuilt(backend.records)
  /\ current' = Newest(backend.records)
  /\ compacted' = 0
  /\ applied' = backend.applied
  /\ pc' = "open"
  /\ UNCHANGED <<commits, compactionVars, ghostVars, spent>>

-----------------------------------------------------------------------------

Batch == UNION { [1..n -> Mutation] : n \in 1..MaxBatch }

Next ==
  \/ \E batch \in Batch : Apply(batch, applied + Len(batch))
  \/ Checkpoint
  \/ TransactionFails
  \/ \E at \in 0..MaxWrites : CompactBegins(at)
  \/ CompactNext
  \/ CompactFails
  \/ CompactEnds
  \/ Crash
  \/ Open

Spec == Init /\ [][Next]_vars

-----------------------------------------------------------------------------
(* Reading, and what it is compared with.                                  *)

Stored(records, revision) ==
  IF <<revision, FALSE>> \in DOMAIN records
  THEN records[<<revision, FALSE>>].value ELSE "missing"

(* The record a read of key at a revision returns, if any; a revision with *)
(* no record is an error of the read.                                      *)
ReadAt(key, at) ==
  { [modified |-> f.modified, created |-> f.created, version |-> f.version,
     stored |-> Stored(backend.records, f.modified)] :
      f \in Found(HistoryOf(index, key), at) }

(* The writes of key at or below a revision, and those of them since the   *)
(* key was last deleted.                                                   *)
WritesTo(key, at) ==
  { i \in DOMAIN hist : hist[i].mutation.key = key /\ hist[i].revision <= at }
Incarnation(key, at) ==
  { i \in WritesTo(key, at) :
      \A j \in WritesTo(key, at) : j >= i => ~IsTombstone(hist[j].mutation) }

(* What the history says a read returns: the last write, unless deleted. *)
Expected(key, at) ==
  { [modified |-> hist[Max(live)].revision, created |-> hist[Min(live)].revision,
     version |-> Cardinality(live), stored |-> hist[Max(live)].mutation.value] :
      live \in { Incarnation(key, at) } \ {{}} }

SameValue(read, due) ==
  { [modified |-> r.modified, stored |-> r.stored] : r \in read } =
  { [modified |-> r.modified, stored |-> r.stored] : r \in due }

Agrees(at) == \A k \in Key : SameValue(ReadAt(k, at), Expected(k, at))

-----------------------------------------------------------------------------
(* Properties.                                                             *)

(* A read at or after every watermark finds exactly the values of that     *)
(* time, through failed and interrupted compactions and reopenings: no     *)
(* value is lost, and no deleted key comes back.                           *)
ReadsExact ==
  pc = "open" => \A at \in floor..current : Agrees(at)

(* Once a compaction returned, and as long as the process lives, reads     *)
(* below its watermark stay refused: the history they need is gone.        *)
CompactedRefused ==
  pc = "open" /\ spent["crash"] = 0 =>
    \A at \in 1..current : Readable(at) => at >= discarded

(* The revision a key was created at and its count of writes stay correct  *)
(* in a process that compacts away the writes themselves.                  *)
IncarnationKept ==
  pc = "open" /\ spent["crash"] = 0 =>
    \A at \in floor..current : \A k \in Key : ReadAt(k, at) = Expected(k, at)

(* What an index says exists: the revisions of each generation.            *)
Listed(i) ==
  [k \in DOMAIN i |->
     [g \in DOMAIN i[k] |-> <<i[k][g].revs, i[k][g].closed>>]]

(* As long as no compaction failed, the running index lists exactly the    *)
(* revisions that an index rebuilt from the backend would list.            *)
IndexMatchesBackend ==
  pc = "open" /\ spent["compact"] = 0 =>
    Listed(index) = Listed(Rebuilt(backend.records))

(* The latest values an index finds in a backend, and the latest ones of   *)
(* the backend's records alone.                                            *)
LatestRead ==
  [k \in Key |->
     LET found == Found(HistoryOf(index, k), MaxWrites) IN
     IF found = {} THEN Deleted
     ELSE Stored(backend.records, (CHOOSE f \in found : TRUE).modified)]
LatestStored(records) ==
  [k \in Key |->
     LET of == { r \in DOMAIN records : records[r].key = k } IN
     IF of = {} THEN Deleted
     ELSE records[CHOOSE r \in of : \A q \in of : q[1] <= r[1]].value]

(* The store is what the log takes it for: values and the applied position *)
(* advance together, fall together to a commit, also one in the middle of  *)
(* a compaction, and never behind the last checkpoint; a reopened store    *)
(* reads the values of its position.                                       *)
StoreAsApplied ==
  INSTANCE AppliedStore WITH
    Absent <- Deleted,
    log <- [i \in 1..(IF pc = "down" THEN backend.applied ELSE applied) |-> hist[i].mutation],
    durable <- flushed,
    values <- IF pc = "down" THEN LatestStored(backend.records) ELSE LatestRead

ImplementsAppliedStore == StoreAsApplied!Spec
=============================================================================
