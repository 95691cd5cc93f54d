-------------------------------- MODULE Wal ---------------------------------
(***************************************************************************)
(* The write-ahead log: clients that queue writes and checkpoints, the one *)
(* thread that folds writes into batches, logs, flushes and applies them   *)
(* and compacts the log, crashes, and the recovery that opening runs.      *)
(*                                                                         *)
(* The store behind the log is what the log sees of KvStore: the sequence  *)
(* of mutations it applied (a mutation's revision is its place there), the *)
(* log position it recorded with them, and the commits a crash may leave   *)
(* it at.  One action is one system call of the thread, or a step of its   *)
(* memory between two of them; clients, faults and crashes come between.   *)
(***************************************************************************)
EXTENDS Naturals, Sequences, FiniteSets

CONSTANTS
  Request,            \* writes, each submitted at most once
  Checkpoint,         \* explicit checkpoints, each asked for at most once
  None,               \* no checkpoint requested
  Width,              \* Width[r]: mutations in write r
  Unencodable,        \* writes record::encode refuses
  SegmentLimit,       \* Options.segment_limit, in records
  CheckpointInterval, \* Options.checkpoint_interval, in records
  MaxBatch,           \* MAX_BATCH
  QueueDepth,         \* QUEUE_DEPTH
  Faults,             \* kinds of call that may fail
  MaxFaults,          \* bound: failed calls in a behaviour
  MaxRestarts         \* bound: ends of the process in a behaviour

FaultKinds == {"create", "write", "rewind", "sync", "apply", "flush",
               "remove", "open"}

ASSUME MessagesAssumption ==
  /\ Request \cap Checkpoint = {}
  /\ None \notin Request \cup Checkpoint
  /\ Width \in [Request -> Nat \ {0}]
  /\ Unencodable \subseteq Request
ASSUME OptionsAssumption ==
  /\ SegmentLimit \in Nat \ {0}
  /\ CheckpointInterval \in Nat \ {0}
  /\ MaxBatch \in Nat \ {0}
  /\ QueueDepth \in Nat \ {0}
ASSUME FaultsAssumption ==
  /\ Faults \subseteq FaultKinds
  /\ MaxFaults \in Nat
  /\ MaxRestarts \in Nat

Message == Request \cup Checkpoint

(* One mutation of a write is one record of the log. *)
Record == { rec \in Request \X (Nat \ {0}) : rec[2] <= Width[rec[1]] }

(* Mutant: mutations numbered from zero. *)
RecordsFromZero(r) == [i \in 1..Width[r] |-> <<r, i - 1>>]

RecordsOf(r) == [i \in 1..Width[r] |-> <<r, i>>]

INSTANCE SegmentFiles

VARIABLES
  client,     \* what each caller knows of its message
  reply,      \* revisions an acknowledged write was told
  queue,      \* the channel to the thread
  closing,    \* the sending half of the channel was dropped
  pc,         \* where the writer thread, or the opening of the log, stands
  batch,      \* requests of the batch not yet answered
  bytes,      \* the records of the batch, encoded
  verdict,    \* outcome of the batch
  granted,    \* revisions of the batch not yet handed out
  requested,  \* the checkpoint to answer after the batch
  appended,   \* records appended since the last checkpoint
  active,     \* name of the segment appended to: its first record's index
  written,    \* records the active segment is believed to hold
  poisoned,   \* a rewind of the active segment failed
  files,      \* the log directory: segment name -> File
  hist,       \* mutations the store has applied, in order of revision
  applied,    \* log position the store recorded with them
  commits,    \* where a crash may leave the store: [len, applied]
  scan,       \* recovery: segments still to read
  seen,       \* recovery: index of the last record read
  pending,    \* recovery: records to replay
  faults,     \* failed calls so far
  restarts    \* ends of the process so far

clientVars == <<client, reply, queue, closing>>
batchVars  == <<batch, bytes, verdict, granted>>
tailVars   == <<active, written, poisoned>>
storeVars  == <<hist, applied, commits>>
scanVars   == <<scan, seen, pending>>
vars == <<clientVars, pc, batchVars, requested, appended, tailVars, files,
          storeVars, scanVars, faults, restarts>>

Serving == {"receive", "drain", "retire", "sync", "rewind", "apply", "answer",
            "settle", "remove"}
Opening == {"scan", "reopen"}

Status == {"idle", "waiting", "acked", "refused", "cancelled", "unknown"}

MaxOf(S) == CHOOSE n \in S : \A m \in S : m <= n
MinOf(S) == CHOOSE n \in S : \A m \in S : n <= m

Commit == [len : Nat, applied : Nat]

Latest == [len |-> Len(hist), applied |-> applied]

TypeOK ==
  /\ client \in [Message -> Status]
  /\ reply \in [Request -> Seq(Nat)]
  /\ queue \in Seq(Message)
  /\ closing \in BOOLEAN
  /\ pc \in Serving \cup Opening \cup {"down", "closed", "failed"}
  /\ batch \in Seq(Request)
  /\ bytes \in Seq(Record)
  /\ verdict \in {"ok", "error"}
  /\ granted \in Seq(Nat)
  /\ requested \in Checkpoint \cup {None}
  /\ appended \in Nat
  /\ active \in Nat
  /\ written \in Nat
  /\ poisoned \in BOOLEAN
  /\ DOMAIN files \subseteq Nat
  /\ files \in [DOMAIN files -> File]
  /\ hist \in Seq(Record)
  /\ applied \in Nat
  /\ commits \subseteq Commit
  /\ scan \subseteq Nat
  /\ seen \in Nat
  /\ pending \in Seq(Record)
  /\ faults \in Nat
  /\ restarts \in Nat

(* A fresh directory and a fresh store; the process is not running. *)
Init ==
  /\ client = [m \in Message |-> "idle"]
  /\ reply = [r \in Request |-> <<>>]
  /\ queue = <<>> /\ closing = FALSE
  /\ pc = "down"
  /\ batch = <<>> /\ bytes = <<>> /\ verdict = "ok" /\ granted = <<>>
  /\ requested = None /\ appended = 0
  /\ active = 0 /\ written = 0 /\ poisoned = FALSE
  /\ files = [n \in {} |-> EmptyFile]
  /\ hist = <<>> /\ applied = 0 /\ commits = {[len |-> 0, applied |-> 0]}
  /\ scan = {} /\ seen = 0 /\ pending = <<>>
  /\ faults = 0 /\ restarts = 0

(* A call of the given kind fails. *)
Fault(kind) ==
  /\ kind \in Faults
  /\ faults < MaxFaults
  /\ faults' = faults + 1

-----------------------------------------------------------------------------
(* Clients.                                                                *)

InFlight(S) == \E m \in S : client[m] = "waiting"

(* Wal::write.  A full queue makes the caller wait: the step is not        *)
(* enabled.  checkpoint and shutdown borrow the log exclusively, so no     *)
(* write is sent while one of them is awaited.                             *)
SendWrite(r) ==
  /\ pc \in Serving /\ ~closing
  /\ client[r] = "idle" /\ ~InFlight(Checkpoint)
  /\ Len(queue) < QueueDepth
  /\ queue' = Append(queue, r)
  /\ client' = [client EXCEPT ![r] = "waiting"]
  /\ UNCHANGED <<reply, closing, pc, batchVars, requested, appended, tailVars,
                 files, storeVars, scanVars, faults, restarts>>

(* Wal::checkpoint, which takes &mut self. *)
SendCheckpoint(c) ==
  /\ pc \in Serving /\ ~closing
  /\ client[c] = "idle" /\ ~InFlight(Message)
  /\ Len(queue) < QueueDepth
  /\ queue' = Append(queue, c)
  /\ client' = [client EXCEPT ![c] = "waiting"]
  /\ UNCHANGED <<reply, closing, pc, batchVars, requested, appended, tailVars,
                 files, storeVars, scanVars, faults, restarts>>

(* A caller drops the future; its message stays queued. *)
Cancel(m) ==
  /\ client[m] = "waiting"
  /\ client' = [client EXCEPT ![m] = "cancelled"]
  /\ UNCHANGED <<reply, queue, closing, pc, batchVars, requested, appended,
                 tailVars, files, storeVars, scanVars, faults, restarts>>

(* Writer::shutdown: the sender is dropped, then the thread is joined. *)
Shutdown ==
  /\ pc \in Serving /\ ~closing
  /\ ~InFlight(Message)
  /\ restarts < MaxRestarts
  /\ closing' = TRUE
  /\ restarts' = restarts + 1
  /\ UNCHANGED <<client, reply, queue, pc, batchVars, requested, appended,
                 tailVars, files, storeVars, scanVars, faults>>

(* Mutant: only good news is passed on. *)
ToldSuccess(m, status) ==
  IF m \in Message /\ client[m] = "waiting" /\ status = "acked"
  THEN [client EXCEPT ![m] = status] ELSE client

(* The answer reaches the caller unless it has dropped the receiver. *)
Told(m, status) ==
  IF m \in Message /\ client[m] = "waiting"
  THEN [client EXCEPT ![m] = status] ELSE client

-----------------------------------------------------------------------------
(* The writer thread: taking a batch.                                      *)

(* The head of the queue joins the batch, with its encoding, or becomes    *)
(* the requested checkpoint; the encode loop of retire reads nothing that  *)
(* changes while the batch fills.                                          *)
Take ==
  LET m == Head(queue) IN
  /\ queue # <<>>
  /\ queue' = Tail(queue)
  /\ IF m \in Request
     THEN /\ batch' = Append(batch, m)
          /\ bytes' = bytes \o RecordsOf(m)
          /\ UNCHANGED requested
     ELSE /\ requested' = m
          /\ UNCHANGED <<batch, bytes>>
  /\ UNCHANGED <<client, reply, closing, verdict, granted, appended, tailVars,
                 files, storeVars, scanVars, faults, restarts>>

Receive == pc = "receive" /\ Take /\ pc' = "drain"

Drain == pc = "drain" /\ Len(batch) < MaxBatch /\ Take /\ UNCHANGED pc

Drained ==
  /\ pc = "drain"
  /\ queue = <<>> \/ Len(batch) >= MaxBatch
  /\ pc' = IF batch = <<>> THEN "settle" ELSE "retire"
  /\ UNCHANGED <<clientVars, batchVars, requested, appended, tailVars, files,
                 storeVars, scanVars, faults, restarts>>

(* The receive loop ends once the channel is closed and drained. *)
ThreadExit ==
  /\ pc = "receive" /\ queue = <<>> /\ closing
  /\ pc' = "closed"
  /\ UNCHANGED <<clientVars, batchVars, requested, appended, tailVars, files,
                 storeVars, scanVars, faults, restarts>>

-----------------------------------------------------------------------------
(* The writer thread: retiring a batch.                                    *)

(* retire returned an error: the whole batch is refused. *)
Refuse ==
  /\ verdict' = "error"
  /\ granted' = <<>>
  /\ pc' = "answer"

CanEncode == \A i \in 1..Len(batch) : batch[i] \notin Unencodable

EncodeFails ==
  /\ pc = "retire" /\ ~CanEncode
  /\ Refuse
  /\ UNCHANGED <<clientVars, batch, bytes, requested, appended, tailVars,
                 files, storeVars, scanVars, faults, restarts>>

(* Mutant: rolls over when the batch would not fit. *)
WouldOverflow == written + Len(bytes) > SegmentLimit

IsFull == written >= SegmentLimit

(* Segment::roll_over; create_new refuses a name that exists. *)
RollOver ==
  /\ pc = "retire" /\ CanEncode /\ IsFull
  /\ applied \notin DOMAIN files
  /\ files' = [n \in DOMAIN files \cup {applied} |->
                 IF n = applied THEN EmptyFile ELSE files[n]]
  /\ active' = applied /\ written' = 0 /\ poisoned' = FALSE
  /\ UNCHANGED <<clientVars, pc, batchVars, requested, appended, storeVars,
                 scanVars, faults, restarts>>

NameTaken ==
  /\ pc = "retire" /\ CanEncode /\ IsFull
  /\ applied \in DOMAIN files
  /\ Refuse
  /\ UNCHANGED <<clientVars, batch, bytes, requested, appended, tailVars,
                 files, storeVars, scanVars, faults, restarts>>

RollOverFails ==
  /\ pc = "retire" /\ CanEncode /\ IsFull
  /\ Fault("create")
  /\ Refuse
  /\ UNCHANGED <<clientVars, batch, bytes, requested, appended, tailVars,
                 files, storeVars, scanVars, restarts>>

AppendPoisoned ==
  /\ pc = "retire" /\ CanEncode /\ ~IsFull /\ poisoned
  /\ Refuse
  /\ UNCHANGED <<clientVars, batch, bytes, requested, appended, tailVars,
                 files, storeVars, scanVars, faults, restarts>>

AppendBytes ==
  /\ pc = "retire" /\ CanEncode /\ ~IsFull /\ ~poisoned
  /\ files' = [files EXCEPT ![active] = Written(@, bytes)]
  /\ written' = written + Len(bytes)
  /\ pc' = "sync"
  /\ UNCHANGED <<clientVars, batchVars, requested, appended, active, poisoned,
                 storeVars, scanVars, faults, restarts>>

AppendFails ==
  /\ pc = "retire" /\ CanEncode /\ ~IsFull /\ ~poisoned
  /\ Fault("write")
  /\ \E f \in PartlyWritten(files[active], bytes) :
       files' = [files EXCEPT ![active] = f]
  /\ pc' = "rewind"
  /\ UNCHANGED <<clientVars, batchVars, requested, appended, tailVars,
                 storeVars, scanVars, restarts>>

Rewind ==
  /\ pc = "rewind"
  /\ files' = [files EXCEPT ![active] = Truncated(@, written)]
  /\ Refuse
  /\ UNCHANGED <<clientVars, batch, bytes, requested, appended, tailVars,
                 storeVars, scanVars, faults, restarts>>

RewindFails ==
  /\ pc = "rewind"
  /\ Fault("rewind")
  /\ \E f \in HalfTruncated(files[active], written) :
       files' = [files EXCEPT ![active] = f]
  /\ poisoned' = TRUE
  /\ Refuse
  /\ UNCHANGED <<clientVars, batch, bytes, requested, appended, active,
                 written, storeVars, scanVars, restarts>>

Sync ==
  /\ pc = "sync"
  /\ files' = [files EXCEPT ![active] = Synced(@)]
  /\ appended' = appended + Len(bytes)
  /\ pc' = "apply"
  /\ UNCHANGED <<clientVars, batchVars, requested, tailVars, storeVars,
                 scanVars, faults, restarts>>

(* The bytes stay in the file, and "written" has counted them. *)
SyncFails ==
  /\ pc = "sync"
  /\ Fault("sync")
  /\ Refuse
  /\ UNCHANGED <<clientVars, batch, bytes, requested, appended, tailVars,
                 files, storeVars, scanVars, restarts>>

(* KvStore::apply: the mutations and the log position in one commit. *)
StoreApply(records, upto) ==
  /\ hist' = hist \o records
  /\ applied' = upto
  /\ commits' = commits \cup
       {[len |-> Len(hist) + Len(records), applied |-> upto]}

Apply ==
  /\ pc = "apply"
  /\ StoreApply(bytes, applied + Len(bytes))
  /\ verdict' = "ok"
  /\ granted' = [i \in 1..Len(bytes) |-> Len(hist) + i]
  /\ pc' = "answer"
  /\ UNCHANGED <<clientVars, batch, bytes, requested, appended, tailVars,
                 files, scanVars, faults, restarts>>

ApplyFails ==
  /\ pc = "apply"
  /\ Fault("apply")
  /\ Refuse
  /\ UNCHANGED <<clientVars, batch, bytes, requested, appended, tailVars,
                 files, storeVars, scanVars, restarts>>

-----------------------------------------------------------------------------
(* The writer thread: answering a batch, one caller at a time.             *)

(* The next revisions of the batch, one for each mutation of write r. *)
Handed(r) ==
  SubSeq(granted, 1, IF Width[r] <= Len(granted) THEN Width[r]
                                                 ELSE Len(granted))

(* Mutant: every caller of a batch is handed its first revisions. *)
AnswerOkUnsplit ==
  LET r == Head(batch) IN
  /\ pc = "answer" /\ batch # <<>> /\ verdict = "ok"
  /\ client' = Told(r, "acked")
  /\ reply' = IF client[r] = "waiting"
              THEN [reply EXCEPT ![r] = Handed(r)]
              ELSE reply
  /\ batch' = Tail(batch)
  /\ UNCHANGED <<queue, closing, pc, bytes, verdict, granted, requested,
                 appended, tailVars, files, storeVars, scanVars, faults,
                 restarts>>

AnswerOk ==
  LET r == Head(batch) IN
  /\ pc = "answer" /\ batch # <<>> /\ verdict = "ok"
  /\ client' = Told(r, "acked")
  /\ reply' = IF client[r] = "waiting"
              THEN [reply EXCEPT ![r] = Handed(r)]
              ELSE reply
  /\ granted' = SubSeq(granted, Width[r] + 1, Len(granted))
  /\ batch' = Tail(batch)
  /\ UNCHANGED <<queue, closing, pc, bytes, verdict, requested, appended,
                 tailVars, files, storeVars, scanVars, faults, restarts>>

AnswerError ==
  LET r == Head(batch) IN
  /\ pc = "answer" /\ batch # <<>> /\ verdict = "error"
  /\ client' = Told(r, "refused")
  /\ batch' = Tail(batch)
  /\ UNCHANGED <<reply, queue, closing, pc, bytes, verdict, granted, requested,
                 appended, tailVars, files, storeVars, scanVars, faults,
                 restarts>>

Answered ==
  /\ pc = "answer" /\ batch = <<>>
  /\ bytes' = <<>>
  /\ pc' = "settle"
  /\ UNCHANGED <<clientVars, batch, verdict, granted, requested, appended,
                 tailVars, files, storeVars, scanVars, faults, restarts>>

-----------------------------------------------------------------------------
(* The writer thread: checkpoint and compaction.                           *)

(* Mutant: no automatic checkpoint. *)
CompactionAsked == requested # None

CompactionDue == requested # None \/ appended >= CheckpointInterval

NothingDue ==
  /\ pc = "settle" /\ ~CompactionDue
  /\ pc' = "receive"
  /\ UNCHANGED <<clientVars, batchVars, requested, appended, tailVars, files,
                 storeVars, scanVars, faults, restarts>>

(* Mutant: commit in place of commit_durable. *)
FlushStoreBuffered ==
  /\ pc = "settle" /\ CompactionDue
  /\ pc' = "remove"
  /\ UNCHANGED <<clientVars, batchVars, requested, appended, tailVars, files,
                 storeVars, scanVars, faults, restarts>>

(* KvStore::checkpoint: everything applied is now durable. *)
FlushStore ==
  /\ pc = "settle" /\ CompactionDue
  /\ commits' = {Latest}
  /\ pc' = "remove"
  /\ UNCHANGED <<clientVars, batchVars, requested, appended, tailVars, files,
                 hist, applied, scanVars, faults, restarts>>

(* compact ended: the requester is told, the thread goes back to its queue. *)
CompactEnds(status) ==
  /\ client' = Told(requested, status)
  /\ requested' = None
  /\ pc' = "receive"

FlushFails ==
  /\ pc = "settle" /\ CompactionDue
  /\ Fault("flush")
  /\ CompactEnds("refused")
  /\ UNCHANGED <<reply, queue, closing, batchVars, appended, tailVars, files,
                 storeVars, scanVars, restarts>>

(* Segments whose successor begins at or below the checkpoint. *)
Successor(n) == MinOf({m \in DOMAIN files : m > n})
Removable ==
  { n \in DOMAIN files :
      /\ \E m \in DOMAIN files : m > n
      /\ Successor(n) <= applied }

RemoveSegment ==
  /\ pc = "remove" /\ Removable # {}
  /\ files' = [n \in DOMAIN files \ {MinOf(Removable)} |-> files[n]]
  /\ UNCHANGED <<clientVars, pc, batchVars, requested, appended, tailVars,
                 storeVars, scanVars, faults, restarts>>

RemoveFails ==
  /\ pc = "remove" /\ Removable # {}
  /\ Fault("remove")
  /\ CompactEnds("refused")
  /\ UNCHANGED <<reply, queue, closing, batchVars, appended, tailVars, files,
                 storeVars, scanVars, restarts>>

(* Mutant: the count of appended records is not reset. *)
CompactedUncounted ==
  /\ pc = "remove" /\ Removable = {}
  /\ CompactEnds("acked")
  /\ UNCHANGED <<reply, queue, closing, batchVars, appended, tailVars, files,
                 storeVars, scanVars, faults, restarts>>

Compacted ==
  /\ pc = "remove" /\ Removable = {}
  /\ appended' = 0
  /\ CompactEnds("acked")
  /\ UNCHANGED <<reply, queue, closing, batchVars, tailVars, files, storeVars,
                 scanVars, faults, restarts>>

-----------------------------------------------------------------------------
(* The end of the process.                                                 *)

(* Memory is lost; an unanswered caller never learns the outcome. *)
LoseMemory ==
  /\ client' = [m \in Message |->
                  IF client[m] = "waiting" THEN "unknown" ELSE client[m]]
  /\ queue' = <<>> /\ closing' = FALSE
  /\ batch' = <<>> /\ bytes' = <<>> /\ verdict' = "ok" /\ granted' = <<>>
  /\ requested' = None /\ appended' = 0
  /\ active' = 0 /\ written' = 0 /\ poisoned' = FALSE
  /\ scan' = {} /\ seen' = 0 /\ pending' = <<>>
  /\ UNCHANGED reply

(* The store comes back at one of its commits; later ones are gone. *)
StoreFallsTo(c) ==
  /\ hist' = SubSeq(hist, 1, c.len)
  /\ applied' = c.applied

(* The process dies and the machine does not: files keep what was written. *)
Kill ==
  /\ pc \in Serving \cup Opening
  /\ restarts < MaxRestarts /\ restarts' = restarts + 1
  /\ LoseMemory
  /\ \E c \in commits :
       /\ StoreFallsTo(c)
       /\ commits' = { d \in commits : d.len <= c.len }
  /\ pc' = "down"
  /\ UNCHANGED <<files, faults>>

(* The power goes: unsynced records of every segment may go with it. *)
PowerLoss ==
  /\ restarts < MaxRestarts /\ restarts' = restarts + 1
  /\ LoseMemory
  /\ \E c \in commits : StoreFallsTo(c) /\ commits' = {c}
  /\ files' \in [DOMAIN files -> UNION { Survivors(files[n]) : n \in DOMAIN files }]
  /\ \A n \in DOMAIN files : files'[n] \in Survivors(files[n])
  /\ pc' = "down"
  /\ UNCHANGED faults

-----------------------------------------------------------------------------
(* Opening the log: Wal::open_with and recover.                            *)

Open ==
  /\ pc \in {"down", "closed", "failed"}
  /\ closing' = FALSE
  /\ scan' = DOMAIN files /\ seen' = 0 /\ pending' = <<>>
  /\ requested' = None /\ appended' = 0
  /\ active' = 0 /\ written' = 0 /\ poisoned' = FALSE
  /\ pc' = "scan"
  /\ UNCHANGED <<client, reply, queue, batchVars, files, storeVars, faults,
                 restarts>>

OpenFailed ==
  /\ pc' = "failed"
  /\ scan' = {} /\ seen' = 0 /\ pending' = <<>>
  /\ UNCHANGED <<clientVars, batchVars, requested, appended, tailVars,
                 storeVars, restarts>>

(* Mutants: one record too many skipped; none skipped. *)
UnappliedLate(n) ==
  LET data == files[n].data
      skip == IF applied + 1 > n THEN applied + 1 - n ELSE 0
  IN  SubSeq(data, skip + 1, Len(data))
UnappliedAll(n) == files[n].data

(* Records of segment n the store has not applied, by their index. *)
Unapplied(n) ==
  LET data == files[n].data
      skip == IF applied > n THEN applied - n ELSE 0
  IN  SubSeq(data, skip + 1, Len(data))

(* Mutant: a torn end of the last segment is refused too. *)
EndsTorn(dir, n) == dir[n].torn

(* Segment n of directory dir ends inside a record, and is not the last. *)
EndsMidRecord(dir, n) == dir[n].torn /\ n # MaxOf(DOMAIN dir)

(* One turn of recover's loop over the segments, in order of their names. *)
ScanSegment ==
  /\ pc = "scan" /\ scan # {}
  /\ LET n == MinOf(scan) IN
       /\ ~EndsMidRecord(files, n)
       /\ seen' = n + Len(files[n].data)
       /\ pending' = pending \o Unapplied(n)
       /\ scan' = scan \ {n}
  /\ UNCHANGED <<clientVars, pc, batchVars, requested, appended, tailVars,
                 files, storeVars, faults, restarts>>

ScanRefused ==
  /\ pc = "scan" /\ scan # {}
  /\ EndsMidRecord(files, MinOf(scan))
  /\ OpenFailed
  /\ UNCHANGED <<files, faults>>

ReadFails ==
  /\ pc = "scan"
  /\ Fault("open")
  /\ OpenFailed
  /\ UNCHANGED files

(* The log ends before what the store says it applied. *)
ReplayRefused ==
  /\ pc = "scan" /\ scan = {} /\ seen < applied
  /\ OpenFailed
  /\ UNCHANGED <<files, faults>>

Replay ==
  /\ pc = "scan" /\ scan = {} /\ seen >= applied
  /\ IF pending = <<>> THEN UNCHANGED storeVars ELSE StoreApply(pending, seen)
  /\ seen' = 0 /\ pending' = <<>>
  /\ pc' = "reopen"
  /\ UNCHANGED <<clientVars, batchVars, requested, appended, tailVars, files,
                 scan, faults, restarts>>

ReplayFails ==
  /\ pc = "scan" /\ scan = {} /\ seen >= applied /\ pending # <<>>
  /\ Fault("apply")
  /\ OpenFailed
  /\ UNCHANGED files

(* Segment::reopen of the last segment, cut after its last whole record. *)
ReopenTail ==
  /\ pc = "reopen" /\ files # [n \in {} |-> EmptyFile]
  /\ LET n == MaxOf(DOMAIN files) IN
       /\ files' = [files EXCEPT ![n] = Truncated(@, Len(@.data))]
       /\ active' = n
       /\ written' = Len(files[n].data)
  /\ pc' = "receive"
  /\ UNCHANGED <<clientVars, batchVars, requested, appended, poisoned,
                 storeVars, scanVars, faults, restarts>>

(* Segment::create of the first segment of a fresh log. *)
CreateFirst ==
  /\ pc = "reopen" /\ DOMAIN files = {}
  /\ files' = [n \in {0} |-> EmptyFile]
  /\ active' = 0 /\ written' = 0
  /\ pc' = "receive"
  /\ UNCHANGED <<clientVars, batchVars, requested, appended, poisoned,
                 storeVars, scanVars, faults, restarts>>

ReopenFails ==
  /\ pc = "reopen"
  /\ Fault("open")
  /\ OpenFailed
  /\ IF DOMAIN files = {} THEN UNCHANGED files
     ELSE LET n == MaxOf(DOMAIN files) IN
          \E f \in HalfTruncated(files[n], Len(files[n].data)) :
            files' = [files EXCEPT ![n] = f]

-----------------------------------------------------------------------------

ClientStep ==
  \/ \E r \in Request : SendWrite(r)
  \/ \E c \in Checkpoint : SendCheckpoint(c)
  \/ \E m \in Message : Cancel(m)
  \/ Shutdown

TakeStep == Receive \/ Drain \/ Drained \/ ThreadExit

RetireStep ==
  \/ EncodeFails \/ RollOver \/ NameTaken \/ RollOverFails
  \/ AppendPoisoned \/ AppendBytes \/ AppendFails \/ Rewind \/ RewindFails
  \/ Sync \/ SyncFails \/ Apply \/ ApplyFails
  \/ AnswerOk \/ AnswerError \/ Answered

CompactStep ==
  \/ NothingDue \/ FlushStore \/ FlushFails
  \/ RemoveSegment \/ RemoveFails \/ Compacted

OpenStep ==
  \/ Open \/ ScanSegment \/ ScanRefused \/ ReadFails \/ ReplayRefused
  \/ Replay \/ ReplayFails \/ ReopenTail \/ CreateFirst \/ ReopenFails

ThreadStep == TakeStep \/ RetireStep \/ CompactStep

(* Nothing is asked of an open log: the thread sleeps on its queue. *)
Idle == pc = "receive" /\ queue = <<>> /\ ~closing /\ UNCHANGED vars

Next == ClientStep \/ ThreadStep \/ Kill \/ PowerLoss \/ OpenStep \/ Idle

Spec == Init /\ [][Next]_vars

(* The writer thread keeps running, and a log that is down is opened. *)
FairSpec == Spec /\ WF_vars(ThreadStep) /\ WF_vars(OpenStep)

-----------------------------------------------------------------------------
(* Properties.                                                             *)

Shown(rec) == \E k \in 1..Len(hist) : hist[k] = rec

(* The store as of commit c holds rec. *)
HeldAt(c, rec) == \E k \in 1..c.len : hist[k] = rec

(* Opening the log over commit c replays rec from a synced place in a      *)
(* segment, and no compaction at c's position removes that segment.        *)
ReplayedFrom(c, rec) ==
  \E n \in DOMAIN files :
    /\ \A m \in DOMAIN files : m > n => m > c.applied
    /\ \E i \in 1..files[n].synced :
         files[n].data[i] = rec /\ n + i > c.applied

(* The records of an acknowledged write survive every crash: whichever     *)
(* commit the store falls back to, it holds each of them or the synced     *)
(* part of the log replays it.                                             *)
AckedRecoverable ==
  \A r \in Request : client[r] = "acked" =>
    \A i \in 1..Width[r], c \in commits :
      HeldAt(c, <<r, i>>) \/ ReplayedFrom(c, <<r, i>>)

(* While the log is open, every acknowledged write is visible: recovery    *)
(* skips nothing that was acknowledged before the crash.                   *)
AckedVisible ==
  pc \in Serving =>
    \A r \in Request : client[r] = "acked" =>
      \A i \in 1..Width[r] : Shown(<<r, i>>)

(* The revisions a caller was told are still those of its mutations, after *)
(* any number of crashes and replays.                                      *)
RevisionsHold ==
  pc \in Serving =>
    \A r \in Request : client[r] = "acked" =>
      \A i \in 1..Width[r] :
        /\ reply[r][i] \in 1..Len(hist)
        /\ hist[reply[r][i]] = <<r, i>>

(* No mutation is applied twice: recovery replays from the applied         *)
(* position exactly.                                                       *)
AppliedOnce ==
  \A j, k \in 1..Len(hist) : hist[j] = hist[k] => j = k

(* What an open log shows no crash takes back, acknowledged or not: before *)
(* it serves, recovery makes durable also the records it replayed that had *)
(* been written and never flushed.                                         *)
SeenSurvives ==
  pc \in Serving =>
    \A k \in 1..Len(hist), c \in commits :
      HeldAt(c, hist[k]) \/ ReplayedFrom(c, hist[k])

(* A write whose caller was told it failed never shows, neither at once    *)
(* nor after the log is opened again.                                      *)
RefusedInvisible ==
  pc \in Serving =>
    \A r \in Request : client[r] = "refused" =>
      \A i \in 1..Width[r] : ~Shown(<<r, i>>)

(* Whatever a crash of an open log leaves of any segment, and whichever    *)
(* commit the store falls back to, recovery refuses neither: no segment    *)
(* but the last ends inside a record, and the last reaches the commit's    *)
(* position.  So it is where no flush, rewind or apply has failed; and a   *)
(* power loss that hits the opening itself, between the replay and the     *)
(* flush of the tail, is not a crash of an open log: see OpensOwnLog of    *)
(* Server.                                                                 *)
ReopensAfterCrash ==
  pc \in Serving =>
    \A n \in DOMAIN files : \A f \in Survivors(files[n]) :
      LET dir == [files EXCEPT ![n] = f] IN
      /\ ~EndsMidRecord(dir, n)
      /\ n = MaxOf(DOMAIN dir) => \A c \in commits : n + Len(dir[n].data) >= c.applied

(* A segment is rolled over to a name no segment has.                      *)
NamesFree ==
  pc = "retire" /\ CanEncode /\ IsFull => applied \notin DOMAIN files

(* An automatic checkpoint finds a sealed segment behind the active one.   *)
CheckpointFindsSealed ==
  pc = "settle" /\ appended >= CheckpointInterval =>
    \E n \in DOMAIN files : n # active

(* Every write and checkpoint that is awaited is answered in the end.      *)
EveryoneAnswered ==
  \A m \in Message : client[m] = "waiting" ~> client[m] # "waiting"
=============================================================================
