# hadar in TLA+

hadar is a single-node key-value store: a write-ahead log (`crates/wal`) over a
multi-version store (`crates/mvcc`) over a transactional backend
(`crates/storage-api`, `crates/storage-redb`).  The modules here model what
those crates do when threads interleave, calls fail, the process is killed or
the power goes; TLC checks them on small instances, and TLAPS proves the main
results for every value of the constants.

- [Inventory](#inventory)
- [Modules](#modules)
- [Runs](#runs)
- [Fairness](#fairness)
- [Proofs](#proofs)
- [Where the code and its comments disagree](#where-the-code-and-its-comments-disagree)
- [Assumptions, and what is left out](#assumptions-and-what-is-left-out)
- [Plan](#plan)

## Inventory

How a write travels: a caller of `Wal::write` puts its mutations in a bounded
channel and waits for the answer.  One writer thread drains the channel into a
batch, encodes it, appends it to the active segment, flushes once, hands the
whole batch to `KvStore::apply`, and gives every caller its revisions.  The
store writes one backend transaction that is atomic and not durable, and records
in it how far the log has been applied.  When enough was appended the thread
asks the store for a durable commit and removes the segments below it.  Opening
the log reads every segment, replays into the store what is past its applied
position, and cuts the torn end of the last segment.

| Component | State | Operations | What is hard | Correct when |
|---|---|---|---|---|
| Log and recovery, `wal/src/wal.rs` | channel, thread handle, segment directory | `open_with`, `recover`, `write`, `checkpoint`, `shutdown`, `compact` | crash between any two system calls, a store that fell back to an older commit, a log whose beginning is gone | no acknowledged write is lost or applied twice; the log opens after every crash |
| Writer thread, `wal/src/writer.rs` | active segment, bytes since the last checkpoint, batch and its responders | `run`, `retire`, `answer`, shutdown | callers that give up, batches that fail as a whole, checkpoints racing writes and shutdown | everyone who waits is answered, and with their own revisions |
| Segments and files, `segment.rs`, `io.rs` | name = index of the first record, bytes written, `poisoned` | create, append, rewind, flush, roll over, reopen, remove | short writes, failed flushes and rewinds, torn ends | sealed segments end on a record; refused bytes do not come back |
| Records and frames, `record.rs`, `frame.rs` | bytes | encode, decode | telling a cut from damage | a reader returns a prefix of what was written |
| Store, `mvcc/src/store.rs` | index, current revision, watermark, applied position under an `RwLock`; the backend | `open`, `apply`, `checkpoint`, `range`, `compact` | index against backend after failures and crashes, chunked compaction, concurrent callers | reads at a revision give the values of that revision; index and backend agree |
| Index, `mvcc/src/index.rs` | per key, generations of revisions | put, tombstone, locate, compact | repeated compaction over deletions and re-creations | what a compaction keeps is what later reads need |
| Storage contract, `storage-api/src/engine.rs` | committed keyspace, open transactions | begin, read, insert, remove, commit, abort | isolation | one writer, stable snapshots, atomic ordered commits |
| In-memory engine, `storage-api/src/mem.rs` | committed map, gate of a flag and a condition variable | the same | lost wake-ups, stale copies | it keeps the contract |
| Ranges, `storage-api/src/bounds.rs` | - | constructors, prefix successor, paging step | trailing 0xff, the last page | a paged scan returns the keys asked for, once and in order |
| Stored bytes, `record.rs`, `revision.rs`, `meta.rs` of `mvcc` | - | revision, backend key, record and marker encodings, the scan on opening | byte order, limits, foreign keys, page boundaries | a reopened store lists what was written, in order, or refuses what it did not write |
| redb backend, `storage-redb/src/engine.rs` | the table; commits since the last durable one | open, the contract, `commit_durable`, paged ranges | what a crash leaves | atomic ordered commits; a durable one takes the earlier ones with it |
| Server, `hadar/src/server.rs` | store, log | open the store, then the log, serve, shut down | the two recover from different moments; history is compacted beside the writer thread | what was told stays readable; the store never outruns its log |
| Configuration, `hadar/src` | - | arguments, paths | - | not modelled |
| API, `api` | - | generated protobuf types only | - | not modelled |

`PROJECT.json` lists the components with what is covered of each, the hazards
with their lines and the properties that answer them, and for every definition
the source lines it stands for.

## Modules

**`SegmentFiles`** - one segment as the file system holds it: whole records, how
many are synced, and whether undecodable bytes follow.  Each operation of
`io.rs` is an operator, with every outcome `Faults` can inject (`PartlyWritten`,
`HalfTruncated`) and what a power loss leaves (`Survivors`).

**`Wal`** - clients, channel, writer thread, crashes and recovery.  `pc` is the
thread's place in `run`/`retire`/`compact` or in `open_with`; an action is one
system call or a step of memory between two.  `client`/`reply` are what callers
know; `queue`, `closing` the channel; `batch`, `bytes`, `verdict`, `granted`,
`requested` the locals of `retire` and `answer`; `active`, `written`, `poisoned`
the `Segment`; `files` the directory; `hist`, `applied`, `commits` what the log
sees of the store; `scan`, `seen`, `pending` the locals of `recover`.  A failing
call is an action of its own (`SyncFails`, `RewindFails`, ...), counted against
`MaxFaults`.

**`DurableLog`** - what the log promises: one sequence of mutations that grows by
unanswered writes, loses only writes nobody was told succeeded, and keeps every
acknowledged mutation at its revision.  **`WalRefinement`** maps `Wal` to it: the
abstract log is the part of the store's history whose segments are gone followed
by the whole records of the segments that remain, position by position
(`LogicalLog`), which agrees with a concatenation of the segments wherever they
are contiguous.  It also states the bound on the length of the log
(`LogBounded`).

**`WalInvariant`**, **`WalProofs`** - the inductive invariant under any failures,
and what follows from it.  **`WalCleanProofs`** - the stronger invariant where no
flush, rewind or apply fails.  **`WalRefinementProofs`** - the refinement of
`DurableLog`, and the sizes of batches, segments and the log.

**`LogFormat`** - the bytes under `SegmentFiles`: records encoded and framed cell
by cell, a file cut anywhere or with one field damaged, and the reader.  It
justifies the abstraction of `SegmentFiles`, where a cut leaves whole records
and at most one undecodable end.  **`LogFormatProofs`** holds its proofs.

**`Redb`** - the backend as a chain of commits since the last durable one:
`CreateTable`, `Committed`, `Commit`, `CommitDurable`, and `Survives`, the link
redb shows after a kill.

**`Index`** - histories of generations, and `put`, `tombstone`, `locate`, `at`,
`compact` as operators on them.  **`KvStore`** - the store over a chain of `Redb` of which, in its own runs,
a crash may leave any link: `Apply`, `Checkpoint`, compaction as `CompactBegins`,
one `CompactNext` per chunk and `CompactEnds`, `CompactFails`, `Crash`, and
`Open`, which rebuilds the index.  `hist` is the history the store stands for,
against which reads are compared; a crash cuts it to what the surviving commit
stands for.  What a compaction drops is a set, removed a chunk at a time in the
order `Before`; the index of a batch and of a backend are recursive functions
over the writes.  **`KvStoreProofs`** holds its proofs.

**`AppliedStore`** - what the log relies on in the store, and all it needs to
know: the latest value of every key is what the applied part of the log makes
it, the two are lost together, and never behind a position a checkpoint
returned.  `KvStore` maps to it with the applied position as the length of its
log, and reads through the rebuilt index as its values
(`ImplementsAppliedStore`).

**`Server`** - `hadar/src/server.rs`: extends `KvStore` with the log in front of
it, as the sequence of mutations that `Wal` shows it to be, and the process
around both.  `server` is the place of the main thread in `run`, then of the
writer thread; `log`, `base`, `synced` the records that remain, the position of
the first and how many are flushed; `told` the answers given.  `Recover` applies
to the store what the log holds past its applied position, as one `Apply`;
`RemoveSegment` cuts the log at any place a segment may begin; `Compacts`
interleaves the steps of a compaction of history; `Stop` leaves any commit,
`Kill` and `PowerLoss` the one redb keeps.  **`ServerProofs`** holds its proofs,
over those of `KvStore`.

**`StoreFormat`** - the bytes under `KvStore`, with small bytes and widths:
revisions and their limit, backend keys with and without the mark of a deletion,
records, the applied marker, and `KvStore::open`'s scan in pages over them,
beside keys that others wrote.  It justifies that `KvStore` keeps records under
pairs of a revision and a flag and reads them in that order.

**`Engine`** - the storage contract.  A write transaction is the set of its
changes, applied to whatever is committed when it commits; a read transaction is
a snapshot.  **`MemEngine`** - the in-memory engine, where a writer copies the map
and commits the copy; the refinement to `Engine` is what shows that the copy is
never stale.  Its gate is modelled step by step: flag, waiters asleep, wake-ups
with and without cause.  Readers page through their snapshot as `KvStore::open`
does, with the ranges of **`Bounds`**.  **`MemProofs`** holds its proofs.

**`KvCalls`** - concurrent callers of one store, over `Engine`: every call takes
the lock, then the writer slot (`range` takes a write transaction,
`store.rs:235`), and other threads run between its steps.  A call may find no
transaction (`BeginFails`), or fail at a read, a change or the commit of it
(`TransactionFails`), and then gives back what it holds; `failed` remembers the
highest revision a compaction failed at, its index trimmed and its records left.
**`KvCallsProofs`** holds its proofs.

Modules named `MC...` give constants to TLC.  Definitions marked *Mutant* are
plausible mistakes, each in place of the definition that follows it; every
property of a passing run is violated by one of them.

## Runs

| Run | Instance | Shows |
|---|---|---|
| `wal_faults` | 3 writes, one of two mutations, segments of 2 records, any two failures, 2 restarts | the type invariant, the inductive invariant, no acknowledged write lost (`AckedRecoverable`) or hidden (`AckedVisible`) |
| `wal_clean` | 4 writes, one of two mutations and one that cannot be encoded, one failure of a create, a write, a store flush or a removal, 2 restarts | the log implements `DurableLog`; revisions stay true, nothing is applied twice, refused writes stay out, no crash of an open log leaves one that recovery refuses (`ReopensAfterCrash`), what is shown survives (`SeenSurvives`) |
| `wal_live` | 3 writes, 1 checkpoint, segments of 1 record, any one failure, 1 restart, fair | every awaited call is answered; automatic checkpoints find something to remove and bound the log |
| `wal_apply_twice` | violation | after a failed apply, an acknowledged write is replayed twice |
| `log_format` | up to 3 records, 2 cuts or one damaged field | reads are a prefix of what was written; a cut loses no whole record; damage in a checksum or payload is reported |
| `kv_compaction` | 2 keys, 4 writes in batches of up to 2, chunks of 1, 2 compactions, failing transactions, and one failed compaction or one crash | reads exact, also creation revisions and versions while the process lives; compacted reads refused; index = backend; the refinement of `AppliedStore` |
| `kv_resurrect` | violation | a deleted key comes back after a failed compaction and a reopening |
| `mem_engine` | 3 threads, 3 keys over two byte values, 3 changes, pages of 1 | the gate, no stranded waiter, paged scans exact, refinement of `Engine` |
| `store_calls` | 3 threads, 3 calls, 3 revisions of 2 keys, chunks of 1, any call failing at any of its transactions | ranges beside writers and compactions find nothing stale or gone, and all of their revision unless a compaction failed at a later one; who shares the lock sees no half-done call; every call returns |
| `server` | 2 keys, 3 writes in batches of up to 2, one compaction behind the current revision, which may fail, 2 kills, power losses or failures, any number of stops | what was told stays readable at its revision (`ToldReadable`), the log covers every commit (`LogCoversStore`), no log is refused by its own store (`OpensOwnLog`) |
| `server_reuse` | violation | after a compaction at the current revision, a stop and a start, two writers are told the same revision |
| `store_format` | bytes 0..2, numbers of two bytes, 3 revisions, pages of 2, 2 foreign keys of 8 kinds, log positions that advance by up to 2 past the mutations | a reopened store lists exactly what was written, and goes on from the last revision kept and the log position of the last write; foreign keys and markers are refused; records give back their keys |

Bounds.  Two records to a segment and three or four in all are enough for every
shape of directory the code tells apart: an empty active segment, a full one, a
sealed one below, a removed one, a batch across a roll-over.  `MaxBatch = 2` in
`wal_faults` and `wal_clean` gives batches of several callers and of several
mutations; in `wal_live` batches are no larger than a segment, because
`CheckpointFindsSealed` is false otherwise (see below).  In `wal_faults` two
restarts let the second recovery run over what the first left, and two failures
let a rewind fail after the write it was to undo, or a flush fail and the segment
it filled be sealed; checkpoints there are the automatic ones, and `wal_live`
has one that is asked for.  In `wal_clean` the second restart lets a log that was
recovered, cut and appended to be crashed and recovered again.  Writes of one
encodable mutation are interchangeable there: both runs check safety only.  Four writes to two keys with
chunks of one give put-delete-put histories and compactions cut between two
chunks.  `kv_compaction` spends one fault: a failed compaction and a crash
together break `ReadsExact`, which is `kv_resurrect`.  `server` has two, so that
a kill before a flush is followed by a power loss during the recovery, and a
compaction cut short by a kill is followed by a replay; its compactions keep
`CompactLag = 1` revision behind, as with none `ToldApart` and with it
`ToldReadable` are false (`server_reuse`).  In `store_format` three revisions
reach the limit of the counter and make a carry in its bytes, the longest user
key is one byte longer than the length before it can say, and every foreign key
is wrong in one way.  Three threads give a holder of the writer slot and two waiters.

`CHECK_DEADLOCK FALSE` is set for `kv_*`, `server*`, `log_format`,
`store_format`, `mem_engine` and `store_calls`, where callers may stop calling
when their bound is used up.  The
`wal_*` runs check deadlock.

## Fairness

`Wal!FairSpec` is weak fairness of the writer thread's steps and of opening: a
thread the operating system keeps scheduling, and a process that is started
again.  Clients, crashes and failures are not fair.  Weak fairness is enough as
the thread, once it can step, can step until it does.
`MemEngine!FairSpec` is weak fairness of the steps inside `begin_write` and of
the release; a caller may keep its transaction for ever, and spurious wake-ups
are never relied on.  `KvCalls!FairSpec` is weak fairness of each thread inside
a call, without `BeginFails`: a thread that waits for the writer slot is not
assumed to be refused it in the end.  Calls are bounded, so the property is that no call blocks for good, not
that the lock of the standard library is free of starvation.

## Proofs

`WalProofs` proves, for any writes, widths, limits, interval, batch and queue
size, any faults and any number of restarts, `Spec => []TypeOK` and
`Spec => []WalInv`, and from them `AckedRecoverable` (*Durability*) and
`AckedVisible` (*Visibility*).  Neither is inductive.  `WalInv` adds

- `StoreInv`: the commits a crash may leave are ordered, and all are the latest
  while segments are being removed;
- `FilesInv`: a segment begins no later than the synced records below it end,
  unless every commit is past its beginning - what makes "skip `applied` records"
  find the right ones;
- `TailInv`, `FlightInv`, `BatchInv`: the applied position lies within the synced
  part of the active segment, and the batch in flight at its end, past that
  position.  The position may lag the log after a failed flush or apply, never
  lead it, which is why failures cost duplicates and not writes;
- `LiveInv`, `VisibleInv`: acknowledged and about-to-be-acknowledged writes are
  held or replayed at every commit;
- `ScanInv`, `ReopenInv`: what recovery has read so far.

The proof has one lemma per group of actions that touch the same parts; most
actions change nothing the invariant reads (`QuietStep`, `FilesFrame`).

`WalCleanProofs` proves the properties that a failed flush, rewind or apply
breaks (`wal_apply_twice` and the table below show how), from the hypothesis
`CleanFaults`: none of those three calls fails.  Creates, writes, store flushes
and removals may fail, the process may stop or die and the power may go any
number of times.  Then the revisions callers were told stay their mutations'
(*RevisionsKept*), nothing is applied twice (*NothingAppliedTwice*), a refused
write never shows (*RefusedNeverShows*), what was shown survives
(*ShownSurvives*), a crash of an open log leaves one that recovery reads
(*OpensAgain*), and a roll-over never meets a segment of its own name
(*RollOverNamesFree*).  `CleanInv` says why: the store and the segments hold one
log between them.  `Placed(p, x)` is that either has record `x` at position `p`;
- `PlacedInv`: one record at a position, one position for a record - what makes a
  replay harmless and a revision lasting;
- `StoreClean`: the applied position is the length of the history, in every
  commit, where under faults it may lag;
- `FilesClean`, `TailClean`: sealed segments are whole, synced and contiguous, and
  the active one ends at the applied position or with the batch in flight;
- `MessagesInv`, `LaidInv`: a write is once in queue or batch, and the batch's
  bytes, later its revisions, are those of its writes, one after the other;
- `FreshInv`, `AckedInv`: a write not sent, not logged yet or refused has left
  nothing, save what a failed append left past the segment's believed end; an
  acknowledged one is placed where its caller was told;
- `ScanClean`, `ReopenClean`: recovery will replay exactly what follows the
  applied position.

`WalRefinementProofs` proves `Spec => ImplementsDurableLog` (*LogImplemented*)
from the same hypothesis.  `LogicalLog` is shown to be the one sequence of which
`Placed` tells the positions (`LogFacts`), so a step is judged by what it places:
an append is `Grow`, a rewind `Retract`, a stop, a kill or a power loss `Crash`, an answer `Acknowledge` or `Refuse`, everything else a stutter.
`MappedInv` adds that an acknowledged write lies in the flushed part and that the
revisions of a batch follow one another.

The sizes, in the same module, need no `CleanFaults`.  The hypothesis `WidestWrite` says that
among the writes there is a widest, which any finite number of them has.
`SizeInv` bounds a batch (`BatchSmall`) and with it a segment (`FilesSmall`),
says that what was counted since the last compaction and is not in the active
segment lies in a sealed one (`SealedInv`), and, while nothing failed or stopped,
that the log holds no more than was counted and one segment (`GrowthInv`).  So
`wal.rs:25-29`'s "At two there is always a sealed segment" holds whatever fails,
under the condition the theorem states: the interval is at least a segment and
the widest batch (*SealedBeforeCheckpoint*); and `LogBounded` holds
for every size (*LogStaysBounded*).

`MemProofs` proves for `MemEngine`, for any threads, keys and calls, that the
slot has one holder and its copy is current (`MemInvariant`), that no waiter is
stranded (`NoWaiterStranded`), and `Spec => ImplementsEngine` (`ContractKept`):
`Clone` is the contract's `BeginWrite`, the store of the map its `Commit`, and
the gate's steps are invisible.  `CopyCurrent` is the part that is needed: a
writer's copy equals the last commit with its own changes.

`KvStoreProofs` proves for `KvStore`, for any keys, values, batches, chunks,
compactions and faults, the types (*StoreTypeOK*), that the index an open store
keeps is the one its records rebuild (*IndexAlwaysMatches*), that reads are exact
(*ReadsAlwaysExact*, *IncarnationAlwaysKept*), and that the store implements
`AppliedStore` (*AppliedStoreImplemented*).  None is inductive, and no single
invariant carries them all:

- `StoreInv`, of every behaviour: a commit holds records of revisions up to the
  number of writes it stands for (`BackendHolds`); the index lists only records
  that the running compaction will leave (`Left`), and all of them as long as no
  compaction failed (`IndexHolds`); until one fails, a put that is being dropped
  has a later record of its key at or below the watermark, and the puts before it
  go with it (`DropHolds`).  `Left` makes the invariant independent of how far the
  chunks have got;
- `ExactInv`: from the highest watermark on, what is current in each commit, and
  in the index, is what the writes say, with the values stored (`Exact`).  It
  holds while no failed compaction is followed by another (`Sound`), and of the
  index before the first crash whatever failed (`LivedInv`).  A compaction that
  failed leaves records the index no longer lists; a second one may take the
  tombstone above them, and a reopening then finds them (`kv_resurrect`);
- `WholeInv`: in a store that never reopened, the index counts each incarnation
  from its creation, although compaction trimmed the writes it counts;
- `PositionsInv`: a commit's position is the number of its writes, and none is
  behind what a checkpoint returned.

*ReadsAlwaysExact* and *AppliedStoreImplemented* have the hypothesis `NoRelapse`:
the bounds allow no failed compaction followed by another one and a crash.
`kv_compaction` satisfies it with one fault; `kv_resurrect` does not, and there
`ReadsExact` fails, so the hypothesis cannot be dropped.

Under these are lemmas about the operators of `Index`, none of which speaks of
the store: what `Locate` finds (`Located`), what a put and a tombstone change of
it, that a compaction keeps whatever is found from its watermark on
(`LocatedKept`) and is a cut of the history, place by place (`CutPlaces`), and
what an index rebuilt from records lists.  A recursive function over the writes is followed with
`Climb`, which takes a set where the induction theorems take an operator, and
rests on the smallest element of a set of numbers (`Smallest`).

`ServerProofs` proves for `Server`, for any keys, writes, batches, compactions
and faults, and any number of stops, kills, power losses and starts, that every
commit a crash or a stop may leave is covered by the log that remains
(`LogCovers`) and that no log is refused by its own store (`OwnLogOpens`).
Neither is inductive.  `ServerInv` adds

- `CommitsInv`: the positions of the commits grow, from the durable one, which
  lies within the flushed part of the log, to the last, which is the whole
  history; a crash during recovery cuts the log only past the durable one;
- `ContentInv`: record by record the log that remains is what the store applied;
- `PlaceInv`: while it serves, nothing the store applied is unflushed, and while
  segments are removed every commit is at the applied position - what lets a
  segment below that position go.

The proof has one lemma per group of actions (`ApplySteps`, `RemoveStep`,
`EndSteps`, ...) over lemmas about `Commit`, `FallTo` and a cut sequence.  The
index does not occur in it: positions and mutations are enough.

The store inside `Server` takes the steps of `KvStore`, except that `Recover`
applies more than a batch at once and a crash leaves less, so `StoreInv` and
`SoundInv` carry over by the same lemmas (*ServerStoreInvariant*), and with them
the types (*ServerTyped*).  *ToldAlwaysReadable* is the promise of the whole
program: the write a caller was told of is what a read at its revision finds,
until a compaction passes it.  It needs

- `GivenInv`: the log holds mutations, and only flushed ones were answered;
- `UnbrokenInv`: revisions are positions, which a reopening keeps because every
  commit still holds the record of its last write (`LastKept`), and a compaction
  below the current revision never takes that one;
- `TellsInv`: what was told at a position is what the log, and the store's
  history, holds there.

Its hypothesis `CompactsBehind` is that compactions stay behind the current
revision and that none follows one that failed (`MaxCompactions <= 1` unless
none fails).  The run `server` satisfies it.  `server_reuse` shows what a
compaction at the current revision does, and `kv_resurrect`, on the store alone,
what a second one after a failure does.

Of `KvStore` alone the module proves that what a returned compaction discarded stays
refused while the process lives (*CompactedStaysRefused*).

`KvCallsProofs` proves for `KvCalls`, for any threads, calls, keys, batches and
chunks, and with calls failing at any transaction, that a range returns only
newest records at its revision, none that its index promised missing, and all of
them unless a compaction failed at a later revision
(*RangesReturnTheirRevision*); that whoever shares the lock finds every listed
record in the backend and every other one superseded, and the two equal if no
compaction failed (*SharedWhole*); and the types (*CallsTypes*).
`CallsInv` says for each stage of each call what it still has to do (`TxnInv`,
`WholeInv`: between an apply's commit and its index, or a compaction's index and
its last chunk, the two differ by exactly that, and by what failed compactions
left), and of the index that whatever it does not list was superseded by a record
it lists, at or below a watermark already begun, by a compaction that failed
included (`IndexInv`) - the reason a compaction beside a range takes nothing the
range may return.  It also lists every newer record of the key of a listed one, so
a range after a failed compaction may miss a key but never answers with a record
that was replaced.

`LogFormatProofs` proves for `LogFormat`, for any keys, values, widths, damage
and number of records and crashes, that the reader returns the first records
written (*ReaderReturnsPrefix*), that a cut is no error and costs only what it
reached (*CutsEndTheLog*), that damage to a checksum or a payload is an error
(*DamageIsReported*), and the types (*FormatTypes*).  `FormatInv` says what the
file is: the first cells of the frames written, or all the frames with one damaged
cell the reader has not passed (`FramesInv`), and that the reader stands at the
end of a frame, having read what lies before it (`ReadingInv`).  One turn of the
reader then has three outcomes (`NextTurn`), after three lemmas about `Decode`: a
whole frame gives its mutation (`DecodeWhole`), less than one is truncated
(`DecodeShort`), a damaged one is an error (`DecodeDamaged`; a damaged length may
look truncated).  A reader after damage reopens only before the damaged frame.
`FrameEnds` is a recursive function; that it grows by the width of each frame is
shown by the smallest index at which it does not.

The assumptions are the named ones on constants in each module; TLC evaluates
them in the runs.  Theorems with a hypothesis of their own name it
(`CleanFaults`, `WidestWrite`, the size of the interval, `NoRelapse`,
`CompactsBehind`); the instances of `wal_clean`, `wal_live`, `kv_compaction` and
`server` satisfy them.

Only model-checked:
- liveness (`EveryoneAnswered`, `SlotTaken`, `EveryCallReturns`): the provers have
  no rules for fairness and `ENABLED` here;
- `StoreFormat`'s `OpenedExact`, `OpeningJudges` and `RecordsKept`: sorting keys
  as sequences of bytes, and a scan that folds over the pages of that order;
- `ScanExact`, which pages by sorting a set into a sequence.

## Where the code and its comments disagree

Shown by a run:

| Where | What happens |
|---|---|
| `wal/src/writer.rs:203` (`wal_apply_twice`) | the applied position does not count records logged and not applied, so log positions run ahead of it. `wal.rs:65-67`: "replays from that point exactly" |
| `mvcc/src/store.rs:104` (`server_reuse`) | opening takes the current revision from surviving records; compaction may have removed the newest, a tombstone. `mvcc/src/lib.rs:3`: "monotonically increasing revision" |
| `mvcc/src/store.rs:281` (`kv_resurrect`) | the index is trimmed before the backend; after a failure the leftover records are never removed, and a deleted key can come back on reopening |

Met while modelling, without a run:

| Where | What happens |
|---|---|
| `wal/src/segment.rs:126` | a failed flush keeps its records in the file and counts them; the refused write is replayed on the next opening and visible (`RefusedInvisible` fails when flushes may fail). `wal.rs:58-60`: "an unacknowledged one is never visible afterwards" |
| `mvcc/src/store.rs:113` | the compaction watermark is zero after a reopening, so reads below it are answered from a history with holes (`store.rs:265-266`: "refused as compacted from this point on") |
| `mvcc/src/store.rs:286` | a compaction that fails in `begin_write`, a removal or a commit leaves the index trimmed and the watermark where it was: a range at a revision between the two is accepted and misses keys (`store.rs:219`: "Returns the keys within `bounds` as they were at revision `at`").  Put a key twice, let a compaction at 2 fail, and a range at 1 finds nothing; `RangesExact` without its condition on `failed` is violated so, and with it says what remains true |
| `mvcc/src/store.rs:102` | a rebuilt index recounts creation revision and version from what compaction left |
| `wal/src/wal.rs:212` | a write flushed and not answered before a crash is replayed and visible (`wal/src/lib.rs:9-11`) |
| `wal/src/writer.rs:193` | a segment filled by a failed flush is sealed unsynced; a power loss can tear it, and `wal.rs:230` then refuses the log |
| `wal/src/writer.rs:194` | a segment filled by refused writes alone rolls over to its own name, which `create_new` refuses until a restart |
| `wal/src/segment.rs:115` | a failed rewind leaves whole records of a refused batch; the segment is poisoned, the records are replayed on opening |
| `wal/src/wal.rs:29` | a batch of two segments' worth makes a checkpoint due over a single segment, which frees nothing |
| `wal/src/wal.rs:250` | recovery applies records it has read and nobody has flushed; if the process was killed between a write and its flush, and the power then goes after the replay and before `Segment::reopen` flushes the tail, an engine that kept the commit is ahead of its log and `wal.rs:244` refuses to open (the mutant of `OpensOwnLog` in `Server`, a backend that keeps such commits, shows it; redb drops them).  `ReopensAfterCrash` is therefore a promise about a log that is open, not about one being opened |
| `wal/src/frame.rs:56` | a length damaged so that its frame runs past the file reads as a cut: the last segment silently loses what follows |
| `storage-api/src/mem.rs:172`, `mvcc/src/index.rs:96` | a range whose end lies before its start panics in `BTreeMap::range`; `bounds.rs:7` and `:36` call it empty |
| `storage-redb/src/lib.rs:12-17` | says redb flushes every commit; `engine.rs:139` sets `Durability::None` |
| `mvcc/src/store.rs:235` | `range` opens a write transaction, so reads exclude each other; `store.rs:38` says they share a lock |

## Assumptions, and what is left out

- File system: a power loss keeps the synced bytes of a file and a prefix of the
  others; a synced file's directory entry, and removals, are kept in order.  The
  code never flushes the directory.
- A later successful flush covers what an earlier failed one did not.
- The checksum is ideal: two contents never share one.
- redb: a transaction commits as a whole; in `KvStore` and `Wal` a crash leaves
  any of the commits since the last durable one, which is what the contract of
  `storage-api` allows; in `Server` a kill leaves the last durable one, which is
  what redb documents of `Durability::None`, and a clean stop any.
- `Server` takes from `Wal` that the log is one sequence of which a power loss
  keeps the flushed part and a prefix of the rest.  Its log calls do not fail;
  those failures are in `Wal`.
- Nothing in `hadar` calls `KvStore::compact` yet.  `Server` lets any thread call
  it, as `Wal::store` gives the store out.
- Values, keys and payloads are model values; error texts, options parsing and
  logging are not modelled.
- Calls of the store fail at their transactions, in `KvStore` and `KvCalls`; the
  decoding errors of `range` (`store.rs:246-249`) do not occur, as `RangesExact`
  and `RecordsKept` show.  `ReadsExact` of `KvStore` is about revisions from the
  highest watermark begun on; what a range below it finds after a failed
  compaction is in `RangesExact`.
- A panic in `apply` (`revision.rs:64`) ends `StoreFormat`'s process; the writer
  thread that dies of it while callers wait is not modelled.
- `Revision::next_sub` has no caller; errors' texts, configuration and the
  generated API have no state.

## Plan

Done, in this order: the log and its proof, the store, the record format, the
in-memory engine with its proof, concurrent callers of the store, the backend
and the contract the log has with the store, the server around both with its
proof, the bytes of the store; then proofs of the callers' invariant, of the log
where its vital calls do not fail, of its refinement of `DurableLog`, of its
sizes, and of the reader of its bytes; last the proofs of the store, its index
and its refinement of `AppliedStore`, and of what callers of the server were told.

Next:
1. `Wal` as the log of `Server`, shown by a refinement mapping rather than
   stated: `log`, `base` and `synced` from `files`.
2. Liveness of `Server`: every start ends in serving, under a fair process.
