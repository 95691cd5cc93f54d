------------------------------- MODULE Server --------------------------------
(***************************************************************************)
(* The running program: a KvStore over redb with the write-ahead log in    *)
(* front of it, started, stopped, killed and started again.  Writes are    *)
(* logged, flushed, applied and answered by the writer thread, which also  *)
(* checkpoints the store and trims the log; other threads compact the      *)
(* history of the same store meanwhile.                                    *)
(*                                                                         *)
(* The log is what Wal shows it to be: a sequence of mutations of which a  *)
(* power loss takes an unflushed end.  Its failing calls are in Wal.       *)
(***************************************************************************)
EXTENDS KvStore

CONSTANT CompactLag  \* how far behind the current revision compactions stay

ASSUME LagAssumption == CompactLag \in Nat

VARIABLES
  server,   \* where the main thread is in run, then the writer thread
  log,      \* the mutations of the segments that remain
  base,     \* the position of the first of them
  synced,   \* the position the log is flushed to
  told      \* the writes that were answered, by position

storeVars == vars
logVars == <<log, base, synced>>
serverVars == <<storeVars, server, logVars, told>>

Serving == {"idle", "logged", "synced", "trimming"}

(* The position after the last record. *)
End == base + Len(log)

ServerTypeOK ==
  /\ TypeOK
  /\ server \in Serving \cup {"down", "opened", "replayed", "refused"}
  /\ log \in Seq(Mutation) /\ base \in Nat /\ synced \in base..End
  /\ told \in [DOMAIN told -> Write] /\ DOMAIN told \subseteq 1..synced

ServerInit ==
  /\ Init
  /\ server = "idle"
  /\ log = <<>> /\ base = 0 /\ synced = 0
  /\ told = [p \in {} |-> {}]

Goes(from, to) == server = from /\ server' = to

-----------------------------------------------------------------------------
(* Starting: the store first, then the log over it.                        *)

OpenStore ==
  /\ Goes("down", "opened")
  /\ Open
  /\ UNCHANGED <<logVars, told>>

(* The records recovery has read that the store has not applied. *)
Pending == SubSeq(log, applied - base + 1, Len(log))

(* The log is refused when it ends before the position the store applied.  *)
Recover ==
  /\ Goes("opened", IF End < applied THEN "refused" ELSE "replayed")
  /\ IF End <= applied THEN UNCHANGED storeVars ELSE Apply(Pending, End)
  /\ UNCHANGED <<logVars, told>>

(* The last segment is cut after its last record, flushed and appended to. *)
ReopenTail ==
  /\ Goes("replayed", "idle")
  /\ synced' = End
  /\ UNCHANGED <<storeVars, log, base, told>>

-----------------------------------------------------------------------------
(* The writer thread.                                                      *)

AppendBatch(batch) ==
  /\ Goes("idle", "logged")
  /\ End + Len(batch) <= MaxWrites
  /\ log' = log \o batch
  /\ UNCHANGED <<storeVars, base, synced, told>>

Sync ==
  /\ Goes("logged", "synced")
  /\ synced' = End
  /\ UNCHANGED <<storeVars, log, base, told>>

(* The batch is applied, and its callers are told the revisions. *)
ApplyAndAnswer ==
  /\ Goes("synced", "idle")
  /\ LET batch == Pending IN
     /\ Apply(batch, applied + Len(batch))
     /\ told' = [i \in DOMAIN told \cup applied + 1..applied + Len(batch) |->
                   IF i > applied THEN Numbered(batch)[i - applied] ELSE told[i]]
  /\ UNCHANGED logVars

FlushStore ==
  /\ Goes("idle", "trimming")
  /\ Checkpoint
  /\ UNCHANGED <<logVars, told>>

(* The oldest segment goes when the next, which begins at n, begins at or  *)
(* below the checkpoint.  Where segments begin is left open; the last one  *)
(* is empty when a crash came between creating it and writing to it.       *)
RemoveSegment(n) ==
  /\ server = "trimming"
  /\ n <= applied
  /\ log' = SubSeq(log, n - base + 1, Len(log))
  /\ base' = n
  /\ UNCHANGED <<storeVars, server, synced, told>>

TrimEnds ==
  /\ Goes("trimming", "idle")
  /\ UNCHANGED <<storeVars, logVars, told>>

-----------------------------------------------------------------------------
(* Compaction of history, from any other thread that shares the store.     *)

Compacts ==
  /\ server \in Serving
  /\ \/ \E at \in 0..(current - CompactLag) : CompactBegins(at)
     \/ CompactNext \/ CompactFails \/ CompactEnds
  /\ UNCHANGED <<server, logVars, told>>

-----------------------------------------------------------------------------
(* Ending.                                                                 *)

(* The queue is empty and the thread joined; closing the database may      *)
(* flush it, or not.                                                       *)
Stop ==
  /\ Goes("idle", "down")
  /\ \E i \in DOMAIN commits : FallTo(i)
  /\ UNCHANGED <<spent, logVars, told>>

Killed ==
  /\ server' = "down"
  /\ Fault("crash") /\ FallTo(Survives(commits))
  /\ UNCHANGED <<base, told>>

(* The files stay as they were written. *)
Kill == Killed /\ UNCHANGED <<log, synced>>

(* What was not flushed may be lost, from the end. *)
PowerLoss ==
  /\ Killed
  /\ \E n \in synced..End : log' = SubSeq(log, 1, n - base) /\ synced' = n

-----------------------------------------------------------------------------

ServerNext ==
  \/ OpenStore \/ Recover \/ ReopenTail
  \/ \E batch \in Batch : AppendBatch(batch)
  \/ Sync \/ ApplyAndAnswer \/ FlushStore
  \/ \E n \in base + 1..End : RemoveSegment(n)
  \/ TrimEnds
  \/ Compacts
  \/ Stop \/ Kill \/ PowerLoss

ServerSpec == ServerInit /\ [][ServerNext]_serverVars

-----------------------------------------------------------------------------
(* Properties.                                                             *)

(* A caller that was told a revision can read its write there, through     *)
(* compactions below it, trimmed logs, crashes and replays, until a        *)
(* compaction passes it.                                                   *)
ToldReadable ==
  server \in Serving =>
    \A p \in DOMAIN told :
      LET at == told[p].revision
          m == told[p].mutation
      IN  at >= floor =>
            /\ Readable(at)
            /\ { <<r.modified, r.stored>> : r \in ReadAt(m.key, at) } =
               { <<at, m.value>> } \ { <<at, Deleted>> }

(* No two writes are told the same revision, and later ones higher ones.   *)
ToldApart ==
  \A p, q \in DOMAIN told : p < q => told[p].revision < told[q].revision

(* Whatever commit a crash or a stop leaves, the log that remains starts   *)
(* no later than it and goes on exactly as the store did.                  *)
LogCoversStore ==
  /\ \A i \in DOMAIN commits : base <= commits[i].backend.applied
  /\ \A p \in base + 1..Len(hist) : p <= End => log[p - base] = hist[p].mutation

(* A log is never refused by the store it was written over. *)
OpensOwnLog == server # "refused"
=============================================================================
