--------------------------- MODULE WalRefinement ----------------------------
(***************************************************************************)
(* Wal implements DurableLog where no flush, apply or rewind fails.  The   *)
(* abstract log is what the store holds of the segments already removed,   *)
(* followed by the whole records of the segments that remain.              *)
(***************************************************************************)
EXTENDS Wal

(* Where the oldest segment begins, and the position the last one ends at. *)
LogBegin == IF DOMAIN files = {} THEN 0 ELSE MinOf(DOMAIN files)

LogEnd ==
  IF DOMAIN files = {} THEN 0
  ELSE MaxOf(DOMAIN files) + Len(files[MaxOf(DOMAIN files)].data)

(* The segment a position of the log lies in. *)
SegmentOf(p) == MaxOf({n \in DOMAIN files : n < p})

LogicalLog ==
  [p \in 1..LogEnd |->
     IF p <= LogBegin THEN hist[p] ELSE files[SegmentOf(p)].data[p - SegmentOf(p)]]

Abstract == INSTANCE DurableLog WITH
  client <- [r \in Request |-> client[r]],
  log <- LogicalLog

(* Acknowledged writes keep their place in one log through crashes, refused *)
(* ones never enter it, and it loses only what nobody was told succeeded.   *)
ImplementsDurableLog == Abstract!Spec

(* A process in which no call fails keeps its log, between batches, within  *)
(* the checkpoint interval, one segment and one batch: automatic            *)
(* checkpoints reclaim the rest.                                            *)
WidestBatch == MaxBatch * MaxOf({Width[r] : r \in Request})

LogBounded ==
  pc = "receive" /\ faults = 0 /\ restarts = 0 =>
    LogEnd - LogBegin < CheckpointInterval + SegmentLimit + WidestBatch - 1
=============================================================================
