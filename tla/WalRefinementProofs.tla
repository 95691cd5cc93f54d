------------------------ MODULE WalRefinementProofs -------------------------
(***************************************************************************)
(* Proof that the log implements DurableLog where no flush, apply or       *)
(* rewind fails, for any writes, other faults, crashes and restarts.       *)
(*                                                                         *)
(* Then proofs about the size of the log and the segments it holds, which  *)
(* need no such condition: an automatic checkpoint finds a sealed segment  *)
(* to remove, and a process in which no call fails keeps its log within    *)
(* the bound WalRefinement states.                                         *)
(***************************************************************************)
EXTENDS WalCleanProofs, WalRefinement

-----------------------------------------------------------------------------
(* What the mapping needs beyond CleanInv.                                 *)

(* The position the last segment is flushed to. *)
LogSynced ==
  IF DOMAIN files = {} THEN 0
  ELSE MaxOf(DOMAIN files) + files[MaxOf(DOMAIN files)].synced

(* Nothing is applied before there is a segment; the revisions of a batch  *)
(* follow one another; what was acknowledged lies in the flushed part.     *)
MappedInv ==
  /\ DOMAIN files = {} => hist = <<>>
  /\ pc = "answer" /\ verdict = "ok" =>
       \A j \in 1..Len(granted) : granted[j] = granted[1] + (j - 1)
  /\ \A r \in Request : client[r] = "acked" =>
       \A i \in 1..Width[r] : reply[r][i] <= LogSynced

Inv == TypeOK /\ WalInv /\ CleanInv /\ MappedInv

-----------------------------------------------------------------------------
(* The abstract log holds what is placed up to its end.                    *)

LastName == MaxOf(DOMAIN files)

EndFacts ==
  /\ LogBegin \in Nat /\ LogEnd \in Nat /\ LogSynced \in Nat /\ LogSynced <= LogEnd
  /\ DOMAIN files # {} =>
       /\ LogBegin \in DOMAIN files /\ \A n \in DOMAIN files : LogBegin <= n
       /\ LastName \in DOMAIN files /\ \A n \in DOMAIN files : n <= LastName
       /\ LogEnd = LastName + Len(files[LastName].data)
       /\ LogSynced = LastName + files[LastName].synced

LEMMA EndsHold == TypeOK /\ WalInv => EndFacts
<1> SUFFICES ASSUME TypeOK, WalInv PROVE EndFacts
  OBVIOUS
<1>1. CASE DOMAIN files = {}
  BY <1>1 DEF EndFacts, LogBegin, LogEnd, LogSynced
<1>2. CASE DOMAIN files # {}
  <2>1. DOMAIN files \in SUBSET Nat /\ \E n \in DOMAIN files : \A m \in DOMAIN files : m <= n
    BY <1>2 DEF TypeOK, WalInv, FilesInv
  <2>2. LogBegin \in DOMAIN files /\ \A n \in DOMAIN files : LogBegin <= n
    BY <1>2, <2>1, MinOfProperties DEF LogBegin
  <2>3. LastName \in DOMAIN files /\ \A n \in DOMAIN files : n <= LastName
    BY <2>1, MaxOfProperties DEF LastName
  <2>4. /\ LogEnd = LastName + Len(files[LastName].data)
        /\ LogSynced = LastName + files[LastName].synced
    BY <1>2 DEF LogEnd, LogSynced, LastName
  <2>5. /\ LastName \in Nat /\ Len(files[LastName].data) \in Nat
        /\ files[LastName].synced \in Nat
        /\ files[LastName].synced <= Len(files[LastName].data)
    BY <2>3, DiskTypes DEF WalInv, FilesInv
  <2>6. LogEnd \in Nat /\ LogSynced \in Nat /\ LogSynced <= LogEnd
    BY <2>4, <2>5
  <2> QED
    BY <2>1, <2>2, <2>3, <2>4, <2>6 DEF EndFacts
<1> QED
  BY <1>1, <1>2

LEMMA EndsHoldNext == TypeOK' /\ WalInv' => EndFacts'
BY EndsHold, PTL

(* The segment that begins last below a position past the first one's      *)
(* beginning holds it.                                                     *)
LEMMA SegmentHolds ==
  ASSUME TypeOK, WalInv, CleanInv, NEW p \in 1..LogEnd, LogBegin < p
  PROVE  LET n == SegmentOf(p) IN
         n \in DOMAIN files /\ n \in Nat /\ p - n \in 1..Len(files[n].data)
<1> DEFINE S == {n \in DOMAIN files : n < p}
<1>1. EndFacts /\ p \in Nat
  BY EndsHold DEF EndFacts
<1>2. DOMAIN files # {}
  <2>1. DOMAIN files = {} => LogEnd = 0
    BY DEF LogEnd
  <2> QED
    BY <1>1, <2>1
<1>3. LogBegin \in S /\ S \in SUBSET Nat
  BY <1>1, <1>2, DiskTypes DEF EndFacts
<1>4. PICK k \in S : \A m \in S : m <= k
  <2> DEFINE D == {p - m : m \in S}
  <2>1. D \in SUBSET Nat /\ D # {}
    BY <1>1, <1>3
  <2>2. MinOf(D) \in D /\ \A d \in D : MinOf(D) <= d
    BY <2>1, MinOfProperties
  <2>3. PICK k \in S : MinOf(D) = p - k
    BY <2>2
  <2>4. ASSUME NEW m \in S PROVE m <= k
    <3>1. p - m \in D
      OBVIOUS
    <3>2. p - k <= p - m
      BY <2>2, <2>3, <3>1
    <3> QED
      BY <1>1, <1>3, <3>2
  <2> QED
    BY <2>4
<1>5. SegmentOf(p) \in S /\ \A m \in S : m <= SegmentOf(p)
  BY <1>3, <1>4, MaxOfProperties DEF SegmentOf
<1>6. /\ SegmentOf(p) \in DOMAIN files /\ SegmentOf(p) \in Nat /\ SegmentOf(p) < p
      /\ \A m \in DOMAIN files : m < p => m <= SegmentOf(p)
  BY <1>3, <1>5
<1> HIDE DEF S
<1> DEFINE n == SegmentOf(p)
<1>7. files[n].data \in Seq(Record) /\ Len(files[n].data) \in Nat
  BY <1>6, DiskTypes
<1>8. p <= n + Len(files[n].data)
  <2>1. CASE n = LastName
    BY <1>1, <1>2, <2>1 DEF EndFacts
  <2>2. CASE n # LastName
    <3>1. LastName \in DOMAIN files /\ n < LastName
      BY <1>1, <1>2, <1>6, <2>2, DiskTypes DEF EndFacts
    <3>2. files[n].data # <<>> /\ n + Len(files[n].data) \in DOMAIN files
      BY <1>6, <3>1 DEF CleanInv, FilesClean
    <3>3. Len(files[n].data) > 0
      BY <1>7, <3>2
    <3>4. ~(n + Len(files[n].data) < p)
      BY <1>6, <1>7, <3>2, <3>3
    <3> QED
      BY <1>1, <1>6, <1>7, <3>4
  <2> QED
    BY <2>1, <2>2
<1> QED
  BY <1>1, <1>6, <1>7, <1>8

LogFacts ==
  /\ LogicalLog \in Seq(Record) /\ Len(LogicalLog) = LogEnd
  /\ \A p \in 1..LogEnd : LogicalLog[p] \in Record /\ Placed(p, LogicalLog[p])
  /\ \A p \in Nat : \A x \in Record :
       p <= LogEnd /\ Placed(p, x) => p \in 1..LogEnd /\ LogicalLog[p] = x

(* The store reaches the beginning of the log. *)
LEMMA StoreReaches ==
  ASSUME TypeOK, WalInv, CleanInv, NEW c \in commits
  PROVE  LogBegin <= c.len /\ c.len \in Nat /\ c.len <= Len(hist) /\ Len(hist) \in Nat
<1>1. /\ c.len \in Nat /\ c.len = c.applied /\ c.len <= Len(hist) /\ Len(hist) \in Nat
  BY DiskTypes DEF CleanInv, StoreClean, WalInv, StoreInv
<1>2. LogBegin <= c.applied
  <2>1. CASE DOMAIN files = {}
    BY <1>1, <2>1 DEF LogBegin
  <2>2. CASE DOMAIN files # {}
    <3>1. LogBegin \in DOMAIN files /\ \A n \in DOMAIN files : LogBegin <= n
      BY <2>2, EndsHold DEF EndFacts
    <3> QED
      BY <3>1 DEF CleanInv, FilesClean
  <2> QED
    BY <2>1, <2>2
<1> QED
  BY <1>1, <1>2

LEMMA LogHolds == TypeOK /\ WalInv /\ CleanInv => LogFacts
<1> SUFFICES ASSUME TypeOK, WalInv, CleanInv PROVE LogFacts
  OBVIOUS
<1>1. EndFacts
  BY EndsHold
<1>2. LogBegin <= Len(hist) /\ LogBegin \in Nat /\ Len(hist) \in Nat /\ LogEnd \in Nat
  <2>1. Latest \in commits
    BY DEF WalInv, StoreInv
  <2> QED
    BY <1>1, <2>1, StoreReaches DEF EndFacts
<1>3. ASSUME NEW p \in 1..LogEnd
      PROVE  LogicalLog[p] \in Record /\ Placed(p, LogicalLog[p])
  <2>1. CASE p <= LogBegin
    <3>1. LogicalLog[p] = hist[p] /\ p \in 1..Len(hist)
      BY <1>2, <2>1 DEF LogicalLog
    <3>2. hist[p] \in Record
      BY <3>1, DiskTypes
    <3> QED
      BY <3>1, <3>2 DEF Placed
  <2>2. CASE LogBegin < p
    <3> DEFINE n == SegmentOf(p)
    <3>1. n \in DOMAIN files /\ n \in Nat /\ p - n \in 1..Len(files[n].data)
      BY <2>2, SegmentHolds
    <3>2. LogicalLog[p] = files[n].data[p - n]
      BY <1>2, <2>2 DEF LogicalLog
    <3>3. files[n].data \in Seq(Record)
      BY <3>1, DiskTypes
    <3>4. files[n].data[p - n] \in Record
      BY <3>1, <3>3
    <3> QED
      BY <3>1, <3>2, <3>4 DEF Placed
  <2> QED
    BY <1>2, <2>1, <2>2
<1>4. LogicalLog \in Seq(Record) /\ Len(LogicalLog) = LogEnd
  <2>1. LogicalLog = [p \in 1..LogEnd |-> LogicalLog[p]]
    BY DEF LogicalLog
  <2>2. LogicalLog \in [1..LogEnd -> Record]
    BY <1>3, <2>1
  <2> QED
    BY <1>2, <2>2
<1>5. ASSUME NEW p \in Nat, NEW x \in Record, p <= LogEnd, Placed(p, x)
      PROVE  p \in 1..LogEnd /\ LogicalLog[p] = x
  <2>1. p >= 1
    <3>1. CASE p \in 1..Len(hist)
      BY <3>1
    <3>2. ASSUME NEW n \in DOMAIN files, p - n \in 1..Len(files[n].data) PROVE p >= 1
      BY <3>2, DiskTypes
    <3> QED
      BY <1>5, <3>1, <3>2 DEF Placed
  <2>2. p \in 1..LogEnd
    BY <1>2, <1>5, <2>1
  <2> QED
    BY <1>3, <1>5, <2>2 DEF CleanInv, PlacedInv
<1> QED
  BY <1>3, <1>4, <1>5 DEF LogFacts

LEMMA LogHoldsNext == TypeOK' /\ WalInv' /\ CleanInv' => LogFacts'
BY LogHolds, PTL

-----------------------------------------------------------------------------
(* How a step changes the abstract log.                                    *)

(* It cuts it: where nothing new is placed, and the end moves back.        *)
LEMMA LogCut ==
  ASSUME Inv, Inv', Shrinks, LogEnd' <= LogEnd
  PROVE  /\ LogEnd' \in 0..Len(LogicalLog)
         /\ LogicalLog' = SubSeq(LogicalLog, 1, LogEnd')
<1>1. LogFacts /\ LogFacts' /\ LogEnd \in Nat /\ LogEnd' \in Nat
  BY LogHolds, LogHoldsNext, EndsHold, EndsHoldNext DEF Inv, EndFacts
<1>2. ASSUME NEW p \in 1..LogEnd' PROVE LogicalLog'[p] = LogicalLog[p]
  <2>1. p \in Nat /\ p <= LogEnd /\ LogicalLog'[p] \in Record
        /\ (\A q \in 1..LogEnd : Placed(q, LogicalLog[q]))'
    BY <1>1 DEF LogFacts
  <2>2. Placed(p, LogicalLog[p])'
    BY <2>1
  <2>3. Placed(p, LogicalLog'[p])
    BY <2>1, <2>2 DEF Shrinks
  <2> QED
    BY <1>1, <2>1, <2>3 DEF LogFacts
<1>3. /\ LogicalLog \in Seq(Record) /\ Len(LogicalLog) = LogEnd
      /\ LogicalLog' \in Seq(Record) /\ Len(LogicalLog') = LogEnd'
  BY <1>1 DEF LogFacts, Record
<1>4. /\ SubSeq(LogicalLog, 1, LogEnd') \in Seq(Record)
      /\ Len(SubSeq(LogicalLog, 1, LogEnd')) = LogEnd'
      /\ \A p \in 1..LogEnd' : SubSeq(LogicalLog, 1, LogEnd')[p] = LogicalLog[p]
  BY <1>1, <1>3
<1>5. LogicalLog' = SubSeq(LogicalLog, 1, LogEnd')
  BY <1>1, <1>2, <1>3, <1>4
<1> QED
  BY <1>1, <1>3, <1>5

(* It leaves it, where nothing new is placed and the end stays.            *)
LEMMA LogSame ==
  ASSUME Inv, Inv', Shrinks, LogEnd' = LogEnd
  PROVE  LogicalLog' = LogicalLog
<1>1. LogicalLog \in Seq(Record) /\ Len(LogicalLog) = LogEnd /\ LogEnd \in Nat
  BY LogHolds, EndsHold DEF LogFacts, EndFacts, Inv
<1>2. LogicalLog' = SubSeq(LogicalLog, 1, LogEnd')
  BY <1>1, LogCut
<1>3. SubSeq(LogicalLog, 1, LogEnd) = LogicalLog
  BY <1>1
<1> QED
  BY <1>2, <1>3

(* It leaves it, where segments keep their records, and the store what it  *)
(* holds below the first of them.                                          *)
LEMMA LogKept ==
  ASSUME DOMAIN files' = DOMAIN files,
         \A n \in DOMAIN files : files'[n].data = files[n].data,
         \A p \in 1..LogBegin : hist'[p] = hist[p],
         TypeOK, WalInv, CleanInv
  PROVE  LogicalLog' = LogicalLog /\ LogEnd' = LogEnd
<1>1. LogBegin' = LogBegin
  BY DEF LogBegin
<1>2. DOMAIN files # {} => MaxOf(DOMAIN files) \in DOMAIN files
  BY EndsHold DEF EndFacts, LastName
<1>3. LogEnd' = LogEnd
  BY <1>2 DEF LogEnd
<1>4. \A p : SegmentOf(p)' = SegmentOf(p)
  BY DEF SegmentOf
<1>5. LogEnd \in Nat /\ LogBegin \in Nat
  BY EndsHold DEF EndFacts
<1>6. ASSUME NEW p \in 1..LogEnd
      PROVE  (IF p <= LogBegin THEN hist[p]
              ELSE files[SegmentOf(p)].data[p - SegmentOf(p)])' =
             IF p <= LogBegin THEN hist[p]
             ELSE files[SegmentOf(p)].data[p - SegmentOf(p)]
  <2>1. CASE p <= LogBegin
    BY <1>1, <1>5, <2>1
  <2>2. CASE ~(p <= LogBegin)
    <3>1. SegmentOf(p) \in DOMAIN files
      BY <1>5, <2>2, SegmentHolds
    <3>2. files'[SegmentOf(p)].data = files[SegmentOf(p)].data
      BY <3>1
    <3> QED
      BY <1>1, <1>4, <2>2, <3>2
  <2> QED
    BY <2>1, <2>2
<1>7. LogicalLog' = LogicalLog
  BY <1>3, <1>6 DEF LogicalLog
<1> QED
  BY <1>3, <1>7

(* What an acknowledged write was told lies within the log.                *)
LEMMA AckedWithin ==
  ASSUME Inv, Inv', LogEnd' <= LogEnd,
         \A r \in Request : client[r] = "acked" => client'[r] = "acked",
         UNCHANGED reply
  PROVE  Abstract!KeepsAcked(LogEnd')
<1> SUFFICES ASSUME NEW r \in Request, client[r] = "acked", NEW i \in 1..Width[r]
             PROVE  reply[r][i] <= LogEnd'
  BY DEF Abstract!KeepsAcked
<1>1. client'[r] = "acked"
  OBVIOUS
<1>2. reply'[r][i] <= LogSynced'
  BY <1>1 DEF Inv, MappedInv
<1>3. LogSynced' <= LogEnd' /\ LogSynced' \in Nat /\ LogEnd' \in Nat
  BY EndsHoldNext DEF Inv, EndFacts
<1>4. reply'[r][i] \in Nat
  <2>1. Len(reply'[r]) = Width[r] /\ reply'[r] \in Seq(Nat)
    BY <1>1 DEF Inv, CleanInv, AckedInv, TypeOK
  <2> QED
    BY <2>1
<1> QED
  BY <1>2, <1>3, <1>4

-----------------------------------------------------------------------------
(* Steps that leave the abstract state as it is.                           *)

LEMMA SyncedKept ==
  ASSUME TypeOK, WalInv, TypeOK', WalInv', DOMAIN files' = DOMAIN files,
         \A n \in DOMAIN files : files[n].synced <= files'[n].synced
  PROVE  LogSynced <= LogSynced'
<1>1. CASE DOMAIN files = {}
  BY <1>1 DEF LogSynced
<1>2. CASE DOMAIN files # {}
  <2>1. LastName \in DOMAIN files
    BY <1>2, EndsHold DEF EndFacts
  <2>2. /\ LastName \in Nat /\ files[LastName].synced \in Nat
        /\ files'[LastName].synced \in Nat
        /\ files[LastName].synced <= files'[LastName].synced
    BY <2>1, DiskTypes, DiskTypesNext
  <2>3. LogSynced = LastName + files[LastName].synced
        /\ LogSynced' = LastName + files'[LastName].synced
    BY <1>2 DEF LogSynced, LastName
  <2> QED
    BY <2>2, <2>3
<1> QED
  BY <1>1, <1>2

LEMMA MappedKept ==
  ASSUME Inv, TypeOK', WalInv', CleanInv', LogSynced <= LogSynced',
         DOMAIN files' = {} => hist' = <<>>,
         pc' = "answer" /\ verdict' = "ok" =>
           \A j \in 1..Len(granted') : granted'[j] = granted'[1] + (j - 1),
         \A r \in Request : client'[r] = "acked" =>
           client[r] = "acked" /\ reply'[r] = reply[r]
  PROVE  MappedInv'
<1>1. ASSUME NEW r \in Request, client'[r] = "acked", NEW i \in 1..Width[r]
      PROVE  reply'[r][i] <= LogSynced'
  <2>1. reply'[r] = reply[r] /\ reply[r][i] <= LogSynced
    BY <1>1 DEF Inv, MappedInv
  <2>2. reply[r][i] \in Nat
    <3>1. Len(reply[r]) = Width[r] /\ reply[r] \in Seq(Nat)
      BY <1>1 DEF Inv, CleanInv, AckedInv, TypeOK
    <3> QED
      BY <3>1
  <2>3. LogSynced \in Nat /\ LogSynced' \in Nat
    BY EndsHold, EndsHoldNext DEF Inv, EndFacts
  <2> QED
    BY <2>1, <2>2, <2>3
<1> QED
  BY <1>1 DEF MappedInv

Still ==
  /\ \A r \in Request : client'[r] = client[r]
  /\ reply' = reply
  /\ DOMAIN files' = DOMAIN files
  /\ \A n \in DOMAIN files :
       files'[n].data = files[n].data /\ files[n].synced <= files'[n].synced
  /\ \A p \in 1..LogBegin : hist'[p] = hist[p]
  /\ DOMAIN files = {} => hist' = <<>>
  /\ pc' = "answer" /\ verdict' = "ok" =>
       \A j \in 1..Len(granted') : granted'[j] = granted'[1] + (j - 1)

AbstractSame ==
  /\ \A r \in Request : client'[r] = client[r]
  /\ reply' = reply
  /\ LogicalLog' = LogicalLog

LEMMA Stutters ==
  ASSUME AbstractSame
  PROVE  UNCHANGED Abstract!vars
BY DEF AbstractSame, Abstract!vars

LEMMA StillStep ==
  ASSUME Inv, TypeOK', WalInv', CleanInv', Still
  PROVE  MappedInv' /\ UNCHANGED Abstract!vars
<1>1. LogSynced <= LogSynced'
  BY SyncedKept DEF Inv, Still
<1>2. MappedInv'
  BY <1>1, MappedKept DEF Still
<1>3. LogicalLog' = LogicalLog
  BY LogKept DEF Inv, Still
<1> QED
  BY <1>2, <1>3, Stutters DEF AbstractSame, Still

(* The thread takes messages, refuses what it cannot log, and compacts.    *)
LEMMA MemoryStill ==
  ASSUME Inv,
         \/ \E c \in Checkpoint : SendCheckpoint(c) \/ Cancel(c)
         \/ Shutdown \/ Receive \/ Drain \/ Drained \/ ThreadExit \/ EncodeFails
         \/ NameTaken \/ RollOverFails \/ Answered \/ NothingDue \/ FlushStore
         \/ FlushFails \/ RemoveFails \/ Compacted \/ Open \/ ScanSegment
         \/ ScanRefused \/ ReadFails \/ ReplayRefused \/ Idle \/ UNCHANGED vars
  PROVE  Still
<1> USE DEF clientVars, batchVars, tailVars, storeVars, scanVars
<1>1. /\ \A n \in DOMAIN files : files[n].synced <= files[n].synced
      /\ DOMAIN files = {} => hist = <<>>
      /\ pc = "answer" /\ verdict = "ok" =>
           \A j \in 1..Len(granted) : granted[j] = granted[1] + (j - 1)
      /\ Request \cap Checkpoint = {} /\ None \notin Request
      /\ requested \in Checkpoint \cup {None}
      /\ client \in [Message -> Status] /\ Request \subseteq Message
  BY DiskTypes, MessagesAssumption DEF Inv, MappedInv, TypeOK, Message
<1>2. SUFFICES ASSUME /\ UNCHANGED <<files, hist, reply>>
                      /\ \A r \in Request : client'[r] = client[r]
                      /\ \/ pc' # "answer" \/ verdict' = "error"
                         \/ UNCHANGED <<pc, verdict, granted>>
               PROVE  Still
  <2>1. ASSUME NEW c \in Checkpoint, SendCheckpoint(c) PROVE Still
    BY <1>1, <1>2, <2>1 DEF SendCheckpoint
  <2>2. ASSUME NEW c \in Checkpoint, Cancel(c) PROVE Still
    BY <1>1, <1>2, <2>2 DEF Cancel
  <2>3. CASE Shutdown \/ Drained \/ ThreadExit \/ Idle \/ UNCHANGED vars
    BY <1>2, <2>3 DEF Shutdown, Drained, ThreadExit, Idle, vars
  <2>4. CASE Receive \/ Drain
    BY <1>2, <2>4 DEF Receive, Drain, Take
  <2>5. CASE EncodeFails \/ NameTaken \/ RollOverFails \/ Answered
    BY <1>2, <2>5 DEF EncodeFails, NameTaken, RollOverFails, Answered, Refuse
  <2>6. CASE NothingDue \/ FlushStore
    BY <1>2, <2>6 DEF NothingDue, FlushStore
  <2>7. CASE FlushFails \/ RemoveFails \/ Compacted
    <3>1. \A status : \A r \in Request : Told(requested, status)[r] = client[r]
      BY <1>1 DEF Told
    <3> QED
      BY <1>1, <1>2, <2>7, <3>1 DEF FlushFails, RemoveFails, Compacted, CompactEnds
  <2>8. CASE Open \/ ScanSegment
    BY <1>2, <2>8 DEF Open, ScanSegment
  <2>9. CASE ScanRefused \/ ReadFails \/ ReplayRefused
    BY <1>2, <2>9 DEF ScanRefused, ReadFails, ReplayRefused, OpenFailed
  <2> QED
    BY <2>1, <2>2, <2>3, <2>4, <2>5, <2>6, <2>7, <2>8, <2>9
<1> QED
  BY <1>1, <1>2 DEF Still

(* Flushing the segment leaves its records as they are.                    *)
LEMMA SyncStill ==
  ASSUME Inv, Sync
  PROVE  Still
<1> USE DEF clientVars, batchVars, tailVars, storeVars, scanVars
<1>1. /\ pc = "sync" /\ pc' = "apply" /\ files' = [files EXCEPT ![active] = Synced(@)]
      /\ UNCHANGED <<client, reply, hist>>
  BY DEF Sync
<1>2. \A n \in DOMAIN files : files[n] \in File /\ files[n].synced \in Nat
        /\ files[n].synced <= Len(files[n].data)
  BY DiskTypes DEF Inv, WalInv, FilesInv
<1>3. \A f \in File : Synced(f).data = f.data /\ Synced(f).synced = Len(f.data)
  BY DEF Synced, File
<1>4. \A n \in DOMAIN files : files'[n].data = files[n].data /\ files[n].synced <= files'[n].synced
  BY <1>1, <1>2, <1>3
<1> QED
  BY <1>1, <1>4 DEF Still, Inv, MappedInv

(* Applying a batch, and replaying, add to the store past the beginning of *)
(* the log what the log holds already.                                     *)
LEMMA ApplyStill ==
  ASSUME Inv, Apply \/ Replay
  PROVE  Still
<1> USE DEF clientVars, batchVars, tailVars, storeVars, scanVars
<1>1. /\ hist \in Seq(Record) /\ Len(hist) \in Nat /\ LogBegin \in Nat /\ LogBegin <= Len(hist)
      /\ bytes \in Seq(Record) /\ pending \in Seq(Record)
  <2>1. Latest \in commits
    BY DEF Inv, WalInv, StoreInv
  <2>2. LogBegin <= Len(hist) /\ LogBegin \in Nat
    BY <2>1, StoreReaches, EndsHold DEF Inv, Latest, EndFacts
  <2> QED
    BY <2>2 DEF Inv, TypeOK
<1>2. /\ \A n \in DOMAIN files : files[n].synced <= files[n].synced
      /\ DOMAIN files = {} => hist = <<>>
  BY DiskTypes DEF Inv, MappedInv
<1>3. CASE Apply
  <2>1. /\ pc = "apply" /\ pc' = "answer" /\ hist' = hist \o bytes
        /\ granted' = [i \in 1..Len(bytes) |-> Len(hist) + i]
        /\ UNCHANGED <<client, reply, files>>
    BY <1>3 DEF Apply, StoreApply
  <2>2. \A p \in 1..LogBegin : hist'[p] = hist[p]
    BY <1>1, <2>1
  <2>3. active \in DOMAIN files
    BY <2>1 DEF Inv, WalInv, TailInv, Serving
  <2>4. \A j \in 1..Len(granted') : granted'[j] = granted'[1] + (j - 1)
    BY <1>1, <2>1
  <2> QED
    BY <1>2, <2>1, <2>2, <2>3, <2>4 DEF Still
<1>4. CASE Replay
  <2>1. /\ pc = "scan" /\ pc' = "reopen" /\ scan = {} /\ seen >= applied
        /\ hist' = hist \/ hist' = hist \o pending
        /\ pending = <<>> => hist' = hist
        /\ UNCHANGED <<client, reply, files>>
    BY <1>4 DEF Replay, StoreApply
  <2>2. \A p \in 1..LogBegin : hist'[p] = hist[p]
    BY <1>1, <2>1
  <2>3. ASSUME DOMAIN files = {} PROVE hist' = <<>>
    <3>1. seen = 0 /\ applied \in Nat
      BY <2>1, <2>3 DEF Inv, WalInv, ScanInv, TypeOK
    <3>2. Len(pending) = 0
      BY <2>1, <3>1 DEF Inv, CleanInv, ScanClean
    <3>3. pending = <<>>
      BY <1>1, <3>2
    <3> QED
      BY <1>2, <2>1, <2>3, <3>3
  <2> QED
    BY <1>2, <2>1, <2>2, <2>3 DEF Still
<1> QED
  BY <1>3, <1>4

(* The last segment, opened again, keeps its whole records.                *)
LEMMA ReopenStill ==
  ASSUME Inv, ReopenTail \/ ReopenFails
  PROVE  Still
<1> USE DEF clientVars, batchVars, tailVars, storeVars, scanVars
<1>1. \A n \in DOMAIN files : files[n] \in File /\ files[n].data \in Seq(Record)
        /\ files[n].synced \in Nat /\ files[n].synced <= Len(files[n].data)
  BY DiskTypes DEF Inv, WalInv, FilesInv
<1>2. \A n \in DOMAIN files : SubSeq(files[n].data, 1, Len(files[n].data)) = files[n].data
  BY <1>1
<1>3. /\ UNCHANGED <<client, reply, hist>> /\ pc' # "answer"
      /\ DOMAIN files = {} => hist = <<>>
  BY DEF ReopenTail, ReopenFails, OpenFailed, Inv, MappedInv
<1>4. \A n \in DOMAIN files :
        LET g == Truncated(files[n], Len(files[n].data)) IN
        g.data = files[n].data /\ files[n].synced <= g.synced
  BY <1>1, <1>2 DEF Truncated
<1>5. ASSUME NEW n \in DOMAIN files, NEW g \in HalfTruncated(files[n], Len(files[n].data))
      PROVE  g.data = files[n].data /\ files[n].synced <= g.synced
  <2> DEFINE f == files[n]
  <2>1. f \in File /\ SubSeq(f.data, 1, Len(f.data)) = f.data /\ f.synced <= f.synced
    BY <1>1, <1>2
  <2> HIDE DEF f
  <2>2. \A s : [f EXCEPT !.data = s, !.torn = FALSE].data = s
              /\ [f EXCEPT !.data = s, !.torn = FALSE].synced = f.synced
    BY <2>1 DEF File
  <2>3. g = f \/ g = [f EXCEPT !.data = SubSeq(f.data, 1, Len(f.data)), !.torn = FALSE]
    BY <1>5 DEF HalfTruncated, f
  <2>4. g.data = f.data /\ f.synced <= g.synced
    BY <2>1, <2>2, <2>3
  <2> QED
    BY <2>4 DEF f
<1>6. /\ DOMAIN files' = DOMAIN files
      /\ \A n \in DOMAIN files :
           files'[n].data = files[n].data /\ files[n].synced <= files'[n].synced
  <2> DEFINE last == MaxOf(DOMAIN files)
  <2>1. CASE DOMAIN files = {} /\ ReopenFails
    BY <2>1 DEF ReopenFails
  <2>2. CASE ReopenTail
    <3>1. files' = [files EXCEPT ![last] = Truncated(@, Len(@.data))]
      BY <2>2 DEF ReopenTail
    <3> HIDE DEF last
    <3> QED
      BY <1>1, <1>4, <3>1
  <2>3. CASE DOMAIN files # {} /\ ReopenFails
    <3>1. PICK g \in HalfTruncated(files[last], Len(files[last].data)) :
            files' = [files EXCEPT ![last] = g]
      BY <2>3 DEF ReopenFails
    <3>2. last \in DOMAIN files
      BY <2>3, EndsHold DEF EndFacts, LastName, Inv
    <3> HIDE DEF last
    <3> QED
      BY <1>1, <1>5, <3>1, <3>2
  <2> QED
    BY <2>1, <2>2, <2>3
<1> QED
  BY <1>3, <1>6 DEF Still

(* Segments begin and go; the log they hold stays.                         *)
LEMMA SameStep ==
  ASSUME Inv, TypeOK', WalInv', CleanInv', Shrinks, LogEnd' = LogEnd,
         LogSynced <= LogSynced', UNCHANGED <<client, reply>>,
         pc' # "answer", DOMAIN files' # {}
  PROVE  MappedInv' /\ UNCHANGED Abstract!vars
<1>1. MappedInv'
  BY MappedKept
<1>2. LogicalLog' = LogicalLog
  BY <1>1, LogSame DEF Inv
<1> QED
  BY <1>1, <1>2, Stutters DEF AbstractSame

LEMMA RollOverMapped ==
  ASSUME Inv, TypeOK', WalInv', CleanInv', RollOver
  PROVE  MappedInv' /\ UNCHANGED Abstract!vars
<1> USE DEF clientVars, batchVars, tailVars, storeVars, scanVars
<1>1. /\ pc = "retire" /\ pc' = pc /\ IsFull /\ applied \notin DOMAIN files
      /\ files' = [n \in DOMAIN files \cup {applied} |->
                     IF n = applied THEN EmptyFile ELSE files[n]]
      /\ UNCHANGED <<client, reply, hist>>
  BY DEF RollOver
<1>2. /\ applied = active + written /\ applied > active
      /\ active \in DOMAIN files /\ active \in Nat /\ written \in Nat /\ applied \in Nat
      /\ files[active].synced \in Nat /\ files[active].synced <= written
      /\ Len(files[active].data) = written
      /\ \A n \in DOMAIN files : n \in Nat /\ n <= active
  BY <1>1, TailFacts, FullAbove, DiskTypes DEF Inv, Serving
<1>3. LastName = active
  BY <1>2, EndsHold DEF Inv, EndFacts
<1>4. LogEnd = applied /\ LogSynced <= applied
  BY <1>2, <1>3, EndsHold DEF Inv, EndFacts
<1>5. applied \in DOMAIN files' /\ files'[applied] = EmptyFile
      /\ \A n \in DOMAIN files' : n <= applied
  BY <1>1, <1>2
<1>6. LastName' = applied
  BY <1>2, <1>5, EndsHoldNext, DiskTypesNext DEF EndFacts
<1>7. LogEnd' = applied /\ LogSynced' = applied
  BY <1>2, <1>5, <1>6, EndsHoldNext DEF EndFacts, EmptyFile
<1>8. Shrinks
  <2>1. ASSUME NEW n \in DOMAIN files', NEW i \in 1..Len(files'[n].data)
        PROVE  /\ n \in DOMAIN files /\ i \in 1..Len(files[n].data)
               /\ files'[n].data[i] = files[n].data[i]
    <3>1. n # applied
      BY <1>5, <2>1 DEF EmptyFile
    <3> QED
      BY <1>1, <2>1, <3>1
  <2> QED
    BY <1>1, <2>1, ShrinksBy
<1>9. LogEnd' = LogEnd /\ LogSynced <= LogSynced'
  BY <1>4, <1>7
<1>10. pc' # "answer" /\ DOMAIN files' # {}
  BY <1>1, <1>5
<1> QED
  BY <1>1, <1>8, <1>9, <1>10, SameStep

LEMMA RemoveMapped ==
  ASSUME Inv, TypeOK', WalInv', CleanInv', RemoveSegment
  PROVE  MappedInv' /\ UNCHANGED Abstract!vars
<1> USE DEF clientVars, batchVars, tailVars, storeVars, scanVars
<1> DEFINE n == MinOf(Removable)
<1>1. /\ pc = "remove" /\ pc' = pc /\ Removable # {}
      /\ files' = [m \in DOMAIN files \ {n} |-> files[m]]
      /\ UNCHANGED <<client, reply, hist>>
  BY DEF RemoveSegment
<1>2. n \in DOMAIN files /\ \E m \in DOMAIN files : n < m
  BY <1>1, RemovesFirst DEF Inv
<1> HIDE DEF n
<1>3. /\ LastName \in DOMAIN files /\ \A m \in DOMAIN files : m \in Nat /\ m <= LastName
      /\ LogEnd = LastName + Len(files[LastName].data)
      /\ LogSynced = LastName + files[LastName].synced
      /\ LogSynced \in Nat
  BY <1>2, EndsHold, DiskTypes DEF Inv, EndFacts
<1>4. LastName # n
  BY <1>2, <1>3
<1>5. /\ LastName \in DOMAIN files' /\ files'[LastName] = files[LastName]
      /\ \A m \in DOMAIN files' : m \in Nat /\ m <= LastName
  BY <1>1, <1>3, <1>4
<1>6. LastName' = LastName
  BY <1>5, EndsHoldNext, DiskTypesNext DEF EndFacts
<1>7. LogEnd' = LogEnd /\ LogSynced' = LogSynced
  BY <1>3, <1>5, <1>6, EndsHoldNext DEF EndFacts
<1>8. Shrinks
  BY <1>1, ShrinksBy
<1>9. LogSynced <= LogSynced' /\ pc' # "answer" /\ DOMAIN files' # {}
  BY <1>1, <1>3, <1>5, <1>7
<1> QED
  BY <1>1, <1>7, <1>8, <1>9, SameStep

LEMMA CreateFirstMapped ==
  ASSUME Inv, TypeOK', WalInv', CleanInv', CreateFirst
  PROVE  MappedInv' /\ UNCHANGED Abstract!vars
<1> USE DEF clientVars, batchVars, tailVars, storeVars, scanVars
<1>1. /\ DOMAIN files = {} /\ files' = [n \in {0} |-> EmptyFile] /\ pc' = "receive"
      /\ UNCHANGED <<client, reply, hist>>
  BY DEF CreateFirst
<1>2. 0 \in DOMAIN files' /\ files'[0] = EmptyFile /\ \A n \in DOMAIN files' : n = 0
  BY <1>1
<1>3. LogEnd = 0 /\ LogSynced = 0
  BY <1>1 DEF LogEnd, LogSynced
<1>4. LogEnd' = 0 /\ LogSynced' = 0
  BY <1>2, EndsHoldNext DEF EndFacts, EmptyFile
<1>5. Shrinks
  <2>1. ASSUME NEW n \in DOMAIN files', NEW i \in 1..Len(files'[n].data) PROVE FALSE
    BY <1>2, <2>1 DEF EmptyFile
  <2> QED
    BY <1>1, <2>1, ShrinksBy
<1>6. LogSynced <= LogSynced' /\ pc' # "answer" /\ DOMAIN files' # {}
  BY <1>1, <1>2, <1>3, <1>4
<1> QED
  BY <1>1, <1>3, <1>4, <1>5, <1>6, SameStep

-----------------------------------------------------------------------------
(* Callers, and what they are told.                                        *)

LEMMA CallerMapped ==
  ASSUME Inv, TypeOK', WalInv', CleanInv', NEW r \in Request, SendWrite(r) \/ Cancel(r)
  PROVE  MappedInv' /\ (Abstract!Submit(r) \/ Abstract!Cancel(r))
<1> USE DEF clientVars, batchVars, tailVars, storeVars, scanVars
<1>1. /\ UNCHANGED <<pc, verdict, granted, reply, files, hist>>
      /\ \/ client[r] = "idle" /\ client' = [client EXCEPT ![r] = "waiting"]
         \/ client[r] = "waiting" /\ client' = [client EXCEPT ![r] = "cancelled"]
  BY DEF SendWrite, Cancel
<1>2. client \in [Message -> Status] /\ Request \subseteq Message
  BY DEF Inv, TypeOK, Message
<1>3. \A n \in DOMAIN files : files[n].synced <= files[n].synced
  BY DiskTypes DEF Inv
<1>4. LogicalLog' = LogicalLog
  BY <1>1, LogKept DEF Inv
<1>5. LogSynced <= LogSynced'
  BY <1>1, <1>3, SyncedKept DEF Inv
<1>6. MappedInv'
  <2>1. \A q \in Request : client'[q] = "acked" => client[q] = "acked"
    BY <1>1, <1>2
  <2> QED
    BY <1>1, <1>5, <2>1, MappedKept DEF Inv, MappedInv
<1>7. CASE client[r] = "idle" /\ client' = [client EXCEPT ![r] = "waiting"]
  <2>1. [q \in Request |-> client'[q]] =
          [[q \in Request |-> client[q]] EXCEPT ![r] = "waiting"]
    BY <1>2, <1>7
  <2> QED
    BY <1>1, <1>4, <1>6, <1>7, <2>1 DEF Abstract!Submit
<1>8. CASE client[r] = "waiting" /\ client' = [client EXCEPT ![r] = "cancelled"]
  <2>1. [q \in Request |-> client'[q]] =
          [[q \in Request |-> client[q]] EXCEPT ![r] = "cancelled"]
    BY <1>2, <1>8
  <2> QED
    BY <1>1, <1>4, <1>6, <1>8, <2>1 DEF Abstract!Cancel
<1> QED
  BY <1>1, <1>7, <1>8

(* Steps of the answer loop leave the store and the segments alone.        *)
LEMMA DiskSame ==
  ASSUME Inv, TypeOK', WalInv', UNCHANGED <<files, hist>>
  PROVE  LogicalLog' = LogicalLog /\ LogSynced <= LogSynced' /\ LogSynced' = LogSynced
<1>1. \A n \in DOMAIN files : files[n].synced <= files[n].synced
  BY DiskTypes DEF Inv
<1>2. LogSynced <= LogSynced'
  BY <1>1, SyncedKept DEF Inv
<1>3. LogSynced' = LogSynced
  BY DEF LogSynced
<1> QED
  BY <1>2, <1>3, LogKept DEF Inv

LEMMA AnswerErrorMapped ==
  ASSUME Inv, TypeOK', WalInv', CleanInv', AnswerError, NEW r \in Request, r = batch[1]
  PROVE  MappedInv' /\ (Abstract!Refuse(r) \/ UNCHANGED Abstract!vars)
<1> USE DEF tailVars, storeVars, scanVars
<1>1. /\ pc = "answer" /\ batch # <<>> /\ verdict = "error"
      /\ client' = Told(Head(batch), "refused")
      /\ UNCHANGED <<reply, pc, verdict, files, hist>>
  BY DEF AnswerError
<1>2. /\ Head(batch) = r /\ 1 \in 1..Len(batch) /\ r \in Request
      /\ client \in [Message -> Status] /\ Request \subseteq Message
  <2>1. batch \in Seq(Request)
    BY DEF Inv, TypeOK
  <2> QED
    BY <1>1, <2>1, TailParts DEF Inv, TypeOK, Message
<1>3. LogicalLog' = LogicalLog /\ LogSynced <= LogSynced'
  BY <1>1, DiskSame
<1>4. \A q \in Request : client'[q] = "acked" => client[q] = "acked"
  BY <1>1, <1>2 DEF Told
<1>5. MappedInv'
  BY <1>1, <1>3, <1>4, MappedKept DEF Inv, MappedInv
<1>6. CASE client[r] # "waiting"
  <2>1. AbstractSame
    BY <1>1, <1>2, <1>3, <1>6 DEF AbstractSame, Told
  <2> QED
    BY <1>2, <1>5, <2>1, Stutters
<1>7. CASE client[r] = "waiting"
  <2>1. client' = [client EXCEPT ![r] = "refused"]
    BY <1>1, <1>2, <1>7 DEF Told
  <2>2. [q \in Request |-> client'[q]] =
          [[q \in Request |-> client[q]] EXCEPT ![r] = "refused"]
    BY <1>2, <2>1
  <2>3. Fresh(r)
    BY <1>1, <1>2 DEF Inv, CleanInv, FreshInv
  <2>4. ASSUME NEW i \in 1..Width[r], NEW k \in 1..Len(LogicalLog),
               LogicalLog[k] = <<r, i>>
        PROVE  FALSE
    <3>1. LogFacts /\ LogEnd \in Nat
      BY LogHolds, EndsHold DEF Inv, EndFacts
    <3>2. k \in 1..LogEnd
      BY <3>1 DEF LogFacts
    <3>3. Placed(k, LogicalLog[k])
      BY <3>1, <3>2 DEF LogFacts
    <3>4. Placed(k, <<r, i>>)
      BY <2>4, <3>3
    <3>5. k \in Nat /\ i \in Nat
      BY <1>2, <3>1, <3>2, MessagesAssumption
    <3> QED
      BY <2>3, <3>4, <3>5 DEF Fresh
  <2>5. Abstract!Refuse(r)
    BY <1>1, <1>2, <1>3, <1>7, <2>2, <2>4 DEF Abstract!Refuse, Abstract!Logged
  <2> QED
    BY <1>2, <1>5, <2>5
<1> QED
  BY <1>6, <1>7

LEMMA RunShifted ==
  \A a, w, j \in Nat : a + ((w + j) - 1) = (a + ((w + 1) - 1)) + (j - 1)
OBVIOUS

LEMMA AnswerOkMapped ==
  ASSUME Inv, TypeOK', WalInv', CleanInv', AnswerOk, NEW r \in Request, r = batch[1]
  PROVE  MappedInv' /\ (Abstract!Acknowledge(r) \/ UNCHANGED Abstract!vars)
<1> USE DEF tailVars, storeVars, scanVars
<1> DEFINE w == Width[r]
           k == granted[1] - 1
<1>1. /\ pc = "answer" /\ batch # <<>> /\ verdict = "ok"
      /\ client' = Told(Head(batch), "acked")
      /\ reply' = IF client[Head(batch)] = "waiting"
                  THEN [reply EXCEPT ![Head(batch)] = Handed(Head(batch))]
                  ELSE reply
      /\ granted' = SubSeq(granted, Width[Head(batch)] + 1, Len(granted))
      /\ UNCHANGED <<pc, verdict, files, hist>>
  BY DEF AnswerOk
<1>2. /\ Head(batch) = r /\ 1 \in 1..Len(batch) /\ r \in Request
      /\ client \in [Message -> Status] /\ Request \subseteq Message
      /\ reply \in [Request -> Seq(Nat)]
      /\ granted \in Seq(Nat) /\ Len(granted) \in Nat
  <2>1. batch \in Seq(Request)
    BY DEF Inv, TypeOK
  <2>2. Head(batch) = r /\ 1 \in 1..Len(batch) /\ r \in Request
    BY <1>1, <2>1, TailParts
  <2>3. /\ client \in [Message -> Status] /\ reply \in [Request -> Seq(Nat)]
        /\ granted \in Seq(Nat)
    BY DEF Inv, TypeOK
  <2>4. Request \subseteq Message /\ Len(granted) \in Nat
    BY <2>3 DEF Message
  <2> QED
    BY <2>2, <2>3, <2>4
<1>3. w \in Nat \ {0}
  BY <1>2, MessagesAssumption
<1>4. /\ w <= Len(granted)
      /\ \A i \in 1..w : i \in 1..Len(granted) /\ hist[granted[i]] = <<r, i>>
      /\ \A j \in 1..Len(granted) : granted[j] \in 1..Len(hist)
  <2>1. /\ \A j \in 1..Len(granted) : granted[j] \in 1..Len(hist)
        /\ \E off : Laid(off, batch, Standing)
    BY <1>1 DEF Inv, CleanInv, LaidInv
  <2>2. PICK off : Laid(off, batch, Standing)
    BY <2>1
  <2>3. Len(Standing) = Len(granted) /\ \A j \in 1..Len(granted) : Standing[j] = hist[granted[j]]
    BY <1>2 DEF Standing
  <2>4. \A i \in 1..w : off[1] + i <= Len(Standing) /\ Standing[off[1] + i] = <<r, i>>
        /\ off[1] = 0
    BY <1>2, <2>2 DEF Laid
  <2>5. ASSUME NEW i \in 1..w PROVE i \in 1..Len(granted) /\ hist[granted[i]] = <<r, i>>
    <3>1. i \in Nat /\ 0 + i = i
      BY <1>3
    <3>2. i <= Len(granted) /\ Standing[i] = <<r, i>>
      BY <2>3, <2>4, <3>1
    <3> QED
      BY <1>2, <2>3, <3>1, <3>2
  <2>6. w <= Len(granted)
    BY <1>2, <1>3, <2>5
  <2> QED
    BY <2>1, <2>5, <2>6
<1> HIDE DEF w
<1>5. \A j \in 1..Len(granted) : granted[j] = granted[1] + (j - 1)
  BY <1>1 DEF Inv, MappedInv
<1>60. k = granted[1] - 1
  OBVIOUS
<1> HIDE DEF k
<1>6. /\ k \in Nat /\ granted[1] \in Nat
      /\ \A i \in 1..w : granted[i] = k + i
      /\ Handed(r) = [i \in 1..w |-> k + i]
  <2>1. granted[1] \in 1..Len(hist) /\ Len(hist) \in Nat
    BY <1>3, <1>4, DiskTypes DEF Inv
  <2>2. ASSUME NEW i \in 1..w PROVE granted[i] = k + i
    <3>1. granted[i] = granted[1] + (i - 1) /\ i \in Nat
      BY <1>3, <1>4, <1>5
    <3> QED
      BY <1>60, <2>1, <3>1
  <2>3. Handed(r) = SubSeq(granted, 1, w)
    BY <1>4 DEF Handed, w
  <2>4. SubSeq(granted, 1, w) = [i \in 1..w |-> granted[i]]
    BY <1>2, <1>3, <1>4
  <2>5. [i \in 1..w |-> granted[i]] = [i \in 1..w |-> k + i]
    BY <2>2
  <2> QED
    BY <1>60, <2>1, <2>2, <2>3, <2>4, <2>5
<1>7. LogicalLog' = LogicalLog /\ LogSynced <= LogSynced' /\ LogSynced' = LogSynced
  BY <1>1, DiskSame
<1>8. ASSUME NEW i \in 1..w
      PROVE  /\ k + i <= LogSynced /\ k + i \in 1..Len(LogicalLog)
             /\ LogicalLog[k + i] = <<r, i>>
  <2>1. k + i \in 1..Len(hist) /\ hist[k + i] = <<r, i>> /\ i \in Nat /\ i >= 1
    <3>1. granted[i] = k + i /\ i \in 1..Len(granted) /\ hist[granted[i]] = <<r, i>>
      BY <1>4, <1>6
    <3>2. granted[i] \in 1..Len(hist)
      BY <1>4, <3>1
    <3> QED
      BY <1>3, <3>1, <3>2
  <2>2. Len(hist) = applied /\ applied <= active + files[active].synced
        /\ active \in DOMAIN files /\ active \in Nat /\ files[active].synced \in Nat
        /\ \A n \in DOMAIN files : n # active => n < active
    BY <1>1, TailFacts DEF Inv, Serving
  <2>3. LastName = active
    BY <2>2, EndsHold, DiskTypes DEF Inv, EndFacts
  <2>4. LogSynced = active + files[active].synced /\ LogSynced <= LogEnd /\ LogEnd \in Nat
    BY <2>2, <2>3, EndsHold DEF Inv, EndFacts
  <2>5. k + i <= LogSynced /\ k + i <= LogEnd /\ k + i \in Nat
    <3>1. Len(hist) \in Nat /\ k \in Nat /\ LogSynced \in Nat
      BY <1>6, DiskTypes, EndsHold DEF Inv, EndFacts
    <3>2. Len(hist) <= LogSynced /\ k + i <= Len(hist) /\ k + i \in Nat
      BY <2>1, <2>2, <2>4, <3>1
    <3> QED
      BY <2>4, <3>1, <3>2
  <2>6. Placed(k + i, <<r, i>>) /\ <<r, i>> \in Record
    BY <1>2, <2>1, RecordType DEF Placed, w
  <2>7. LogFacts
    BY LogHolds DEF Inv
  <2> QED
    BY <2>5, <2>6, <2>7 DEF LogFacts
<1>9. MappedInv'
  <2>1. ASSUME NEW q \in Request, client'[q] = "acked", NEW i \in 1..Width[q]
        PROVE  reply'[q][i] <= LogSynced'
    <3>1. CASE client[r] = "waiting" /\ q = r
      <4>1. reply'[q] = [j \in 1..w |-> k + j]
        BY <1>1, <1>2, <1>6, <3>1
      <4> QED
        BY <1>7, <1>8, <3>1, <4>1 DEF w
    <3>2. CASE ~(client[r] = "waiting" /\ q = r)
      <4>1. reply'[q] = reply[q]
        BY <1>1, <1>2, <3>2
      <4>2. client[q] = "acked"
        BY <1>1, <1>2, <2>1, <3>2 DEF Told
      <4> QED
        BY <1>7, <4>1, <4>2 DEF Inv, MappedInv
    <3> QED
      BY <3>1, <3>2
  <2>2. ASSUME NEW j \in 1..Len(granted') PROVE granted'[j] = granted'[1] + (j - 1)
    <3>1. granted' = SubSeq(granted, w + 1, Len(granted))
      BY <1>1, <1>2 DEF w
    <3>2. /\ Len(granted') = Len(granted) - w
          /\ \A i \in 1..Len(granted) - w : granted'[i] = granted[w + i]
      BY <1>2, <1>3, <1>4, <3>1, RestParts
    <3>3. /\ j \in Nat /\ j >= 1 /\ w + j \in 1..Len(granted) /\ w + 1 \in 1..Len(granted)
          /\ 1 \in 1..Len(granted) - w /\ j \in 1..Len(granted) - w
      BY <1>2, <1>3, <1>4, <3>2
    <3>4. granted[w + j] = granted[1] + ((w + j) - 1) /\ granted[w + 1] = granted[1] + ((w + 1) - 1)
      BY <1>5, <3>3
    <3>5. granted'[j] = granted[w + j] /\ granted'[1] = granted[w + 1]
      BY <3>2, <3>3
    <3> QED
      <4>1. granted[1] + ((w + j) - 1) = (granted[1] + ((w + 1) - 1)) + (j - 1)
        BY <1>3, <1>6, <3>3, RunShifted, SMTT(30)
      <4> QED
        BY <3>4, <3>5, <4>1
  <2> QED
    BY <1>1, <2>1, <2>2 DEF Inv, MappedInv
<1>10. CASE client[r] # "waiting"
  <2>1. AbstractSame
    BY <1>1, <1>2, <1>7, <1>10 DEF AbstractSame, Told
  <2> QED
    BY <1>2, <1>9, <2>1, Stutters
<1>11. CASE client[r] = "waiting"
  <2>1. client' = [client EXCEPT ![r] = "acked"]
    BY <1>1, <1>2, <1>11 DEF Told
  <2>2. [q \in Request |-> client'[q]] =
          [[q \in Request |-> client[q]] EXCEPT ![r] = "acked"]
    BY <1>2, <2>1
  <2>3. reply' = [reply EXCEPT ![r] = [i \in 1..Width[r] |-> k + i]]
    BY <1>1, <1>2, <1>6, <1>11 DEF w
  <2>4. /\ k \in 0..Len(LogicalLog) /\ k + Width[r] <= Len(LogicalLog)
    <3>1. w \in 1..w
      BY <1>3
    <3>2. k + w \in 1..Len(LogicalLog) /\ Len(LogicalLog) \in Nat
      BY <1>8, <3>1, LogHolds, EndsHold DEF Inv, LogFacts, EndFacts
    <3>3. k \in Nat
      BY <1>6
    <3> QED
      BY <1>3, <3>2, <3>3 DEF w
  <2>5. \A i \in 1..Width[r] : LogicalLog[k + i] = <<r, i>>
    BY <1>8 DEF w
  <2>6. Abstract!Acknowledge(r)
    BY <1>2, <1>7, <1>11, <2>2, <2>3, <2>4, <2>5 DEF Abstract!Acknowledge
  <2> QED
    BY <1>2, <1>9, <2>6
<1> QED
  BY <1>10, <1>11

-----------------------------------------------------------------------------
(* The log grows, and loses what nobody was told of.                       *)

(* What is placed stays placed: the log goes on where it ended.            *)
LEMMA LogGrown ==
  ASSUME Inv, Inv', \A p \in Nat : \A x : Placed(p, x) => Placed(p, x)',
         LogEnd <= LogEnd'
  PROVE  SubSeq(LogicalLog', 1, Len(LogicalLog)) = LogicalLog
<1>1. LogFacts /\ LogFacts' /\ LogEnd \in Nat /\ LogEnd' \in Nat
  BY LogHolds, LogHoldsNext, EndsHold, EndsHoldNext DEF Inv, EndFacts
<1>2. ASSUME NEW p \in 1..LogEnd PROVE LogicalLog'[p] = LogicalLog[p]
  <2>1. p \in Nat /\ p <= LogEnd' /\ LogicalLog[p] \in Record /\ Placed(p, LogicalLog[p])
    BY <1>1 DEF LogFacts
  <2>2. Placed(p, LogicalLog[p])'
      \/ \A q \in Nat : \A x \in Record : q <= LogEnd' /\ Placed(q, x)' => LogicalLog'[q] = x
    BY <1>1 DEF LogFacts, Record
  <2>3. \A x \in Record : Placed(p, x)' => LogicalLog'[p] = x
    BY <1>1, <2>1 DEF LogFacts, Record
  <2> QED
    BY <2>1, <2>3
<1>3. /\ LogicalLog \in Seq(Record) /\ Len(LogicalLog) = LogEnd
      /\ LogicalLog' \in Seq(Record) /\ Len(LogicalLog') = LogEnd'
  BY <1>1 DEF LogFacts, Record
<1>4. /\ SubSeq(LogicalLog', 1, LogEnd) \in Seq(Record)
      /\ Len(SubSeq(LogicalLog', 1, LogEnd)) = LogEnd
      /\ \A p \in 1..LogEnd : SubSeq(LogicalLog', 1, LogEnd)[p] = LogicalLog'[p]
  BY <1>1, <1>3
<1>5. SubSeq(LogicalLog', 1, LogEnd) = LogicalLog
  BY <1>1, <1>2, <1>3, <1>4
<1> QED
  BY <1>3, <1>5

(* Records of the batch join the log behind the others.                    *)
Appends(k, g) ==
  /\ pc = "retire" /\ pc' # "answer"
  /\ files' = [files EXCEPT ![active] = g]
  /\ g.data = files[active].data \o SubSeq(bytes, 1, k)
  /\ g.synced = files[active].synced
  /\ UNCHANGED <<client, reply, hist>>

LEMMA AppendsParts ==
  ASSUME Inv, AppendBytes \/ AppendFails
  PROVE  \E k \in 0..Len(bytes) : \E g : Appends(k, g)
<1> USE DEF clientVars, batchVars, tailVars, storeVars, scanVars
<1>1. /\ pc = "retire" /\ pc' # "answer" /\ UNCHANGED <<client, reply, hist>>
  BY DEF AppendBytes, AppendFails
<1>2. /\ active \in DOMAIN files /\ files[active] \in File
      /\ bytes \in Seq(Record) /\ Len(bytes) \in Nat
  BY <1>1, TailFacts, DiskTypes, SMTT(30) DEF Serving, Inv, TypeOK
<1> DEFINE f == files[active]
<1> HIDE DEF f
<1>3. f \in File
  BY <1>2 DEF f
<1>4. CASE AppendBytes
  <2>1. /\ Written(f, bytes).data = f.data \o SubSeq(bytes, 1, Len(bytes))
        /\ Written(f, bytes).synced = f.synced
    BY <1>2, <1>3 DEF Written, File
  <2>2. files' = [files EXCEPT ![active] = Written(f, bytes)]
    BY <1>4 DEF AppendBytes, f
  <2>3. Appends(Len(bytes), Written(f, bytes))
    BY <1>1, <2>1, <2>2 DEF Appends, f
  <2> QED
    BY <1>2, <2>3
<1>5. CASE AppendFails
  <2>1. PICK g \in PartlyWritten(f, bytes) : files' = [files EXCEPT ![active] = g]
    BY <1>5 DEF AppendFails, f
  <2>2. PICK k \in 0..Len(bytes) :
          /\ g.data = f.data \o SubSeq(bytes, 1, k) /\ g.synced = f.synced
    <3>1. \A k \in 0..(Len(bytes) - 1) : k \in 0..Len(bytes)
      BY <1>2
    <3> QED
      BY <1>3, <2>1, <3>1 DEF PartlyWritten, File
  <2>3. Appends(k, g)
    BY <1>1, <2>1, <2>2 DEF Appends, f
  <2> QED
    BY <2>3
<1> QED
  BY <1>4, <1>5

LEMMA AppendsSome ==
  ASSUME Inv, TypeOK', WalInv', CleanInv', NEW k \in 0..Len(bytes), NEW g, Appends(k, g),
         k # 0
  PROVE  MappedInv' /\ Abstract!Grow
<1>0. /\ pc = "retire" /\ pc' # "answer" /\ files' = [files EXCEPT ![active] = g]
      /\ g.data = files[active].data \o SubSeq(bytes, 1, k)
      /\ g.synced = files[active].synced
      /\ UNCHANGED <<client, reply, hist>>
  BY DEF Appends
<1>1. /\ active \in DOMAIN files /\ active \in Nat /\ written \in Nat
      /\ files[active].data \in Seq(Record) /\ Len(files[active].data) = written
      /\ files[active].synced \in Nat
      /\ \A n \in DOMAIN files : n \in Nat /\ n <= active
  <2>1. \A n \in DOMAIN files : n \in Nat /\ (n # active => n < active)
    BY <1>0, TailFacts, DiskTypes DEF Inv, Serving
  <2>2. active \in Nat
    BY <1>0, TailFacts DEF Inv, Serving
  <2>3. \A n \in DOMAIN files : n \in Nat /\ n <= active
    BY <2>1, <2>2
  <2> QED
    BY <1>0, <2>3, TailFacts DEF Inv, Serving
<1>2. bytes \in Seq(Record) /\ Len(bytes) \in Nat /\ k \in Nat /\ k > 0 /\ k <= Len(bytes)
  <2>1. bytes \in Seq(Record)
    BY DEF Inv, TypeOK
  <2> QED
    BY <2>1
<1>3. /\ g.data \in Seq(Record) /\ Len(g.data) = written + k
      /\ \A i \in 1..written : g.data[i] = files[active].data[i]
      /\ \A i \in 1..k : g.data[written + i] = bytes[i]
  <2>1. /\ SubSeq(bytes, 1, k) \in Seq(Record) /\ Len(SubSeq(bytes, 1, k)) = k
        /\ \A j \in 1..k : SubSeq(bytes, 1, k)[j] = bytes[j]
    BY <1>2
  <2> QED
    <3> DEFINE u == SubSeq(bytes, 1, k)
               f == files[active].data
    <3> HIDE DEF u, f
    <3>1. f \in Seq(Record) /\ u \in Seq(Record) /\ Len(f) = written /\ Len(u) = k
          /\ g.data = f \o u /\ \A j \in 1..k : u[j] = bytes[j]
      BY <1>0, <1>1, <2>1 DEF u, f
    <3>2. /\ f \o u \in Seq(Record) /\ Len(f \o u) = Len(f) + Len(u)
          /\ \A i \in 1..Len(f) : (f \o u)[i] = f[i]
          /\ \A i \in 1..Len(u) : (f \o u)[Len(f) + i] = u[i]
      <4>1. f \in Seq(Record) /\ u \in Seq(Record)
        BY <3>1
      <4> QED
        BY <4>1, ConcatParts
    <3>3. /\ g.data \in Seq(Record) /\ Len(g.data) = written + k
          /\ \A i \in 1..written : g.data[i] = f[i]
          /\ \A i \in 1..k : g.data[written + i] = bytes[i]
      BY <3>1, <3>2
    <3> QED
      BY <3>3 DEF f
<1>4. /\ DOMAIN files' = DOMAIN files /\ files'[active] = g
      /\ \A n \in DOMAIN files : n # active => files'[n] = files[n]
  BY <1>0, <1>1
<1>5. LogSynced <= LogSynced'
  <2>1. \A n \in DOMAIN files : files[n].synced <= files'[n].synced
    BY <1>0, <1>4, DiskTypes DEF Inv
  <2> QED
    BY <1>4, <2>1, SyncedKept DEF Inv
<1>6. MappedInv'
  BY <1>0, <1>1, <1>4, <1>5, MappedKept
<1>7. LastName = active /\ LastName' = active
  BY <1>1, <1>4, EndsHold, EndsHoldNext DEF Inv, EndFacts
<1>8. LogEnd = active + written /\ LogEnd' = LogEnd + k /\ LogEnd \in Nat
  <2>1. LogEnd = active + written /\ LogEnd \in Nat
    BY <1>1, <1>7, EndsHold DEF Inv, EndFacts
  <2>2. LogEnd' = active + Len(g.data)
    BY <1>1, <1>4, <1>7, EndsHoldNext DEF EndFacts
  <2>3. active + (written + k) = (active + written) + k
    BY <1>1, <1>2
  <2> QED
    BY <1>3, <2>1, <2>2, <2>3
<1>9. ASSUME NEW p \in Nat, NEW x, Placed(p, x) PROVE Placed(p, x)'
  <2>1. ASSUME NEW n \in DOMAIN files, p - n \in 1..Len(files[n].data),
               files[n].data[p - n] = x
        PROVE  p - n \in 1..Len(files'[n].data) /\ files'[n].data[p - n] = x
    <3>1. CASE n # active
      BY <1>4, <2>1, <3>1
    <3>2. CASE n = active
      <4>1. p - active \in 1..written /\ p - active \in 1..Len(g.data)
        BY <1>1, <1>2, <1>3, <2>1, <3>2
      <4> QED
        BY <1>3, <1>4, <2>1, <3>2, <4>1
    <3> QED
      BY <3>1, <3>2
  <2> QED
    BY <1>0, <1>4, <1>9, <2>1 DEF Placed
<1>10. SubSeq(LogicalLog', 1, Len(LogicalLog)) = LogicalLog
  BY <1>2, <1>6, <1>8, <1>9, LogGrown DEF Inv
<1>11. Len(LogicalLog) = LogEnd /\ Len(LogicalLog') = LogEnd + k
  BY <1>8, LogHolds, LogHoldsNext DEF Inv, LogFacts
<1>12. ASSUME NEW q \in LogEnd + 1..LogEnd + k
       PROVE  /\ client[LogicalLog'[q][1]] \in {"waiting", "cancelled"}
              /\ \A j \in 1..(q - 1) : LogicalLog'[j] # LogicalLog'[q]
  <2> DEFINE e == q - LogEnd
  <2>1. /\ q \in Nat /\ q <= LogEnd' /\ e \in 1..k /\ e \in 1..Len(bytes)
        /\ q - active = written + e /\ q - active \in 1..Len(g.data)
    <3>1. q \in Nat /\ q <= LogEnd' /\ LogEnd + 1 <= q
      BY <1>2, <1>8
    <3>2. e \in Nat /\ 1 <= e /\ e <= k /\ q = LogEnd + e
      BY <1>2, <1>8, <3>1
    <3>3. q - active = written + e
      <4>1. q = (active + written) + e
        BY <1>8, <3>2
      <4> HIDE DEF e
      <4> QED
        BY <1>1, <3>2, <4>1
    <3>4. e \in 1..k /\ e \in 1..Len(bytes)
      BY <1>2, <3>2
    <3>5. written + e \in 1..written + k
      BY <1>1, <1>2, <3>2
    <3> QED
      BY <1>3, <3>1, <3>3, <3>4, <3>5
  <2> HIDE DEF e
  <2>2. g.data[q - active] = bytes[e] /\ bytes[e] \in Record
    BY <1>2, <1>3, <2>1
  <2>3. PICK y \in Record : y = bytes[e]
    BY <2>2
  <2>4. Placed(q, y)'
    BY <1>1, <1>4, <2>1, <2>2, <2>3 DEF Placed
  <2>5. y \in Record'
    BY <2>3 DEF Record
  <2>6. LogFacts' /\ LogEnd' \in Nat
    BY LogHoldsNext, EndsHoldNext DEF EndFacts
  <2>7. q \in 1..LogEnd' /\ LogicalLog'[q] = y
    BY <2>1, <2>4, <2>5, <2>6 DEF LogFacts
  <2>8. client[y[1]] \in {"waiting", "cancelled"}
    <3>1. PICK l \in 1..Len(batch), i \in Nat : bytes[e] = <<batch[l], i>>
      BY <1>0, <2>1, BytesParts DEF Inv, Batching
    <3>2. client[batch[l]] \in {"waiting", "cancelled"}
      BY DEF Inv, CleanInv, MessagesInv
    <3> QED
      BY <2>3, <3>1, <3>2
  <2>9. ASSUME NEW j \in 1..(q - 1), LogicalLog'[j] = y PROVE FALSE
    <3>1. j \in 1..LogEnd' /\ j \in Nat /\ j # q
      BY <2>1, <2>6, <2>7
    <3>2. Placed(j, LogicalLog[j])'
      BY <2>6, <3>1 DEF LogFacts
    <3>3. Placed(j, y)'
      BY <2>9, <3>2 DEF Placed
    <3>4. \A a, b \in Nat : \A x \in Record : Placed(a, x)' /\ Placed(b, x)' => a = b
      BY DEF CleanInv, PlacedInv, Record
    <3> QED
      BY <2>1, <2>3, <2>4, <3>1, <3>3, <3>4
  <2> QED
    BY <2>7, <2>8, <2>9
<1>13. Abstract!Grow
  <2>1. Len(LogicalLog') > Len(LogicalLog)
    BY <1>2, <1>8, <1>11
  <2>2. [r \in Request |-> client'[r]] = [r \in Request |-> client[r]] /\ reply' = reply
    BY <1>0
  <2>3. ASSUME NEW q \in Len(LogicalLog) + 1..Len(LogicalLog')
        PROVE  /\ [r \in Request |-> client[r]][LogicalLog'[q][1]] \in {"waiting", "cancelled"}
               /\ \A j \in 1..(q - 1) : LogicalLog'[j] # LogicalLog'[q]
    <3>1. q \in LogEnd + 1..LogEnd + k /\ q \in 1..LogEnd'
      BY <1>2, <1>8, <1>11
    <3>2. LogicalLog'[q] \in Record
      BY <3>1, LogHoldsNext DEF LogFacts, Record
    <3>3. LogicalLog'[q][1] \in Request
      BY <3>2 DEF Record
    <3> QED
      BY <1>12, <3>1, <3>3
  <2> QED
    BY <1>10, <2>1, <2>2, <2>3 DEF Abstract!Grow
<1> QED
  BY <1>6, <1>13

LEMMA AppendMapped ==
  ASSUME Inv, TypeOK', WalInv', CleanInv', AppendBytes \/ AppendFails
  PROVE  MappedInv' /\ (Abstract!Grow \/ UNCHANGED Abstract!vars)
<1>1. PICK k \in 0..Len(bytes) : \E g : Appends(k, g)
  BY AppendsParts
<1>2. PICK g : Appends(k, g)
  BY <1>1
<1>3. CASE k # 0
  BY <1>2, <1>3, AppendsSome
<1>4. CASE k = 0
  <2>1. /\ active \in DOMAIN files /\ files[active].data \in Seq(Record)
        /\ DOMAIN files = {} => hist = <<>>
    BY <1>2, TailFacts DEF Appends, Inv, Serving, MappedInv
  <2>2. files[active].data \o SubSeq(bytes, 1, 0) = files[active].data
    <3>1. bytes \in Seq(Record)
      BY DEF Inv, TypeOK
    <3>2. SubSeq(bytes, 1, 0) = <<>>
      BY <3>1
    <3> QED
      BY <2>1, <3>2
  <2>3. Still
    <3>1. \A n \in DOMAIN files : files'[n].data = files[n].data
            /\ files'[n].synced = files[n].synced
      BY <1>2, <1>4, <2>1, <2>2 DEF Appends
    <3>2. \A n \in DOMAIN files : files[n].synced <= files'[n].synced
      BY <3>1, DiskTypes DEF Inv
    <3> QED
      BY <1>2, <2>1, <3>1, <3>2 DEF Appends, Still
  <2> QED
    BY <2>3, StillStep
<1> QED
  BY <1>3, <1>4

(* A failed append is cut off again.                                       *)
LEMMA RewindMapped ==
  ASSUME Inv, TypeOK', WalInv', CleanInv', Rewind
  PROVE  MappedInv' /\ Abstract!Retract
<1> USE DEF clientVars, batchVars, tailVars, storeVars, scanVars
<1> DEFINE g == Truncated(files[active], written)
<1>1. /\ pc = "rewind" /\ pc' = "answer" /\ verdict' = "error"
      /\ files' = [files EXCEPT ![active] = g]
      /\ UNCHANGED <<client, reply, hist>>
  BY DEF Rewind, Refuse
<1>2. /\ active \in DOMAIN files /\ active \in Nat /\ written \in Nat
      /\ files[active].data \in Seq(Record) /\ Len(files[active].data) \in Nat
      /\ files[active].synced \in Nat
      /\ files[active].synced <= written /\ written <= Len(files[active].data)
      /\ \A n \in DOMAIN files : n # active => n < active
  BY <1>1, TailFacts DEF Inv, Serving
<1>3. /\ g.data = SubSeq(files[active].data, 1, written) /\ g.synced = written
  BY DEF Truncated
<1> HIDE DEF g
<1>4. Len(g.data) = written /\ \A i \in 1..written : g.data[i] = files[active].data[i]
  BY <1>2, <1>3
<1>5. /\ DOMAIN files' = DOMAIN files /\ files'[active] = g
      /\ \A n \in DOMAIN files : n # active => files'[n] = files[n]
  BY <1>1, <1>2
<1>6. LogSynced <= LogSynced'
  <2>1. \A n \in DOMAIN files : files[n].synced <= files'[n].synced
    BY <1>2, <1>3, <1>5, DiskTypes DEF Inv
  <2> QED
    BY <1>5, <2>1, SyncedKept DEF Inv
<1>7. MappedInv'
  BY <1>1, <1>2, <1>5, <1>6, MappedKept
<1>8. LastName = active /\ LastName' = active
  <2>1. \A n \in DOMAIN files : n \in Nat /\ n <= active
    BY <1>2, DiskTypes DEF Inv
  <2> QED
    BY <1>2, <1>5, <2>1, EndsHold, EndsHoldNext DEF Inv, EndFacts
<1>9. LogEnd' <= LogEnd
  <2>1. LogEnd = active + Len(files[active].data) /\ LogEnd' = active + written
    BY <1>2, <1>4, <1>5, <1>8, EndsHold, EndsHoldNext DEF Inv, EndFacts
  <2> QED
    BY <1>2, <2>1
<1>10. Shrinks
  <2>1. ASSUME NEW n \in DOMAIN files', NEW i \in 1..Len(files'[n].data)
        PROVE  /\ n \in DOMAIN files /\ i \in 1..Len(files[n].data)
               /\ files'[n].data[i] = files[n].data[i]
    <3>1. CASE n = active
      BY <1>2, <1>4, <1>5, <2>1, <3>1
    <3>2. CASE n # active
      BY <1>5, <2>1, <3>2
    <3> QED
      BY <3>1, <3>2
  <2> QED
    BY <1>1, <2>1, ShrinksBy
<1>11. /\ LogEnd' \in 0..Len(LogicalLog) /\ LogicalLog' = SubSeq(LogicalLog, 1, LogEnd')
       /\ Abstract!KeepsAcked(LogEnd')
  BY <1>1, <1>7, <1>9, <1>10, LogCut, AckedWithin DEF Inv
<1>12. [r \in Request |-> client'[r]] = [r \in Request |-> client[r]] /\ reply' = reply
  BY <1>1
<1> QED
  BY <1>7, <1>11, <1>12 DEF Abstract!Retract

(* The end of the process: the log loses what was not flushed, or nothing. *)
LEMMA CrashMapped ==
  ASSUME Inv, TypeOK', WalInv', CleanInv', Kill \/ PowerLoss
  PROVE  MappedInv' /\ Abstract!Crash
<1> USE DEF clientVars, batchVars, tailVars, storeVars, scanVars
<1>1. PICK c : CrashClean(c)
  BY KillIsCrash, PowerLossIsCrash DEF Inv
<1>2. /\ reply' = reply /\ pc' = "down" /\ c \in commits
      /\ client' = [m \in Message |->
                      IF client[m] = "waiting" THEN "unknown" ELSE client[m]]
      /\ hist' = SubSeq(hist, 1, c.len) /\ DOMAIN files' = DOMAIN files
      /\ \A n \in DOMAIN files :
           /\ Len(files'[n].data) <= Len(files[n].data)
           /\ \A i \in 1..Len(files'[n].data) : files'[n].data[i] = files[n].data[i]
  BY <1>1 DEF CrashClean, LoseMemory, StoreFallsTo
<1>3. \A n \in DOMAIN files : files[n].synced <= files'[n].synced
  <2>1. CASE Kill
    BY <2>1, DiskTypes DEF Kill, Inv
  <2>2. CASE PowerLoss
    <3>1. ASSUME NEW n \in DOMAIN files PROVE files[n].synced <= files'[n].synced
      <4>1. /\ files[n] \in File /\ files'[n] \in Survivors(files[n])
            /\ files[n].synced <= Len(files[n].data)
        BY <2>2, DiskTypes DEF PowerLoss, Inv, WalInv, FilesInv
      <4> QED
        BY <4>1, SurvivorsKeep
    <3> QED
      BY <3>1
  <2> QED
    BY <2>1, <2>2
<1>4. LogSynced <= LogSynced'
  BY <1>2, <1>3, SyncedKept DEF Inv
<1>5. /\ hist \in Seq(Record) /\ Len(hist) \in Nat /\ c.len \in Nat /\ c.len <= Len(hist)
      /\ Len(hist') = c.len /\ \A k \in 1..c.len : hist'[k] = hist[k]
  <2>1. /\ hist \in Seq(Record) /\ Len(hist) \in Nat /\ c.len \in Nat /\ c.len <= Len(hist)
    BY <1>2, DiskTypes DEF Inv, WalInv, StoreInv
  <2> QED
    BY <1>2, <2>1
<1>6. DOMAIN files' = {} => hist' = <<>>
  <2>1. ASSUME DOMAIN files' = {} PROVE Len(hist) = 0
    BY <1>2, <2>1 DEF Inv, MappedInv
  <2>2. hist' \in Seq(Record)
    BY <1>2, <1>5
  <2> QED
    BY <1>5, <2>1, <2>2
<1>7. Request \subseteq Message
  BY DEF Message
<1>8. MappedInv'
  BY <1>2, <1>4, <1>6, <1>7, MappedKept
<1>9. Shrinks
  <2>1. ASSUME NEW n \in DOMAIN files', NEW i \in 1..Len(files'[n].data)
        PROVE  /\ n \in DOMAIN files /\ i \in 1..Len(files[n].data)
               /\ files'[n].data[i] = files[n].data[i]
    BY <1>2, DiskTypes, DiskTypesNext DEF Inv
  <2>2. \A k \in 1..Len(hist') : k \in 1..Len(hist) /\ hist'[k] = hist[k]
    BY <1>5
  <2> QED
    BY <2>1, <2>2, ShrinksBy
<1>10. LogEnd' <= LogEnd
  <2>1. CASE DOMAIN files = {}
    BY <1>2, <2>1 DEF LogEnd
  <2>2. CASE DOMAIN files # {}
    <3>1. LastName' = LastName
      BY <1>2 DEF LastName
    <3>2. /\ LastName \in DOMAIN files /\ LogEnd = LastName + Len(files[LastName].data)
          /\ LogEnd' = LastName + Len(files'[LastName].data)
      BY <1>2, <2>2, <3>1, EndsHold, EndsHoldNext DEF Inv, EndFacts
    <3> QED
      BY <1>2, <3>2, DiskTypes, DiskTypesNext DEF Inv
  <2> QED
    BY <2>1, <2>2
<1>11. \A r \in Request : client[r] = "acked" => client'[r] = "acked"
  BY <1>2, <1>7
<1>12. /\ LogEnd' \in 0..Len(LogicalLog) /\ LogicalLog' = SubSeq(LogicalLog, 1, LogEnd')
       /\ Abstract!KeepsAcked(LogEnd')
  BY <1>2, <1>8, <1>9, <1>10, <1>11, LogCut, AckedWithin DEF Inv
<1>13. [r \in Request |-> client'[r]] =
         [r \in Request |-> IF [q \in Request |-> client[q]][r] = "waiting" THEN "unknown"
                            ELSE [q \in Request |-> client[q]][r]]
  BY <1>2, <1>7
<1> QED
  BY <1>2, <1>8, <1>12, <1>13 DEF Abstract!Crash

-----------------------------------------------------------------------------
(* The theorem.                                                            *)

LEMMA MappedInit == Init => MappedInv /\ Abstract!Init
<1> SUFFICES ASSUME Init PROVE MappedInv /\ Abstract!Init
  OBVIOUS
<1>1. /\ client = [m \in Message |-> "idle"] /\ reply = [r \in Request |-> <<>>]
      /\ files = [n \in {} |-> EmptyFile] /\ hist = <<>> /\ pc = "down"
      /\ Request \subseteq Message
  BY DEF Init, Message
<1>2. MappedInv
  BY <1>1 DEF MappedInv
<1>3. LogicalLog = <<>>
  <2>1. LogEnd = 0
    BY <1>1 DEF LogEnd
  <2> QED
    BY <2>1 DEF LogicalLog
<1>4. [r \in Request |-> client[r]] = [r \in Request |-> "idle"]
  BY <1>1
<1> QED
  BY <1>1, <1>2, <1>3, <1>4 DEF Abstract!Init

LEMMA MappedStep ==
  ASSUME CleanFaults, Inv, [Next]_vars
  PROVE  Inv' /\ [Abstract!Next]_(Abstract!vars)
<1>1. TypeOK' /\ WalInv' /\ CleanInv'
  BY WalInvStep, CleanInvStep DEF Inv
<1> SUFFICES MappedInv' /\ [Abstract!Next]_(Abstract!vars)
  BY <1>1 DEF Inv
<1>2. ASSUME Still PROVE MappedInv' /\ UNCHANGED Abstract!vars
  BY <1>1, <1>2, StillStep
<1>3. CASE ClientStep
  <2>1. CASE \E r \in Request : SendWrite(r) \/ Cancel(r)
    <3>1. PICK r \in Request : SendWrite(r) \/ Cancel(r)
      BY <2>1
    <3>2. MappedInv' /\ (Abstract!Submit(r) \/ Abstract!Cancel(r))
      BY <1>1, <3>1, CallerMapped
    <3> QED
      BY <3>2 DEF Abstract!Next
  <2>2. CASE \E c \in Checkpoint : SendCheckpoint(c) \/ Cancel(c)
    BY <1>2, <2>2, MemoryStill
  <2>3. CASE Shutdown
    BY <1>2, <2>3, MemoryStill
  <2> QED
    BY <1>3, <2>1, <2>2, <2>3 DEF ClientStep, Message
<1>4. CASE TakeStep \/ CompactStep \/ Idle \/ UNCHANGED vars
  <2>1. CASE RemoveSegment
    BY <1>1, <2>1, RemoveMapped
  <2>2. CASE ~RemoveSegment
    <3>1. Still
      BY <1>4, <2>2, MemoryStill DEF TakeStep, CompactStep
    <3> QED
      BY <1>2, <3>1
  <2> QED
    BY <2>1, <2>2
<1>5. CASE RetireStep
  <2>1. CASE EncodeFails \/ NameTaken \/ RollOverFails \/ Sync \/ Apply \/ Answered
    BY <1>2, <2>1, MemoryStill, SyncStill, ApplyStill
  <2>2. CASE RollOver
    BY <1>1, <2>2, RollOverMapped
  <2>3. CASE AppendBytes \/ AppendFails
    <3>1. MappedInv' /\ (Abstract!Grow \/ UNCHANGED Abstract!vars)
      BY <1>1, <2>3, AppendMapped
    <3> QED
      BY <3>1 DEF Abstract!Next
  <2>4. CASE Rewind
    <3>1. MappedInv' /\ Abstract!Retract
      BY <1>1, <2>4, RewindMapped
    <3> QED
      BY <3>1 DEF Abstract!Next
  <2>5. CASE AnswerOk
    <3>1. batch \in Seq(Request) /\ batch # <<>>
      BY <2>5 DEF AnswerOk, Inv, TypeOK
    <3>2. PICK r \in Request : r = batch[1]
      BY <3>1, TailParts
    <3>3. MappedInv' /\ (Abstract!Acknowledge(r) \/ UNCHANGED Abstract!vars)
      BY <1>1, <2>5, <3>2, AnswerOkMapped
    <3> QED
      BY <3>3 DEF Abstract!Next
  <2>6. CASE AnswerError
    <3>1. batch \in Seq(Request) /\ batch # <<>>
      BY <2>6 DEF AnswerError, Inv, TypeOK
    <3>2. PICK r \in Request : r = batch[1]
      BY <3>1, TailParts
    <3>3. MappedInv' /\ (Abstract!Refuse(r) \/ UNCHANGED Abstract!vars)
      BY <1>1, <2>6, <3>2, AnswerErrorMapped
    <3> QED
      BY <3>3 DEF Abstract!Next
  <2> QED
    BY <1>5, <2>1, <2>2, <2>3, <2>4, <2>5, <2>6, NeverTaken DEF RetireStep, Inv
<1>6. CASE Kill \/ PowerLoss
  <2>1. MappedInv' /\ Abstract!Crash
    BY <1>1, <1>6, CrashMapped
  <2> QED
    BY <2>1 DEF Abstract!Next
<1>7. CASE OpenStep
  <2>1. CASE CreateFirst
    BY <1>1, <2>1, CreateFirstMapped
  <2>2. CASE ~CreateFirst
    <3>1. Still
      BY <1>7, <2>2, MemoryStill, ApplyStill, ReopenStill, NeverTaken DEF OpenStep, Inv
    <3> QED
      BY <1>2, <3>1
  <2> QED
    BY <2>1, <2>2
<1> QED
  BY <1>3, <1>4, <1>5, <1>6, <1>7 DEF Next, ThreadStep

(* The thread, its segments, the store behind it and recovery, together,   *)
(* implement one durable log: an acknowledged write keeps its place        *)
(* through crashes, a refused one never enters it, and it loses only what  *)
(* nobody was told succeeded.                                              *)
THEOREM LogImplemented == ASSUME CleanFaults PROVE Spec => ImplementsDurableLog
<1>1. Init => Inv /\ Abstract!Init
  BY InitWalInv, InitCleanInv, MappedInit DEF Inv
<1>2. Inv /\ [Next]_vars => Inv' /\ [Abstract!Next]_(Abstract!vars)
  BY MappedStep
<1> QED
  BY <1>1, <1>2, PTL DEF Spec, ImplementsDurableLog, Abstract!Spec

-----------------------------------------------------------------------------
(* The sizes.                                                              *)

Widest == MaxOf({Width[r] : r \in Request})

(* Among the writes is a widest one; any finite number of them has one.    *)
WidestWrite == \E r \in Request : \A q \in Request : Width[q] <= Width[r]

-----------------------------------------------------------------------------
(* The inductive invariant.                                                *)

Retiring == {"drain", "retire", "sync", "rewind", "apply", "answer"}

(* A batch is at most MaxBatch writes, and is gone once it is answered.    *)
BatchSmall ==
  /\ pc = "drain" => Len(batch) <= MaxBatch /\ Len(bytes) <= Widest * Len(batch)
  /\ pc \notin Retiring => batch = <<>> /\ bytes = <<>>
  /\ Len(bytes) <= WidestBatch

(* A batch is appended only to a segment below its limit.                  *)
FilesSmall ==
  \A n \in DOMAIN files : Len(files[n].data) < SegmentLimit + WidestBatch

Sealed == \E n \in DOMAIN files : n # active

(* What the file holds of a batch before its flush adds it to the count.   *)
Uncounted == IF pc = "sync" THEN Len(bytes) ELSE 0

(* Records counted since the last compaction and not in the active segment *)
(* lie in a sealed one.                                                    *)
SealedInv ==
  /\ pc \in Serving \ {"remove"} => Sealed \/ appended + Uncounted <= written
  /\ pc \in Opening => appended = 0

(* Before anything failed or stopped, the log holds what was counted since *)
(* the last compaction, and at most the segment that compaction left.      *)
GrowthInv ==
  faults = 0 /\ restarts = 0 =>
    /\ ~closing
    /\ pc \notin Serving => DOMAIN files = {}
    /\ pc \in Serving =>
         LogEnd < LogBegin + (appended + Uncounted) + (SegmentLimit + WidestBatch)
    /\ pc = "receive" => appended < CheckpointInterval

SizeInv == BatchSmall /\ FilesSmall /\ SealedInv /\ GrowthInv

-----------------------------------------------------------------------------
(* Batches.                                                                *)

LEMMA WidestFacts ==
  ASSUME WidestWrite
  PROVE  /\ Widest \in Nat /\ WidestBatch \in Nat /\ WidestBatch = MaxBatch * Widest
         /\ \A r \in Request : Width[r] \in Nat /\ Width[r] <= Widest
<1> DEFINE S == {Width[r] : r \in Request}
<1>1. \A r \in Request : Width[r] \in Nat
  BY MessagesAssumption
<1>2. S \in SUBSET Nat /\ \E n \in S : \A m \in S : m <= n
  BY <1>1 DEF WidestWrite
<1> HIDE DEF S
<1>3. MaxOf(S) \in S /\ \A m \in S : m <= MaxOf(S)
  BY <1>2, MaxOfProperties
<1>4. Widest = MaxOf(S) /\ WidestBatch = MaxBatch * MaxOf(S) /\ \A r \in Request : Width[r] \in S
  BY DEF S, Widest, WidestBatch
<1>5. Widest \in Nat /\ MaxBatch \in Nat
  BY <1>2, <1>3, <1>4, OptionsAssumption
<1> QED
  BY <1>1, <1>3, <1>4, <1>5

(* One more write adds at most a widest one.                               *)
LEMMA Widened ==
  ASSUME NEW w \in Nat, NEW k \in Nat
  PROVE  w * (k + 1) = w * k + w
OBVIOUS

LEMMA Widening ==
  ASSUME NEW w \in Nat, NEW k \in Nat, NEW m \in Nat, k <= m
  PROVE  w * k <= m * w
OBVIOUS

LEMMA TakeSmall ==
  ASSUME WidestWrite, TypeOK, BatchSmall, Receive \/ Drain
  PROVE  BatchSmall'
<1>1. /\ queue # <<>> /\ pc' = "drain"
      /\ IF Head(queue) \in Request
         THEN batch' = Append(batch, Head(queue)) /\ bytes' = bytes \o RecordsOf(Head(queue))
         ELSE batch' = batch /\ bytes' = bytes
  BY DEF Receive, Drain, Take
<1>2. /\ batch \in Seq(Request) /\ bytes \in Seq(Record)
      /\ Len(batch) \in Nat /\ Len(bytes) \in Nat /\ MaxBatch \in Nat \ {0}
  BY OptionsAssumption, SMTT(30) DEF TypeOK
<1>3. Len(batch) < MaxBatch /\ Len(bytes) <= Widest * Len(batch)
  <2>1. CASE Receive
    <3>1. Len(batch) = 0 /\ Len(bytes) = 0
      BY <2>1 DEF Receive, BatchSmall, Retiring
    <3>2. Widest * 0 = 0
      BY WidestFacts
    <3> QED
      BY <1>2, <3>1, <3>2
  <2>2. CASE Drain
    BY <2>2 DEF Drain, BatchSmall
  <2> QED
    BY <2>1, <2>2
<1>4. Len(batch') <= MaxBatch /\ Len(bytes') <= Widest * Len(batch') /\ Len(batch') \in Nat
  <2>1. CASE Head(queue) \in Request
    <3> DEFINE r == Head(queue)
    <3>1. RecordsOf(r) \in Seq(Record) /\ Len(RecordsOf(r)) = Width[r]
      BY <2>1, RecordsOfType, MessagesAssumption DEF RecordsOf
    <3>2. Len(bytes') = Len(bytes) + Width[r] /\ Len(batch') = Len(batch) + 1
      BY <1>1, <1>2, <2>1, <3>1, ConcatParts, AppendParts
    <3>3. Width[r] \in Nat /\ Width[r] <= Widest /\ Widest \in Nat
      BY <2>1, WidestFacts
    <3> HIDE DEF r
    <3>4. Widest * (Len(batch) + 1) = Widest * Len(batch) + Widest
      BY <1>2, <3>3, Widened
    <3>5. Widest * Len(batch) \in Nat
      BY <1>2, <3>3
    <3> QED
      BY <1>2, <1>3, <3>2, <3>3, <3>4, <3>5
  <2>2. CASE Head(queue) \notin Request
    BY <1>1, <1>2, <1>3, <2>2
  <2> QED
    BY <2>1, <2>2
<1>5. Len(bytes') <= WidestBatch
  <2>1. Widest * Len(batch') <= MaxBatch * Widest
    BY <1>2, <1>4, Widening, WidestFacts
  <2>2. Len(bytes') \in Nat
    <3>1. CASE Head(queue) \in Request
      <4>1. RecordsOf(Head(queue)) \in Seq(Record)
        BY <3>1, RecordsOfType
      <4> QED
        BY <1>1, <1>2, <3>1, <4>1
    <3>2. CASE Head(queue) \notin Request
      BY <1>1, <1>2, <3>2
    <3> QED
      BY <3>1, <3>2
  <2>3. WidestBatch = MaxBatch * Widest /\ Widest * Len(batch') \in Nat /\ WidestBatch \in Nat
    BY <1>4, WidestFacts
  <2> QED
    BY <1>4, <2>1, <2>2, <2>3
<1> QED
  BY <1>1, <1>4, <1>5 DEF BatchSmall, Retiring

LEMMA BatchSmallStep ==
  ASSUME WidestWrite, TypeOK, BatchSmall, [Next]_vars
  PROVE  BatchSmall'
<1> USE DEF clientVars, batchVars, tailVars, storeVars, scanVars, BatchSmall, Retiring
<1>0. /\ 0 <= WidestBatch /\ Len(<<>>) = 0
      /\ Len(batch) \in Nat /\ Len(bytes) \in Nat /\ Widest \in Nat
  BY WidestFacts DEF TypeOK
<1>1. CASE ClientStep \/ Idle \/ UNCHANGED vars
  BY <1>1 DEF ClientStep, SendWrite, SendCheckpoint, Cancel, Shutdown, Idle, vars
<1>2. CASE TakeStep
  <2>1. CASE Drained
    <3>1. pc = "drain" /\ UNCHANGED <<batch, bytes>>
      BY <2>1 DEF Drained
    <3>2. CASE batch = <<>>
      <4>1. Len(batch) = 0 /\ Widest * 0 = 0
        BY <1>0, <3>2
      <4>2. Len(bytes) = 0
        BY <1>0, <3>1, <4>1
      <4>3. bytes = <<>>
        BY <4>2 DEF TypeOK
      <4> QED
        BY <2>1, <3>1, <3>2, <4>3 DEF Drained
    <3>3. CASE batch # <<>>
      BY <2>1, <3>1, <3>3 DEF Drained
    <3> QED
      BY <3>2, <3>3
  <2>2. CASE ThreadExit
    BY <2>2 DEF ThreadExit
  <2> QED
    BY <1>2, <2>1, <2>2, TakeSmall DEF TakeStep
<1>3. CASE EncodeFails \/ RollOver \/ NameTaken \/ RollOverFails \/ AppendPoisoned
  BY <1>3 DEF EncodeFails, RollOver, NameTaken, RollOverFails, AppendPoisoned, Refuse
<1>4. CASE AppendBytes \/ AppendFails \/ Rewind \/ RewindFails \/ Sync \/ SyncFails
  BY <1>4 DEF AppendBytes, AppendFails, Rewind, RewindFails, Sync, SyncFails, Refuse
<1>5. CASE Apply \/ ApplyFails \/ AnswerOk \/ AnswerError \/ Answered
  BY <1>0, <1>5 DEF Apply, ApplyFails, AnswerOk, AnswerError, Answered, Refuse
<1>6. CASE CompactStep
  BY <1>6 DEF CompactStep, NothingDue, FlushStore, FlushFails, RemoveSegment,
              RemoveFails, Compacted, CompactEnds
<1>7. CASE Kill \/ PowerLoss
  BY <1>0, <1>7 DEF Kill, PowerLoss, LoseMemory
<1>8. CASE Open \/ ScanSegment \/ ScanRefused \/ ReadFails \/ ReplayRefused
  BY <1>8 DEF Open, ScanSegment, ScanRefused, ReadFails, ReplayRefused, OpenFailed
<1>9. CASE Replay \/ ReplayFails \/ ReopenTail \/ CreateFirst \/ ReopenFails
  BY <1>9 DEF Replay, ReplayFails, ReopenTail, CreateFirst, ReopenFails, OpenFailed
<1> QED
  BY <1>1, <1>2, <1>3, <1>4, <1>5, <1>6, <1>7, <1>8, <1>9
     DEF Next, ThreadStep, RetireStep, OpenStep

-----------------------------------------------------------------------------
(* Segments.                                                               *)

(* What a power loss leaves of a segment is no longer than it was.         *)
LEMMA SurvivorsShort ==
  ASSUME NEW f \in File, NEW g \in Survivors(f)
  PROVE  Len(g.data) <= Len(f.data)
<1>1. PICK k \in f.synced..Len(f.data), t \in BOOLEAN : g = CutTo(f, k, t)
  <2>1. \A k \in f.synced..(Len(f.data) - 1) : k \in f.synced..Len(f.data)
    BY FileParts
  <2> QED
    BY <2>1, Zenon DEF Survivors
<1>2. f.data \in Seq(Record) /\ f.synced \in Nat /\ k \in 0..Len(f.data)
  BY FileParts
<1>3. g.data = SubSeq(f.data, 1, k)
  BY <1>1 DEF CutTo
<1> QED
  BY <1>2, <1>3

(* Neither is a segment after a truncation, done or half done.             *)
LEMMA CutShort ==
  ASSUME NEW f \in File, NEW len \in 0..Len(f.data),
         NEW g \in {Truncated(f, len)} \cup HalfTruncated(f, len)
  PROVE  Len(g.data) <= Len(f.data)
<1>1. f.data \in Seq(Record) /\ Len(f.data) \in Nat
  BY FileParts
<1>2. g.data = SubSeq(f.data, 1, len) \/ g.data = f.data
  <2>1. \/ g = Truncated(f, len) \/ g = f
        \/ g = [f EXCEPT !.data = SubSeq(@, 1, len), !.torn = FALSE]
    BY DEF HalfTruncated
  <2>2. CASE g = Truncated(f, len)
    BY <2>2 DEF Truncated
  <2>3. CASE g = [f EXCEPT !.data = SubSeq(@, 1, len), !.torn = FALSE]
    BY <2>3 DEF File
  <2> QED
    BY <2>1, <2>2, <2>3
<1> QED
  BY <1>1, <1>2

(* No segment of the next state is longer than it was, or it is new.       *)
Shorter ==
  \A n \in DOMAIN files' :
    \/ Len(files'[n].data) = 0
    \/ n \in DOMAIN files /\ Len(files'[n].data) <= Len(files[n].data)

(* The segment appended to is known, and never longer than it is believed. *)
LEMMA ActiveFacts ==
  ASSUME TypeOK, WalInv, pc \in Serving
  PROVE  /\ active \in DOMAIN files /\ active \in Nat /\ written \in Nat
         /\ files[active] \in File
         /\ files[active].data \in Seq(Record) /\ Len(files[active].data) \in Nat
         /\ written \in 0..Len(files[active].data)
         /\ applied <= active + Len(files[active].data)
         /\ \A n \in DOMAIN files : n <= active
<1>1. /\ active \in DOMAIN files /\ written <= Len(files[active].data)
      /\ \A n \in DOMAIN files : n <= active
      /\ applied <= active + files[active].synced
      /\ files[active].synced <= written
  BY DEF WalInv, TailInv
<1>2. /\ active \in Nat /\ written \in Nat /\ applied \in Nat
      /\ files[active] \in File /\ files[active].synced \in Nat
      /\ files[active].data \in Seq(Record) /\ Len(files[active].data) \in Nat
  BY <1>1, DiskTypes DEF TypeOK
<1> QED
  BY <1>1, <1>2

(* Only an append makes a segment longer, by no more than the batch.       *)
LEMMA AppendLengths ==
  ASSUME TypeOK, WalInv, AppendBytes \/ AppendFails
  PROVE  /\ pc = "retire" /\ DOMAIN files' = DOMAIN files
         /\ Len(files[active].data) < SegmentLimit
         /\ Len(files'[active].data) \in Nat
         /\ Len(files'[active].data) <= Len(files[active].data) + Len(bytes)
         /\ AppendBytes =>
              Len(files'[active].data) = Len(files[active].data) + Len(bytes)
         /\ \A n \in DOMAIN files : n # active => files'[n] = files[n]
<1>1. pc = "retire" /\ ~IsFull /\ ~poisoned
  BY DEF AppendBytes, AppendFails
<1>2. /\ active \in DOMAIN files /\ files[active] \in File
      /\ files[active].data \in Seq(Record) /\ Len(files[active].data) \in Nat
      /\ written \in Nat
  BY <1>1, ActiveFacts DEF Serving
<1>3. bytes \in Seq(Record) /\ Len(bytes) \in Nat
  BY DEF TypeOK
<1>4. Len(files[active].data) < SegmentLimit
  <2>1. written = Len(files[active].data)
    BY <1>1 DEF WalInv, TailInv, Serving
  <2> QED
    BY <1>1, <1>2, <2>1, OptionsAssumption DEF IsFull
<1> DEFINE Appended(g, k) ==
             /\ files' = [files EXCEPT ![active] = g]
             /\ g.data = files[active].data \o SubSeq(bytes, 1, k)
             /\ AppendBytes => k = Len(bytes)
<1>5a. \E k \in 0..Len(bytes) : \E g : Appended(g, k)
  <2>1. CASE AppendBytes
    <3> DEFINE g == Written(files[active], bytes)
    <3>1. files' = [files EXCEPT ![active] = g]
      BY <2>1 DEF AppendBytes
    <3>2. g.data = files[active].data \o SubSeq(bytes, 1, Len(bytes))
      <4>1. bytes = SubSeq(bytes, 1, Len(bytes))
        BY <1>3
      <4>2. g.data = files[active].data \o bytes
        BY <1>2 DEF Written, File
      <4> QED
        BY <4>1, <4>2
    <3> HIDE DEF g
    <3>3. Appended(g, Len(bytes)) /\ Len(bytes) \in 0..Len(bytes)
      BY <1>3, <3>1, <3>2
    <3> QED
      BY <3>3
  <2>2. CASE ~AppendBytes
    <3>1. PICK g \in PartlyWritten(files[active], bytes) : files' = [files EXCEPT ![active] = g]
      BY <2>2 DEF AppendFails
    <3>2. PICK k \in 0..Len(bytes) :
            \/ g = [files[active] EXCEPT !.data = @ \o SubSeq(bytes, 1, k)]
            \/ g = [files[active] EXCEPT !.data = @ \o SubSeq(bytes, 1, k), !.torn = TRUE]
      <4>1. \A k \in 0..(Len(bytes) - 1) : k \in 0..Len(bytes)
        BY <1>3
      <4> QED
        BY <4>1, Zenon DEF PartlyWritten
    <3>3. g.data = files[active].data \o SubSeq(bytes, 1, k)
      BY <1>2, <3>2 DEF File
    <3>4. Appended(g, k)
      BY <2>2, <3>1, <3>3
    <3> QED
      BY <3>4
  <2> QED
    BY <2>1, <2>2
<1>5. PICK k \in 0..Len(bytes) : \E g : Appended(g, k)
  BY <1>5a
<1>5b. PICK g : Appended(g, k)
  BY <1>5
<1>6. SubSeq(bytes, 1, k) \in Seq(Record) /\ Len(SubSeq(bytes, 1, k)) = k /\ k \in Nat
  BY <1>3, <1>5
<1>7. Len(g.data) = Len(files[active].data) + k
  BY <1>2, <1>5b, <1>6, ConcatParts
<1>8. /\ DOMAIN files' = DOMAIN files /\ files'[active] = g
      /\ \A n \in DOMAIN files : n # active => files'[n] = files[n]
  BY <1>2, <1>5b
<1>9. AppendBytes => k = Len(bytes)
  BY <1>5b
<1> HIDE DEF Appended
<1>10. Len(g.data) \in Nat /\ Len(g.data) <= Len(files[active].data) + Len(bytes)
  BY <1>2, <1>3, <1>6, <1>7
<1> QED
  BY <1>1, <1>4, <1>7, <1>8, <1>9, <1>10

(* Every other step leaves the segments no longer.                         *)
LEMMA ShorterStep ==
  ASSUME TypeOK, WalInv, [Next]_vars, ~AppendBytes, ~AppendFails
  PROVE  Shorter
<1> USE DEF clientVars, batchVars, tailVars, storeVars, scanVars
<1>0. ASSUME files' = files PROVE Shorter
  BY <1>0, DiskTypes DEF Shorter
<1>0a. ASSUME NEW n \in DOMAIN files, NEW g, files' = [files EXCEPT ![n] = g],
              Len(g.data) <= Len(files[n].data)
       PROVE  Shorter
  BY <1>0a, DiskTypes DEF Shorter
<1>1. CASE ClientStep \/ TakeStep \/ Idle \/ UNCHANGED vars
  BY <1>0, <1>1 DEF ClientStep, TakeStep, SendWrite, SendCheckpoint, Cancel, Shutdown,
     Receive, Drain, Drained, ThreadExit, Take, Idle, vars
<1>2. CASE EncodeFails \/ NameTaken \/ RollOverFails \/ AppendPoisoned \/ SyncFails
  BY <1>0, <1>2 DEF EncodeFails, NameTaken, RollOverFails, AppendPoisoned, SyncFails
<1>3. CASE Apply \/ ApplyFails \/ AnswerOk \/ AnswerError \/ Answered
  BY <1>0, <1>3 DEF Apply, ApplyFails, AnswerOk, AnswerError, Answered
<1>4. CASE RollOver \/ CreateFirst
  BY <1>4, DiskTypes DEF RollOver, CreateFirst, Shorter, EmptyFile
<1>5. CASE Rewind \/ RewindFails
  <2>1. PICK g \in {Truncated(files[active], written)}
                     \cup HalfTruncated(files[active], written) :
          files' = [files EXCEPT ![active] = g]
    BY <1>5 DEF Rewind, RewindFails
  <2>2. pc \in Serving
    BY <1>5 DEF Rewind, RewindFails, Serving
  <2>3. Len(g.data) <= Len(files[active].data)
    BY <2>2, ActiveFacts, CutShort
  <2>4. active \in DOMAIN files
    BY <2>2, ActiveFacts
  <2> QED
    BY <1>0a, <2>1, <2>3, <2>4
<1>6. CASE Sync
  <2>1. pc \in Serving /\ files' = [files EXCEPT ![active] = Synced(files[active])]
    BY <1>6 DEF Sync, Serving
  <2>2. active \in DOMAIN files /\ files[active] \in File /\ Len(files[active].data) \in Nat
    BY <2>1, ActiveFacts
  <2>3. Len(Synced(files[active]).data) <= Len(files[active].data)
    BY <2>2 DEF Synced, File
  <2> QED
    BY <1>0a, <2>1, <2>2, <2>3
<1>7. CASE CompactStep
  <2>1. CASE RemoveSegment
    BY <2>1, DiskTypes DEF RemoveSegment, Shorter
  <2> QED
    BY <1>0, <1>7, <2>1 DEF CompactStep, NothingDue, FlushStore, FlushFails,
       RemoveFails, Compacted
<1>8. CASE Kill
  BY <1>0, <1>8 DEF Kill
<1>9. CASE PowerLoss
  <2>1. DOMAIN files' = DOMAIN files /\ \A n \in DOMAIN files : files'[n] \in Survivors(files[n])
    BY <1>9 DEF PowerLoss
  <2> QED
    BY <2>1, DiskTypes, SurvivorsShort DEF Shorter
<1>10. CASE Open \/ ScanSegment \/ ScanRefused \/ ReadFails \/ ReplayRefused \/ Replay \/ ReplayFails
  BY <1>0, <1>10 DEF Open, ScanSegment, ScanRefused, ReadFails, ReplayRefused, Replay, ReplayFails
<1>11. CASE ReopenTail \/ ReopenFails
  <2>1. CASE files' = files
    BY <1>0, <2>1
  <2>2. CASE files' # files
    <3> DEFINE n == MaxOf(DOMAIN files)
    <3>1. DOMAIN files # {}
      BY <1>11, <2>2 DEF ReopenTail, ReopenFails, TypeOK
    <3>2. n \in DOMAIN files
      <4>1. DOMAIN files \in SUBSET Nat /\ \E m \in DOMAIN files : \A l \in DOMAIN files : l <= m
        BY <3>1 DEF TypeOK, WalInv, FilesInv
      <4> QED
        BY <4>1, MaxOfProperties
    <3>3. PICK g \in {Truncated(files[n], Len(files[n].data))}
                       \cup HalfTruncated(files[n], Len(files[n].data)) :
            files' = [files EXCEPT ![n] = g]
      BY <1>11, <3>1, <3>2 DEF ReopenTail, ReopenFails
    <3> HIDE DEF n
    <3>4. Len(g.data) <= Len(files[n].data)
      BY <3>2, DiskTypes, CutShort
    <3> QED
      BY <1>0a, <3>2, <3>3, <3>4
  <2> QED
    BY <2>1, <2>2
<1> QED
  BY <1>1, <1>2, <1>3, <1>4, <1>5, <1>6, <1>7, <1>8, <1>9, <1>10, <1>11
     DEF Next, ThreadStep, RetireStep, OpenStep

LEMMA FilesSmallStep ==
  ASSUME WidestWrite, TypeOK, WalInv, TypeOK', BatchSmall, FilesSmall, [Next]_vars
  PROVE  FilesSmall'
<1>0. /\ WidestBatch \in Nat /\ SegmentLimit \in Nat \ {0}
      /\ \A n \in DOMAIN files : Len(files[n].data) \in Nat
      /\ \A n \in DOMAIN files' : Len(files'[n].data) \in Nat
  BY WidestFacts, OptionsAssumption, DiskTypes, DiskTypesNext
<1>1. CASE AppendBytes \/ AppendFails
  <2>1. pc \in Serving /\ Len(bytes) \in Nat /\ Len(bytes) <= WidestBatch
    BY <1>1 DEF AppendBytes, AppendFails, Serving, BatchSmall, TypeOK
  <2>2. active \in DOMAIN files
    BY <2>1, ActiveFacts
  <2>3. Len(files'[active].data) < SegmentLimit + WidestBatch
    BY <1>0, <1>1, <2>1, <2>2, AppendLengths
  <2> QED
    BY <1>1, <2>3, AppendLengths DEF FilesSmall
<1>2. CASE ~AppendBytes /\ ~AppendFails
  <2>1. Shorter
    BY <1>2, ShorterStep
  <2> QED
    BY <1>0, <2>1 DEF Shorter, FilesSmall
<1> QED
  BY <1>1, <1>2

-----------------------------------------------------------------------------
(* What was counted since the last compaction.                             *)

LEMMA CountTypes ==
  /\ TypeOK => /\ appended \in Nat /\ written \in Nat /\ Uncounted \in Nat
               /\ Len(bytes) \in Nat /\ faults \in Nat /\ restarts \in Nat
  /\ TypeOK' => /\ appended' \in Nat /\ written' \in Nat /\ Uncounted' \in Nat
                /\ Len(bytes') \in Nat /\ faults' \in Nat /\ restarts' \in Nat
BY DEF TypeOK, Uncounted

(* A step that removes no segment and counts nothing.                      *)
LEMMA SealedKept ==
  ASSUME SealedInv, DOMAIN files \subseteq DOMAIN files', active' = active,
         written' = written, appended' = appended, Uncounted' <= Uncounted,
         TypeOK, TypeOK',
         pc' \in Serving \ {"remove"} => pc \in Serving \ {"remove"},
         pc' \in Opening => pc \in Opening
  PROVE  SealedInv'
BY CountTypes DEF SealedInv, Sealed

LEMMA SealedStep ==
  ASSUME TypeOK, WalInv, TypeOK', SealedInv, [Next]_vars
  PROVE  SealedInv'
<1> USE DEF clientVars, batchVars, tailVars, storeVars, scanVars, Serving, Opening
<1>1. CASE ClientStep \/ Idle \/ UNCHANGED vars
  <2>1. /\ files' = files /\ active' = active /\ written' = written /\ appended' = appended
        /\ pc' = pc /\ bytes' = bytes
    BY <1>1 DEF ClientStep, SendWrite, SendCheckpoint, Cancel, Shutdown, Idle, vars
  <2>2. Uncounted' = Uncounted
    BY <2>1 DEF Uncounted
  <2> QED
    BY <2>1, <2>2, SealedKept, CountTypes
<1>2. CASE \/ TakeStep \/ EncodeFails \/ NameTaken \/ RollOverFails \/ AppendPoisoned
           \/ AppendFails \/ Rewind \/ RewindFails \/ SyncFails \/ Apply \/ ApplyFails
           \/ AnswerOk \/ AnswerError \/ Answered
  <2>1. /\ DOMAIN files' = DOMAIN files /\ active' = active /\ written' = written
        /\ appended' = appended /\ pc \in Serving \ {"remove"} /\ pc' # "sync"
        /\ pc' \notin Opening
    <3>1. CASE TakeStep
      BY <3>1 DEF TakeStep, Receive, Drain, Drained, ThreadExit, Take
    <3>2. CASE EncodeFails \/ NameTaken \/ RollOverFails \/ AppendPoisoned
      BY <3>2 DEF EncodeFails, NameTaken, RollOverFails, AppendPoisoned, Refuse
    <3>3. CASE AppendFails \/ Rewind \/ RewindFails \/ SyncFails
      BY <3>3 DEF AppendFails, Rewind, RewindFails, SyncFails, Refuse
    <3>4. CASE Apply \/ ApplyFails \/ AnswerOk \/ AnswerError \/ Answered
      BY <3>4 DEF Apply, ApplyFails, AnswerOk, AnswerError, Answered, Refuse
    <3> QED
      BY <1>2, <3>1, <3>2, <3>3, <3>4
  <2>2. Uncounted' = 0 /\ 0 <= Uncounted
    BY <2>1, CountTypes DEF Uncounted
  <2> QED
    BY <2>1, <2>2, SealedKept
<1>3. CASE RollOver
  <2>1. active \in DOMAIN files'
    BY <1>3, ActiveFacts DEF RollOver
  <2>2. active' # active
    BY <1>3, ActiveFacts DEF RollOver
  <2>3. pc' \notin Opening
    BY <1>3 DEF RollOver
  <2> QED
    BY <2>1, <2>2, <2>3 DEF SealedInv, Sealed
<1>4. CASE AppendBytes
  <2>1. /\ DOMAIN files' = DOMAIN files /\ active' = active /\ appended' = appended
        /\ written' = written + Len(bytes) /\ bytes' = bytes /\ pc = "retire" /\ pc' = "sync"
    BY <1>4 DEF AppendBytes
  <2>2. Uncounted = 0 /\ Uncounted' = Len(bytes)
    BY <2>1 DEF Uncounted
  <2> QED
    BY <2>1, <2>2, CountTypes DEF SealedInv, Sealed
<1>5. CASE Sync
  <2>1. /\ DOMAIN files' = DOMAIN files /\ active' = active /\ written' = written
        /\ appended' = appended + Len(bytes) /\ pc = "sync" /\ pc' = "apply"
    BY <1>5 DEF Sync
  <2>2. Uncounted = Len(bytes) /\ Uncounted' = 0
    BY <2>1 DEF Uncounted
  <2> QED
    BY <2>1, <2>2, CountTypes DEF SealedInv, Sealed
<1>6. CASE NothingDue \/ FlushStore \/ FlushFails \/ RemoveSegment
  <2>1. CASE pc' = "remove"
    BY <2>1 DEF SealedInv
  <2>2. CASE pc' # "remove"
    <3>1. /\ files' = files /\ active' = active /\ written' = written
          /\ appended' = appended /\ pc = "settle" /\ pc' = "receive"
      BY <1>6, <2>2 DEF NothingDue, FlushStore, FlushFails, RemoveSegment, CompactEnds
    <3>2. Uncounted' = 0 /\ Uncounted = 0
      BY <3>1 DEF Uncounted
    <3> QED
      BY <3>1, <3>2, SealedKept
  <2> QED
    BY <2>1, <2>2
<1>7. CASE RemoveFails
  <2>1. /\ pc \in Serving /\ pc' = "receive" /\ files' = files /\ active' = active
        /\ Removable # {}
    BY <1>7 DEF RemoveFails, CompactEnds
  <2>2. PICK n, m : n \in DOMAIN files /\ m \in DOMAIN files /\ m > n
    BY <2>1 DEF Removable
  <2>3. n \in Nat /\ m \in Nat /\ active \in Nat /\ m <= active
    BY <2>1, <2>2, ActiveFacts, DiskTypes
  <2>4. n # active
    BY <2>2, <2>3
  <2> QED
    BY <2>1, <2>2, <2>4 DEF SealedInv, Sealed
<1>8. CASE Compacted
  <2>1. appended' = 0 /\ pc' = "receive"
    BY <1>8 DEF Compacted, CompactEnds
  <2>2. Uncounted' = 0
    BY <2>1 DEF Uncounted
  <2> QED
    BY <2>1, <2>2, CountTypes DEF SealedInv
<1>9. CASE \/ Kill \/ PowerLoss \/ Open \/ ScanSegment \/ ScanRefused \/ ReadFails
           \/ ReplayRefused \/ Replay \/ ReplayFails \/ ReopenFails
  <2>1. pc' \notin Serving
    BY <1>9 DEF Kill, PowerLoss, Open, ScanSegment, ScanRefused, ReadFails, ReplayRefused,
       Replay, ReplayFails, ReopenFails, OpenFailed
  <2>2. pc' \in Opening => appended' = 0
    BY <1>9 DEF Kill, PowerLoss, Open, ScanSegment, ScanRefused, ReadFails, ReplayRefused,
       Replay, ReplayFails, ReopenFails, OpenFailed, SealedInv
  <2> QED
    BY <2>1, <2>2 DEF SealedInv
<1>10. CASE ReopenTail \/ CreateFirst
  <2>1. appended' = 0 /\ pc' = "receive"
    BY <1>10 DEF ReopenTail, CreateFirst, SealedInv
  <2>2. Uncounted' = 0
    BY <2>1 DEF Uncounted
  <2> QED
    BY <2>1, <2>2, CountTypes DEF SealedInv
<1> QED
  BY <1>1, <1>2, <1>3, <1>4, <1>5, <1>6, <1>7, <1>8, <1>9, <1>10
     DEF Next, ThreadStep, RetireStep, CompactStep, OpenStep

-----------------------------------------------------------------------------
(* The length of the log.                                                  *)

LEMMA GrowthSum ==
  ASSUME NEW b \in Nat, NEW e \in Nat, NEW c \in Nat, NEW l \in Nat,
         NEW b2 \in Nat, NEW e2 \in Nat, NEW c2 \in Nat,
         e2 - b2 <= e - b + (c2 - c), e < b + c + l
  PROVE  e2 < b2 + c2 + l
OBVIOUS

LEMMA GrowthTypes ==
  ASSUME TypeOK, TypeOK', WidestWrite, EndFacts, EndFacts'
  PROVE  /\ LogBegin \in Nat /\ LogEnd \in Nat /\ LogBegin' \in Nat /\ LogEnd' \in Nat
         /\ appended + Uncounted \in Nat /\ appended' + Uncounted' \in Nat
         /\ SegmentLimit + WidestBatch \in Nat
<1>1. LogBegin \in Nat /\ LogEnd \in Nat /\ LogBegin' \in Nat /\ LogEnd' \in Nat
  BY DEF EndFacts
<1>2. appended + Uncounted \in Nat /\ appended' + Uncounted' \in Nat
  BY CountTypes
<1>3. SegmentLimit + WidestBatch \in Nat
  BY WidestFacts, OptionsAssumption
<1> QED
  BY <1>1, <1>2, <1>3

(* A step by which the log grows no more than the count does.              *)
LEMMA GrowthBy ==
  ASSUME GrowthInv, TypeOK, TypeOK', WidestWrite, EndFacts, EndFacts',
         pc \in Serving, UNCHANGED <<faults, restarts, closing>>,
         \/ UNCHANGED <<files, appended, Uncounted>>
         \/ LogEnd' - LogBegin' <= LogEnd - LogBegin
              + ((appended' + Uncounted') - (appended + Uncounted)),
         pc' \in Serving,
         pc' = "receive" =>
           (pc = "receive" /\ appended' = appended) \/ appended' < CheckpointInterval
  PROVE  GrowthInv'
<1>2. LogEnd' - LogBegin' <= LogEnd - LogBegin
        + ((appended' + Uncounted') - (appended + Uncounted))
  <2>1. CASE UNCHANGED <<files, appended, Uncounted>>
    <3>1. LogEnd' = LogEnd /\ LogBegin' = LogBegin
      BY <2>1 DEF LogEnd, LogBegin
    <3>2. appended' + Uncounted' = appended + Uncounted
      BY <2>1
    <3> QED
      BY <3>1, <3>2, GrowthTypes
  <2> QED
    BY <2>1
<1> SUFFICES ASSUME faults = 0, restarts = 0 PROVE GrowthInv'
  BY DEF GrowthInv
<1>3. LogEnd < LogBegin + (appended + Uncounted) + (SegmentLimit + WidestBatch)
  BY DEF GrowthInv
<1>4. LogEnd' < LogBegin' + (appended' + Uncounted') + (SegmentLimit + WidestBatch)
  <2> DEFINE b == LogBegin
             e == LogEnd
             c == appended + Uncounted
             l == SegmentLimit + WidestBatch
             b2 == LogBegin'
             e2 == LogEnd'
             c2 == appended' + Uncounted'
  <2>1. /\ b \in Nat /\ e \in Nat /\ c \in Nat /\ l \in Nat
        /\ b2 \in Nat /\ e2 \in Nat /\ c2 \in Nat
    BY GrowthTypes
  <2>2. e2 - b2 <= e - b + (c2 - c) /\ e < b + c + l
    BY <1>2, <1>3
  <2> HIDE DEF b, e, c, l, b2, e2, c2
  <2>3. e2 < b2 + c2 + l
    BY <2>1, <2>2, GrowthSum
  <2> QED
    BY <2>3 DEF e2, b2, c2, l
<1> QED
  BY <1>4 DEF GrowthInv

(* The ends of the log stay where they are when no segment comes or goes,  *)
(* except that the active one changes its length.                          *)
LEMMA EndsMove ==
  ASSUME TypeOK, WalInv, TypeOK', WalInv', pc \in Serving, DOMAIN files' = DOMAIN files
  PROVE  /\ LogBegin' = LogBegin
         /\ LogEnd = active + Len(files[active].data)
         /\ LogEnd' = active + Len(files'[active].data)
<1>1. EndFacts /\ EndFacts'
  BY EndsHold, EndsHoldNext
<1>2. active \in DOMAIN files /\ \A n \in DOMAIN files : n \in Nat /\ n <= active
  BY ActiveFacts, DiskTypes
<1>3. LastName = active /\ LastName' = active
  BY <1>1, <1>2 DEF EndFacts
<1>4. LogBegin' = LogBegin
  BY <1>1, <1>2 DEF EndFacts
<1> QED
  BY <1>1, <1>2, <1>3, <1>4 DEF EndFacts

(* Rolling over moves the end of the log no further than the records reach.*)
LEMMA RollOverEnds ==
  ASSUME TypeOK, WalInv, TypeOK', WalInv', RollOver
  PROVE  LogBegin' = LogBegin /\ LogEnd' <= LogEnd
<1>1. EndFacts /\ EndFacts' /\ pc \in Serving
  BY EndsHold, EndsHoldNext DEF RollOver, Serving
<1>2. /\ active \in DOMAIN files /\ applied \in Nat /\ active <= applied
      /\ applied <= active + Len(files[active].data)
      /\ \A n \in DOMAIN files : n \in Nat /\ n <= active
  BY <1>1, ActiveFacts, DiskTypes DEF WalInv, TailInv
<1>3. /\ DOMAIN files' = DOMAIN files \cup {applied} /\ applied \notin DOMAIN files
      /\ Len(files'[applied].data) = 0
  BY DEF RollOver, EmptyFile
<1>4. LastName = active /\ LastName' = applied
  BY <1>1, <1>2, <1>3 DEF EndFacts
<1>5. LogEnd = active + Len(files[active].data) /\ LogEnd' = applied + 0
  BY <1>1, <1>2, <1>3, <1>4 DEF EndFacts
<1>6. LogBegin' = LogBegin
  BY <1>1, <1>2, <1>3 DEF EndFacts
<1> QED
  BY <1>2, <1>5, <1>6

(* Removing the first segment moves the beginning of the log only.         *)
LEMMA RemoveEnds ==
  ASSUME TypeOK, WalInv, TypeOK', WalInv', RemoveSegment
  PROVE  LogBegin <= LogBegin' /\ LogEnd' = LogEnd
<1> DEFINE n == MinOf(Removable)
<1>1. /\ Removable # {} /\ DOMAIN files' = DOMAIN files \ {n}
      /\ \A m \in DOMAIN files' : files'[m] = files[m]
  BY DEF RemoveSegment
<1>2. /\ n \in DOMAIN files /\ \A m \in DOMAIN files : n <= m
      /\ \E m \in DOMAIN files : n < m
  BY <1>1, RemovesFirst
<1> HIDE DEF n
<1>3. EndFacts /\ EndFacts' /\ \A m \in DOMAIN files : m \in Nat
  BY EndsHold, EndsHoldNext, DiskTypes
<1>4. LastName \in DOMAIN files' /\ DOMAIN files' # {} /\ DOMAIN files # {}
  BY <1>1, <1>2, <1>3 DEF EndFacts
<1>5. LastName' = LastName
  BY <1>1, <1>3, <1>4 DEF EndFacts
<1>6. LogEnd' = LogEnd
  BY <1>1, <1>3, <1>4, <1>5 DEF EndFacts
<1>7. LogBegin <= LogBegin'
  BY <1>1, <1>3, <1>4 DEF EndFacts
<1> QED
  BY <1>6, <1>7

(* Once nothing is left to remove, only the active segment remains.        *)
LEMMA OnlyActive ==
  ASSUME TypeOK, WalInv, pc \in Serving, Removable = {}
  PROVE  DOMAIN files = {active}
<1>1. /\ active \in DOMAIN files /\ active <= applied /\ applied \in Nat
      /\ \A n \in DOMAIN files : n \in Nat /\ n <= active
  BY ActiveFacts, DiskTypes DEF WalInv, TailInv
<1>2. ASSUME NEW n \in DOMAIN files, n # active PROVE FALSE
  <2> DEFINE S == {m \in DOMAIN files : m > n}
  <2>1. S \in SUBSET Nat /\ active \in S
    BY <1>1, <1>2
  <2>2. MinOf(S) \in S /\ MinOf(S) <= active
    BY <2>1, MinOfProperties
  <2>3. Successor(n) = MinOf(S)
    BY DEF Successor
  <2> HIDE DEF S
  <2>4. Successor(n) <= applied
    <3>1. MinOf(S) \in Nat /\ active \in Nat
      BY <1>1, <2>1, <2>2
    <3> QED
      BY <1>1, <2>2, <2>3, <3>1
  <2>5. n \in Removable
    BY <1>1, <1>2, <2>4 DEF Removable
  <2> QED
    BY <2>5
<1> QED
  BY <1>1, <1>2

(* A step of the open log that leaves the segments and the count alone.    *)
LEMMA GrowthQuiet ==
  ASSUME GrowthInv, TypeOK, TypeOK', WidestWrite, EndFacts, EndFacts',
         UNCHANGED <<files, appended, faults, restarts, closing>>,
         pc \in Serving, pc' \in Serving, pc' = pc \/ pc' # "receive",
         pc = "sync" <=> pc' = "sync", pc = "sync" => bytes' = bytes
  PROVE  GrowthInv'
<1>1. Uncounted' = Uncounted
  BY DEF Uncounted
<1> QED
  BY <1>1, GrowthBy

LEMMA GrowthStep ==
  ASSUME WidestWrite, TypeOK, WalInv, TypeOK', WalInv', FilesSmall, SealedInv,
         GrowthInv, [Next]_vars
  PROVE  GrowthInv'
<1> USE DEF clientVars, batchVars, tailVars, storeVars, scanVars
<1>1. EndFacts /\ EndFacts'
  BY EndsHold, EndsHoldNext
<1>2. ASSUME faults' = faults + 1 \/ restarts' = restarts + 1 PROVE GrowthInv'
  <2>1. faults' # 0 \/ restarts' # 0
    BY <1>2, CountTypes
  <2> QED
    BY <2>1 DEF GrowthInv
<1>3. CASE ClientStep \/ Idle \/ UNCHANGED vars
  <2>1. CASE Shutdown
    BY <1>2, <2>1 DEF Shutdown
  <2>2. CASE ~Shutdown
    <3>1. UNCHANGED <<files, appended, faults, restarts, closing, pc, bytes>>
      BY <1>3, <2>2 DEF ClientStep, SendWrite, SendCheckpoint, Cancel, Idle, vars
    <3>2. CASE pc \in Serving
      BY <1>1, <3>1, <3>2, GrowthQuiet
    <3>3. CASE pc \notin Serving
      BY <3>1, <3>3 DEF GrowthInv, Serving
    <3> QED
      BY <3>2, <3>3
  <2> QED
    BY <2>1, <2>2
<1>4. CASE TakeStep
  <2>1. CASE ThreadExit
    BY <2>1 DEF ThreadExit, GrowthInv
  <2>2. CASE ~ThreadExit
    <3>1. /\ UNCHANGED <<files, appended, faults, restarts, closing>>
          /\ pc \in {"receive", "drain"} /\ pc' \in {"drain", "settle", "retire"}
      BY <1>4, <2>2 DEF TakeStep, Receive, Drain, Drained, Take
    <3> QED
      BY <1>1, <3>1, GrowthQuiet DEF Serving
  <2> QED
    BY <2>1, <2>2
<1>5. CASE RollOverFails \/ AppendFails \/ RewindFails \/ SyncFails \/ ApplyFails
  BY <1>2, <1>5 DEF RollOverFails, AppendFails, RewindFails, SyncFails, ApplyFails, Fault
<1>6. CASE EncodeFails \/ NameTaken \/ AppendPoisoned \/ Apply \/ AnswerOk \/ AnswerError \/ Answered
  <2>1. /\ UNCHANGED <<files, appended, faults, restarts, closing>>
        /\ pc \in {"retire", "apply", "answer"} /\ pc' \in {"answer", "settle"}
    BY <1>6 DEF EncodeFails, NameTaken, AppendPoisoned, Apply, AnswerOk, AnswerError,
       Answered, Refuse
  <2> QED
    BY <1>1, <2>1, GrowthQuiet DEF Serving
<1>7. CASE RollOver
  <2>1. /\ UNCHANGED <<appended, faults, restarts, closing, pc>> /\ pc = "retire"
    BY <1>7 DEF RollOver
  <2>2. Uncounted = 0 /\ Uncounted' = 0
    BY <2>1 DEF Uncounted
  <2>3. LogBegin' = LogBegin /\ LogEnd' <= LogEnd
    BY <1>7, RollOverEnds
  <2>4. LogEnd' - LogBegin' <= LogEnd - LogBegin
          + ((appended' + Uncounted') - (appended + Uncounted))
    BY <1>1, <2>1, <2>2, <2>3, CountTypes DEF EndFacts
  <2> QED
    BY <1>1, <2>1, <2>4, GrowthBy DEF Serving
<1>8. CASE AppendBytes
  <2>1. /\ UNCHANGED <<appended, faults, restarts, closing, bytes>>
        /\ pc = "retire" /\ pc' = "sync"
    BY <1>8 DEF AppendBytes
  <2>2. Uncounted = 0 /\ Uncounted' = Len(bytes)
    BY <2>1 DEF Uncounted
  <2>3. /\ DOMAIN files' = DOMAIN files
        /\ Len(files'[active].data) = Len(files[active].data) + Len(bytes)
    BY <1>8, AppendLengths
  <2>4. /\ LogBegin' = LogBegin /\ LogEnd = active + Len(files[active].data)
        /\ LogEnd' = active + Len(files'[active].data)
    BY <2>1, <2>3, EndsMove DEF Serving
  <2>5. Len(files[active].data) \in Nat /\ active \in Nat
    BY <2>1, ActiveFacts DEF Serving
  <2>6. LogEnd' - LogBegin' <= LogEnd - LogBegin
          + ((appended' + Uncounted') - (appended + Uncounted))
    <3>1. LogEnd' = LogEnd + Len(bytes)
      BY <2>3, <2>4, <2>5, CountTypes
    <3>2. (appended' + Uncounted') - (appended + Uncounted) = Len(bytes)
      BY <2>1, <2>2, CountTypes
    <3>3. LogEnd' - LogBegin' <= LogEnd - LogBegin + Len(bytes)
      <4>1. LogEnd \in Nat /\ LogBegin \in Nat /\ Len(bytes) \in Nat
        BY <1>1, CountTypes, GrowthTypes
      <4>2. LogBegin' = LogBegin
        BY <2>4
      <4> QED
        BY <3>1, <4>1, <4>2
    <3> QED
      BY <3>2, <3>3
  <2> QED
    BY <1>1, <2>1, <2>6, GrowthBy DEF Serving
<1>9. CASE Rewind \/ Sync
  <2>1. /\ UNCHANGED <<faults, restarts, closing>>
        /\ appended' = appended + Uncounted
        /\ pc \in {"rewind", "sync"} /\ pc' \in {"answer", "apply"}
    BY <1>9, CountTypes DEF Rewind, Sync, Refuse, Uncounted
  <2>2. Uncounted' = 0
    BY <2>1 DEF Uncounted
  <2>3. pc \in Serving /\ active \in DOMAIN files /\ DOMAIN files' = DOMAIN files
    <3>1. pc \in Serving
      BY <2>1 DEF Serving
    <3> QED
      BY <1>9, <3>1, ActiveFacts DEF Rewind, Sync
  <2>4. Len(files'[active].data) <= Len(files[active].data)
    <3>1. Shorter
      <4>1. ~AppendBytes /\ ~AppendFails
        BY <2>1 DEF AppendBytes, AppendFails
      <4> QED
        BY <4>1, ShorterStep
    <3>2. Len(files[active].data) \in Nat /\ 0 <= Len(files[active].data)
      BY <2>3, ActiveFacts
    <3> QED
      BY <2>3, <3>1, <3>2 DEF Shorter
  <2>5. LogBegin' = LogBegin /\ LogEnd' <= LogEnd
    <3>1. /\ LogBegin' = LogBegin /\ LogEnd = active + Len(files[active].data)
          /\ LogEnd' = active + Len(files'[active].data)
      BY <2>3, EndsMove
    <3>2. /\ active \in Nat /\ Len(files[active].data) \in Nat
          /\ Len(files'[active].data) \in Nat
      BY <2>3, ActiveFacts, DiskTypesNext
    <3> QED
      BY <2>4, <3>1, <3>2
  <2>6. LogEnd' - LogBegin' <= LogEnd - LogBegin
          + ((appended' + Uncounted') - (appended + Uncounted))
    <3>1. (appended' + Uncounted') - (appended + Uncounted) = 0
      BY <2>1, <2>2, CountTypes
    <3>2. LogEnd' - LogBegin' <= LogEnd - LogBegin + 0
      BY <1>1, <2>5 DEF EndFacts
    <3> QED
      BY <3>1, <3>2
  <2> QED
    BY <1>1, <2>1, <2>3, <2>6, GrowthBy DEF Serving
<1>10. CASE FlushFails \/ RemoveFails
  BY <1>2, <1>10 DEF FlushFails, RemoveFails, Fault
<1>11. CASE NothingDue
  <2>1. /\ UNCHANGED <<files, appended, faults, restarts, closing>>
        /\ pc = "settle" /\ pc' = "receive" /\ ~(appended >= CheckpointInterval)
    BY <1>11 DEF NothingDue, CompactionDue
  <2>2. Uncounted' = Uncounted /\ appended' < CheckpointInterval
    BY <2>1, CountTypes, OptionsAssumption DEF Uncounted
  <2> QED
    BY <1>1, <2>1, <2>2, GrowthBy DEF Serving
<1>12. CASE FlushStore
  <2>1. /\ UNCHANGED <<files, appended, faults, restarts, closing>>
        /\ pc = "settle" /\ pc' = "remove"
    BY <1>12 DEF FlushStore
  <2> QED
    BY <1>1, <2>1, GrowthQuiet DEF Serving
<1>13. CASE RemoveSegment
  <2>1. UNCHANGED <<appended, faults, restarts, closing, pc>> /\ pc = "remove"
    BY <1>13 DEF RemoveSegment
  <2>2. Uncounted = 0 /\ Uncounted' = 0
    BY <2>1 DEF Uncounted
  <2>3. LogBegin <= LogBegin' /\ LogEnd' = LogEnd
    BY <1>13, RemoveEnds
  <2>4. LogEnd' - LogBegin' <= LogEnd - LogBegin
          + ((appended' + Uncounted') - (appended + Uncounted))
    BY <1>1, <2>1, <2>2, <2>3, CountTypes DEF EndFacts
  <2> QED
    BY <1>1, <2>1, <2>4, GrowthBy DEF Serving
<1>14. CASE Compacted
  <2>1. /\ UNCHANGED <<files, active, faults, restarts, closing>> /\ appended' = 0
        /\ pc = "remove" /\ pc' = "receive" /\ Removable = {}
    BY <1>14 DEF Compacted, CompactEnds
  <2>2. Uncounted' = 0 /\ CheckpointInterval \in Nat \ {0} /\ pc \in Serving /\ pc' \in Serving
    BY <2>1, OptionsAssumption DEF Uncounted, Serving
  <2>3. DOMAIN files = {active}
    BY <2>1, <2>2, OnlyActive
  <2>4. LogBegin' = active /\ LogEnd' = active + Len(files[active].data)
    <3>1. LogBegin = active /\ LogEnd = active + Len(files[active].data)
      BY <1>1, <2>3 DEF EndFacts
    <3>2. LogBegin' = LogBegin /\ LogEnd' = LogEnd
      BY <2>1 DEF LogBegin, LogEnd
    <3> QED
      BY <3>1, <3>2
  <2>5. LogEnd' < LogBegin' + (appended' + Uncounted') + (SegmentLimit + WidestBatch)
    <3>1. Len(files[active].data) < SegmentLimit + WidestBatch
      BY <2>3 DEF FilesSmall
    <3>2. active \in Nat /\ Len(files[active].data) \in Nat /\ SegmentLimit + WidestBatch \in Nat
      BY <1>1, <2>2, ActiveFacts, GrowthTypes
    <3> QED
      BY <2>1, <2>2, <2>4, <3>1, <3>2
  <2>6. appended' < CheckpointInterval
    BY <2>1, <2>2
  <2> QED
    BY <2>1, <2>2, <2>5, <2>6 DEF GrowthInv, Serving
<1>15. CASE Kill \/ PowerLoss
  BY <1>2, <1>15 DEF Kill, PowerLoss
<1>16. CASE ReadFails \/ ReplayFails \/ ReopenFails
  BY <1>2, <1>16 DEF ReadFails, ReplayFails, ReopenFails, Fault
<1>17. CASE Open \/ ScanSegment \/ ScanRefused \/ ReplayRefused \/ Replay
  <2>1. /\ files' = files /\ faults' = faults /\ restarts' = restarts
        /\ closing' = FALSE \/ closing' = closing
        /\ pc \notin Serving /\ pc' \notin Serving /\ pc' # "receive"
    BY <1>17 DEF Open, ScanSegment, ScanRefused, ReplayRefused, Replay, OpenFailed,
       Serving, Opening
  <2>2. CASE faults = 0 /\ restarts = 0
    <3>1. closing = FALSE /\ DOMAIN files = {}
      BY <2>1, <2>2 DEF GrowthInv, TypeOK
    <3>2. closing' = FALSE /\ DOMAIN files' = {}
      BY <2>1, <3>1
    <3> QED
      BY <2>1, <3>2 DEF GrowthInv
  <2>3. CASE ~(faults = 0 /\ restarts = 0)
    BY <2>1, <2>3 DEF GrowthInv
  <2> QED
    BY <2>2, <2>3
<1>18. CASE ReopenTail
  <2>1. DOMAIN files # {} /\ pc \notin Serving /\ UNCHANGED <<faults, restarts>>
    BY <1>18 DEF ReopenTail, TypeOK, Serving
  <2> QED
    BY <2>1 DEF GrowthInv
<1>19. CASE CreateFirst
  <2>1. /\ DOMAIN files' = {0} /\ Len(files'[0].data) = 0 /\ pc' = "receive"
        /\ UNCHANGED <<faults, restarts, closing>> /\ appended' = 0
    BY <1>19 DEF CreateFirst, EmptyFile, SealedInv, Opening
  <2>2. LogBegin' = 0 /\ LogEnd' = 0
    BY <1>1, <2>1 DEF EndFacts
  <2>3. Uncounted' = 0
    BY <2>1 DEF Uncounted
  <2>4. /\ SegmentLimit \in Nat \ {0} /\ WidestBatch \in Nat
        /\ CheckpointInterval \in Nat \ {0}
    BY WidestFacts, OptionsAssumption
  <2>5. /\ LogEnd' < LogBegin' + (appended' + Uncounted') + (SegmentLimit + WidestBatch)
        /\ appended' < CheckpointInterval
    BY <2>1, <2>2, <2>3, <2>4
  <2> QED
    BY <2>1, <2>5 DEF GrowthInv, Serving
<1> QED
  BY <1>3, <1>4, <1>5, <1>6, <1>7, <1>8, <1>9, <1>10, <1>11, <1>12, <1>13, <1>14, <1>15,
     <1>16, <1>17, <1>18, <1>19 DEF Next, ThreadStep, RetireStep, CompactStep, OpenStep

-----------------------------------------------------------------------------
(* The theorems.                                                           *)

LEMMA InitSizeInv ==
  ASSUME WidestWrite, Init PROVE SizeInv
<1>1. /\ WidestBatch \in Nat /\ Len(<<>>) = 0 /\ DOMAIN files = {} /\ pc = "down"
      /\ batch = <<>> /\ bytes = <<>> /\ ~closing
  BY WidestFacts DEF Init
<1> QED
  BY <1>1 DEF SizeInv, BatchSmall, Retiring, FilesSmall, SealedInv, GrowthInv, Serving, Opening

LEMMA SizeStep ==
  ASSUME WidestWrite, TypeOK, WalInv, SizeInv, [Next]_vars
  PROVE  TypeOK' /\ WalInv' /\ SizeInv'
<1>1. TypeOK' /\ WalInv'
  BY WalInvStep
<1> QED
  BY <1>1, BatchSmallStep, FilesSmallStep, SealedStep, GrowthStep DEF SizeInv

(* Batches, segments and the log keep within the sizes that the options    *)
(* give them: the writer closes a batch at MaxBatch writes, and appends to *)
(* a segment only below its limit.                                         *)
THEOREM SizesHold == ASSUME WidestWrite PROVE Spec => []SizeInv
<1>1. Init => TypeOK /\ WalInv /\ SizeInv
  BY InitWalInv, InitSizeInv
<1>2. TypeOK /\ WalInv /\ SizeInv /\ [Next]_vars => TypeOK' /\ WalInv' /\ SizeInv'
  BY SizeStep
<1> QED
  BY <1>1, <1>2, PTL DEF Spec

(* An automatic checkpoint finds a sealed segment when the interval is at  *)
(* least a segment and a batch: what was counted since the last compaction *)
(* is more than the active segment can hold.                               *)
THEOREM SealedBeforeCheckpoint ==
  ASSUME WidestWrite, SegmentLimit + WidestBatch <= CheckpointInterval
  PROVE  Spec => []CheckpointFindsSealed
<1>1. TypeOK /\ WalInv /\ SizeInv => CheckpointFindsSealed
  <2> SUFFICES ASSUME TypeOK, WalInv, SizeInv, pc = "settle",
                      appended >= CheckpointInterval, ~Sealed
               PROVE  FALSE
    BY DEF CheckpointFindsSealed, Sealed
  <2>1. pc \in Serving \ {"remove"} /\ Uncounted = 0
    BY DEF Serving, Uncounted
  <2>2. appended + Uncounted <= written
    BY <2>1 DEF SizeInv, SealedInv
  <2>3. /\ active \in DOMAIN files /\ written \in Nat /\ Len(files[active].data) \in Nat
        /\ written <= Len(files[active].data)
    BY <2>1, ActiveFacts
  <2>4. Len(files[active].data) < SegmentLimit + WidestBatch
    BY <2>3 DEF SizeInv, FilesSmall
  <2>5. SegmentLimit + WidestBatch \in Nat /\ CheckpointInterval \in Nat
    BY WidestFacts, OptionsAssumption
  <2>6. appended <= written
    BY <2>1, <2>2, CountTypes
  <2> QED
    BY <2>3, <2>4, <2>5, <2>6, CountTypes
<1> QED
  BY <1>1, TypeCorrect, InvariantHolds, SizesHold, PTL

(* The log of a process in which nothing failed is bounded: after every    *)
(* batch it is shorter than the interval, a segment and a batch together,  *)
(* because the checkpoint that resets the count leaves one segment.        *)
THEOREM LogStaysBounded == ASSUME WidestWrite PROVE Spec => []LogBounded
<1>1. TypeOK /\ WalInv /\ SizeInv => LogBounded
  <2> SUFFICES ASSUME TypeOK, WalInv, SizeInv, pc = "receive", faults = 0, restarts = 0
               PROVE  LogEnd - LogBegin < CheckpointInterval + SegmentLimit + WidestBatch - 1
    BY DEF LogBounded
  <2>1. /\ LogEnd < LogBegin + (appended + Uncounted) + (SegmentLimit + WidestBatch)
        /\ appended < CheckpointInterval
    BY DEF SizeInv, GrowthInv, Serving
  <2>2. Uncounted = 0
    BY DEF Uncounted
  <2>3. LogBegin \in Nat /\ LogEnd \in Nat
    BY EndsHold DEF EndFacts
  <2>4. /\ SegmentLimit \in Nat /\ WidestBatch \in Nat
        /\ CheckpointInterval \in Nat /\ appended \in Nat
    BY WidestFacts, OptionsAssumption, CountTypes
  <2> QED
    BY <2>1, <2>2, <2>3, <2>4
<1> QED
  BY <1>1, TypeCorrect, InvariantHolds, SizesHold, PTL
=============================================================================
