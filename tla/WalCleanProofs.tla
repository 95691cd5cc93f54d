-------------------------- MODULE WalCleanProofs ----------------------------
(***************************************************************************)
(* Proofs about the log where no flush, apply or rewind fails: whatever    *)
(* other call fails, and however often the process or the machine dies, a  *)
(* mutation is applied once, keeps the revision its caller was told, and   *)
(* never shows when its caller was told it failed.                         *)
(***************************************************************************)
EXTENDS WalProofs

(* The calls whose failure leaves the log and the store at odds; the runs  *)
(* MCWalApplyTwice and MCWalFaults show what their failures do.            *)
CleanFaults == Faults \cap {"sync", "rewind", "apply"} = {}

-----------------------------------------------------------------------------
(* The inductive invariant.                                                *)

(* The store and the segments, taken together, have x at position p.       *)
Placed(p, x) ==
  \/ p \in 1..Len(hist) /\ hist[p] = x
  \/ \E n \in DOMAIN files :
       p - n \in 1..Len(files[n].data) /\ files[n].data[p - n] = x

(* Nothing of write r is in the store or in the segments.                  *)
Fresh(r) == \A p, i \in Nat : ~Placed(p, <<r, i>>)

(* One record at a position, and a record at one position.                 *)
PlacedInv ==
  /\ \A p \in Nat : \A x, y \in Record : Placed(p, x) /\ Placed(p, y) => x = y
  /\ \A p, q \in Nat : \A x \in Record : Placed(p, x) /\ Placed(q, x) => p = q

(* A position of the log is the number of mutations applied below it.      *)
StoreClean == applied = Len(hist) /\ \A c \in commits : c.len = c.applied

(* Every segment but the last is whole and synced and ends where the next  *)
(* begins; the first begins no later than any commit.                      *)
FilesClean ==
  \A n \in DOMAIN files :
    /\ \A m \in DOMAIN files : n < m =>
         /\ files[n].data # <<>> /\ n + Len(files[n].data) <= m
         /\ n + Len(files[n].data) \in DOMAIN files
         /\ files[n].synced = Len(files[n].data) /\ ~files[n].torn
    /\ (\A m \in DOMAIN files : n <= m) => \A c \in commits : n <= c.applied

(* What the active segment is believed to hold is applied, up to the batch *)
(* in flight.                                                              *)
InFlightLength == IF pc \in {"sync", "apply"} THEN Len(bytes) ELSE 0

TailClean ==
  /\ ~poisoned
  /\ pc \in Serving =>
       /\ applied + InFlightLength = active + written
       /\ pc # "rewind" => ~files[active].torn

Batching == {"drain", "retire", "sync", "rewind", "apply", "answer"}

(* A write is in one place of the queue or of the batch, and unanswered.   *)
MessagesInv ==
  /\ \A i \in 1..Len(queue) : queue[i] \in Request =>
       /\ client[queue[i]] \in {"waiting", "cancelled"}
       /\ \A j \in 1..Len(queue) : queue[i] = queue[j] => i = j
       /\ \A j \in 1..Len(batch) : queue[i] # batch[j]
  /\ \A i \in 1..Len(batch) :
       /\ client[batch[i]] \in {"waiting", "cancelled"}
       /\ \A j \in 1..Len(batch) : batch[i] = batch[j] => i = j
  /\ pc \notin Batching => batch = <<>> /\ bytes = <<>>

(* s is the mutations of the writes b, in their order: those of b[k] are   *)
(* the Width[b[k]] that follow place off[k].                               *)
Laid(off, b, s) ==
  /\ off \in [1..Len(b) + 1 -> Nat] /\ off[1] = 0 /\ off[Len(b) + 1] = Len(s)
  /\ \A k \in 1..Len(b) :
       /\ off[k + 1] = off[k] + Width[b[k]]
       /\ \A i \in 1..Width[b[k]] : off[k] + i <= Len(s) /\ s[off[k] + i] = <<b[k], i>>
  /\ \A j \in 1..Len(s) : \E k \in 1..Len(b) : \E i \in 1..Width[b[k]] : j = off[k] + i

(* What the revisions not yet handed out stand for.                        *)
Standing == [j \in 1..Len(granted) |-> hist[granted[j]]]

LaidInv ==
  /\ pc \in Batching \ {"answer"} => \E off : Laid(off, batch, bytes)
  /\ pc = "answer" /\ verdict = "ok" =>
       /\ \A j \in 1..Len(granted) : granted[j] \in 1..Len(hist)
       /\ \E off : Laid(off, batch, Standing)

(* A write not sent, not yet logged or refused has left nothing; a failed  *)
(* append leaves its records past what the segment is believed to hold.    *)
FreshInv ==
  /\ \A r \in Request : client[r] \in {"idle", "refused"} => Fresh(r)
  /\ \A i \in 1..Len(queue) : queue[i] \in Request => Fresh(queue[i])
  /\ pc \in {"drain", "retire"} \/ (pc = "answer" /\ verdict = "error") =>
       \A k \in 1..Len(batch) : Fresh(batch[k])
  /\ pc = "rewind" =>
       \A k \in 1..Len(batch) : \A p, i \in Nat :
         Placed(p, <<batch[k], i>>) => p > active + written

(* The mutations of an acknowledged write are where their caller was told. *)
AckedInv ==
  \A r \in Request : client[r] = "acked" =>
    /\ Len(reply[r]) = Width[r]
    /\ \A i \in 1..Width[r] : Placed(reply[r][i], <<r, i>>)

(* Recovery will replay the records that follow the applied position, and  *)
(* has read up to the beginning of the segment it reads next.              *)
ScanClean ==
  pc = "scan" =>
    /\ scan \notin {{}, DOMAIN files} => seen \in scan /\ \A n \in scan : seen <= n
    /\ Len(pending) = IF seen > applied THEN seen - applied ELSE 0
    /\ \A k \in 1..Len(pending) : Placed(applied + k, pending[k])

ReopenClean ==
  pc = "reopen" =>
    \A n \in DOMAIN files :
      (\A m \in DOMAIN files : m <= n) => applied = n + Len(files[n].data)

CleanInv ==
  /\ PlacedInv
  /\ StoreClean
  /\ FilesClean
  /\ TailClean
  /\ MessagesInv
  /\ LaidInv
  /\ FreshInv
  /\ AckedInv
  /\ ScanClean
  /\ ReopenClean
-----------------------------------------------------------------------------
(* Positions.                                                              *)

(* What the types say of the store and the segments.                       *)
LEMMA DiskTypes ==
  ASSUME TypeOK
  PROVE  /\ hist \in Seq(Record) /\ Len(hist) \in Nat /\ applied \in Nat
         /\ \A n \in DOMAIN files :
              /\ n \in Nat /\ files[n] \in File
              /\ files[n].data \in Seq(Record) /\ Len(files[n].data) \in Nat
              /\ files[n].synced \in Nat /\ files[n].torn \in BOOLEAN
         /\ \A c \in commits : c.len \in Nat /\ c.applied \in Nat
<1>1. ASSUME NEW n \in DOMAIN files
      PROVE  n \in Nat /\ files[n] \in File
  BY DEF TypeOK
<1>2. \A n \in DOMAIN files : files[n].data \in Seq(Record)
        /\ files[n].synced \in Nat /\ files[n].torn \in BOOLEAN
  BY <1>1, FileParts
<1> QED
  BY SMTT(30), <1>1, <1>2 DEF TypeOK, Commit

LEMMA DiskTypesNext ==
  ASSUME TypeOK'
  PROVE  /\ hist' \in Seq(Record) /\ Len(hist') \in Nat /\ applied' \in Nat
         /\ \A n \in DOMAIN files' :
              /\ n \in Nat /\ files'[n] \in File
              /\ files'[n].data \in Seq(Record) /\ Len(files'[n].data) \in Nat
              /\ files'[n].synced \in Nat /\ files'[n].torn \in BOOLEAN
         /\ \A c \in commits' : c.len \in Nat /\ c.applied \in Nat
<1>1. ASSUME NEW n \in DOMAIN files'
      PROVE  n \in Nat /\ files'[n] \in File
  BY DEF TypeOK
<1>2. \A n \in DOMAIN files' : files'[n].data \in Seq(Record)
        /\ files'[n].synced \in Nat /\ files'[n].torn \in BOOLEAN
  BY <1>1, FileParts
<1> QED
  BY SMTT(30), <1>1, <1>2 DEF TypeOK, Commit

(* A step that adds nothing to the store or to a segment places nothing.   *)
Shrinks == \A p \in Nat : \A x : Placed(p, x)' => Placed(p, x)

LEMMA ShrinksBy ==
  ASSUME \A n \in DOMAIN files' : \A i \in 1..Len(files'[n].data) :
           /\ n \in DOMAIN files /\ i \in 1..Len(files[n].data)
           /\ files'[n].data[i] = files[n].data[i],
         \A k \in 1..Len(hist') : k \in 1..Len(hist) /\ hist'[k] = hist[k]
  PROVE  Shrinks
<1> SUFFICES ASSUME NEW p \in Nat, NEW x, Placed(p, x)' PROVE Placed(p, x)
  BY DEF Shrinks
<1>1. CASE p \in 1..Len(hist') /\ hist'[p] = x
  BY <1>1 DEF Placed
<1>2. ASSUME NEW n \in DOMAIN files',
             p - n \in 1..Len(files'[n].data), files'[n].data[p - n] = x
      PROVE  Placed(p, x)
  BY <1>2 DEF Placed
<1> QED
  BY <1>1, <1>2 DEF Placed

(* An acknowledged mutation has a position.                                *)
LEMMA AckedPlacedNext ==
  ASSUME TypeOK', WalInv', NEW r \in Request, client'[r] = "acked",
         NEW i \in 1..Width[r]
  PROVE  \E p \in Nat : Placed(p, <<r, i>>)'
<1>1. Latest' \in commits' /\ Latest'.len = Len(hist') /\ Latest'.applied = applied'
  BY DEF WalInv, StoreInv, Latest
<1>2. Recoverable(Latest, <<r, i>>)'
  BY <1>1 DEF WalInv, LiveInv, Live, Recoverable, HeldAt, ReplayedFrom
<1>3. CASE HeldAt(Latest, <<r, i>>)'
  BY <1>1, <1>3, DiskTypesNext DEF HeldAt, Placed
<1>4. CASE ReplayedFrom(Latest, <<r, i>>)'
  <2>1. PICK n \in DOMAIN files' : \E j \in 1..files'[n].synced :
               files'[n].data[j] = <<r, i>> /\ n + j > applied'
    BY <1>1, <1>4 DEF ReplayedFrom
  <2>2. PICK j \in 1..files'[n].synced : files'[n].data[j] = <<r, i>>
    BY <2>1
  <2>3. files'[n].synced <= Len(files'[n].data)
    BY DEF WalInv, FilesInv
  <2>4. n + j \in Nat /\ (n + j) - n = j /\ j \in 1..Len(files'[n].data)
    BY <2>2, <2>3, DiskTypesNext
  <2>5. Placed(n + j, <<r, i>>)'
    BY <2>2, <2>4 DEF Placed
  <2> QED
    BY <2>4, <2>5
<1> QED
  BY <1>2, <1>3, <1>4 DEF Recoverable

LEMMA RecordType ==
  ASSUME NEW r \in Request, NEW i \in 1..Width[r]
  PROVE  <<r, i>> \in Record
BY MessagesAssumption DEF Record

(* Acknowledged mutations keep their positions, wherever else records come *)
(* from, as long as they get no new ones.                                  *)
LEMMA AckedKept ==
  ASSUME TypeOK, PlacedInv, AckedInv, TypeOK', WalInv',
         \A r \in Request : client'[r] = "acked" =>
           client[r] = "acked" /\ reply'[r] = reply[r],
         \A r \in Request : client[r] = "acked" =>
           \A p, i \in Nat : Placed(p, <<r, i>>)' => Placed(p, <<r, i>>)
  PROVE  AckedInv'
<1> SUFFICES ASSUME NEW r \in Request, client'[r] = "acked"
             PROVE  /\ Len(reply'[r]) = Width[r]
                    /\ (\A i \in 1..Width[r] : Placed(reply[r][i], <<r, i>>))'
  BY DEF AckedInv
<1>1. client[r] = "acked" /\ reply'[r] = reply[r] /\ Len(reply[r]) = Width[r]
  BY DEF AckedInv
<1>2. ASSUME NEW i \in 1..Width[r] PROVE Placed(reply[r][i], <<r, i>>)'
  <2>1. PICK p \in Nat : Placed(p, <<r, i>>)'
    BY AckedPlacedNext
  <2>2. i \in Nat /\ Placed(p, <<r, i>>)
    BY <1>1, <2>1, MessagesAssumption
  <2>3. Placed(reply[r][i], <<r, i>>) /\ <<r, i>> \in Record
    BY <1>1, RecordType DEF AckedInv
  <2>4. reply[r][i] \in Nat
    <3>1. reply[r] \in Seq(Nat)
      BY DEF TypeOK
    <3>2. i \in 1..Len(reply[r])
      BY <1>1
    <3> QED
      BY <3>1, <3>2
  <2>5. reply[r][i] = p
    BY <2>2, <2>3, <2>4 DEF PlacedInv
  <2>6. reply'[r][i] = p
    BY <1>1, <2>5
  <2> QED
    BY <2>1, <2>6 DEF Placed
<1> QED
  BY <1>1, <1>2

LEMMA ShrinkKept ==
  ASSUME TypeOK, PlacedInv, AckedInv, TypeOK', WalInv', Shrinks,
         \A r \in Request : client'[r] = "acked" =>
           client[r] = "acked" /\ reply'[r] = reply[r]
  PROVE  /\ PlacedInv' /\ AckedInv'
         /\ \A r : Fresh(r) => Fresh(r)'
<1>1. PlacedInv'
  BY DEF PlacedInv, Shrinks
<1>2. \A r : Fresh(r) => Fresh(r)'
  BY DEF Fresh, Shrinks
<1>3. AckedInv'
  BY AckedKept DEF Shrinks
<1> QED
  BY <1>1, <1>2, <1>3

(* A step that leaves the store and the segments alone.                    *)
LEMMA DiskKept ==
  ASSUME UNCHANGED <<files, hist>>
  PROVE  \A p, x : Placed(p, x)' <=> Placed(p, x)
BY DEF Placed

LEMMA MemoryStep ==
  ASSUME PlacedInv, StoreClean, FilesClean, AckedInv,
         UNCHANGED <<files, hist, applied, commits>>,
         \A r \in Request : client'[r] = "acked" =>
           client[r] = "acked" /\ reply'[r] = reply[r]
  PROVE  /\ PlacedInv' /\ StoreClean' /\ FilesClean' /\ AckedInv'
         /\ \A r : Fresh(r)' <=> Fresh(r)
<1>1. \A p, x : Placed(p, x)' <=> Placed(p, x)
  BY DiskKept
<1>2. \A r : Fresh(r)' <=> Fresh(r)
  BY <1>1 DEF Fresh
<1>3. PlacedInv'
  BY <1>1 DEF PlacedInv
<1>4. AckedInv'
  BY <1>1 DEF AckedInv
<1> QED
  BY <1>2, <1>3, <1>4 DEF StoreClean, FilesClean

-----------------------------------------------------------------------------
(* Steps that leave the store, the segments and the batch as they are.     *)

(* A write keeps its place; its caller may give up on it.                  *)
QuietClean ==
  /\ UNCHANGED <<files, storeVars, reply, queue, batch, bytes>>
  /\ \A r \in Request :
       client'[r] = client[r] \/ (client[r] = "waiting" /\ client'[r] = "cancelled")
  /\ ~poisoned'
  /\ \/ pc' = pc /\ UNCHANGED <<active, written, granted, verdict, scan, seen, pending>>
     \/ /\ pc \in {"drain", "retire", "settle", "remove"}
        /\ UNCHANGED <<active, written>>
        /\ \/ pc' \in {"receive", "settle"} /\ batch = <<>> /\ bytes = <<>>
           \/ pc = "drain" /\ pc' = "retire"
           \/ pc = "retire" /\ pc' = "answer" /\ verdict' = "error"
     \/ pc' \in {"closed", "failed"} /\ pc \notin Batching
     \/ /\ pc' = "scan" /\ pc \notin Batching
        /\ scan' = DOMAIN files /\ seen' = 0 /\ pending' = <<>>

LEMMA QuietCleanStep ==
  ASSUME TypeOK, CleanInv, QuietClean
  PROVE  CleanInv'
<1>1. /\ UNCHANGED <<files, hist, applied, commits, reply, queue, batch, bytes>>
      /\ \A r \in Request :
           client'[r] = client[r] \/ (client[r] = "waiting" /\ client'[r] = "cancelled")
  BY DEF QuietClean, storeVars
<1>2. /\ PlacedInv' /\ StoreClean' /\ FilesClean' /\ AckedInv'
      /\ \A r : Fresh(r)' <=> Fresh(r)
  BY <1>1, MemoryStep DEF CleanInv
<1>3. TailClean'
  BY <1>1 DEF QuietClean, CleanInv, TailClean, InFlightLength, Serving, Batching
<1>4. MessagesInv'
  <2>1. \A i \in 1..Len(queue) : queue[i] \in Request =>
          client'[queue[i]] \in {"waiting", "cancelled"}
    BY <1>1 DEF CleanInv, MessagesInv
  <2>2. \A i \in 1..Len(batch) : client'[batch[i]] \in {"waiting", "cancelled"}
    <3>1. \A i \in 1..Len(batch) : batch[i] \in Request
      BY DEF TypeOK
    <3> QED
      BY <1>1, <3>1 DEF CleanInv, MessagesInv
  <2>3. pc' \notin Batching => batch = <<>> /\ bytes = <<>>
    BY DEF QuietClean, CleanInv, MessagesInv, Batching
  <2> QED
    BY <1>1, <2>1, <2>2, <2>3 DEF CleanInv, MessagesInv
<1>5. LaidInv'
  <2>1. CASE pc' = pc /\ granted' = granted /\ verdict' = verdict
    BY <1>1, <2>1 DEF CleanInv, LaidInv, Standing
  <2>2. CASE ~(pc' = pc /\ granted' = granted /\ verdict' = verdict)
    <3>1. /\ pc' = "answer" => verdict' = "error"
          /\ pc' \in Batching \ {"answer"} => pc \in Batching \ {"answer"}
      BY <2>2 DEF QuietClean, Batching
    <3> QED
      BY <1>1, <3>1 DEF CleanInv, LaidInv
  <2> QED
    BY <2>1, <2>2
<1>6. FreshInv'
  <2>5. \A p, x : Placed(p, x)' <=> Placed(p, x)
    BY <1>1, DiskKept
  <2>1. \A r \in Request : client'[r] \in {"idle", "refused"} => Fresh(r)'
    BY <1>1, <1>2 DEF CleanInv, FreshInv
  <2>2. \A i \in 1..Len(queue) : queue[i] \in Request => Fresh(queue[i])'
    BY <1>1, <2>5 DEF CleanInv, FreshInv, Fresh
  <2>3. ASSUME pc' \in {"drain", "retire"} \/ (pc' = "answer" /\ verdict' = "error"),
               NEW k \in 1..Len(batch)
        PROVE  Fresh(batch[k])'
    <3>1. pc \in {"drain", "retire"} \/ (pc = "answer" /\ verdict = "error")
      BY <2>3 DEF QuietClean
    <3> QED
      BY <1>1, <2>3, <2>5, <3>1 DEF CleanInv, FreshInv, Fresh
  <2>4. pc' = "rewind" =>
          pc = "rewind" /\ active' = active /\ written' = written
    BY DEF QuietClean
  <2> QED
    BY <1>1, <2>1, <2>2, <2>3, <2>4, <2>5 DEF CleanInv, FreshInv, Fresh
<1>7. ScanClean'
  <2>1. \A p, x : Placed(p, x)' <=> Placed(p, x)
    BY <1>1, DiskKept
  <2>2. CASE pc' = pc /\ UNCHANGED <<scan, seen, pending>>
    BY <1>1, <2>1, <2>2 DEF CleanInv, ScanClean
  <2>3. CASE scan' = DOMAIN files /\ seen' = 0 /\ pending' = <<>>
    BY <1>1, <2>3 DEF ScanClean, TypeOK
  <2> QED
    BY <2>2, <2>3 DEF QuietClean, ScanClean
<1>8. ReopenClean'
  BY <1>1 DEF QuietClean, CleanInv, ReopenClean
<1> QED
  BY <1>2, <1>3, <1>4, <1>5, <1>6, <1>7, <1>8 DEF CleanInv

(* A batch laid out over nothing is nothing.                               *)
LEMMA NoBatchNoBytes ==
  ASSUME TypeOK, LaidInv, pc \in Batching \ {"answer"}, batch = <<>>
  PROVE  bytes = <<>>
<1>1. PICK off : Laid(off, batch, bytes)
  BY DEF LaidInv
<1>2. off[1] = 0 /\ off[Len(batch) + 1] = Len(bytes)
  BY <1>1 DEF Laid
<1>3. Len(batch) + 1 = 1
  OBVIOUS
<1>4. Len(bytes) = 0
  BY <1>2, <1>3
<1>5. bytes \in Seq(Record)
  BY DEF TypeOK
<1> QED
  BY <1>4, <1>5

(* Steps of clients other than a write, refusals and failed compactions or *)
(* openings.                                                               *)
LEMMA QuietActions ==
  ASSUME TypeOK, CleanInv,
         \/ \E m \in Message : Cancel(m)
         \/ Shutdown \/ Drained \/ ThreadExit \/ EncodeFails \/ NameTaken
         \/ RollOverFails \/ NothingDue \/ FlushFails \/ RemoveFails \/ Compacted
         \/ Open \/ ScanRefused \/ ReadFails \/ ReplayRefused \/ Idle
  PROVE  CleanInv'
<1> SUFFICES QuietClean
  BY QuietCleanStep
<1> USE DEF QuietClean, Batching, clientVars, batchVars, tailVars, storeVars, scanVars
<1>0. /\ ~poisoned /\ client \in [Message -> Status]
      /\ pc \notin Batching => batch = <<>> /\ bytes = <<>>
      /\ Request \subseteq Message /\ requested \notin Request
  BY MessagesAssumption DEF CleanInv, TailClean, MessagesInv, TypeOK, Message
<1>1. ASSUME NEW m \in Message, Cancel(m) PROVE QuietClean
  BY <1>0, <1>1 DEF Cancel
<1>2. ASSUME Shutdown PROVE QuietClean
  BY <1>0, <1>2 DEF Shutdown
<1>3. ASSUME Drained PROVE QuietClean
  <2>1. batch = <<>> => bytes = <<>>
    BY <1>3, NoBatchNoBytes DEF Drained, CleanInv
  <2> QED
    BY <1>0, <1>3, <2>1 DEF Drained
<1>4. ASSUME ThreadExit PROVE QuietClean
  BY <1>0, <1>4 DEF ThreadExit
<1>5. ASSUME EncodeFails PROVE QuietClean
  BY <1>0, <1>5 DEF EncodeFails, Refuse
<1>6. ASSUME NameTaken PROVE QuietClean
  BY <1>0, <1>6 DEF NameTaken, Refuse
<1>7. ASSUME RollOverFails PROVE QuietClean
  BY <1>0, <1>7 DEF RollOverFails, Refuse
<1>8. ASSUME NothingDue PROVE QuietClean
  BY <1>0, <1>8 DEF NothingDue
<1>9. ASSUME FlushFails PROVE QuietClean
  BY <1>0, <1>9 DEF FlushFails, CompactEnds, Told
<1>10. ASSUME RemoveFails PROVE QuietClean
  BY <1>0, <1>10 DEF RemoveFails, CompactEnds, Told
<1>11. ASSUME Compacted PROVE QuietClean
  BY <1>0, <1>11 DEF Compacted, CompactEnds, Told
<1>12. ASSUME Open PROVE QuietClean
  BY <1>0, <1>12 DEF Open
<1>13. ASSUME ScanRefused PROVE QuietClean
  BY <1>0, <1>13 DEF ScanRefused, OpenFailed
<1>14. ASSUME ReadFails PROVE QuietClean
  BY <1>0, <1>14 DEF ReadFails, OpenFailed
<1>15. ASSUME ReplayRefused PROVE QuietClean
  BY <1>0, <1>15 DEF ReplayRefused, OpenFailed
<1>16. ASSUME Idle PROVE QuietClean
  BY <1>0, <1>16 DEF Idle, vars
<1> QED
  BY <1>1, <1>2, <1>3, <1>4, <1>5, <1>6, <1>7, <1>8, <1>9, <1>10, <1>11, <1>12, <1>13, <1>14, <1>15, <1>16

-----------------------------------------------------------------------------
(* Sending, taking and answering writes.                                   *)

(* Appending to a sequence.                                                *)
LEMMA AppendParts ==
  ASSUME NEW S, NEW s \in Seq(S), NEW m \in S
  PROVE  /\ Append(s, m) \in Seq(S)
         /\ Len(Append(s, m)) = Len(s) + 1 /\ Len(s) \in Nat
         /\ Append(s, m)[Len(s) + 1] = m
         /\ \A i \in 1..Len(s) : Append(s, m)[i] = s[i]
OBVIOUS

(* The head and the rest of a sequence.                                    *)
LEMMA TailParts ==
  ASSUME NEW S, NEW s \in Seq(S), s # <<>>
  PROVE  /\ Head(s) = s[1] /\ 1 \in 1..Len(s) /\ s[1] \in S
         /\ Tail(s) \in Seq(S) /\ Len(s) \in Nat \ {0} /\ Len(Tail(s)) = Len(s) - 1
         /\ \A i \in 1..Len(Tail(s)) : Tail(s)[i] = s[i + 1] /\ i + 1 \in 1..Len(s)
OBVIOUS

LEMMA SendClean ==
  ASSUME TypeOK, CleanInv, NEW m \in Message, client[m] = "idle",
         queue' = Append(queue, m),
         client' = [client EXCEPT ![m] = "waiting"],
         UNCHANGED <<reply, pc, batchVars, tailVars, files, storeVars, scanVars>>
  PROVE  CleanInv'
<1> USE DEF batchVars, tailVars, storeVars, scanVars
<1>1. /\ client' \in [Message -> Status] /\ client'[m] = "waiting"
      /\ \A r \in Message : r # m => client'[r] = client[r]
      /\ Request \subseteq Message /\ queue \in Seq(Message) /\ batch \in Seq(Request)
  BY DEF TypeOK, Status, Message
<1>2. /\ Len(queue') = Len(queue) + 1 /\ Len(queue) \in Nat
      /\ queue'[Len(queue) + 1] = m
      /\ \A i \in 1..Len(queue) : queue'[i] = queue[i]
  BY <1>1, AppendParts
<1>3. \A r \in Request : client'[r] = "acked" =>
        client[r] = "acked" /\ reply'[r] = reply[r]
  BY <1>1
<1>4. /\ PlacedInv' /\ StoreClean' /\ FilesClean' /\ AckedInv'
      /\ \A r : Fresh(r)' <=> Fresh(r)
  BY <1>3, MemoryStep DEF CleanInv
<1>5. TailClean' /\ ReopenClean'
  BY DEF CleanInv, TailClean, InFlightLength, ReopenClean
<1>6. \A i \in 1..Len(queue) : queue[i] \in Request => queue[i] # m
  BY DEF CleanInv, MessagesInv
<1>7. \A i \in 1..Len(batch) : batch[i] # m /\ batch[i] \in Message
  BY <1>1 DEF CleanInv, MessagesInv
<1>8. MessagesInv'
  <2>1. ASSUME NEW i \in 1..Len(queue'), queue'[i] \in Request
        PROVE  /\ client'[queue'[i]] \in {"waiting", "cancelled"}
               /\ \A j \in 1..Len(queue') : queue'[i] = queue'[j] => i = j
               /\ \A j \in 1..Len(batch) : queue'[i] # batch[j]
    <3>1. CASE i = Len(queue) + 1
      <4>1. queue'[i] = m
        BY <1>2, <3>1
      <4>2. \A j \in 1..Len(queue') : j # i => j \in 1..Len(queue)
        BY <1>2, <3>1
      <4> QED
        BY <1>1, <1>2, <1>6, <1>7, <2>1, <4>1, <4>2
    <3>2. CASE i \in 1..Len(queue)
      <4>1. queue'[i] = queue[i] /\ queue[i] # m
        BY <1>2, <1>6, <2>1, <3>2
      <4>2. \A j \in 1..Len(queue') : j = Len(queue) + 1 \/ j \in 1..Len(queue)
        BY <1>2
      <4>3. \A j \in 1..Len(queue') : queue'[i] = queue'[j] => i = j
        BY <1>2, <2>1, <3>2, <4>1, <4>2 DEF CleanInv, MessagesInv
      <4> QED
        BY <1>1, <2>1, <3>2, <4>1, <4>3 DEF CleanInv, MessagesInv
    <3> QED
      BY <1>2, <3>1, <3>2
  <2>2. \A i \in 1..Len(batch) : client'[batch[i]] \in {"waiting", "cancelled"}
    BY <1>1, <1>7 DEF CleanInv, MessagesInv
  <2> QED
    BY <2>1, <2>2 DEF CleanInv, MessagesInv
<1>9. LaidInv'
  BY DEF CleanInv, LaidInv, Standing
<1>10. \A p, x : Placed(p, x)' <=> Placed(p, x)
  BY DiskKept
<1>11. FreshInv'
  <2>1. \A r \in Request : client'[r] \in {"idle", "refused"} => Fresh(r)'
    BY <1>1, <1>4 DEF CleanInv, FreshInv
  <2>2. ASSUME NEW i \in 1..Len(queue'), queue'[i] \in Request
        PROVE  Fresh(queue[i])'
    <3>1. PICK r \in Request : r = queue'[i]
      BY <2>2
    <3>2. CASE i = Len(queue) + 1
      <4>1. Fresh(r)
        BY <1>2, <3>1, <3>2 DEF CleanInv, FreshInv
      <4> QED
        BY <1>10, <3>1, <4>1 DEF Fresh
    <3>3. CASE i \in 1..Len(queue)
      <4>1. Fresh(r)
        BY <1>2, <3>1, <3>3 DEF CleanInv, FreshInv
      <4> QED
        BY <1>10, <3>1, <4>1 DEF Fresh
    <3> QED
      BY <1>2, <3>2, <3>3
  <2> QED
    BY <1>10, <2>1, <2>2 DEF CleanInv, FreshInv, Fresh
<1>12. ScanClean'
  BY <1>10 DEF CleanInv, ScanClean
<1> QED
  BY <1>4, <1>5, <1>8, <1>9, <1>11, <1>12 DEF CleanInv

(* A request at the end of the batch is laid out at the end of the bytes.  *)
LEMMA LaidTake ==
  ASSUME NEW b \in Seq(Request), NEW s \in Seq(Record), NEW off, Laid(off, b, s),
         NEW r \in Request
  PROVE  \E new : Laid(new, Append(b, r), s \o RecordsOf(r))
<1> DEFINE n == Len(b)
           c == Append(b, r)
           t == s \o RecordsOf(r)
           new == [k \in 1..n + 2 |-> IF k = n + 2 THEN Len(s) + Width[r] ELSE off[k]]
<1>1. /\ n \in Nat /\ Len(s) \in Nat /\ Width[r] \in Nat \ {0}
      /\ Len(c) = n + 1 /\ c[n + 1] = r /\ \A k \in 1..n : c[k] = b[k]
  BY AppendParts, MessagesAssumption
<1>2. /\ RecordsOf(r) \in Seq(Record) /\ Len(RecordsOf(r)) = Width[r]
      /\ \A i \in 1..Width[r] : RecordsOf(r)[i] = <<r, i>>
  <2>1. Width[r] \in Nat
    BY <1>1
  <2> QED
    BY <2>1, RecordsOfType DEF RecordsOf
<1>3. /\ Len(t) = Len(s) + Width[r]
      /\ \A j \in 1..Len(s) : t[j] = s[j]
      /\ \A i \in 1..Width[r] : t[Len(s) + i] = <<r, i>>
  <2>1. /\ Len(t) = Len(s) + Len(RecordsOf(r))
        /\ \A j \in 1..Len(s) : t[j] = s[j]
        /\ \A i \in 1..Len(RecordsOf(r)) : t[Len(s) + i] = RecordsOf(r)[i]
    BY <1>2, ConcatParts
  <2> QED
    BY <1>2, <2>1
<1>4. /\ off \in [1..n + 1 -> Nat] /\ off[1] = 0 /\ off[n + 1] = Len(s)
      /\ \A k \in 1..n :
           /\ off[k + 1] = off[k] + Width[b[k]]
           /\ \A i \in 1..Width[b[k]] : off[k] + i <= Len(s) /\ s[off[k] + i] = <<b[k], i>>
      /\ \A j \in 1..Len(s) : \E k \in 1..n : \E i \in 1..Width[b[k]] : j = off[k] + i
  BY DEF Laid
<1>5. /\ new \in [1..n + 2 -> Nat] /\ new[n + 2] = Len(s) + Width[r]
      /\ \A k \in 1..n + 1 : new[k] = off[k]
  BY <1>1, <1>4
<1>6. new \in [1..Len(c) + 1 -> Nat] /\ new[1] = 0 /\ new[Len(c) + 1] = Len(t)
  BY <1>1, <1>3, <1>4, <1>5
<1> HIDE DEF n, c, t, new
<1>7. ASSUME NEW k \in 1..Len(c)
      PROVE  /\ new[k + 1] = new[k] + Width[c[k]]
             /\ \A i \in 1..Width[c[k]] : new[k] + i <= Len(t) /\ t[new[k] + i] = <<c[k], i>>
  <2>1. CASE k = n + 1
    <3>1. new[k + 1] = Len(s) + Width[r] /\ new[k] = Len(s) /\ c[k] = r
      BY <1>1, <1>4, <1>5, <2>1
    <3>2. \A i \in 1..Width[r] : Len(s) + i <= Len(t)
      BY <1>1, <1>3
    <3> QED
      BY <1>3, <3>1, <3>2
  <2>2. CASE k \in 1..n
    <3>1. /\ new[k + 1] = off[k + 1] /\ new[k] = off[k] /\ c[k] = b[k]
          /\ off[k] \in Nat
      BY SMTT(30), <1>1, <1>4, <1>5, <2>2
    <3>2. ASSUME NEW i \in 1..Width[b[k]]
          PROVE  off[k] + i <= Len(t) /\ t[off[k] + i] = <<b[k], i>>
      <4>1. off[k] + i <= Len(s) /\ s[off[k] + i] = <<b[k], i>>
        BY <1>4, <2>2
      <4>2. off[k] + i \in 1..Len(s)
        BY <1>1, <3>1, <4>1
      <4> QED
        BY SMTT(30), <1>1, <1>3, <4>1, <4>2
    <3> QED
      BY <1>4, <2>2, <3>1, <3>2
  <2> QED
    BY <1>1, <2>1, <2>2
<1>8. ASSUME NEW j \in 1..Len(t)
      PROVE  \E k \in 1..Len(c) : \E i \in 1..Width[c[k]] : j = new[k] + i
  <2>1. CASE j \in 1..Len(s)
    <3>1. PICK k \in 1..n : \E i \in 1..Width[b[k]] : j = off[k] + i
      BY <1>4, <2>1
    <3>2. k \in 1..Len(c) /\ c[k] = b[k] /\ new[k] = off[k]
      BY <1>1, <1>5
    <3> QED
      BY <3>1, <3>2
  <2>2. CASE j \notin 1..Len(s)
    <3>1. j - Len(s) \in 1..Width[r] /\ j = Len(s) + (j - Len(s))
      BY <1>1, <1>3, <2>2
    <3>2. n + 1 \in 1..Len(c) /\ c[n + 1] = r /\ new[n + 1] = Len(s)
      BY <1>1, <1>4, <1>5
    <3> QED
      BY <3>1, <3>2
  <2> QED
    BY <2>1, <2>2
<1>9. Laid(new, c, t)
  BY <1>6, <1>7, <1>8 DEF Laid
<1> QED
  BY <1>9 DEF c, t

(* The head of the queue joins the batch, or becomes a checkpoint.         *)
LEMMA TakeClean ==
  ASSUME TypeOK, CleanInv, Receive \/ Drain
  PROVE  CleanInv'
<1> USE DEF clientVars, tailVars, storeVars, scanVars
<1> DEFINE m == Head(queue)
<1>1. /\ pc \in {"receive", "drain"} /\ pc' = "drain"
      /\ queue # <<>> /\ queue' = Tail(queue)
      /\ UNCHANGED <<client, reply, verdict, granted, active, written, poisoned,
                     files, hist, applied, commits, scan, seen, pending>>
      /\ m \in Request => batch' = Append(batch, m) /\ bytes' = bytes \o RecordsOf(m)
      /\ m \notin Request => batch' = batch /\ bytes' = bytes
  BY DEF Receive, Drain, Take
<1>2. queue \in Seq(Message) /\ batch \in Seq(Request) /\ bytes \in Seq(Record)
  BY DEF TypeOK
<1>3. /\ m = queue[1] /\ 1 \in 1..Len(queue)
      /\ Len(queue') = Len(queue) - 1 /\ Len(queue) \in Nat \ {0}
      /\ \A i \in 1..Len(queue') : queue'[i] = queue[i + 1] /\ i + 1 \in 1..Len(queue)
  BY <1>1, <1>2, TailParts
<1>4. m \in Request =>
        /\ Len(batch') = Len(batch) + 1 /\ Len(batch) \in Nat
        /\ batch'[Len(batch) + 1] = m
        /\ \A i \in 1..Len(batch) : batch'[i] = batch[i]
  <2> HIDE DEF m
  <2> SUFFICES ASSUME m \in Request
               PROVE  /\ Len(batch') = Len(batch) + 1 /\ Len(batch) \in Nat
                      /\ batch'[Len(batch) + 1] = m
                      /\ \A i \in 1..Len(batch) : batch'[i] = batch[i]
    OBVIOUS
  <2>1. batch' = Append(batch, m)
    BY <1>1
  <2> QED
    BY <1>2, <2>1, AppendParts
<1> HIDE DEF m
<1>5. /\ PlacedInv' /\ StoreClean' /\ FilesClean' /\ AckedInv'
      /\ \A r : Fresh(r)' <=> Fresh(r)
  BY <1>1, MemoryStep DEF CleanInv
<1>6. TailClean'
  BY <1>1 DEF CleanInv, TailClean, InFlightLength, Serving
<1>7. ScanClean' /\ ReopenClean'
  BY <1>1 DEF ScanClean, ReopenClean
<1>8. \A i \in 1..Len(queue') : queue'[i] \in Request =>
        /\ client[queue'[i]] \in {"waiting", "cancelled"}
        /\ \A j \in 1..Len(queue') : queue'[i] = queue'[j] => i = j
        /\ \A j \in 1..Len(batch) : queue'[i] # batch[j]
        /\ queue'[i] # m
  <2> SUFFICES ASSUME NEW i \in 1..Len(queue'), queue'[i] \in Request
               PROVE  /\ client[queue'[i]] \in {"waiting", "cancelled"}
                      /\ \A j \in 1..Len(queue') : queue'[i] = queue'[j] => i = j
                      /\ \A j \in 1..Len(batch) : queue'[i] # batch[j]
                      /\ queue'[i] # m
    OBVIOUS
  <2>1. i + 1 \in 1..Len(queue) /\ queue'[i] = queue[i + 1] /\ i \in Nat
    BY <1>3
  <2>2. /\ client[queue[i + 1]] \in {"waiting", "cancelled"}
        /\ \A j \in 1..Len(queue) : queue[i + 1] = queue[j] => i + 1 = j
        /\ \A j \in 1..Len(batch) : queue[i + 1] # batch[j]
    BY <2>1 DEF CleanInv, MessagesInv
  <2>3. \A j \in 1..Len(queue') : queue'[i] = queue'[j] => i = j
    <3> SUFFICES ASSUME NEW j \in 1..Len(queue'), queue'[i] = queue'[j] PROVE i = j
      OBVIOUS
    <3>1. j + 1 \in 1..Len(queue) /\ queue'[j] = queue[j + 1]
      BY <1>3
    <3>2. i + 1 = j + 1
      BY <2>1, <2>2, <3>1
    <3> QED
      BY <2>1, <3>2
  <2>4. queue'[i] # m
    BY <1>3, <2>1, <2>2
  <2> QED
    BY <2>1, <2>2, <2>3, <2>4
<1>9. MessagesInv'
  <2>1. CASE m \notin Request
    BY <1>1, <1>8, <2>1 DEF CleanInv, MessagesInv, Batching
  <2>2. CASE m \in Request
    <3>1. client[m] \in {"waiting", "cancelled"} /\ \A j \in 1..Len(batch) : m # batch[j]
      BY <1>3, <2>2 DEF CleanInv, MessagesInv
    <3>2. \A i \in 1..Len(batch') :
            \/ i \in 1..Len(batch) /\ batch'[i] = batch[i]
            \/ i = Len(batch) + 1 /\ batch'[i] = m
      BY <1>4, <2>2
    <3>3. \A i \in 1..Len(batch') :
            /\ client[batch'[i]] \in {"waiting", "cancelled"}
            /\ \A j \in 1..Len(batch') : batch'[i] = batch'[j] => i = j
      BY <3>1, <3>2 DEF CleanInv, MessagesInv
    <3>4. \A i \in 1..Len(queue') : queue'[i] \in Request =>
            \A j \in 1..Len(batch') : queue'[i] # batch'[j]
      BY <1>8, <3>2
    <3> QED
      BY <1>1, <1>8, <3>3, <3>4 DEF MessagesInv, Batching
  <2> QED
    BY <2>1, <2>2
<1>10. LaidInv'
  <2>1. \E off : Laid(off, batch, bytes)
    <3>1. CASE pc = "drain"
      BY <3>1 DEF CleanInv, LaidInv, Batching
    <3>2. CASE pc = "receive"
      <4>1. batch = <<>> /\ bytes = <<>>
        BY <3>2 DEF CleanInv, MessagesInv, Batching
      <4>2. Laid([k \in 1..1 |-> 0], batch, bytes)
        BY <4>1 DEF Laid
      <4> QED
        BY <4>2
    <3> QED
      BY <1>1, <3>1, <3>2
  <2>2. \E off : Laid(off, batch', bytes')
    BY <1>1, <1>2, <2>1, LaidTake
  <2> QED
    BY <1>1, <2>2 DEF LaidInv, Laid
<1>11. FreshInv'
  <2>0. \A p, x : Placed(p, x)' <=> Placed(p, x)
    BY <1>1, DiskKept
  <2>1. \A r \in Request : client'[r] \in {"idle", "refused"} => Fresh(r)'
    BY <1>1, <1>5 DEF CleanInv, FreshInv
  <2>2. \A i \in 1..Len(queue) : queue[i] \in Request => Fresh(queue[i])
    BY DEF CleanInv, FreshInv
  <2>3. \A i \in 1..Len(queue') : queue'[i] \in Request => Fresh(queue[i])'
    BY <1>3, <2>0, <2>2 DEF Fresh
  <2>4. \A k \in 1..Len(batch) : Fresh(batch[k])
    BY <1>1 DEF CleanInv, FreshInv, MessagesInv, Batching
  <2>5. \A k \in 1..Len(batch') : Fresh(batch[k])'
    <3>1. CASE m \notin Request
      BY <1>1, <2>0, <2>4, <3>1 DEF Fresh
    <3>2. CASE m \in Request
      <4>1. Fresh(m)
        BY <1>3, <2>2, <3>2
      <4>2. \A i \in 1..Len(batch') :
              (i \in 1..Len(batch) /\ batch'[i] = batch[i]) \/ batch'[i] = m
        BY <1>4, <3>2
      <4> QED
        BY <2>0, <2>4, <4>1, <4>2 DEF Fresh
    <3> QED
      BY <3>1, <3>2
  <2> QED
    BY <1>1, <2>1, <2>3, <2>5 DEF FreshInv
<1> QED
  BY <1>5, <1>6, <1>7, <1>9, <1>10, <1>11 DEF CleanInv

LEMMA Shifted ==
  ASSUME NEW a \in Nat, NEW c \in Nat, NEW w \in Nat, NEW i \in Nat,
         a + w = (c + w) + i \/ w + a = (c + w) + i
  PROVE  a = c + i
OBVIOUS

LEMMA ShiftedSum ==
  ASSUME NEW a \in Nat, NEW w \in Nat, NEW o, a + w = o, NEW i \in Nat, i >= 1
  PROVE  a + i \in Nat /\ a + i >= 1 /\ w + (a + i) = o + i
OBVIOUS

(* The rest of a batch is laid out over what the head leaves.              *)
LEMMA LaidRest ==
  ASSUME NEW b \in Seq(Request), b # <<>>, NEW s, NEW S, s \in Seq(S),
         NEW off, Laid(off, b, s),
         \A i, j \in 1..Len(b) : b[i] = b[j] => i = j
  PROVE  /\ Width[b[1]] <= Len(s)
         /\ \A i \in 1..Width[b[1]] : i \in 1..Len(s) /\ s[i] = <<b[1], i>>
         /\ \E new : Laid(new, Tail(b), SubSeq(s, Width[b[1]] + 1, Len(s)))
<1> DEFINE n == Len(b)
           w == Width[b[1]]
           c == Tail(b)
           t == SubSeq(s, w + 1, Len(s))
           new == [k \in 1..n |-> off[k + 1] - w]
<1>1. /\ n \in Nat \ {0} /\ b[1] \in Request /\ \A k \in 1..n : b[k] \in Request
      /\ Len(c) = n - 1 /\ \A k \in 1..Len(c) : c[k] = b[k + 1] /\ k + 1 \in 1..n
  BY TailParts
<1>2. w \in Nat \ {0} /\ \A k \in 1..n : Width[b[k]] \in Nat \ {0}
  BY <1>1, MessagesAssumption
<1>3. Len(s) \in Nat
  OBVIOUS
<1>4. /\ off \in [1..n + 1 -> Nat] /\ off[1] = 0 /\ off[n + 1] = Len(s)
      /\ \A k \in 1..n :
           /\ off[k + 1] = off[k] + Width[b[k]]
           /\ \A i \in 1..Width[b[k]] : off[k] + i <= Len(s) /\ s[off[k] + i] = <<b[k], i>>
      /\ \A j \in 1..Len(s) : \E k \in 1..n : \E i \in 1..Width[b[k]] : j = off[k] + i
  BY DEF Laid
<1>5. \A i \in 1..w : i \in 1..Len(s) /\ s[i] = <<b[1], i>>
  BY <1>1, <1>2, <1>3, <1>4
<1>6. w <= Len(s)
  BY <1>2, <1>3, <1>5
<1>7. t \in Seq(S) /\ Len(t) = Len(s) - w /\ \A j \in 1..Len(t) : t[j] = s[w + j]
  <2>1. CASE w < Len(s)
    BY SMTT(30), <1>2, <2>1, SuffixParts
  <2>2. CASE w = Len(s)
    BY <1>2, <1>3, <2>2
  <2> QED
    BY <1>2, <1>3, <1>6, <2>1, <2>2
<1>8. new = [k \in 1..n |-> off[k + 1] - w]
  OBVIOUS
<1> HIDE DEF n, w, c, t, new
<1>9. ASSUME NEW k \in 2..n PROVE off[k] >= w
  <2>1. k \in 1..n /\ k # 1 /\ 1 \in 1..n /\ off[k] \in Nat
    BY <1>1, <1>4
  <2>2. 1 \in 1..Width[b[k]] /\ off[k] + 1 <= Len(s) /\ s[off[k] + 1] = <<b[k], 1>>
    BY <1>2, <1>4, <2>1
  <2>3. ASSUME off[k] < w PROVE FALSE
    <3>1. s[off[k] + 1] = <<b[1], off[k] + 1>>
      BY <1>2, <1>5, <2>1, <2>3
    <3>2. b[k] = b[1]
      BY <2>2, <3>1
    <3> QED
      BY <2>1, <3>2 DEF n
  <2> QED
    BY <1>2, <2>1, <2>3
<1>10. off[n + 1] >= w
  BY <1>4, <1>6
<1>11. ASSUME NEW k \in 1..n PROVE new[k] \in Nat /\ new[k] + w = off[k + 1]
  <2>1. k + 1 \in 2..n \/ k = n
    BY <1>1
  <2>2. off[k + 1] >= w /\ off[k + 1] \in Nat
    BY <1>1, <1>4, <1>9, <1>10, <2>1
  <2>3. new[k] = off[k + 1] - w /\ w \in Nat
    BY <1>2, <1>8
  <2> QED
    BY <2>2, <2>3
<1>12. new \in [1..Len(c) + 1 -> Nat] /\ new[1] = 0 /\ new[Len(c) + 1] = Len(t)
  <2>1. Len(c) + 1 = n /\ 1 \in 1..n /\ n \in 1..n
    BY <1>1
  <2>2. off[2] = w /\ 1 + 1 = 2
    BY <1>2, <1>4, <2>1 DEF w
  <2>3. new[1] = 0
    BY <1>2, <1>11, <2>1, <2>2
  <2>4. new[n] + w = Len(s)
    BY <1>4, <1>11, <2>1
  <2>5. new[n] = Len(t)
    BY <1>2, <1>3, <1>7, <1>11, <2>1, <2>4
  <2> QED
    BY <1>8, <1>11, <2>1, <2>3, <2>5
<1>13. ASSUME NEW k \in 1..Len(c)
       PROVE  /\ new[k + 1] = new[k] + Width[c[k]]
              /\ \A i \in 1..Width[c[k]] : new[k] + i <= Len(t) /\ t[new[k] + i] = <<c[k], i>>
  <2>1. /\ k \in 1..n /\ k + 1 \in 1..n /\ c[k] = b[k + 1]
        /\ new[k] \in Nat /\ new[k] + w = off[k + 1]
        /\ new[k + 1] \in Nat /\ new[k + 1] + w = off[k + 2]
        /\ off[k + 2] = off[k + 1] + Width[b[k + 1]] /\ Width[b[k + 1]] \in Nat
    <3>1. k \in 1..n /\ k + 1 \in 1..n /\ c[k] = b[k + 1] /\ (k + 1) + 1 = k + 2
      BY <1>1
    <3> QED
      BY <1>2, <1>4, <1>11, <3>1
  <2>0. w \in Nat /\ Len(s) \in Nat /\ Len(t) = Len(s) - w
    BY <1>2, <1>3, <1>7
  <2>2. new[k + 1] = new[k] + Width[c[k]]
    <3>1. new[k + 1] + w = (new[k] + w) + Width[b[k + 1]]
      BY <2>1
    <3>2. new[k + 1] = new[k] + Width[b[k + 1]]
      <4> DEFINE x == new[k + 1]
                 y == new[k]
                 z == Width[b[k + 1]]
      <4>1. x \in Nat /\ y \in Nat /\ z \in Nat /\ w \in Nat /\ x + w = (y + w) + z
        BY <2>0, <2>1, <3>1
      <4> HIDE DEF x, y, z
      <4>2. x = y + z
        BY <4>1, Shifted
      <4> QED
        BY <4>2 DEF x, y, z
    <3> QED
      BY <2>1, <3>2
  <2>3. ASSUME NEW i \in 1..Width[b[k + 1]]
        PROVE  new[k] + i <= Len(t) /\ t[new[k] + i] = <<b[k + 1], i>>
    <3>1. off[k + 1] + i <= Len(s) /\ s[off[k + 1] + i] = <<b[k + 1], i>>
      BY <1>4, <2>1
    <3>2. new[k] + i \in 1..Len(t) /\ w + (new[k] + i) = off[k + 1] + i
      <4>1. i \in Nat /\ i >= 1 /\ new[k] \in Nat /\ new[k] + w = off[k + 1]
        BY <2>1
      <4>2. new[k] + i \in Nat /\ new[k] + i >= 1 /\ w + (new[k] + i) = off[k + 1] + i
        BY SMTT(30), <2>0, <4>1, ShiftedSum
      <4> QED
        BY <2>0, <3>1, <4>2
    <3> QED
      BY <1>7, <3>1, <3>2
  <2> QED
    BY <2>1, <2>2, <2>3
<1>14. ASSUME NEW j \in 1..Len(t)
       PROVE  \E k \in 1..Len(c) : \E i \in 1..Width[c[k]] : j = new[k] + i
  <2>1. w + j \in 1..Len(s) /\ j >= 1
    BY <1>2, <1>3, <1>7
  <2>2. PICK k \in 1..n : \E i \in 1..Width[b[k]] : w + j = off[k] + i
    BY <1>4, <2>1
  <2>3. PICK i \in 1..Width[b[k]] : w + j = off[k] + i
    BY <2>2
  <2>4. k # 1
    <3>1. ASSUME k = 1 PROVE FALSE
      <4>1. w + j = i /\ i <= w
        BY <1>2, <1>4, <2>1, <2>3, <3>1 DEF w
      <4> QED
        BY <1>2, <2>1, <4>1
    <3> QED
      BY <3>1
  <2>5. /\ k - 1 \in 1..Len(c) /\ k - 1 \in 1..n /\ (k - 1) + 1 = k
        /\ c[k - 1] = b[k]
    BY <1>1, <2>4
  <2>6. new[k - 1] \in Nat /\ new[k - 1] + w = off[k]
    BY <1>11, <2>5
  <2>7. i \in Nat /\ j = new[k - 1] + i
    <3> DEFINE x == new[k - 1]
    <3>1. i \in Nat /\ w \in Nat /\ j \in Nat
      BY <1>2
    <3>2. x \in Nat /\ w + j = (x + w) + i
      BY <2>3, <2>6
    <3> HIDE DEF x
    <3>3. j = x + i
      BY <3>1, <3>2, Shifted
    <3> QED
      BY <3>1, <3>3 DEF x
  <2> QED
    BY <2>5, <2>7
<1>15. Laid(new, c, t)
  BY <1>12, <1>13, <1>14 DEF Laid
<1> QED
  BY <1>5, <1>6, <1>15 DEF c, t, w

(* A layout depends on the places of a sequence only.                      *)
LEMMA LaidSame ==
  ASSUME NEW b \in Seq(Request), NEW s, NEW t, NEW off, Laid(off, b, s),
         Len(s) \in Nat, Len(t) = Len(s), \A j \in 1..Len(s) : t[j] = s[j]
  PROVE  Laid(off, b, t)
<1>1. ASSUME NEW k \in 1..Len(b), NEW i \in 1..Width[b[k]]
      PROVE  off[k] + i <= Len(t) /\ t[off[k] + i] = <<b[k], i>>
  <2>1. off[k] + i <= Len(s) /\ s[off[k] + i] = <<b[k], i>>
    BY DEF Laid
  <2>2. off[k] \in Nat /\ i \in Nat /\ i >= 1
    <3>1. off \in [1..Len(b) + 1 -> Nat] /\ k \in 1..Len(b) + 1
      BY DEF Laid
    <3>2. b[k] \in Request
      OBVIOUS
    <3> QED
      BY <3>1, <3>2, MessagesAssumption
  <2>3. off[k] + i \in 1..Len(s)
    BY <2>1, <2>2
  <2> QED
    BY <2>1, <2>3
<1> QED
  BY <1>1 DEF Laid

(* What is left of a sequence whose first k places are given away.         *)
LEMMA RestParts ==
  ASSUME NEW S, NEW s \in Seq(S), NEW k \in Nat, k <= Len(s)
  PROVE  /\ Len(SubSeq(s, k + 1, Len(s))) = Len(s) - k
         /\ \A j \in 1..Len(s) - k :
              SubSeq(s, k + 1, Len(s))[j] = s[k + j] /\ k + j \in 1..Len(s)
<1>1. Len(s) \in Nat
  OBVIOUS
<1>2. CASE k < Len(s)
  BY <1>1, <1>2, SuffixParts
<1>3. CASE k = Len(s)
  BY <1>1, <1>3
<1> QED
  BY <1>1, <1>2, <1>3

(* The head of the batch is told its verdict, and leaves.                  *)
AnswersHead ==
  /\ pc = "answer" /\ pc' = pc /\ batch # <<>> /\ batch' = Tail(batch)
  /\ UNCHANGED <<queue, bytes, verdict, active, written, poisoned, files, hist,
                 applied, commits, scan, seen, pending>>
  /\ client \in [Message -> Status] /\ client' \in [Message -> Status]
  /\ \A m \in Message : m # Head(batch) => client'[m] = client[m]

LEMMA AnswersHeadParts ==
  ASSUME TypeOK, CleanInv, AnswersHead
  PROVE  /\ TailClean' /\ MessagesInv' /\ ScanClean' /\ ReopenClean'
         /\ StoreClean' /\ FilesClean' /\ PlacedInv'
         /\ batch[1] = Head(batch) /\ batch[1] \in Request /\ 1 \in 1..Len(batch)
         /\ client[batch[1]] \in {"waiting", "cancelled"}
         /\ Len(batch') = Len(batch) - 1 /\ Len(batch) \in Nat \ {0}
         /\ \A i \in 1..Len(batch') : batch'[i] = batch[i + 1] /\ i + 1 \in 1..Len(batch)
<1> USE DEF AnswersHead
<1>1. batch \in Seq(Request) /\ queue \in Seq(Message) /\ Request \subseteq Message
  BY DEF TypeOK, Message
<1>2. /\ batch[1] = Head(batch) /\ batch[1] \in Request /\ 1 \in 1..Len(batch)
      /\ Len(batch') = Len(batch) - 1 /\ Len(batch) \in Nat \ {0}
      /\ \A i \in 1..Len(batch') : batch'[i] = batch[i + 1] /\ i + 1 \in 1..Len(batch)
  BY <1>1, TailParts
<1>3. client[batch[1]] \in {"waiting", "cancelled"}
  BY <1>2 DEF CleanInv, MessagesInv
<1>4. TailClean' /\ ScanClean' /\ ReopenClean'
  BY DEF CleanInv, TailClean, InFlightLength, ScanClean, ReopenClean
<1>5. \A p, x : Placed(p, x)' <=> Placed(p, x)
  BY DiskKept
<1>6. StoreClean' /\ FilesClean' /\ PlacedInv'
  BY <1>5 DEF CleanInv, StoreClean, FilesClean, PlacedInv
<1>7. \A i \in 1..Len(queue) : queue[i] \in Request =>
        /\ client'[queue[i]] \in {"waiting", "cancelled"}
        /\ \A j \in 1..Len(batch') : queue[i] # batch'[j]
  <2>1. \A i \in 1..Len(queue) : queue[i] \in Request =>
          /\ client[queue[i]] \in {"waiting", "cancelled"}
          /\ \A j \in 1..Len(batch) : queue[i] # batch[j]
    BY DEF CleanInv, MessagesInv
  <2> QED
    BY <1>1, <1>2, <2>1
<1>8. ASSUME NEW i \in 1..Len(batch')
      PROVE  /\ client'[batch'[i]] \in {"waiting", "cancelled"}
             /\ \A j \in 1..Len(batch') : batch'[i] = batch'[j] => i = j
  <2>1. /\ batch'[i] = batch[i + 1] /\ i + 1 \in 1..Len(batch) /\ i + 1 # 1
        /\ batch[i + 1] \in Request
    BY <1>1, <1>2
  <2>2. batch[i + 1] # batch[1]
    BY <1>2, <2>1 DEF CleanInv, MessagesInv
  <2>3. client'[batch[i + 1]] = client[batch[i + 1]]
    BY <1>1, <1>2, <2>1, <2>2
  <2>4. ASSUME NEW j \in 1..Len(batch'), batch'[i] = batch'[j] PROVE i = j
    <3>1. batch'[j] = batch[j + 1] /\ j + 1 \in 1..Len(batch)
      BY <1>2
    <3>2. i + 1 = j + 1
      BY <2>1, <2>4, <3>1 DEF CleanInv, MessagesInv
    <3> QED
      BY <1>2, <3>2
  <2> QED
    BY <2>1, <2>3, <2>4 DEF CleanInv, MessagesInv
<1>9. MessagesInv'
  BY <1>7, <1>8 DEF CleanInv, MessagesInv, Batching
<1> QED
  BY <1>2, <1>3, <1>4, <1>6, <1>9

LEMMA AnswerErrorClean ==
  ASSUME TypeOK, CleanInv, AnswerError
  PROVE  CleanInv'
<1> USE DEF tailVars, storeVars, scanVars
<1>1. /\ AnswersHead /\ verdict = "error" /\ reply' = reply
      /\ client' = Told(Head(batch), "refused")
  BY ToldType DEF AnswerError, AnswersHead, Told, TypeOK, Status
<1>2. /\ TailClean' /\ MessagesInv' /\ ScanClean' /\ ReopenClean'
      /\ StoreClean' /\ FilesClean' /\ PlacedInv'
      /\ batch[1] = Head(batch) /\ batch[1] \in Request /\ 1 \in 1..Len(batch)
      /\ client[batch[1]] \in {"waiting", "cancelled"}
      /\ \A i \in 1..Len(batch') : batch'[i] = batch[i + 1] /\ i + 1 \in 1..Len(batch)
  BY <1>1, AnswersHeadParts
<1>3. /\ Request \subseteq Message
      /\ \A r \in Request : client'[r] # client[r] => r = batch[1]
      /\ client'[batch[1]] \in {"refused", "cancelled"}
  BY <1>1, <1>2 DEF AnswersHead, Told, Message
<1>4. \A p, x : Placed(p, x)' <=> Placed(p, x)
  BY <1>1, DiskKept DEF AnswersHead
<1>5. AckedInv'
  BY <1>1, <1>3, <1>4 DEF CleanInv, AckedInv
<1>6. LaidInv'
  BY <1>1 DEF LaidInv, AnswersHead
<1>7. \A k \in 1..Len(batch) : Fresh(batch[k])
  BY <1>1 DEF CleanInv, FreshInv, AnswersHead
<1>8. FreshInv'
  <2>1. \A r \in Request : client'[r] \in {"idle", "refused"} => Fresh(r)'
    <3>1. \A r \in Request : client'[r] \in {"idle", "refused"} => Fresh(r)
      BY <1>2, <1>3, <1>7 DEF CleanInv, FreshInv
    <3> QED
      BY <1>4, <3>1 DEF Fresh
  <2>2. \A i \in 1..Len(queue) : queue[i] \in Request => Fresh(queue[i])'
    BY <1>1, <1>4 DEF CleanInv, FreshInv, Fresh, AnswersHead
  <2>3. \A k \in 1..Len(batch') : Fresh(batch[k])'
    BY <1>2, <1>4, <1>7 DEF Fresh
  <2> QED
    BY <1>1, <2>1, <2>2, <2>3 DEF FreshInv, AnswersHead
<1> QED
  BY <1>2, <1>5, <1>6, <1>8 DEF CleanInv

(* The revisions handed out are those of the write's own mutations.        *)
LEMMA AnswerOkClean ==
  ASSUME TypeOK, CleanInv, AnswerOk
  PROVE  CleanInv'
<1> USE DEF tailVars, storeVars, scanVars
<1> DEFINE r == batch[1]
           w == Width[r]
<1>1. /\ AnswersHead /\ verdict = "ok" /\ client' = Told(Head(batch), "acked")
      /\ reply' = IF client[Head(batch)] = "waiting"
                  THEN [reply EXCEPT ![Head(batch)] = Handed(Head(batch))]
                  ELSE reply
      /\ granted' = SubSeq(granted, Width[Head(batch)] + 1, Len(granted))
  BY ToldType DEF AnswerOk, AnswersHead, Told, TypeOK, Status
<1>2. /\ TailClean' /\ MessagesInv' /\ ScanClean' /\ ReopenClean'
      /\ StoreClean' /\ FilesClean' /\ PlacedInv'
      /\ r = Head(batch) /\ r \in Request
      /\ client[r] \in {"waiting", "cancelled"}
  BY <1>1, AnswersHeadParts
<1>3. \A p, x : Placed(p, x)' <=> Placed(p, x)
  BY <1>1, DiskKept DEF AnswersHead
<1>4. /\ batch \in Seq(Request) /\ batch # <<>>
      /\ hist \in Seq(Record) /\ granted \in Seq(Nat) /\ Len(granted) \in Nat
      /\ reply \in [Request -> Seq(Nat)] /\ Request \subseteq Message
      /\ w \in Nat \ {0}
  <2>1. w \in Nat \ {0}
    BY <1>2, MessagesAssumption
  <2>2. batch # <<>>
    BY <1>1 DEF AnswersHead
  <2> HIDE DEF r, w
  <2> QED
    BY SMTT(30), <2>1, <2>2 DEF TypeOK, Message
<1>5. /\ \A j \in 1..Len(granted) : granted[j] \in 1..Len(hist)
      /\ \E off : Laid(off, batch, Standing)
      /\ \A i, j \in 1..Len(batch) : batch[i] = batch[j] => i = j
  BY <1>1 DEF CleanInv, LaidInv, MessagesInv, AnswersHead
<1>6. /\ Standing \in Seq(Record) /\ Len(Standing) = Len(granted)
      /\ \A j \in 1..Len(granted) : Standing[j] = hist[granted[j]]
  <2>1. \A j \in 1..Len(granted) : hist[granted[j]] \in Record
    BY <1>4, <1>5
  <2> QED
    BY <1>4, <2>1 DEF Standing
<1>7. /\ w <= Len(granted)
      /\ \A i \in 1..w : i \in 1..Len(granted) /\ hist[granted[i]] = <<r, i>>
      /\ \E new : Laid(new, Tail(batch), SubSeq(Standing, w + 1, Len(Standing)))
  <2>1. PICK off : Laid(off, batch, Standing)
    BY <1>5
  <2>2. /\ w <= Len(Standing)
        /\ \A i \in 1..w : i \in 1..Len(Standing) /\ Standing[i] = <<r, i>>
        /\ \E new : Laid(new, Tail(batch), SubSeq(Standing, w + 1, Len(Standing)))
    BY <1>4, <1>5, <1>6, <2>1, LaidRest
  <2> QED
    BY <1>6, <2>2
<1> HIDE DEF r, w
<1>8. /\ Len(SubSeq(granted, w + 1, Len(granted))) = Len(granted) - w
      /\ \A j \in 1..Len(granted) - w :
           /\ SubSeq(granted, w + 1, Len(granted))[j] = granted[w + j]
           /\ w + j \in 1..Len(granted)
  BY <1>4, <1>7, RestParts
<1>9. /\ Len(SubSeq(Standing, w + 1, Len(Standing))) = Len(granted) - w
      /\ \A j \in 1..Len(granted) - w :
           SubSeq(Standing, w + 1, Len(Standing))[j] = Standing[w + j]
  <2>1. Standing \in Seq(Record) /\ w \in Nat /\ w <= Len(Standing)
    BY <1>4, <1>6, <1>7
  <2> HIDE DEF Standing
  <2>2. /\ Len(SubSeq(Standing, w + 1, Len(Standing))) = Len(Standing) - w
        /\ \A j \in 1..Len(Standing) - w :
             SubSeq(Standing, w + 1, Len(Standing))[j] = Standing[w + j]
    BY <2>1, RestParts
  <2> QED
    BY <1>6, <2>2
<1>10. granted' = SubSeq(granted, w + 1, Len(granted)) /\ batch' = Tail(batch)
       /\ hist' = hist
  BY <1>1, <1>2 DEF w, AnswersHead
<1>11. LaidInv'
  <2>1. \A j \in 1..Len(granted') :
          granted'[j] \in 1..Len(hist') /\ hist'[granted'[j]] = Standing[w + j]
    BY <1>5, <1>6, <1>8, <1>10
  <2>2. /\ Len(Standing') = Len(granted) - w
        /\ \A j \in 1..Len(granted) - w : Standing'[j] = Standing[w + j]
    <3>1. Standing' = [j \in 1..Len(granted') |-> hist'[granted'[j]]]
      BY DEF Standing
    <3>2. Len(granted') \in Nat /\ Len(granted') = Len(granted) - w
      BY <1>4, <1>7, <1>8, <1>10
    <3> QED
      BY <2>1, <3>1, <3>2
  <2>3. PICK new : Laid(new, Tail(batch), SubSeq(Standing, w + 1, Len(Standing)))
    BY <1>7
  <2>4. Tail(batch) \in Seq(Request) /\ Len(granted) - w \in Nat
    BY <1>4, <1>7
  <2>5. Laid(new, Tail(batch), Standing')
    BY <1>9, <2>2, <2>3, <2>4, LaidSame
  <2>6. \E off : Laid(off, batch', Standing')
    BY <1>10, <2>5
  <2> QED
    BY <1>1, <2>1, <2>6 DEF LaidInv, AnswersHead
<1>12. /\ \A m \in Request : m # r => client'[m] = client[m] /\ reply'[m] = reply[m]
       /\ client[r] = "waiting" =>
            client'[r] = "acked" /\ reply'[r] = Handed(r)
       /\ client[r] = "cancelled" => client'[r] = "cancelled"
  BY <1>1, <1>2, <1>4 DEF AnswersHead, Told
<1>13. Len(Handed(r)) = w /\ \A i \in 1..w : Handed(r)[i] = granted[i]
  BY <1>4, <1>7 DEF Handed, w
<1>14. AckedInv'
  <2> SUFFICES ASSUME NEW m \in Request, client'[m] = "acked"
               PROVE  /\ Len(reply'[m]) = Width[m]
                      /\ (\A i \in 1..Width[m] : Placed(reply[m][i], <<m, i>>))'
    BY DEF AckedInv
  <2>1. CASE m # r
    <3>1. client[m] = "acked" /\ reply'[m] = reply[m]
      BY <1>12, <2>1
    <3>2. Len(reply[m]) = Width[m] /\ \A i \in 1..Width[m] : Placed(reply[m][i], <<m, i>>)
      BY <3>1 DEF CleanInv, AckedInv
    <3> QED
      BY <1>1, <3>1, <3>2 DEF Placed, AnswersHead
  <2>2. CASE m = r
    <3>1. client[r] = "waiting" /\ reply'[m] = Handed(r)
      BY <1>2, <1>12, <2>2
    <3>2. ASSUME NEW i \in 1..Width[m] PROVE Placed(reply[m][i], <<m, i>>)'
      <4>1. reply'[m][i] = granted[i]
        BY <1>13, <2>2, <3>1 DEF w
      <4>2. granted[i] \in 1..Len(hist') /\ hist'[granted[i]] = <<m, i>>
        BY <1>5, <1>7, <1>10, <2>2 DEF w
      <4> QED
        BY <4>1, <4>2 DEF Placed
    <3> QED
      BY <1>13, <2>2, <3>1, <3>2 DEF w
  <2> QED
    BY <2>1, <2>2
<1>15. FreshInv'
  <2>1. \A m \in Request : client'[m] \in {"idle", "refused"} => Fresh(m)'
    <3>1. \A m \in Request : client'[m] \in {"idle", "refused"} => Fresh(m)
      BY <1>2, <1>12 DEF CleanInv, FreshInv
    <3> QED
      BY <1>3, <3>1 DEF Fresh
  <2>2. \A i \in 1..Len(queue) : queue[i] \in Request => Fresh(queue[i])'
    BY <1>1, <1>3 DEF CleanInv, FreshInv, Fresh, AnswersHead
  <2> QED
    BY <1>1, <2>1, <2>2 DEF FreshInv, AnswersHead
<1> QED
  BY <1>2, <1>11, <1>14, <1>15 DEF CleanInv

LEMMA AnsweredClean ==
  ASSUME TypeOK, CleanInv, Answered
  PROVE  CleanInv'
<1> USE DEF clientVars, tailVars, storeVars, scanVars
<1>1. /\ pc = "answer" /\ pc' = "settle" /\ batch = <<>> /\ batch' = <<>> /\ bytes' = <<>>
      /\ UNCHANGED <<client, reply, queue, active, written, poisoned, files, hist,
                     applied, commits>>
  BY DEF Answered
<1>2. /\ PlacedInv' /\ StoreClean' /\ FilesClean' /\ AckedInv'
      /\ \A r : Fresh(r)' <=> Fresh(r)
  BY <1>1, MemoryStep DEF CleanInv
<1>3. \A p, x : Placed(p, x)' <=> Placed(p, x)
  BY <1>1, DiskKept
<1>4. TailClean' /\ LaidInv' /\ ScanClean' /\ ReopenClean'
  BY <1>1 DEF CleanInv, TailClean, InFlightLength, Serving, LaidInv, Batching, ScanClean,
     ReopenClean
<1>5. MessagesInv'
  BY <1>1 DEF CleanInv, MessagesInv, Batching
<1>6. FreshInv'
  <2>1. \A r \in Request : client'[r] \in {"idle", "refused"} => Fresh(r)'
    BY <1>1, <1>2 DEF CleanInv, FreshInv
  <2>2. \A i \in 1..Len(queue) : queue[i] \in Request => Fresh(queue[i])'
    BY <1>1, <1>3 DEF CleanInv, FreshInv, Fresh
  <2> QED
    BY <1>1, <2>1, <2>2 DEF FreshInv
<1> QED
  BY <1>2, <1>4, <1>5, <1>6 DEF CleanInv

-----------------------------------------------------------------------------
(* Appending, rewinding, flushing and applying.                            *)

(* The active segment is the last, and the others end where it begins.     *)
LEMMA TailFacts ==
  ASSUME TypeOK, WalInv, CleanInv, pc \in Serving
  PROVE  /\ active \in DOMAIN files /\ active \in Nat
         /\ written \in Nat /\ applied \in Nat
         /\ files[active].data \in Seq(Record) /\ Len(files[active].data) \in Nat
         /\ files[active].synced \in Nat
         /\ files[active].synced <= written /\ written <= Len(files[active].data)
         /\ active <= applied /\ applied <= active + files[active].synced
         /\ pc # "rewind" => written = Len(files[active].data)
         /\ Len(hist) = applied
         /\ \A n \in DOMAIN files : n # active =>
              n < active /\ n + Len(files[n].data) <= active
<1>1. /\ active \in DOMAIN files /\ \A n \in DOMAIN files : n <= active
      /\ files[active].synced <= written /\ written <= Len(files[active].data)
      /\ active <= applied /\ applied <= active + files[active].synced
      /\ pc # "rewind" => written = Len(files[active].data)
  BY DEF WalInv, TailInv, CleanInv, TailClean
<1>2. written \in Nat /\ active \in Nat
  BY DEF TypeOK
<1>3. \A n \in DOMAIN files : n # active =>
        n < active /\ n + Len(files[n].data) <= active
  <2> SUFFICES ASSUME NEW n \in DOMAIN files, n # active
               PROVE  n < active /\ n + Len(files[n].data) <= active
    OBVIOUS
  <2>1. n < active
    BY <1>1, <1>2, DiskTypes
  <2> QED
    BY <1>1, <2>1 DEF CleanInv, FilesClean
<1> QED
  BY <1>1, <1>2, <1>3, DiskTypes DEF CleanInv, StoreClean

(* Nothing lies past the end of the active segment.                        *)
LEMMA Below ==
  ASSUME TypeOK, WalInv, CleanInv, pc \in Serving, NEW p \in Nat, NEW x, Placed(p, x)
  PROVE  p <= active + Len(files[active].data)
<1>1. CASE p \in 1..Len(hist)
  BY <1>1, TailFacts
<1>2. ASSUME NEW n \in DOMAIN files, p - n \in 1..Len(files[n].data)
      PROVE  p <= active + Len(files[active].data)
  <2>1. n \in Nat /\ Len(files[n].data) \in Nat
    BY DiskTypes
  <2>2. p <= n + Len(files[n].data)
    BY <1>2, <2>1
  <2>3. CASE n = active
    BY <2>2, <2>3
  <2>4. CASE n # active
    <3>1. n + Len(files[n].data) <= active /\ active \in Nat /\ Len(files[active].data) \in Nat
      BY <2>4, TailFacts
    <3> QED
      BY <2>1, <2>2, <3>1
  <2> QED
    BY <2>3, <2>4
<1> QED
  BY <1>1, <1>2 DEF Placed

(* The bytes of a batch are different mutations of its requests.           *)
LEMMA BytesParts ==
  ASSUME TypeOK, CleanInv, pc \in Batching \ {"answer"}
  PROVE  /\ \A j \in 1..Len(bytes) : \E k \in 1..Len(batch), i \in Nat :
              bytes[j] = <<batch[k], i>>
         /\ \A j, l \in 1..Len(bytes) : bytes[j] = bytes[l] => j = l
<1>1. PICK off : Laid(off, batch, bytes)
  BY DEF CleanInv, LaidInv
<1>2. batch \in Seq(Request) /\ Len(bytes) \in Nat
  BY DEF TypeOK
<1>3. ASSUME NEW j \in 1..Len(bytes)
      PROVE  \E k \in 1..Len(batch), i \in Nat :
               j = off[k] + i /\ bytes[j] = <<batch[k], i>>
  <2>1. PICK k \in 1..Len(batch) : \E i \in 1..Width[batch[k]] : j = off[k] + i
    BY <1>1 DEF Laid
  <2>2. PICK i \in 1..Width[batch[k]] : j = off[k] + i
    BY <2>1
  <2>3. bytes[off[k] + i] = <<batch[k], i>>
    BY <1>1 DEF Laid
  <2>4. i \in Nat
    BY <1>2, MessagesAssumption
  <2> QED
    BY <2>2, <2>3, <2>4
<1>4. ASSUME NEW j \in 1..Len(bytes), NEW l \in 1..Len(bytes), bytes[j] = bytes[l]
      PROVE  j = l
  <2>1. PICK k \in 1..Len(batch), i \in Nat : j = off[k] + i /\ bytes[j] = <<batch[k], i>>
    BY <1>3
  <2>2. PICK q \in 1..Len(batch), h \in Nat : l = off[q] + h /\ bytes[l] = <<batch[q], h>>
    BY <1>3
  <2>3. batch[k] = batch[q] /\ i = h
    BY <1>4, <2>1, <2>2
  <2>4. k = q
    BY <2>3 DEF CleanInv, MessagesInv
  <2> QED
    BY <2>1, <2>2, <2>3, <2>4
<1> QED
  BY <1>3, <1>4

(* A change of the active segment disturbs no other.                       *)
LEMMA TailFilesClean ==
  ASSUME TypeOK, WalInv, CleanInv, pc \in Serving, NEW g,
         files' = [files EXCEPT ![active] = g], commits' = commits
  PROVE  FilesClean'
<1>1. /\ active \in DOMAIN files /\ active \in Nat
      /\ \A n \in DOMAIN files : n \in Nat /\ (n # active => n < active)
  BY TailFacts, DiskTypes
<1>2. DOMAIN files' = DOMAIN files
      /\ \A n \in DOMAIN files : n # active => files'[n] = files[n]
  BY <1>1
<1>3. \A n, m \in DOMAIN files : n < m => n # active
  BY <1>1
<1> QED
  BY <1>2, <1>3 DEF CleanInv, FilesClean

(* Records of the batch written past the end of the log: what they place,  *)
(* and where.                                                              *)
LEMMA GrowClean ==
  ASSUME TypeOK, WalInv, CleanInv, pc = "retire", NEW g, NEW k \in 0..Len(bytes),
         files' = [files EXCEPT ![active] = g],
         g.data = files[active].data \o SubSeq(bytes, 1, k),
         UNCHANGED <<client, reply, queue, batch, hist, applied, commits>>
  PROVE  /\ PlacedInv' /\ AckedInv' /\ StoreClean' /\ FilesClean'
         /\ \A r \in Request : client[r] \in {"idle", "refused"} => Fresh(r)'
         /\ \A i \in 1..Len(queue) : queue[i] \in Request => Fresh(queue[i])'
         /\ \A i \in 1..Len(batch) : \A p, q \in Nat :
              Placed(p, <<batch[i], q>>)' => p > active + written
<1> DEFINE f == files[active]
           top == active + written
<1>1. /\ active \in DOMAIN files /\ active \in Nat /\ written \in Nat
      /\ f.data \in Seq(Record) /\ Len(f.data) = written
  BY TailFacts DEF Serving
<1>2. bytes \in Seq(Record) /\ k \in Nat /\ k <= Len(bytes) /\ Len(bytes) \in Nat
  BY DEF TypeOK
<1>3. /\ SubSeq(bytes, 1, k) \in Seq(Record) /\ Len(SubSeq(bytes, 1, k)) = k
      /\ \A j \in 1..k : SubSeq(bytes, 1, k)[j] = bytes[j]
  BY <1>2
<1>4. /\ Len(g.data) = written + k
      /\ \A i \in 1..written : g.data[i] = f.data[i]
      /\ \A j \in 1..k : g.data[written + j] = bytes[j]
  <2> DEFINE s == SubSeq(bytes, 1, k)
  <2>1. f.data \in Seq(Record) /\ s \in Seq(Record) /\ g.data = f.data \o s
    BY <1>1, <1>3
  <2>2. Len(s) = k /\ \A j \in 1..k : s[j] = bytes[j]
    BY <1>3
  <2> HIDE DEF s, f
  <2> DEFINE d == f.data
  <2>3. d \in Seq(Record) /\ g.data = d \o s
    BY <2>1
  <2> HIDE DEF d
  <2>4. /\ Len(g.data) = Len(d) + Len(s)
        /\ \A i \in 1..Len(d) : g.data[i] = d[i]
        /\ \A j \in 1..Len(s) : g.data[Len(d) + j] = s[j]
    <3>1. s \in Seq(Record)
      BY <2>1
    <3>2. /\ Len(d \o s) = Len(d) + Len(s)
          /\ \A i \in 1..Len(d) : (d \o s)[i] = d[i]
          /\ \A j \in 1..Len(s) : (d \o s)[Len(d) + j] = s[j]
      BY <2>3, <3>1, ConcatParts
    <3> QED
      BY <2>3, <3>2
  <2> QED
    BY <1>1, <2>2, <2>4 DEF d
<1>5. /\ hist' = hist /\ DOMAIN files' = DOMAIN files /\ files'[active] = g
      /\ \A n \in DOMAIN files : n # active => files'[n] = files[n]
  BY <1>1
<1>6. ASSUME NEW p \in Nat, NEW x, Placed(p, x) PROVE Placed(p, x)' /\ p <= top
  <2>1. p <= top
    BY <1>1, <1>6, Below DEF Serving
  <2>2. CASE p \in 1..Len(hist) /\ hist[p] = x
    BY <1>5, <2>1, <2>2 DEF Placed
  <2>3. ASSUME NEW n \in DOMAIN files, p - n \in 1..Len(files[n].data),
               files[n].data[p - n] = x
        PROVE  Placed(p, x)'
    <3>1. CASE n = active
      <4>1. p - n \in 1..written /\ p - n \in 1..Len(g.data)
        BY <1>1, <1>2, <1>4, <2>3, <3>1
      <4>2. g.data[p - n] = x
        BY <1>4, <2>3, <3>1, <4>1
      <4> QED
        BY <1>5, <3>1, <4>1, <4>2 DEF Placed
    <3>2. CASE n # active
      BY <1>5, <2>3, <3>2 DEF Placed
    <3> QED
      BY <3>1, <3>2
  <2> QED
    BY <1>6, <2>1, <2>2, <2>3 DEF Placed
<1>7. ASSUME NEW p \in Nat, NEW x, Placed(p, x)', ~Placed(p, x)
      PROVE  \E j \in 1..k : p = top + j /\ x = bytes[j]
  <2>1. PICK n \in DOMAIN files' : p - n \in 1..Len(files'[n].data) /\ files'[n].data[p - n] = x
    BY <1>7 DEF Placed
  <2>2. n = active
    BY <1>5, <1>7, <2>1 DEF Placed
  <2>3. p - active \in 1..written + k /\ g.data[p - active] = x
    BY <1>4, <1>5, <2>1, <2>2
  <2>4. p - active \notin 1..written
    BY <1>1, <1>4, <1>7, <2>3 DEF Placed
  <2>5. /\ (p - active) - written \in 1..k
        /\ p - active = written + ((p - active) - written)
        /\ p = top + ((p - active) - written)
    <3> DEFINE d == p - active
    <3>1. d \in 1..written + k /\ d \notin 1..written /\ p = active + d
      BY <1>1, <2>3, <2>4
    <3> HIDE DEF d
    <3>2. d - written \in 1..k /\ d = written + (d - written) /\ p = top + (d - written)
      BY SMTT(30), <1>1, <1>2, <3>1
    <3> QED
      BY <3>2 DEF d
  <2> QED
    BY <1>4, <2>3, <2>5
<1>8. /\ \A j \in 1..Len(bytes) : \E l \in 1..Len(batch), i \in Nat :
           bytes[j] = <<batch[l], i>>
      /\ \A j, l \in 1..Len(bytes) : bytes[j] = bytes[l] => j = l
  BY BytesParts DEF Batching
<1>9. top \in Nat /\ \A j \in 1..k : j \in 1..Len(bytes) /\ top + j \in Nat /\ top + j > top
  BY <1>1, <1>2
<1>10. \A l \in 1..Len(batch) : Fresh(batch[l])
  BY DEF CleanInv, FreshInv
<1>11. \A j \in 1..k : \A p \in Nat : ~Placed(p, bytes[j])
  <2> SUFFICES ASSUME NEW j \in 1..k, NEW p \in Nat PROVE ~Placed(p, bytes[j])
    OBVIOUS
  <2>1. PICK l \in 1..Len(batch), i \in Nat : bytes[j] = <<batch[l], i>>
    BY <1>8, <1>9
  <2>2. ~Placed(p, <<batch[l], i>>)
    BY <1>10 DEF Fresh
  <2> QED
    BY <2>1, <2>2
<1> HIDE DEF top, f
<1>12. PlacedInv'
  <2>1. ASSUME NEW p \in Nat, NEW x \in Record, NEW y \in Record,
               Placed(p, x)', Placed(p, y)'
        PROVE  x = y
    <3>1. CASE Placed(p, x) /\ Placed(p, y)
      BY <3>1 DEF CleanInv, PlacedInv
    <3>2. CASE Placed(p, x) /\ ~Placed(p, y)
      <4>1. p <= top
        BY <1>6, <3>2
      <4>2. PICK j \in 1..k : p = top + j
        BY <1>7, <2>1, <3>2
      <4> QED
        BY <1>9, <4>1, <4>2
    <3>3. CASE ~Placed(p, x) /\ Placed(p, y)
      <4>1. p <= top
        BY <1>6, <3>3
      <4>2. PICK j \in 1..k : p = top + j
        BY <1>7, <2>1, <3>3
      <4> QED
        BY <1>9, <4>1, <4>2
    <3>4. CASE ~Placed(p, x) /\ ~Placed(p, y)
      <4>1. PICK j \in 1..k : p = top + j /\ x = bytes[j]
        BY <1>7, <2>1, <3>4
      <4>2. PICK l \in 1..k : p = top + l /\ y = bytes[l]
        BY <1>7, <2>1, <3>4
      <4>3. j = l
        BY <1>9, <4>1, <4>2
      <4> QED
        BY <4>1, <4>2, <4>3
    <3> QED
      BY <3>1, <3>2, <3>3, <3>4
  <2>2. ASSUME NEW p \in Nat, NEW q \in Nat, NEW x \in Record,
               Placed(p, x)', Placed(q, x)'
        PROVE  p = q
    <3>1. CASE Placed(p, x) /\ Placed(q, x)
      BY <3>1 DEF CleanInv, PlacedInv
    <3>2. CASE Placed(p, x) /\ ~Placed(q, x)
      BY <1>7, <1>11, <2>2, <3>2
    <3>3. CASE ~Placed(p, x) /\ Placed(q, x)
      BY <1>7, <1>11, <2>2, <3>3
    <3>4. CASE ~Placed(p, x) /\ ~Placed(q, x)
      <4>1. PICK j \in 1..k : p = top + j /\ x = bytes[j]
        BY <1>7, <2>2, <3>4
      <4>2. PICK l \in 1..k : q = top + l /\ x = bytes[l]
        BY <1>7, <2>2, <3>4
      <4> QED
        BY <1>8, <1>9, <4>1, <4>2
    <3> QED
      BY <3>1, <3>2, <3>3, <3>4
  <2> QED
    BY <2>1, <2>2 DEF PlacedInv
<1>13. AckedInv'
  <2> SUFFICES ASSUME NEW r \in Request, client'[r] = "acked"
               PROVE  /\ Len(reply'[r]) = Width[r]
                      /\ (\A i \in 1..Width[r] : Placed(reply[r][i], <<r, i>>))'
    BY DEF AckedInv
  <2>1. Len(reply[r]) = Width[r] /\ \A i \in 1..Width[r] : Placed(reply[r][i], <<r, i>>)
    BY DEF CleanInv, AckedInv
  <2>2. ASSUME NEW i \in 1..Width[r] PROVE Placed(reply[r][i], <<r, i>>)'
    <3>1. PICK p : p = reply[r][i]
      OBVIOUS
    <3>2. p \in Nat
      <4>1. reply[r] \in Seq(Nat) /\ i \in 1..Len(reply[r])
        BY <2>1 DEF TypeOK
      <4> QED
        BY <3>1, <4>1
    <3>3. Placed(p, <<r, i>>)'
      BY <1>6, <2>1, <3>1, <3>2
    <3>4. reply'[r][i] = p
      BY <3>1
    <3> QED
      BY <3>3, <3>4 DEF Placed
  <2> QED
    BY <2>1, <2>2
<1>14. StoreClean' /\ FilesClean'
  BY TailFilesClean DEF CleanInv, StoreClean, Serving
<1>15. ASSUME NEW r, \A l \in 1..Len(batch) : batch[l] # r, Fresh(r) PROVE Fresh(r)'
  <2> SUFFICES ASSUME NEW p \in Nat, NEW i \in Nat, Placed(p, <<r, i>>)' PROVE FALSE
    BY DEF Fresh
  <2>1. ~Placed(p, <<r, i>>)
    BY <1>15 DEF Fresh
  <2>2. PICK j \in 1..k : <<r, i>> = bytes[j]
    BY <1>7, <2>1
  <2>3. PICK l \in 1..Len(batch), q \in Nat : bytes[j] = <<batch[l], q>>
    BY <1>8, <1>9
  <2>4. batch[l] = r
    BY <2>2, <2>3
  <2> QED
    BY <1>15, <2>4
<1>16. ASSUME NEW r \in Request, client[r] \in {"idle", "refused"} PROVE Fresh(r)'
  BY <1>15, <1>16 DEF CleanInv, FreshInv, MessagesInv
<1>17. ASSUME NEW i \in 1..Len(queue), queue[i] \in Request PROVE Fresh(queue[i])'
  <2>1. PICK r : r = queue[i]
    OBVIOUS
  <2>2. Fresh(r)'
    BY <1>15, <1>17, <2>1 DEF CleanInv, FreshInv, MessagesInv
  <2> QED
    BY <2>1, <2>2 DEF Fresh
<1>18. ASSUME NEW i \in 1..Len(batch), NEW p \in Nat, NEW q \in Nat,
              Placed(p, <<batch[i], q>>)'
       PROVE  p > active + written
  <2>1. PICK x : x = <<batch[i], q>>
    OBVIOUS
  <2>2. Placed(p, x)' /\ ~Placed(p, x)
    BY <1>10, <1>18, <2>1 DEF Fresh, Placed
  <2> QED
    BY <1>7, <1>9, <2>2 DEF top
<1> QED
  BY <1>12, <1>13, <1>14, <1>16, <1>17, <1>18

LEMMA AppendBytesClean ==
  ASSUME TypeOK, WalInv, CleanInv, AppendBytes
  PROVE  CleanInv'
<1> USE DEF clientVars, batchVars, storeVars, scanVars
<1> DEFINE g == Written(files[active], bytes)
<1>1. /\ pc = "retire" /\ pc' = "sync" /\ files' = [files EXCEPT ![active] = g]
      /\ written' = written + Len(bytes)
      /\ UNCHANGED <<client, reply, queue, batch, bytes, hist, applied, commits,
                     active, poisoned>>
  BY DEF AppendBytes
<1>2. bytes \in Seq(Record) /\ Len(bytes) \in Nat /\ Len(bytes) \in 0..Len(bytes)
      /\ SubSeq(bytes, 1, Len(bytes)) = bytes
  BY DEF TypeOK
<1>3. /\ active \in DOMAIN files /\ written \in Nat /\ active \in Nat
      /\ files[active] \in File
  BY <1>1, TailFacts, DiskTypes DEF Serving
<1>4. g.data = files[active].data \o bytes /\ g.torn = files[active].torn
  BY <1>3 DEF Written, File
<1> HIDE DEF g
<1>5. /\ PlacedInv' /\ AckedInv' /\ StoreClean' /\ FilesClean'
      /\ \A r \in Request : client[r] \in {"idle", "refused"} => Fresh(r)'
      /\ \A i \in 1..Len(queue) : queue[i] \in Request => Fresh(queue[i])'
  BY <1>1, <1>2, <1>4, GrowClean
<1>6. TailClean'
  <2>1. ~poisoned /\ applied + 0 = active + written /\ ~files[active].torn
    BY <1>1 DEF CleanInv, TailClean, InFlightLength, Serving
  <2>2. applied \in Nat /\ applied = active + written
    BY <2>1 DEF TypeOK
  <2>3. applied + Len(bytes) = active + (written + Len(bytes))
    BY <1>2, <1>3, <2>2
  <2>4. files'[active] = g
    BY <1>1, <1>3
  <2> QED
    BY <1>1, <1>4, <2>1, <2>3, <2>4 DEF TailClean, InFlightLength
<1>7. MessagesInv'
  BY <1>1 DEF CleanInv, MessagesInv, Batching
<1>8. LaidInv'
  BY <1>1 DEF CleanInv, LaidInv, Batching
<1>9. FreshInv'
  BY <1>1, <1>5 DEF FreshInv
<1>10. ScanClean' /\ ReopenClean'
  BY <1>1 DEF ScanClean, ReopenClean
<1> QED
  BY <1>5, <1>6, <1>7, <1>8, <1>9, <1>10 DEF CleanInv

LEMMA AppendFailsClean ==
  ASSUME TypeOK, WalInv, CleanInv, AppendFails
  PROVE  CleanInv'
<1> USE DEF clientVars, batchVars, tailVars, storeVars, scanVars
<1>1. /\ pc = "retire" /\ pc' = "rewind"
      /\ UNCHANGED <<client, reply, queue, batch, bytes, hist, applied, commits,
                     active, written, poisoned>>
  BY DEF AppendFails
<1>2. PICK g \in PartlyWritten(files[active], bytes) : files' = [files EXCEPT ![active] = g]
  BY DEF AppendFails
<1>3. active \in DOMAIN files /\ files[active] \in File /\ Len(bytes) \in Nat
  BY <1>1, TailFacts, DiskTypes DEF Serving, TypeOK
<1>4. PICK k \in 0..Len(bytes) : g.data = files[active].data \o SubSeq(bytes, 1, k)
  <2>1. \A k \in 0..(Len(bytes) - 1) : k \in 0..Len(bytes)
    BY <1>3
  <2> QED
    BY <1>3, <2>1 DEF PartlyWritten, File
<1>5. /\ PlacedInv' /\ AckedInv' /\ StoreClean' /\ FilesClean'
      /\ \A r \in Request : client[r] \in {"idle", "refused"} => Fresh(r)'
      /\ \A i \in 1..Len(queue) : queue[i] \in Request => Fresh(queue[i])'
      /\ \A i \in 1..Len(batch) : \A p, q \in Nat :
           Placed(p, <<batch[i], q>>)' => p > active + written
  BY <1>1, <1>2, <1>4, GrowClean
<1>6. TailClean'
  BY <1>1 DEF CleanInv, TailClean, InFlightLength, Serving
<1>7. MessagesInv'
  BY <1>1 DEF CleanInv, MessagesInv, Batching
<1>8. LaidInv'
  BY <1>1 DEF CleanInv, LaidInv, Batching
<1>9. FreshInv'
  BY <1>1, <1>5 DEF FreshInv
<1>10. ScanClean' /\ ReopenClean'
  BY <1>1 DEF ScanClean, ReopenClean
<1> QED
  BY <1>5, <1>6, <1>7, <1>8, <1>9, <1>10 DEF CleanInv

(* Cutting the segment back leaves nothing of the batch.                   *)
LEMMA RewindClean ==
  ASSUME TypeOK, WalInv, CleanInv, TypeOK', WalInv', Rewind
  PROVE  CleanInv'
<1> USE DEF clientVars, tailVars, storeVars, scanVars
<1> DEFINE g == Truncated(files[active], written)
<1>1. /\ pc = "rewind" /\ pc' = "answer" /\ verdict' = "error"
      /\ files' = [files EXCEPT ![active] = g]
      /\ UNCHANGED <<client, reply, queue, batch, bytes, hist, applied, commits,
                     active, written, poisoned>>
  BY DEF Rewind, Refuse
<1>2. /\ active \in DOMAIN files /\ active \in Nat /\ written \in Nat
      /\ files[active].data \in Seq(Record) /\ Len(files[active].data) \in Nat
      /\ written <= Len(files[active].data) /\ applied \in Nat /\ Len(hist) = applied
      /\ \A n \in DOMAIN files : n # active =>
           n < active /\ n + Len(files[n].data) <= active
  BY <1>1, TailFacts DEF Serving
<1>3. /\ g.data = SubSeq(files[active].data, 1, written) /\ g.torn = FALSE
  BY DEF Truncated
<1>4. Len(g.data) = written /\ \A i \in 1..written : g.data[i] = files[active].data[i]
  BY <1>2, <1>3
<1> HIDE DEF g
<1>5. /\ DOMAIN files' = DOMAIN files /\ files'[active] = g /\ hist' = hist
      /\ \A n \in DOMAIN files : n # active => files'[n] = files[n]
  BY <1>1, <1>2
<1>6. Shrinks
  <2>1. \A n \in DOMAIN files' : \A i \in 1..Len(files'[n].data) :
          /\ n \in DOMAIN files /\ i \in 1..Len(files[n].data)
          /\ files'[n].data[i] = files[n].data[i]
    BY <1>2, <1>4, <1>5
  <2> QED
    BY <1>5, <2>1, ShrinksBy
<1>7. /\ PlacedInv' /\ AckedInv' /\ \A r : Fresh(r) => Fresh(r)'
  BY <1>1, <1>6, ShrinkKept DEF CleanInv
<1>8. StoreClean' /\ FilesClean'
  BY <1>1, TailFilesClean DEF CleanInv, StoreClean, Serving
<1>9. applied = active + written
  <2>1. applied + 0 = active + written
    BY <1>1 DEF CleanInv, TailClean, InFlightLength, Serving
  <2> QED
    BY <1>2, <2>1
<1>10. TailClean'
  BY <1>1, <1>3, <1>5 DEF CleanInv, TailClean, InFlightLength, Serving
<1>11. MessagesInv'
  BY <1>1 DEF CleanInv, MessagesInv, Batching
<1>12. LaidInv'
  BY <1>1 DEF LaidInv
<1>13. ASSUME NEW p \in Nat, NEW x, Placed(p, x)' PROVE p <= active + written
  <2>1. CASE p \in 1..Len(hist')
    BY <1>2, <1>5, <1>9, <2>1
  <2>2. ASSUME NEW n \in DOMAIN files', p - n \in 1..Len(files'[n].data)
        PROVE  p <= active + written
    <3>1. CASE n = active
      BY <1>2, <1>4, <1>5, <2>2, <3>1
    <3>2. CASE n # active
      <4>1. /\ n \in Nat /\ Len(files[n].data) \in Nat /\ files'[n] = files[n]
            /\ n + Len(files[n].data) <= active
        BY <1>2, <1>5, <3>2, DiskTypes
      <4> QED
        BY <1>2, <2>2, <4>1
    <3> QED
      BY <3>1, <3>2
  <2> QED
    BY <1>13, <2>1, <2>2 DEF Placed
<1>14. \A k \in 1..Len(batch) : Fresh(batch[k])'
  <2> SUFFICES ASSUME NEW k \in 1..Len(batch), NEW p \in Nat, NEW i \in Nat,
                      Placed(p, <<batch[k], i>>)'
               PROVE  FALSE
    BY DEF Fresh
  <2>1. PICK x : x = <<batch[k], i>>
    OBVIOUS
  <2>2. Placed(p, x)'
    BY <1>1, <2>1 DEF Placed
  <2>3. Placed(p, <<batch[k], i>>)
    BY <1>6, <2>1, <2>2 DEF Shrinks
  <2>4. p > active + written
    BY <1>1, <2>3 DEF CleanInv, FreshInv
  <2>5. p <= active + written
    BY <1>13, <2>2
  <2> QED
    BY <1>2, <2>4, <2>5
<1>15. FreshInv'
  <2>1. \A r \in Request : client'[r] \in {"idle", "refused"} => Fresh(r)'
    BY <1>1, <1>7 DEF CleanInv, FreshInv
  <2>2. ASSUME NEW i \in 1..Len(queue), queue[i] \in Request PROVE Fresh(queue[i])'
    <3>1. PICK r : r = queue[i]
      OBVIOUS
    <3>2. Fresh(r)'
      BY <1>7, <2>2, <3>1 DEF CleanInv, FreshInv
    <3> QED
      BY <1>1, <3>1, <3>2 DEF Fresh
  <2> QED
    BY <1>1, <1>14, <2>1, <2>2 DEF FreshInv
<1>16. ScanClean' /\ ReopenClean'
  BY <1>1 DEF ScanClean, ReopenClean
<1> QED
  BY <1>7, <1>8, <1>10, <1>11, <1>12, <1>15, <1>16 DEF CleanInv

(* Steps that leave the mutations of the log where they are, and the       *)
(* clients, the queue and the batch.                                       *)
LEMMA SamePlaces ==
  ASSUME CleanInv, \A p \in Nat : \A x : Placed(p, x)' <=> Placed(p, x),
         TypeOK, UNCHANGED <<client, reply, queue, batch>>
  PROVE  /\ PlacedInv' /\ AckedInv' /\ \A r : Fresh(r)' <=> Fresh(r)
         /\ \A i \in 1..Len(queue) : queue[i] \in Request => Fresh(queue[i])'
         /\ \A k \in 1..Len(batch) : Fresh(batch[k]) => Fresh(batch[k])'
<1>1. PlacedInv'
  BY DEF CleanInv, PlacedInv
<1>2. \A r : Fresh(r)' <=> Fresh(r)
  BY DEF Fresh
<1>3. AckedInv'
  <2> SUFFICES ASSUME NEW r \in Request, client'[r] = "acked"
               PROVE  /\ Len(reply'[r]) = Width[r]
                      /\ (\A i \in 1..Width[r] : Placed(reply[r][i], <<r, i>>))'
    BY DEF AckedInv
  <2>1. Len(reply[r]) = Width[r] /\ \A i \in 1..Width[r] : Placed(reply[r][i], <<r, i>>)
    BY DEF CleanInv, AckedInv
  <2>2. ASSUME NEW i \in 1..Width[r] PROVE Placed(reply[r][i], <<r, i>>)'
    <3>1. PICK p : p = reply[r][i]
      OBVIOUS
    <3>2. p \in Nat
      <4>1. reply[r] \in Seq(Nat) /\ i \in 1..Len(reply[r])
        BY <2>1 DEF TypeOK
      <4> QED
        BY <3>1, <4>1
    <3>3. Placed(p, <<r, i>>)'
      BY <2>1, <3>1, <3>2
    <3>4. reply'[r][i] = p
      BY <3>1
    <3> QED
      BY <3>3, <3>4 DEF Placed
  <2> QED
    BY <2>1, <2>2
<1>4. ASSUME NEW i \in 1..Len(queue), queue[i] \in Request PROVE Fresh(queue[i])'
  <2>1. PICK r : r = queue[i]
    OBVIOUS
  <2>2. Fresh(r)'
    BY <1>2, <1>4, <2>1 DEF CleanInv, FreshInv
  <2> QED
    BY <2>1, <2>2 DEF Fresh
<1>5. ASSUME NEW k \in 1..Len(batch), Fresh(batch[k]) PROVE Fresh(batch[k])'
  <2>1. PICK r : r = batch[k]
    OBVIOUS
  <2>2. Fresh(r)'
    BY <1>2, <1>5, <2>1
  <2> QED
    BY <2>1, <2>2 DEF Fresh
<1> QED
  BY <1>1, <1>2, <1>3, <1>4, <1>5

LEMMA SyncClean ==
  ASSUME TypeOK, WalInv, CleanInv, Sync
  PROVE  CleanInv'
<1> USE DEF clientVars, batchVars, tailVars, storeVars, scanVars
<1> DEFINE g == Synced(files[active])
<1>1. /\ pc = "sync" /\ pc' = "apply"
      /\ files' = [files EXCEPT ![active] = g]
      /\ UNCHANGED <<client, reply, queue, batch, bytes, hist, applied, commits,
                     active, written, poisoned>>
  BY DEF Sync
<1>2. active \in DOMAIN files /\ files[active] \in File
  BY <1>1, TailFacts, DiskTypes DEF Serving
<1>3. g.data = files[active].data /\ g.torn = files[active].torn
  BY <1>2 DEF Synced, File
<1> HIDE DEF g
<1>4. /\ DOMAIN files' = DOMAIN files /\ files'[active] = g
      /\ \A n \in DOMAIN files : files'[n].data = files[n].data
  BY <1>1, <1>2, <1>3
<1>5. \A p \in Nat : \A x : Placed(p, x)' <=> Placed(p, x)
  BY <1>1, <1>4 DEF Placed
<1>6. /\ PlacedInv' /\ AckedInv' /\ \A r : Fresh(r)' <=> Fresh(r)
      /\ \A i \in 1..Len(queue) : queue[i] \in Request => Fresh(queue[i])'
  BY <1>1, <1>5, SamePlaces
<1>7. StoreClean' /\ FilesClean'
  BY <1>1, TailFilesClean DEF CleanInv, StoreClean, Serving
<1>8. TailClean'
  BY <1>1, <1>3, <1>4 DEF CleanInv, TailClean, InFlightLength, Serving
<1>9. MessagesInv' /\ LaidInv'
  BY <1>1 DEF CleanInv, MessagesInv, LaidInv, Batching
<1>10. FreshInv'
  BY <1>1, <1>6 DEF CleanInv, FreshInv
<1>11. ScanClean' /\ ReopenClean'
  BY <1>1 DEF ScanClean, ReopenClean
<1> QED
  BY <1>6, <1>7, <1>8, <1>9, <1>10, <1>11 DEF CleanInv

(* A full segment ends past its beginning, so its end is not its name.     *)
LEMMA FullAbove ==
  ASSUME TypeOK, WalInv, CleanInv, pc = "retire", IsFull
  PROVE  /\ applied = active + written /\ written > 0 /\ applied > active
         /\ applied \notin DOMAIN files
<1>1. /\ active \in Nat /\ written \in Nat /\ applied \in Nat
      /\ \A n \in DOMAIN files : n # active => n < active
  BY TailFacts DEF Serving
<1>2. applied + 0 = active + written
  BY DEF CleanInv, TailClean, InFlightLength, Serving
<1>3. written >= SegmentLimit /\ SegmentLimit \in Nat \ {0}
  BY OptionsAssumption DEF IsFull
<1>4. applied = active + written /\ written > 0 /\ applied > active
  BY <1>1, <1>2, <1>3
<1>5. ASSUME applied \in DOMAIN files PROVE FALSE
  BY <1>1, <1>4, <1>5
<1> QED
  BY <1>4, <1>5

LEMMA RollOverClean ==
  ASSUME TypeOK, WalInv, CleanInv, RollOver
  PROVE  CleanInv'
<1> USE DEF clientVars, batchVars, storeVars, scanVars
<1>1. /\ pc = "retire" /\ pc' = pc /\ IsFull
      /\ files' = [n \in DOMAIN files \cup {applied} |->
                     IF n = applied THEN EmptyFile ELSE files[n]]
      /\ active' = applied /\ written' = 0 /\ poisoned' = FALSE
      /\ UNCHANGED <<client, reply, queue, batch, bytes, hist, applied, commits,
                     verdict, granted>>
  BY DEF RollOver
<1>2. /\ active \in DOMAIN files /\ active \in Nat
      /\ written \in Nat /\ applied \in Nat
      /\ Len(files[active].data) = written /\ files[active].data \in Seq(Record)
      /\ files[active].synced \in Nat
      /\ files[active].synced <= written
      /\ applied <= active + files[active].synced
      /\ \A n \in DOMAIN files : n # active =>
           n < active /\ n + Len(files[n].data) <= active
  BY <1>1, TailFacts DEF Serving
<1>3. /\ applied = active + written /\ written > 0 /\ applied > active
      /\ applied \notin DOMAIN files
  BY <1>1, FullAbove
<1>4. files[active].synced = written /\ files[active].data # <<>>
  BY <1>2, <1>3
<1>5. ~files[active].torn
  BY <1>1 DEF CleanInv, TailClean, Serving
<1>6. /\ DOMAIN files' = DOMAIN files \cup {applied}
      /\ files'[applied] = EmptyFile /\ Len(files'[applied].data) = 0
      /\ ~files'[applied].torn
      /\ \A n \in DOMAIN files : files'[n] = files[n]
  BY <1>1, <1>3 DEF EmptyFile
<1>7. \A p \in Nat : \A x : Placed(p, x)' <=> Placed(p, x)
  <2> SUFFICES ASSUME NEW p \in Nat, NEW x PROVE Placed(p, x)' <=> Placed(p, x)
    OBVIOUS
  <2>1. p - applied \notin 1..Len(files'[applied].data)
    BY <1>2, <1>6
  <2>2. (\E n \in DOMAIN files' : p - n \in 1..Len(files'[n].data) /\ files'[n].data[p - n] = x)
        <=> (\E n \in DOMAIN files : p - n \in 1..Len(files[n].data) /\ files[n].data[p - n] = x)
    BY <1>6, <2>1
  <2> QED
    BY <1>1, <2>2 DEF Placed
<1>8. /\ PlacedInv' /\ AckedInv' /\ \A r : Fresh(r)' <=> Fresh(r)
      /\ \A i \in 1..Len(queue) : queue[i] \in Request => Fresh(queue[i])'
      /\ \A k \in 1..Len(batch) : Fresh(batch[k]) => Fresh(batch[k])'
  BY <1>1, <1>7, SamePlaces
<1>9. StoreClean'
  BY <1>1 DEF CleanInv, StoreClean
<1>10. FilesClean'
  <2>1. \A n \in DOMAIN files : n \in Nat /\ n <= active /\ n < applied
    BY <1>2, <1>3, DiskTypes
  <2>2. ASSUME NEW n \in DOMAIN files', NEW m \in DOMAIN files', n < m
        PROVE  /\ files'[n].data # <<>> /\ n + Len(files'[n].data) <= m
               /\ n + Len(files'[n].data) \in DOMAIN files'
               /\ files'[n].synced = Len(files'[n].data) /\ ~files'[n].torn
    <3>1. n \in DOMAIN files
      BY <1>2, <1>6, <2>1, <2>2
    <3>2. CASE m \in DOMAIN files
      BY <1>6, <2>2, <3>1, <3>2 DEF CleanInv, FilesClean
    <3>3. CASE m = applied /\ n = active
      BY <1>2, <1>3, <1>4, <1>5, <1>6, <3>3
    <3>4. CASE m = applied /\ n # active
      <4>1. n < active
        BY <1>2, <3>1, <3>4
      <4>2. /\ files[n].data # <<>> /\ n + Len(files[n].data) <= active
            /\ n + Len(files[n].data) \in DOMAIN files
            /\ files[n].synced = Len(files[n].data) /\ ~files[n].torn
        BY <1>2, <3>1, <4>1 DEF CleanInv, FilesClean
      <4>3. n + Len(files[n].data) <= applied
        <5>1. n \in Nat /\ Len(files[n].data) \in Nat
          BY <3>1, DiskTypes
        <5> QED
          BY <1>2, <1>3, <4>2, <5>1
      <4> QED
        BY <1>6, <3>1, <3>4, <4>2, <4>3
    <3> QED
      BY <1>6, <3>2, <3>3, <3>4
  <2>3. ASSUME NEW n \in DOMAIN files', \A m \in DOMAIN files' : n <= m,
               NEW c \in commits'
        PROVE  n <= c.applied
    <3>1. n # applied
      BY <1>2, <1>3, <1>6, <2>3
    <3> QED
      BY <1>1, <1>6, <2>3, <3>1 DEF CleanInv, FilesClean
  <2> QED
    BY <2>2, <2>3 DEF FilesClean
<1>11. TailClean'
  <2>1. applied + 0 = applied
    BY <1>2
  <2> QED
    BY <1>1, <1>6, <2>1 DEF TailClean, InFlightLength
<1>12. MessagesInv' /\ LaidInv'
  BY <1>1 DEF CleanInv, MessagesInv, LaidInv, Batching
<1>13. FreshInv'
  BY <1>1, <1>8 DEF CleanInv, FreshInv
<1>14. ScanClean' /\ ReopenClean'
  BY <1>1 DEF ScanClean, ReopenClean
<1> QED
  BY <1>8, <1>9, <1>10, <1>11, <1>12, <1>13, <1>14 DEF CleanInv

LEMMA FlushStoreClean ==
  ASSUME TypeOK, WalInv, CleanInv, FlushStore
  PROVE  CleanInv'
<1> USE DEF clientVars, batchVars, tailVars, scanVars
<1>1. /\ pc = "settle" /\ pc' = "remove" /\ commits' = {Latest}
      /\ UNCHANGED <<client, reply, queue, batch, bytes, hist, applied, files,
                     active, written, poisoned>>
  BY DEF FlushStore
<1>2. \A p \in Nat : \A x : Placed(p, x)' <=> Placed(p, x)
  BY <1>1, DiskKept
<1>3. /\ PlacedInv' /\ AckedInv' /\ \A r : Fresh(r)' <=> Fresh(r)
      /\ \A i \in 1..Len(queue) : queue[i] \in Request => Fresh(queue[i])'
  BY <1>1, <1>2, SamePlaces
<1>4. Latest \in commits /\ Latest.len = Len(hist) /\ Latest.applied = applied
  BY DEF WalInv, StoreInv, Latest
<1>5. StoreClean' /\ FilesClean'
  BY <1>1, <1>4 DEF CleanInv, StoreClean, FilesClean
<1>6. TailClean'
  BY <1>1 DEF CleanInv, TailClean, InFlightLength, Serving
<1>7. MessagesInv' /\ LaidInv'
  BY <1>1 DEF CleanInv, MessagesInv, LaidInv, Batching
<1>8. FreshInv'
  BY <1>1, <1>3 DEF CleanInv, FreshInv
<1>9. ScanClean' /\ ReopenClean'
  BY <1>1 DEF ScanClean, ReopenClean
<1> QED
  BY <1>3, <1>5, <1>6, <1>7, <1>8, <1>9 DEF CleanInv

(* The segment removed is the first, and every commit is past it.          *)
LEMMA RemovesFirst ==
  ASSUME TypeOK, WalInv, Removable # {}
  PROVE  LET n == MinOf(Removable) IN
         /\ n \in DOMAIN files
         /\ \A m \in DOMAIN files : n <= m
         /\ \E m \in DOMAIN files : n < m
         /\ \A l \in DOMAIN files : l # n /\ (\A m \in DOMAIN files \ {n} : l <= m)
              => l <= applied
<1> DEFINE n == MinOf(Removable)
<1>1. /\ DOMAIN files \in SUBSET Nat /\ Removable \in SUBSET Nat /\ applied \in Nat
      /\ Removable \subseteq DOMAIN files
  BY DEF TypeOK, Removable
<1>2. n \in Removable /\ \A m \in Removable : n <= m
  BY <1>1, MinOfProperties
<1> HIDE DEF n
<1>3. /\ n \in DOMAIN files /\ n \in Nat /\ Successor(n) <= applied
      /\ \E m \in DOMAIN files : m > n
  BY <1>1, <1>2 DEF Removable
<1>4. ASSUME NEW l \in DOMAIN files, \E m \in DOMAIN files : m > l
      PROVE  /\ Successor(l) \in DOMAIN files /\ Successor(l) > l
             /\ \A m \in DOMAIN files : m > l => Successor(l) <= m
  <2> DEFINE S == {m \in DOMAIN files : m > l}
  <2>1. S \in SUBSET Nat /\ S # {}
    BY <1>1, <1>4
  <2>2. MinOf(S) \in S /\ \A m \in S : MinOf(S) <= m
    BY <2>1, MinOfProperties
  <2> QED
    BY <2>2 DEF Successor
<1>5. ASSUME NEW m \in DOMAIN files, m < n PROVE FALSE
  <2>1. n > m /\ Successor(m) <= n /\ Successor(m) \in Nat /\ m \in Nat
    BY <1>1, <1>3, <1>4, <1>5
  <2>2. n < Successor(n) /\ Successor(n) \in Nat
    BY <1>1, <1>3, <1>4
  <2>3. Successor(m) <= applied
    BY <1>1, <1>3, <2>1, <2>2
  <2>4. m \in Removable
    BY <1>3, <2>1, <2>3 DEF Removable
  <2> QED
    BY <1>2, <1>3, <1>5, <2>1, <2>4
<1>6. \A m \in DOMAIN files : n <= m /\ (m # n => n < m)
  BY <1>1, <1>3, <1>5
<1>7. ASSUME NEW l \in DOMAIN files, l # n, \A m \in DOMAIN files \ {n} : l <= m
      PROVE  l <= applied
  <2>1. Successor(n) \in DOMAIN files \ {n} /\ Successor(n) \in Nat
    BY <1>1, <1>3, <1>4
  <2> QED
    BY <1>1, <1>3, <1>7, <2>1
<1>8. \E m \in DOMAIN files : n < m
  BY <1>1, <1>3
<1> QED
  BY <1>3, <1>6, <1>7, <1>8 DEF n

LEMMA RemoveSegmentClean ==
  ASSUME TypeOK, WalInv, CleanInv, TypeOK', WalInv', RemoveSegment
  PROVE  CleanInv'
<1> USE DEF clientVars, batchVars, tailVars, storeVars, scanVars
<1> DEFINE r == MinOf(Removable)
<1>1. /\ pc = "remove" /\ pc' = pc /\ Removable # {}
      /\ files' = [n \in DOMAIN files \ {r} |-> files[n]]
      /\ UNCHANGED <<client, reply, queue, batch, bytes, hist, applied, commits,
                     active, written, poisoned>>
  BY DEF RemoveSegment
<1>2. /\ r \in DOMAIN files
      /\ \A m \in DOMAIN files : r <= m
      /\ \E m \in DOMAIN files : r < m
      /\ \A l \in DOMAIN files : l # r /\ (\A m \in DOMAIN files \ {r} : l <= m)
           => l <= applied
  BY <1>1, RemovesFirst
<1> HIDE DEF r
<1>3. /\ DOMAIN files' = DOMAIN files \ {r}
      /\ \A n \in DOMAIN files' : n \in DOMAIN files /\ files'[n] = files[n]
  BY <1>1
<1>4. Shrinks
  BY <1>1, <1>3, ShrinksBy
<1>5. /\ PlacedInv' /\ AckedInv' /\ \A x : Fresh(x) => Fresh(x)'
  BY <1>1, <1>4, ShrinkKept DEF CleanInv
<1>6. StoreClean'
  BY <1>1 DEF CleanInv, StoreClean
<1>7. FilesClean'
  <2>1. ASSUME NEW n \in DOMAIN files', NEW m \in DOMAIN files', n < m
        PROVE  /\ files'[n].data # <<>> /\ n + Len(files'[n].data) <= m
               /\ n + Len(files'[n].data) \in DOMAIN files'
               /\ files'[n].synced = Len(files'[n].data) /\ ~files'[n].torn
    <3>1. /\ files[n].data # <<>> /\ n + Len(files[n].data) <= m
          /\ n + Len(files[n].data) \in DOMAIN files
          /\ files[n].synced = Len(files[n].data) /\ ~files[n].torn
      BY <1>3, <2>1 DEF CleanInv, FilesClean
    <3>2. /\ r \in Nat /\ n \in Nat /\ r <= n /\ n # r
          /\ files[n].data \in Seq(Record) /\ Len(files[n].data) \in Nat
      BY <1>2, <1>3, DiskTypes
    <3>3. Len(files[n].data) > 0
      BY <3>1, <3>2
    <3>4. n + Len(files[n].data) # r
      BY <3>2, <3>3
    <3> QED
      BY <1>3, <3>1, <3>4
  <2>2. ASSUME NEW n \in DOMAIN files', \A m \in DOMAIN files' : n <= m,
               NEW c \in commits'
        PROVE  n <= c.applied
    <3>1. c = Latest /\ Latest.applied = applied
      BY <1>1 DEF WalInv, StoreInv, Latest
    <3>2. n <= applied
      BY <1>2, <1>3, <2>2
    <3> QED
      BY <3>1, <3>2
  <2> QED
    BY <2>1, <2>2 DEF FilesClean
<1>8. TailClean'
  <2>1. active \in DOMAIN files /\ active # r
    <3>1. \A n \in DOMAIN files : n \in Nat /\ n <= active
      BY <1>1, DiskTypes DEF WalInv, TailInv, Serving
    <3> QED
      BY <1>1, <1>2, <3>1, TailFacts DEF Serving
  <2>2. files'[active] = files[active]
    BY <1>3, <2>1
  <2> QED
    BY <1>1, <2>2 DEF CleanInv, TailClean, InFlightLength, Serving
<1>9. MessagesInv' /\ LaidInv'
  BY <1>1 DEF CleanInv, MessagesInv, LaidInv, Batching
<1>10. FreshInv'
  <2>1. \A x \in Request : client'[x] \in {"idle", "refused"} => Fresh(x)'
    BY <1>1, <1>5 DEF CleanInv, FreshInv
  <2>2. ASSUME NEW i \in 1..Len(queue), queue[i] \in Request PROVE Fresh(queue[i])'
    <3>1. PICK x : x = queue[i]
      OBVIOUS
    <3>2. Fresh(x)'
      BY <1>5, <2>2, <3>1 DEF CleanInv, FreshInv
    <3> QED
      BY <1>1, <3>1, <3>2 DEF Fresh
  <2> QED
    BY <1>1, <2>1, <2>2 DEF FreshInv
<1>11. ScanClean' /\ ReopenClean'
  BY <1>1 DEF ScanClean, ReopenClean
<1> QED
  BY <1>5, <1>6, <1>7, <1>8, <1>9, <1>10, <1>11 DEF CleanInv

(* Mutations applied are placed already: the segments hold them at the     *)
(* positions they get in the store.                                        *)
LEMMA GrowStore ==
  ASSUME TypeOK, CleanInv, NEW s \in Seq(Record),
         \A k \in 1..Len(s) : Placed(applied + k, s[k]),
         StoreApply(s, applied + Len(s)), files' = files, Latest \in commits
  PROVE  /\ \A p \in Nat : \A x : Placed(p, x)' <=> Placed(p, x)
         /\ StoreClean' /\ FilesClean'
         /\ Len(hist') = Len(hist) + Len(s) /\ Len(hist) = applied
         /\ \A k \in 1..Len(s) : hist'[Len(hist) + k] = s[k]
<1>1. /\ hist \in Seq(Record) /\ Len(hist) \in Nat /\ Len(s) \in Nat /\ applied \in Nat
      /\ Len(hist) = applied /\ \A c \in commits : c.len = c.applied
  BY DiskTypes DEF CleanInv, StoreClean
<1>2. /\ hist' = hist \o s /\ applied' = applied + Len(s)
      /\ commits' = commits \cup
           {[len |-> Len(hist) + Len(s), applied |-> applied + Len(s)]}
  BY DEF StoreApply
<1>3. /\ Len(hist') = Len(hist) + Len(s)
      /\ \A k \in 1..Len(hist) : hist'[k] = hist[k]
      /\ \A k \in 1..Len(s) : hist'[Len(hist) + k] = s[k]
  <2>1. /\ Len(hist \o s) = Len(hist) + Len(s)
        /\ \A k \in 1..Len(hist) : (hist \o s)[k] = hist[k]
        /\ \A k \in 1..Len(s) : (hist \o s)[Len(hist) + k] = s[k]
    <3>1. hist \in Seq(Record)
      BY <1>1
    <3> QED
      BY <3>1, ConcatParts
  <2> QED
    BY <1>2, <2>1
<1>4. ASSUME NEW p \in Nat, NEW x PROVE Placed(p, x)' <=> Placed(p, x)
  <2> DEFINE InFiles == \E n \in DOMAIN files :
               p - n \in 1..Len(files[n].data) /\ files[n].data[p - n] = x
  <2>1. Placed(p, x) <=> (p \in 1..Len(hist) /\ hist[p] = x) \/ InFiles
    BY DEF Placed
  <2>2. Placed(p, x)' <=> (p \in 1..Len(hist') /\ hist'[p] = x) \/ InFiles
    BY DEF Placed
  <2> HIDE DEF InFiles
  <2>3. CASE p \in 1..Len(hist)
    <3>1. p \in 1..Len(hist') /\ hist'[p] = hist[p]
      BY <1>1, <1>3, <2>3
    <3> QED
      BY <2>1, <2>2, <2>3, <3>1
  <2>4. CASE p \notin 1..Len(hist)
    <3>1. Placed(p, x) <=> InFiles
      BY <2>1, <2>4
    <3>2. ASSUME p \in 1..Len(hist'), hist'[p] = x PROVE Placed(p, x)
      <4>1. p - applied \in 1..Len(s) /\ p = applied + (p - applied)
            /\ p = Len(hist) + (p - applied)
        BY <1>1, <1>3, <2>4, <3>2
      <4>2. s[p - applied] = x
        BY <1>3, <3>2, <4>1
      <4>3. Placed(applied + (p - applied), s[p - applied])
        BY <4>1
      <4> QED
        BY <4>1, <4>2, <4>3
    <3> QED
      BY <2>2, <3>1, <3>2
  <2> QED
    BY <2>3, <2>4
<1>5. StoreClean'
  BY <1>1, <1>2, <1>3 DEF StoreClean
<1>6. FilesClean'
  <2>1. ASSUME NEW n \in DOMAIN files, \A m \in DOMAIN files : n <= m,
               NEW c \in commits'
        PROVE  n <= c.applied
    <3>1. CASE c \in commits
      BY <2>1, <3>1 DEF CleanInv, FilesClean
    <3>2. CASE c.applied = applied + Len(s)
      <4>1. n <= applied
        BY <2>1 DEF CleanInv, FilesClean, Latest
      <4>2. n \in Nat
        BY DiskTypes
      <4> QED
        BY <1>1, <3>2, <4>1, <4>2
    <3> QED
      BY <1>2, <3>1, <3>2
  <2> QED
    BY <2>1 DEF CleanInv, FilesClean
<1> QED
  BY <1>1, <1>3, <1>4, <1>5, <1>6

LEMMA ApplyClean ==
  ASSUME TypeOK, WalInv, CleanInv, Apply
  PROVE  CleanInv'
<1> USE DEF clientVars, tailVars, scanVars
<1>1. /\ pc = "apply" /\ pc' = "answer" /\ verdict' = "ok"
      /\ StoreApply(bytes, applied + Len(bytes))
      /\ granted' = [i \in 1..Len(bytes) |-> Len(hist) + i]
      /\ UNCHANGED <<client, reply, queue, batch, bytes, files, active, written,
                     poisoned>>
  BY DEF Apply
<1>2. bytes \in Seq(Record) /\ batch \in Seq(Request) /\ Len(bytes) \in Nat
  BY DEF TypeOK
<1>3. /\ active \in DOMAIN files /\ active \in Nat /\ written \in Nat /\ applied \in Nat
      /\ Len(files[active].data) = written
  BY <1>1, TailFacts DEF Serving
<1>4. applied + Len(bytes) = active + written
  BY <1>1 DEF CleanInv, TailClean, InFlightLength, Serving
<1>5. /\ Len(bytes) <= written
      /\ \A j \in 1..Len(bytes) :
           files[active].data[(written - Len(bytes)) + j] = bytes[j]
  BY <1>1 DEF WalInv, FlightInv
<1>6. ASSUME NEW k \in 1..Len(bytes) PROVE Placed(applied + k, bytes[k])
  <2>1. /\ (applied + k) - active = (written - Len(bytes)) + k
        /\ (applied + k) - active \in 1..written
    BY SMTT(30), <1>2, <1>3, <1>4, <1>5
  <2>2. files[active].data[(applied + k) - active] = bytes[k]
    BY <1>5, <2>1
  <2> QED
    BY <1>3, <2>1, <2>2 DEF Placed
<1>7. Latest \in commits
  BY DEF WalInv, StoreInv
<1>8. /\ \A p \in Nat : \A x : Placed(p, x)' <=> Placed(p, x)
      /\ StoreClean' /\ FilesClean'
      /\ Len(hist') = Len(hist) + Len(bytes) /\ Len(hist) = applied
      /\ \A k \in 1..Len(bytes) : hist'[Len(hist) + k] = bytes[k]
  BY <1>1, <1>2, <1>6, <1>7, GrowStore
<1>9. /\ PlacedInv' /\ AckedInv' /\ \A r : Fresh(r)' <=> Fresh(r)
      /\ \A i \in 1..Len(queue) : queue[i] \in Request => Fresh(queue[i])'
  BY <1>1, <1>8, SamePlaces
<1>10. TailClean'
  <2>1. applied' = applied + Len(bytes)
    BY <1>1 DEF StoreApply
  <2>2. applied' + 0 = active + written
    BY <1>2, <1>3, <1>4, <2>1
  <2> QED
    BY <1>1, <2>2 DEF CleanInv, TailClean, InFlightLength, Serving
<1>11. MessagesInv'
  BY <1>1 DEF CleanInv, MessagesInv, Batching
<1>12. LaidInv'
  <2>1. /\ Len(granted') = Len(bytes)
        /\ \A j \in 1..Len(bytes) : granted'[j] = Len(hist) + j
    BY <1>1, <1>2
  <2>2. \A j \in 1..Len(bytes) :
          granted'[j] \in 1..Len(hist') /\ hist'[granted'[j]] = bytes[j]
    BY <1>2, <1>3, <1>8, <2>1
  <2>3. /\ Len(Standing') = Len(bytes)
        /\ \A j \in 1..Len(bytes) : Standing'[j] = bytes[j]
    <3>1. Standing' = [j \in 1..Len(granted') |-> hist'[granted'[j]]]
      BY DEF Standing
    <3> QED
      BY <1>2, <2>1, <2>2, <3>1
  <2>4. PICK off : Laid(off, batch, bytes)
    BY <1>1 DEF CleanInv, LaidInv, Batching
  <2>5. Laid(off, batch, Standing')
    BY <1>2, <2>3, <2>4, LaidSame
  <2>6. \E new : Laid(new, batch', Standing')
    BY <1>1, <2>5
  <2> QED
    BY <1>1, <2>1, <2>2, <2>6 DEF LaidInv
<1>13. FreshInv'
  BY <1>1, <1>9 DEF CleanInv, FreshInv
<1>14. ScanClean' /\ ReopenClean'
  BY <1>1 DEF ScanClean, ReopenClean
<1> QED
  BY <1>8, <1>9, <1>10, <1>11, <1>12, <1>13, <1>14 DEF CleanInv

-----------------------------------------------------------------------------
(* Crashes.                                                                *)

(* A crash keeps first parts of the store and of the segments, and whole   *)
(* the segments that another one follows.                                  *)
CrashClean(c) ==
  /\ LoseMemory /\ StoreFallsTo(c) /\ c \in commits /\ commits' \subseteq commits
  /\ pc' = "down"
  /\ DOMAIN files' = DOMAIN files
  /\ \A n \in DOMAIN files :
       /\ Len(files'[n].data) <= Len(files[n].data)
       /\ \A i \in 1..Len(files'[n].data) : files'[n].data[i] = files[n].data[i]
       /\ files[n].synced = Len(files[n].data) /\ ~files[n].torn =>
            /\ files'[n].data = files[n].data
            /\ files'[n].synced = files[n].synced /\ ~files'[n].torn

LEMMA CrashCleanStep ==
  ASSUME TypeOK, WalInv, CleanInv, TypeOK', WalInv', NEW c, CrashClean(c)
  PROVE  CleanInv'
<1> USE DEF CrashClean
<1>1. /\ queue' = <<>> /\ batch' = <<>> /\ bytes' = <<>> /\ poisoned' = FALSE
      /\ reply' = reply /\ pc' = "down"
      /\ client' = [m \in Message |->
                      IF client[m] = "waiting" THEN "unknown" ELSE client[m]]
  BY DEF LoseMemory
<1>2. \A r \in Request : client'[r] \in {"acked", "idle", "refused"} => client[r] = client'[r]
  BY <1>1 DEF Message
<1>3. /\ hist' = SubSeq(hist, 1, c.len) /\ applied' = c.applied
      /\ c.len \in Nat /\ c.len <= Len(hist) /\ c.len = c.applied
      /\ hist \in Seq(Record) /\ Len(hist) \in Nat
  BY DiskTypes DEF StoreFallsTo, WalInv, StoreInv, CleanInv, StoreClean
<1>4. /\ Len(hist') = c.len
      /\ \A k \in 1..Len(hist') : k \in 1..Len(hist) /\ hist'[k] = hist[k]
  BY <1>3
<1>5. Shrinks
  <2>1. \A n \in DOMAIN files' : \A i \in 1..Len(files'[n].data) :
          /\ n \in DOMAIN files /\ i \in 1..Len(files[n].data)
          /\ files'[n].data[i] = files[n].data[i]
    BY DiskTypes, DiskTypesNext
  <2> QED
    BY <1>4, <2>1, ShrinksBy
<1>6. /\ PlacedInv' /\ AckedInv' /\ \A r : Fresh(r) => Fresh(r)'
  BY <1>1, <1>2, <1>5, ShrinkKept DEF CleanInv
<1>7. StoreClean'
  BY <1>3, <1>4 DEF CleanInv, StoreClean
<1>8. FilesClean'
  <2>1. ASSUME NEW n \in DOMAIN files, NEW m \in DOMAIN files, n < m
        PROVE  /\ files'[n].data # <<>> /\ n + Len(files'[n].data) <= m
               /\ n + Len(files'[n].data) \in DOMAIN files
               /\ files'[n].synced = Len(files'[n].data) /\ ~files'[n].torn
    BY <2>1 DEF CleanInv, FilesClean
  <2>2. ASSUME NEW n \in DOMAIN files, \A m \in DOMAIN files : n <= m, NEW d \in commits'
        PROVE  n <= d.applied
    BY <2>2 DEF CleanInv, FilesClean
  <2> QED
    BY <2>1, <2>2 DEF FilesClean
<1>9. TailClean' /\ LaidInv' /\ ScanClean' /\ ReopenClean'
  BY <1>1 DEF TailClean, Serving, LaidInv, Batching, ScanClean, ReopenClean
<1>10. MessagesInv'
  BY <1>1 DEF MessagesInv
<1>11. FreshInv'
  <2>1. \A r \in Request : client'[r] \in {"idle", "refused"} => Fresh(r)'
    BY <1>2, <1>6 DEF CleanInv, FreshInv
  <2> QED
    BY <1>1, <2>1 DEF FreshInv
<1> QED
  BY <1>6, <1>7, <1>8, <1>9, <1>10, <1>11 DEF CleanInv

LEMMA KillIsCrash ==
  ASSUME TypeOK, WalInv, CleanInv, Kill
  PROVE  \E c : CrashClean(c)
<1>1. PICK c \in commits : StoreFallsTo(c) /\ commits' = {d \in commits : d.len <= c.len}
  BY DEF Kill
<1>2. \A n \in DOMAIN files : Len(files[n].data) \in Nat
  BY DiskTypes
<1>3. CrashClean(c)
  BY <1>1, <1>2 DEF Kill, CrashClean
<1> QED
  BY <1>3

LEMMA PowerLossIsCrash ==
  ASSUME TypeOK, WalInv, CleanInv, PowerLoss
  PROVE  \E c : CrashClean(c)
<1>1. PICK c \in commits : StoreFallsTo(c) /\ commits' = {c}
  BY DEF PowerLoss
<1>2. /\ DOMAIN files' = DOMAIN files
      /\ \A n \in DOMAIN files : files'[n] \in Survivors(files[n])
  BY DEF PowerLoss
<1>3. ASSUME NEW f \in File, f.synced <= Len(f.data), NEW g \in Survivors(f)
      PROVE  /\ Len(g.data) <= Len(f.data)
             /\ \A i \in 1..Len(g.data) : g.data[i] = f.data[i]
             /\ f.synced = Len(f.data) /\ ~f.torn =>
                  g.data = f.data /\ g.synced = f.synced /\ ~g.torn
  <2>1. f.data \in Seq(Record) /\ f.synced \in Nat /\ Len(f.data) \in Nat
    BY FileParts
  <2>2. PICK k \in f.synced..Len(f.data), t \in BOOLEAN :
          g = CutTo(f, k, t) /\ (t /\ ~f.torn => k <= Len(f.data) - 1)
    <3>1. \A k \in f.synced..(Len(f.data) - 1) : k \in f.synced..Len(f.data)
      BY <2>1
    <3>2. CASE g \in { CutTo(f, k, FALSE) : k \in f.synced..Len(f.data) }
      BY <3>2
    <3>3. CASE g \in { CutTo(f, k, TRUE) :
                         k \in f.synced..(IF f.torn THEN Len(f.data) ELSE Len(f.data) - 1) }
      <4>1. PICK k \in f.synced..(IF f.torn THEN Len(f.data) ELSE Len(f.data) - 1) :
              g = CutTo(f, k, TRUE)
        BY <3>3
      <4>2. k \in f.synced..Len(f.data) /\ (~f.torn => k <= Len(f.data) - 1)
        BY <2>1, <3>1
      <4> QED
        BY <4>1, <4>2
    <3> QED
      BY <3>2, <3>3 DEF Survivors
  <2>3. /\ g.data = SubSeq(f.data, 1, k) /\ g.synced = k /\ g.torn = t
        /\ k \in Nat /\ k <= Len(f.data)
    BY <2>1, <2>2 DEF CutTo
  <2>4. Len(g.data) = k /\ \A i \in 1..k : g.data[i] = f.data[i]
    BY <2>1, <2>3
  <2>5. ASSUME f.synced = Len(f.data), ~f.torn PROVE g.data = f.data /\ g.synced = f.synced /\ ~g.torn
    <3>1. k = Len(f.data) /\ ~t
      BY <2>1, <2>2, <2>5
    <3> QED
      BY <2>1, <2>3, <2>5, <3>1
  <2> QED
    BY <2>1, <2>3, <2>4, <2>5
<1>4. \A n \in DOMAIN files : files[n] \in File /\ files[n].synced <= Len(files[n].data)
  BY DiskTypes DEF WalInv, FilesInv
<1>5. CrashClean(c)
  BY <1>1, <1>2, <1>3, <1>4 DEF PowerLoss, CrashClean
<1> QED
  BY <1>5

LEMMA CrashKeepsClean ==
  ASSUME TypeOK, WalInv, CleanInv, TypeOK', WalInv', Kill \/ PowerLoss
  PROVE  CleanInv'
BY KillIsCrash, PowerLossIsCrash, CrashCleanStep

-----------------------------------------------------------------------------
(* Recovery.                                                               *)

(* The segment read next begins where the last one read ends, and the      *)
(* first one no later than the applied position.                           *)
LEMMA NextRead ==
  ASSUME TypeOK, WalInv, CleanInv, pc = "scan", scan # {}
  PROVE  LET n == MinOf(scan) IN
         /\ n \in scan /\ n \in DOMAIN files /\ n \in Nat
         /\ \A m \in scan : n <= m
         /\ scan # DOMAIN files => seen = n
         /\ scan = DOMAIN files => seen = 0 /\ n <= applied
<1> DEFINE n == MinOf(scan)
<1>1. scan \in SUBSET Nat /\ scan \subseteq DOMAIN files
  BY DEF TypeOK, WalInv, ScanInv
<1>2. n \in scan /\ \A m \in scan : n <= m
  BY <1>1, MinOfProperties
<1> HIDE DEF n
<1>3. ASSUME scan # DOMAIN files PROVE seen = n
  <2>1. seen \in scan /\ \A m \in scan : seen <= m
    BY <1>3 DEF CleanInv, ScanClean
  <2> QED
    BY <1>1, <1>2, <2>1
<1>4. ASSUME scan = DOMAIN files PROVE seen = 0 /\ n <= applied
  <2>1. seen = 0
    BY <1>4 DEF WalInv, ScanInv
  <2>2. Latest \in commits /\ Latest.applied = applied
    BY DEF WalInv, StoreInv, Latest
  <2>3. n <= applied
    BY <1>2, <1>4, <2>2 DEF CleanInv, FilesClean
  <2> QED
    BY <2>1, <2>3
<1> QED
  BY <1>1, <1>2, <1>3, <1>4 DEF n

(* What recovery takes of a segment, by its position.                      *)
LEMMA UnappliedParts ==
  ASSUME TypeOK, NEW n \in DOMAIN files
  PROVE  /\ Unapplied(n) \in Seq(Record)
         /\ Len(Unapplied(n)) =
              IF applied > n
              THEN IF n + Len(files[n].data) > applied
                   THEN (n + Len(files[n].data)) - applied ELSE 0
              ELSE Len(files[n].data)
         /\ \A k \in 1..Len(Unapplied(n)) :
              Placed((IF applied > n THEN applied ELSE n) + k, Unapplied(n)[k])
<1> DEFINE data == files[n].data
           skip == IF applied > n THEN applied - n ELSE 0
<1>1. /\ n \in Nat /\ data \in Seq(Record) /\ Len(data) \in Nat /\ applied \in Nat
  BY DiskTypes
<1>2. Unapplied(n) = SubSeq(data, skip + 1, Len(data)) /\ skip \in Nat
  BY <1>1 DEF Unapplied
<1>3. (IF applied > n THEN applied ELSE n) = n + skip
  BY <1>1
<1>4. CASE skip <= Len(data)
  <2> HIDE DEF data, skip
  <2>1. /\ SubSeq(data, skip + 1, Len(data)) \in Seq(Record)
        /\ Len(SubSeq(data, skip + 1, Len(data))) = Len(data) - skip
        /\ \A k \in 1..Len(data) - skip :
             SubSeq(data, skip + 1, Len(data))[k] = data[skip + k] /\ skip + k \in 1..Len(data)
    BY <1>1, <1>2, <1>4, RestParts, SuffixParts
  <2>2. ASSUME NEW k \in 1..Len(Unapplied(n)) PROVE Placed((n + skip) + k, Unapplied(n)[k])
    <3>1. /\ ((n + skip) + k) - n = skip + k /\ skip + k \in 1..Len(data)
          /\ Unapplied(n)[k] = data[skip + k]
      BY <1>1, <1>2, <2>1
    <3> QED
      BY <3>1 DEF Placed, data
  <2>3. Len(Unapplied(n)) = IF applied > n
                            THEN IF n + Len(data) > applied
                                 THEN (n + Len(data)) - applied ELSE 0
                            ELSE Len(data)
    <3>1. Len(Unapplied(n)) = Len(data) - skip
      BY <1>2, <2>1
    <3>2. CASE applied > n
      <4>1. skip = applied - n
        BY <3>2 DEF skip
      <4>2. Len(data) - skip = IF n + Len(data) > applied THEN (n + Len(data)) - applied ELSE 0
        BY <1>1, <1>4, <3>2, <4>1
      <4> QED
        BY <3>1, <3>2, <4>2
    <3>3. CASE ~(applied > n)
      BY <1>1, <3>1, <3>3 DEF skip
    <3> QED
      BY <3>2, <3>3
  <2> QED
    BY <1>2, <1>3, <2>1, <2>2, <2>3 DEF data
<1>5. CASE skip > Len(data)
  <2>1. applied > n /\ ~(n + Len(data) > applied)
    BY <1>1, <1>5
  <2>2. SubSeq(data, skip + 1, Len(data)) = <<>>
    BY <1>1, <1>2, <1>5
  <2> QED
    BY SMTT(30), <1>2, <2>1, <2>2, EmptyRecords
<1>6. skip <= Len(data) \/ skip > Len(data)
  BY <1>1, <1>2
<1> HIDE DEF skip, data
<1> QED
  BY <1>4, <1>5, <1>6

LEMMA ScanSegmentClean ==
  ASSUME TypeOK, WalInv, CleanInv, ScanSegment
  PROVE  CleanInv'
<1> USE DEF clientVars, batchVars, tailVars, storeVars
<1> DEFINE n == MinOf(scan)
           data == files[n].data
<1>1. /\ pc = "scan" /\ pc' = pc /\ scan # {}
      /\ seen' = n + Len(data) /\ pending' = pending \o Unapplied(n)
      /\ scan' = scan \ {n}
      /\ UNCHANGED <<client, reply, queue, batch, bytes, verdict, granted,
                     files, hist, applied, commits, active, written, poisoned>>
  BY DEF ScanSegment
<1>2. /\ n \in scan /\ n \in DOMAIN files /\ n \in Nat
      /\ \A m \in scan : n <= m
      /\ scan # DOMAIN files => seen = n
      /\ scan = DOMAIN files => seen = 0 /\ n <= applied
  BY <1>1, NextRead
<1>3. /\ data \in Seq(Record) /\ Len(data) \in Nat /\ applied \in Nat
      /\ pending \in Seq(Record) /\ Len(pending) \in Nat /\ seen \in Nat
      /\ scan \subseteq DOMAIN files /\ \A m \in DOMAIN files \ scan : \A l \in scan : m < l
  <2>1. data \in Seq(Record) /\ Len(data) \in Nat /\ applied \in Nat
    BY <1>2, DiskTypes
  <2>2. pending \in Seq(Record) /\ Len(pending) \in Nat /\ seen \in Nat
    BY DEF TypeOK
  <2>3. scan \subseteq DOMAIN files /\ \A m \in DOMAIN files \ scan : \A l \in scan : m < l
    BY <1>1 DEF WalInv, ScanInv
  <2> QED
    BY <2>1, <2>2, <2>3
<1>4. /\ Unapplied(n) \in Seq(Record)
      /\ Len(Unapplied(n)) = IF applied > n
                             THEN IF n + Len(data) > applied
                                  THEN (n + Len(data)) - applied ELSE 0
                             ELSE Len(data)
      /\ \A k \in 1..Len(Unapplied(n)) :
           Placed((IF applied > n THEN applied ELSE n) + k, Unapplied(n)[k])
  BY <1>2, UnappliedParts
<1> HIDE DEF n, data
<1>5. /\ Len(pending) = IF n > applied THEN n - applied ELSE 0
      /\ \A k \in 1..Len(pending) : Placed(applied + k, pending[k])
  BY <1>1, <1>2, <1>3 DEF CleanInv, ScanClean
<1>6. (IF applied > n THEN applied ELSE n) = applied + Len(pending)
  BY <1>2, <1>3, <1>5
<1>7. /\ Len(pending') = Len(pending) + Len(Unapplied(n))
      /\ \A k \in 1..Len(pending) : pending'[k] = pending[k]
      /\ \A k \in 1..Len(Unapplied(n)) : pending'[Len(pending) + k] = Unapplied(n)[k]
  <2>1. pending \in Seq(Record) /\ Unapplied(n) \in Seq(Record)
    BY <1>3, <1>4
  <2>2. /\ Len(pending \o Unapplied(n)) = Len(pending) + Len(Unapplied(n))
        /\ \A k \in 1..Len(pending) : (pending \o Unapplied(n))[k] = pending[k]
        /\ \A k \in 1..Len(Unapplied(n)) :
             (pending \o Unapplied(n))[Len(pending) + k] = Unapplied(n)[k]
    BY <2>1, ConcatParts
  <2> QED
    BY <1>1, <2>2
<1>8. /\ PlacedInv' /\ StoreClean' /\ FilesClean' /\ AckedInv'
      /\ \A r : Fresh(r)' <=> Fresh(r)
  BY <1>1, MemoryStep DEF CleanInv
<1>9. \A p, x : Placed(p, x)' <=> Placed(p, x)
  BY <1>1, DiskKept
<1>10. Len(pending') = IF seen' > applied THEN seen' - applied ELSE 0
  BY <1>1, <1>2, <1>3, <1>4, <1>5, <1>7
<1>11. ASSUME NEW k \in 1..Len(pending') PROVE Placed(applied + k, pending'[k])
  <2>1. CASE k \in 1..Len(pending)
    BY <1>5, <1>7, <2>1
  <2>2. CASE k \notin 1..Len(pending)
    <3>1. k - Len(pending) \in 1..Len(Unapplied(n)) /\ k = Len(pending) + (k - Len(pending))
          /\ applied + k = (applied + Len(pending)) + (k - Len(pending))
      BY <1>3, <1>4, <1>7, <2>2
    <3>2. pending'[k] = Unapplied(n)[k - Len(pending)]
      BY <1>7, <3>1
    <3>3. Placed((applied + Len(pending)) + (k - Len(pending)), Unapplied(n)[k - Len(pending)])
      BY <1>4, <1>6, <3>1
    <3> QED
      BY <3>1, <3>2, <3>3
  <2> QED
    BY <2>1, <2>2
<1>12. ASSUME scan' # {}
       PROVE  seen' \in scan' /\ \A m \in scan' : seen' <= m
  <2>1. PICK l \in scan' : TRUE
    BY <1>12
  <2>2. \A m \in scan' : m \in DOMAIN files /\ m \in Nat /\ n < m
    BY <1>1, <1>2, <1>3, DiskTypes
  <2>3. /\ data # <<>> /\ n + Len(data) \in DOMAIN files
        /\ \A m \in scan' : n + Len(data) <= m
    BY <1>2, <2>1, <2>2 DEF CleanInv, FilesClean, data
  <2>4. n + Len(data) > n
    BY <1>2, <1>3, <2>3
  <2>5. n + Len(data) \in scan
    BY <1>2, <1>3, <2>3, <2>4
  <2> QED
    BY <1>1, <1>2, <2>3, <2>4, <2>5
<1>13. ScanClean'
  BY <1>1, <1>9, <1>10, <1>11, <1>12 DEF ScanClean
<1>14. TailClean' /\ ReopenClean'
  BY <1>1 DEF CleanInv, TailClean, InFlightLength, Serving, ReopenClean
<1>15. MessagesInv' /\ LaidInv'
  BY <1>1 DEF CleanInv, MessagesInv, LaidInv, Batching, Standing
<1>16. FreshInv'
  <2>1. \A r \in Request : client'[r] \in {"idle", "refused"} => Fresh(r)'
    BY <1>1, <1>8 DEF CleanInv, FreshInv
  <2>2. \A i \in 1..Len(queue) : queue[i] \in Request => Fresh(queue[i])'
    BY <1>1, <1>9 DEF CleanInv, FreshInv, Fresh
  <2> QED
    BY <1>1, <2>1, <2>2 DEF FreshInv
<1> QED
  BY <1>8, <1>13, <1>14, <1>15, <1>16 DEF CleanInv

(* Replaying the records read past the applied position.                   *)
LEMMA ReplayClean ==
  ASSUME TypeOK, WalInv, CleanInv, Replay
  PROVE  CleanInv'
<1> USE DEF clientVars, batchVars, tailVars
<1>1. /\ pc = "scan" /\ pc' = "reopen" /\ scan = {} /\ seen >= applied
      /\ IF pending = <<>> THEN UNCHANGED storeVars ELSE StoreApply(pending, seen)
      /\ UNCHANGED <<client, reply, queue, batch, bytes, files, active, written,
                     poisoned>>
  BY DEF Replay
<1>2. /\ pending \in Seq(Record) /\ Len(pending) \in Nat /\ seen \in Nat /\ applied \in Nat
  BY DEF TypeOK
<1>3. /\ Len(pending) = IF seen > applied THEN seen - applied ELSE 0
      /\ \A k \in 1..Len(pending) : Placed(applied + k, pending[k])
  BY <1>1 DEF CleanInv, ScanClean
<1>4. seen = applied + Len(pending)
  BY <1>1, <1>2, <1>3
<1>5. /\ \A p \in Nat : \A x : Placed(p, x)' <=> Placed(p, x)
      /\ StoreClean' /\ FilesClean' /\ applied' = seen
  <2>1. CASE pending = <<>>
    <3>1. UNCHANGED <<hist, applied, commits, files>> /\ Len(pending) = 0
      BY <1>1, <2>1 DEF storeVars
    <3>2. applied' = seen
      BY <1>2, <1>4, <3>1
    <3> QED
      BY <3>1, <3>2, DiskKept DEF CleanInv, StoreClean, FilesClean
  <2>2. CASE pending # <<>>
    <3>1. StoreApply(pending, applied + Len(pending)) /\ Latest \in commits
      BY <1>1, <1>4, <2>2 DEF WalInv, StoreInv
    <3>2. applied' = seen
      BY <1>4, <3>1 DEF StoreApply
    <3> QED
      BY <1>1, <1>2, <1>3, <3>1, <3>2, GrowStore
  <2> QED
    BY <2>1, <2>2
<1>6. /\ PlacedInv' /\ AckedInv' /\ \A r : Fresh(r)' <=> Fresh(r)
      /\ \A i \in 1..Len(queue) : queue[i] \in Request => Fresh(queue[i])'
  BY <1>1, <1>5, SamePlaces
<1>7. TailClean' /\ ScanClean'
  BY <1>1 DEF CleanInv, TailClean, Serving, ScanClean
<1>8. MessagesInv' /\ LaidInv'
  BY <1>1 DEF CleanInv, MessagesInv, LaidInv, Batching
<1>9. FreshInv'
  BY <1>1, <1>6 DEF CleanInv, FreshInv
<1>10. ReopenClean'
  <2>1. \A n \in DOMAIN files : (\A m \in DOMAIN files : m <= n) =>
          seen = n + Len(files[n].data)
    BY <1>1, AllRead
  <2> QED
    BY <1>1, <1>5, <2>1 DEF ReopenClean
<1> QED
  BY <1>5, <1>6, <1>7, <1>8, <1>9, <1>10 DEF CleanInv

(* The last segment is reopened, cut after its last whole record.          *)
LEMMA LastFilesClean ==
  ASSUME TypeOK, WalInv, CleanInv, NEW n \in DOMAIN files, \A m \in DOMAIN files : m <= n,
         NEW g, g.data = files[n].data,
         files' = [files EXCEPT ![n] = g], UNCHANGED <<hist, applied, commits>>
  PROVE  /\ FilesClean' /\ StoreClean'
         /\ \A p \in Nat : \A x : Placed(p, x)' <=> Placed(p, x)
<1>1. /\ DOMAIN files' = DOMAIN files
      /\ \A m \in DOMAIN files : files'[m].data = files[m].data
      /\ \A m \in DOMAIN files : m # n => files'[m] = files[m]
  OBVIOUS
<1>2. \A l, m \in DOMAIN files : l < m => l # n
  BY DiskTypes
<1>3. FilesClean'
  BY <1>1, <1>2 DEF CleanInv, FilesClean
<1>4. \A p \in Nat : \A x : Placed(p, x)' <=> Placed(p, x)
  BY <1>1 DEF Placed
<1> QED
  BY <1>3, <1>4 DEF CleanInv, StoreClean

LEMMA ReopenTailClean ==
  ASSUME TypeOK, WalInv, CleanInv, ReopenTail
  PROVE  CleanInv'
<1> USE DEF clientVars, batchVars, storeVars, scanVars
<1> DEFINE n == MaxOf(DOMAIN files)
           g == Truncated(files[n], Len(files[n].data))
<1>1. /\ pc = "reopen" /\ pc' = "receive" /\ files # [m \in {} |-> EmptyFile]
      /\ files' = [files EXCEPT ![n] = g]
      /\ active' = n /\ written' = Len(files[n].data)
      /\ UNCHANGED <<client, reply, queue, batch, bytes, hist, applied, commits,
                     poisoned>>
  BY DEF ReopenTail
<1>2. DOMAIN files # {}
  BY <1>1 DEF TypeOK
<1>3. n \in DOMAIN files /\ \A m \in DOMAIN files : m <= n
  BY <1>2, LastSegment DEF WalInv
<1>4. files[n].data \in Seq(Record) /\ Len(files[n].data) \in Nat
  BY <1>3, DiskTypes
<1>5. g.data = files[n].data /\ g.torn = FALSE
  BY <1>4 DEF Truncated
<1> HIDE DEF n, g
<1>6. /\ FilesClean' /\ StoreClean'
      /\ \A p \in Nat : \A x : Placed(p, x)' <=> Placed(p, x)
  BY <1>1, <1>3, <1>5, LastFilesClean
<1>7. /\ PlacedInv' /\ AckedInv' /\ \A r : Fresh(r)' <=> Fresh(r)
      /\ \A i \in 1..Len(queue) : queue[i] \in Request => Fresh(queue[i])'
  BY <1>1, <1>6, SamePlaces
<1>8. TailClean'
  <2>1. applied = n + Len(files[n].data)
    BY <1>1, <1>3 DEF CleanInv, ReopenClean
  <2>2. applied + 0 = applied
    BY DEF TypeOK
  <2>3. files'[n] = g
    BY <1>1, <1>3
  <2> QED
    BY <1>1, <1>5, <2>1, <2>2, <2>3 DEF CleanInv, TailClean, InFlightLength
<1>9. MessagesInv' /\ LaidInv'
  BY <1>1 DEF CleanInv, MessagesInv, LaidInv, Batching
<1>10. FreshInv'
  BY <1>1, <1>7 DEF CleanInv, FreshInv
<1>11. ScanClean' /\ ReopenClean'
  BY <1>1 DEF ScanClean, ReopenClean
<1> QED
  BY <1>6, <1>7, <1>8, <1>9, <1>10, <1>11 DEF CleanInv

LEMMA ReopenFailsClean ==
  ASSUME TypeOK, WalInv, CleanInv, ReopenFails
  PROVE  CleanInv'
<1> USE DEF clientVars, batchVars, tailVars, storeVars
<1>1. /\ pc = "reopen" /\ pc' = "failed"
      /\ UNCHANGED <<client, reply, queue, batch, bytes, hist, applied, commits,
                     active, written, poisoned>>
  BY DEF ReopenFails, OpenFailed
<1>2. /\ FilesClean' /\ StoreClean'
      /\ \A p \in Nat : \A x : Placed(p, x)' <=> Placed(p, x)
  <2>1. CASE DOMAIN files = {}
    <3>1. files' = files
      BY <2>1 DEF ReopenFails
    <3> QED
      BY <1>1, <3>1, DiskKept DEF CleanInv, StoreClean, FilesClean
  <2>2. CASE DOMAIN files # {}
    <3> DEFINE n == MaxOf(DOMAIN files)
    <3>1. PICK g \in HalfTruncated(files[n], Len(files[n].data)) :
            files' = [files EXCEPT ![n] = g]
      BY <2>2 DEF ReopenFails
    <3>2. n \in DOMAIN files /\ \A m \in DOMAIN files : m <= n
      BY <2>2, LastSegment DEF WalInv
    <3>3. files[n] \in File /\ files[n].data \in Seq(Record)
      BY <3>2, DiskTypes
    <3>4. g.data = files[n].data
      <4>1. SubSeq(files[n].data, 1, Len(files[n].data)) = files[n].data
        BY <3>3
      <4> QED
        BY <3>1, <3>3, <4>1 DEF HalfTruncated, File
    <3> HIDE DEF n
    <3> QED
      BY <1>1, <3>1, <3>2, <3>4, LastFilesClean
  <2> QED
    BY <2>1, <2>2
<1>3. /\ PlacedInv' /\ AckedInv' /\ \A r : Fresh(r)' <=> Fresh(r)
      /\ \A i \in 1..Len(queue) : queue[i] \in Request => Fresh(queue[i])'
  BY <1>1, <1>2, SamePlaces
<1>4. TailClean' /\ ScanClean' /\ ReopenClean'
  BY <1>1 DEF CleanInv, TailClean, Serving, ScanClean, ReopenClean
<1>5. MessagesInv' /\ LaidInv'
  BY <1>1 DEF CleanInv, MessagesInv, LaidInv, Batching
<1>6. FreshInv'
  BY <1>1, <1>3 DEF CleanInv, FreshInv
<1> QED
  BY <1>2, <1>3, <1>4, <1>5, <1>6 DEF CleanInv

LEMMA CreateFirstClean ==
  ASSUME TypeOK, WalInv, CleanInv, CreateFirst
  PROVE  CleanInv'
<1> USE DEF clientVars, batchVars, storeVars, scanVars
<1>1. /\ pc = "reopen" /\ pc' = "receive" /\ DOMAIN files = {}
      /\ files' = [n \in {0} |-> EmptyFile] /\ active' = 0 /\ written' = 0
      /\ UNCHANGED <<client, reply, queue, batch, bytes, hist, applied, commits,
                     poisoned>>
  BY DEF CreateFirst
<1>2. applied = 0
  BY <1>1 DEF WalInv, ReopenInv
<1>3. /\ DOMAIN files' = {0} /\ Len(files'[0].data) = 0 /\ ~files'[0].torn
  BY <1>1 DEF EmptyFile
<1>4. \A p \in Nat : \A x : Placed(p, x)' <=> Placed(p, x)
  BY <1>1, <1>3 DEF Placed
<1>5. /\ PlacedInv' /\ AckedInv' /\ \A r : Fresh(r)' <=> Fresh(r)
      /\ \A i \in 1..Len(queue) : queue[i] \in Request => Fresh(queue[i])'
  BY <1>1, <1>4, SamePlaces
<1>6. StoreClean' /\ FilesClean'
  <2>1. \A c \in commits : 0 <= c.applied
    BY DiskTypes
  <2> QED
    BY <1>1, <1>3, <2>1 DEF CleanInv, StoreClean, FilesClean
<1>7. TailClean'
  BY <1>1, <1>2, <1>3 DEF CleanInv, TailClean, InFlightLength
<1>8. MessagesInv' /\ LaidInv'
  BY <1>1 DEF CleanInv, MessagesInv, LaidInv, Batching
<1>9. FreshInv'
  BY <1>1, <1>5 DEF CleanInv, FreshInv
<1>10. ScanClean' /\ ReopenClean'
  BY <1>1 DEF ScanClean, ReopenClean
<1> QED
  BY <1>5, <1>6, <1>7, <1>8, <1>9, <1>10 DEF CleanInv

-----------------------------------------------------------------------------
(* The invariant.                                                          *)

LEMMA InitCleanInv == Init => CleanInv
<1> SUFFICES ASSUME Init PROVE CleanInv
  OBVIOUS
<1>1. /\ client = [m \in Message |-> "idle"] /\ queue = <<>> /\ batch = <<>> /\ bytes = <<>>
      /\ pc = "down" /\ poisoned = FALSE /\ files = [n \in {} |-> EmptyFile]
      /\ hist = <<>> /\ applied = 0 /\ commits = {[len |-> 0, applied |-> 0]}
  BY DEF Init
<1>2. \A p, x : ~Placed(p, x)
  BY <1>1 DEF Placed
<1>3. \A r : Fresh(r)
  BY <1>2 DEF Fresh
<1>4. PlacedInv
  BY <1>2 DEF PlacedInv
<1>5. StoreClean /\ FilesClean
  BY <1>1 DEF StoreClean, FilesClean
<1>6. TailClean /\ LaidInv /\ ScanClean /\ ReopenClean
  BY <1>1 DEF TailClean, LaidInv, ScanClean, ReopenClean, Serving, Batching
<1>7. MessagesInv
  BY <1>1 DEF MessagesInv
<1>8. FreshInv
  BY <1>1, <1>3 DEF FreshInv
<1>9. AckedInv
  BY <1>1 DEF AckedInv, Message
<1> QED
  BY <1>4, <1>5, <1>6, <1>7, <1>8, <1>9 DEF CleanInv

(* Calls that do not fail, and a segment that is never poisoned.           *)
LEMMA NeverTaken ==
  ASSUME CleanFaults, CleanInv
  PROVE  ~(RewindFails \/ SyncFails \/ ApplyFails \/ ReplayFails \/ AppendPoisoned)
<1>1. "sync" \notin Faults /\ "rewind" \notin Faults /\ "apply" \notin Faults
  BY DEF CleanFaults
<1>2. ~poisoned
  BY DEF CleanInv, TailClean
<1> QED
  BY <1>1, <1>2 DEF RewindFails, SyncFails, ApplyFails, ReplayFails, AppendPoisoned, Fault

LEMMA CleanInvStep ==
  ASSUME CleanFaults, TypeOK, WalInv, CleanInv, [Next]_vars
  PROVE  CleanInv'
<1>1. TypeOK' /\ WalInv'
  BY WalInvStep
<1>2. CASE UNCHANGED vars
  <2>1. QuietClean
    BY <1>2 DEF vars, clientVars, batchVars, tailVars, storeVars, scanVars, QuietClean,
       CleanInv, TailClean
  <2> QED
    BY <2>1, QuietCleanStep
<1>3. CASE ClientStep
  <2>1. ASSUME NEW r \in Request, SendWrite(r) PROVE CleanInv'
    BY <2>1, SendClean DEF SendWrite, Message
  <2>2. ASSUME NEW c \in Checkpoint, SendCheckpoint(c) PROVE CleanInv'
    BY <2>2, SendClean DEF SendCheckpoint, Message
  <2> QED
    BY <1>3, <2>1, <2>2, QuietActions DEF ClientStep
<1>4. CASE TakeStep
  BY <1>4, TakeClean, QuietActions DEF TakeStep
<1>5. CASE RetireStep
  BY <1>1, <1>5, NeverTaken, QuietActions, RollOverClean, AppendBytesClean,
     AppendFailsClean, RewindClean, SyncClean, ApplyClean, AnswerOkClean,
     AnswerErrorClean, AnsweredClean
     DEF RetireStep
<1>6. CASE CompactStep
  BY <1>1, <1>6, QuietActions, FlushStoreClean, RemoveSegmentClean DEF CompactStep
<1>7. CASE Kill \/ PowerLoss
  BY <1>1, <1>7, CrashKeepsClean
<1>8. CASE OpenStep
  BY <1>8, NeverTaken, QuietActions, ScanSegmentClean, ReplayClean, ReopenTailClean,
     CreateFirstClean, ReopenFailsClean
     DEF OpenStep
<1>9. CASE Idle
  BY <1>9, QuietActions
<1> QED
  BY <1>2, <1>3, <1>4, <1>5, <1>6, <1>7, <1>8, <1>9 DEF Next, ThreadStep

(* Where no flush, rewind or apply fails, the log's positions are the      *)
(* store's: the strengthening holds in every state.                        *)
THEOREM CleanInvariant == ASSUME CleanFaults PROVE Spec => [](TypeOK /\ WalInv /\ CleanInv)
<1>1. Init => TypeOK /\ WalInv /\ CleanInv
  BY InitWalInv, InitCleanInv
<1>2. TypeOK /\ WalInv /\ CleanInv /\ [Next]_vars => TypeOK' /\ WalInv' /\ CleanInv'
  BY WalInvStep, CleanInvStep
<1> QED
  BY <1>1, <1>2, PTL DEF Spec

-----------------------------------------------------------------------------
(* What follows from it.                                                   *)

(* The revisions a caller was told stay those of its mutations, through    *)
(* every crash, replay and compaction of wal.rs and kv.rs, unless a flush, *)
(* an apply or a rewind fails.                                             *)
THEOREM RevisionsKept == ASSUME CleanFaults PROVE Spec => []RevisionsHold
<1>1. TypeOK /\ WalInv /\ CleanInv /\ AckedVisible => RevisionsHold
  <2> SUFFICES ASSUME TypeOK, WalInv, CleanInv, AckedVisible, pc \in Serving,
                      NEW r \in Request, client[r] = "acked", NEW i \in 1..Width[r]
               PROVE  reply[r][i] \in 1..Len(hist) /\ hist[reply[r][i]] = <<r, i>>
    BY DEF RevisionsHold
  <2>1. PICK k \in 1..Len(hist) : hist[k] = <<r, i>>
    BY DEF AckedVisible, Shown
  <2>2. k \in Nat /\ Placed(k, <<r, i>>)
    BY <2>1 DEF Placed
  <2>3. Placed(reply[r][i], <<r, i>>) /\ <<r, i>> \in Record /\ Len(reply[r]) = Width[r]
    BY RecordType DEF CleanInv, AckedInv
  <2>4. reply[r][i] \in Nat
    <3>1. reply[r] \in Seq(Nat)
      BY DEF TypeOK
    <3>2. i \in 1..Len(reply[r])
      BY <2>3
    <3> QED
      BY <3>1, <3>2
  <2>5. reply[r][i] = k
    BY <2>2, <2>3, <2>4 DEF CleanInv, PlacedInv
  <2> QED
    BY <2>1, <2>5
<1> QED
  BY <1>1, CleanInvariant, Visibility, PTL

(* Recovery replays from the applied position exactly: no mutation is in   *)
(* the store twice.                                                        *)
THEOREM NothingAppliedTwice == ASSUME CleanFaults PROVE Spec => []AppliedOnce
<1>1. TypeOK /\ CleanInv => AppliedOnce
  <2> SUFFICES ASSUME TypeOK, CleanInv, NEW j \in 1..Len(hist), NEW k \in 1..Len(hist),
                      hist[j] = hist[k]
               PROVE  j = k
    BY DEF AppliedOnce
  <2>1. j \in Nat /\ k \in Nat /\ hist[j] \in Record
    BY DiskTypes
  <2>2. Placed(j, hist[j]) /\ Placed(k, hist[j])
    BY DEF Placed
  <2> QED
    BY <2>1, <2>2 DEF CleanInv, PlacedInv
<1> QED
  BY <1>1, CleanInvariant, PTL

(* A write whose caller was told it failed leaves nothing in the log that  *)
(* a later opening could replay, so it never shows.                        *)
THEOREM RefusedNeverShows == ASSUME CleanFaults PROVE Spec => []RefusedInvisible
<1>1. TypeOK /\ CleanInv => RefusedInvisible
  <2> SUFFICES ASSUME TypeOK, CleanInv, NEW r \in Request, client[r] = "refused",
                      NEW i \in 1..Width[r], NEW k \in 1..Len(hist), hist[k] = <<r, i>>
               PROVE  FALSE
    BY DEF RefusedInvisible, Shown
  <2>1. Fresh(r)
    BY DEF CleanInv, FreshInv
  <2>2. i \in Nat /\ k \in Nat
    BY MessagesAssumption
  <2>3. Placed(k, <<r, i>>)
    BY DEF Placed
  <2> QED
    BY <2>1, <2>2, <2>3 DEF Fresh
<1> QED
  BY <1>1, CleanInvariant, PTL

(* roll_over names the new segment by the applied position, which no       *)
(* segment begins at: create_new does not refuse it.                       *)
THEOREM RollOverNamesFree == ASSUME CleanFaults PROVE Spec => []NamesFree
<1>1. TypeOK /\ WalInv /\ CleanInv => NamesFree
  BY FullAbove DEF NamesFree
<1> QED
  BY <1>1, CleanInvariant, PTL

(* The last segment that begins below a position of the store past c's     *)
(* holds it, synced.                                                       *)
LEMMA SeenKept ==
  ASSUME TypeOK, WalInv, CleanInv, pc \in Serving,
         NEW k \in 1..Len(hist), NEW c \in commits, c.len < k
  PROVE  ReplayedFrom(c, hist[k])
<1> DEFINE S == {k - n : n \in {m \in DOMAIN files : m < k}}
           n == k - MinOf(S)
<1>1. /\ c.len \in Nat /\ c.applied = c.len /\ k \in Nat /\ k <= applied /\ applied \in Nat
      /\ hist[k] \in Record
      /\ \A m \in DOMAIN files : m \in Nat /\ Len(files[m].data) \in Nat
           /\ files[m].synced \in Nat
  BY DiskTypes DEF CleanInv, StoreClean
<1>2. /\ active \in DOMAIN files /\ active \in Nat
      /\ files[active].synced \in Nat
      /\ files[active].synced <= Len(files[active].data)
      /\ applied <= active + files[active].synced
      /\ \A m \in DOMAIN files : m # active => m < active
  BY TailFacts DEF WalInv, FilesInv
<1>3. S # {}
  <2>1. DOMAIN files \in SUBSET Nat /\ DOMAIN files # {}
    BY <1>1, <1>2
  <2>2. MinOf(DOMAIN files) \in DOMAIN files
        /\ \A m \in DOMAIN files : MinOf(DOMAIN files) <= m
    BY <2>1, MinOfProperties
  <2>3. MinOf(DOMAIN files) <= c.applied
    BY <2>2 DEF CleanInv, FilesClean
  <2>4. MinOf(DOMAIN files) < k
    BY <1>1, <2>2, <2>3
  <2> QED
    BY <2>2, <2>4
<1>4. S \in SUBSET Nat
  BY <1>1
<1>5. MinOf(S) \in S /\ \A d \in S : MinOf(S) <= d
  BY <1>3, <1>4, MinOfProperties
<1>6. PICK m \in DOMAIN files : m < k /\ MinOf(S) = k - m
  BY <1>5
<1>7. n = m
  BY <1>1, <1>6
<1>8. /\ n \in DOMAIN files /\ n \in Nat /\ n < k
      /\ \A l \in DOMAIN files : l < k => l <= n
  <2>1. \A l \in DOMAIN files : l < k => k - l \in S
    OBVIOUS
  <2>2. \A l \in DOMAIN files : l < k => k - m <= k - l
    BY <1>5, <1>6, <2>1
  <2>3. \A l \in DOMAIN files : l < k => l <= m
    BY <1>1, <2>2
  <2> QED
    BY <1>1, <1>6, <1>7, <2>3
<1> HIDE DEF S, n
<1>9. k <= n + files[n].synced /\ files[n].synced <= Len(files[n].data)
  <2>1. CASE n = active
    BY <1>1, <1>2, <2>1
  <2>2. CASE n # active
    <3>1. n < active
      BY <1>2, <1>8, <2>2
    <3>2. /\ files[n].data # <<>> /\ n + Len(files[n].data) \in DOMAIN files
          /\ files[n].synced = Len(files[n].data) /\ files[n].data \in Seq(Record)
      BY <1>2, <1>8, <3>1, DiskTypes DEF CleanInv, FilesClean
    <3>3. Len(files[n].data) > 0 /\ Len(files[n].data) \in Nat
      BY <3>2
    <3>4. ~(n + Len(files[n].data) < k)
      BY <1>8, <3>2, <3>3
    <3> QED
      BY <1>1, <1>8, <3>2, <3>3, <3>4
  <2> QED
    BY <2>1, <2>2
<1>10. k - n \in 1..files[n].synced /\ k - n \in 1..Len(files[n].data) /\ n + (k - n) = k
  BY <1>1, <1>8, <1>9
<1>11. Placed(k, files[n].data[k - n]) /\ files[n].data[k - n] \in Record
  <2>1. files[n].data \in Seq(Record)
    BY <1>8, DiskTypes
  <2>2. files[n].data[k - n] \in Record
    BY <1>10, <2>1
  <2>3. Placed(k, files[n].data[k - n])
    BY <1>8, <1>10 DEF Placed
  <2> QED
    BY <2>2, <2>3
<1>12. Placed(k, hist[k])
  BY DEF Placed
<1>13. files[n].data[k - n] = hist[k]
  BY <1>1, <1>11, <1>12 DEF CleanInv, PlacedInv
<1>14. \A l \in DOMAIN files : l > n => l > c.applied
  BY <1>1, <1>8
<1>15. n + (k - n) > c.applied
  BY <1>1, <1>10
<1> QED
  BY <1>8, <1>10, <1>13, <1>14, <1>15 DEF ReplayedFrom

(* What an open log shows, acknowledged or not, no crash takes back: the   *)
(* commit the store falls to holds it, or recovery replays it.             *)
THEOREM ShownSurvives == ASSUME CleanFaults PROVE Spec => []SeenSurvives
<1>1. TypeOK /\ WalInv /\ CleanInv => SeenSurvives
  <2> SUFFICES ASSUME TypeOK, WalInv, CleanInv, pc \in Serving,
                      NEW k \in 1..Len(hist), NEW c \in commits
               PROVE  HeldAt(c, hist[k]) \/ ReplayedFrom(c, hist[k])
    BY DEF SeenSurvives
  <2>1. c.len \in Nat /\ k \in Nat
    BY DiskTypes
  <2>2. CASE k <= c.len
    BY <2>1, <2>2 DEF HeldAt
  <2>3. CASE c.len < k
    BY <2>3, SeenKept
  <2> QED
    BY <2>1, <2>2, <2>3
<1> QED
  BY <1>1, CleanInvariant, PTL

(* What a power loss leaves of a segment that is whole and synced is whole *)
(* and of the same length; of any segment it leaves what was synced.       *)
LEMMA SurvivorParts ==
  ASSUME NEW f \in File, f.synced <= Len(f.data), NEW g \in Survivors(f)
  PROVE  /\ Len(g.data) \in Nat /\ f.synced <= Len(g.data)
         /\ f.synced = Len(f.data) /\ ~f.torn => ~g.torn
<1>1. /\ f.data \in Seq(Record) /\ Len(f.data) \in Nat
      /\ f.synced \in Nat /\ f.torn \in BOOLEAN
  BY FileParts
<1>2. CASE g \in { CutTo(f, k, FALSE) : k \in f.synced..Len(f.data) }
  <2>1. PICK k \in f.synced..Len(f.data) : g = CutTo(f, k, FALSE)
    BY <1>2
  <2>2. g.data = SubSeq(f.data, 1, k) /\ g.torn = FALSE
    BY <2>1 DEF CutTo
  <2>3. k \in Nat /\ f.synced <= k /\ k <= Len(f.data)
    BY <1>1, <2>1
  <2>4. Len(SubSeq(f.data, 1, k)) = k
    BY <1>1, <2>3
  <2>5. Len(g.data) = k
    BY <2>2, <2>4
  <2> QED
    BY <2>2, <2>3, <2>5
<1>3. CASE g \notin { CutTo(f, k, FALSE) : k \in f.synced..Len(f.data) }
  <2>1. PICK k \in f.synced..(IF f.torn THEN Len(f.data) ELSE Len(f.data) - 1) :
          g = CutTo(f, k, TRUE)
    BY <1>3, Zenon DEF Survivors
  <2>2. g.data = SubSeq(f.data, 1, k)
    BY <2>1 DEF CutTo
  <2>3. k \in Nat /\ f.synced <= k /\ k <= Len(f.data)
    BY <1>1, <2>1
  <2>4. ~(f.synced = Len(f.data) /\ ~f.torn)
    BY <1>1, <2>1
  <2>5. Len(SubSeq(f.data, 1, k)) = k
    BY <1>1, <2>3
  <2>6. Len(g.data) = k
    BY <2>2, <2>5
  <2> QED
    BY <2>3, <2>4, <2>6
<1> QED
  BY <1>2, <1>3

(* An open log opens again after a crash, whatever the power takes of its  *)
(* segments and whichever commit the store falls back to: recovery finds   *)
(* no torn segment before the last, and none of what was applied missing.  *)
THEOREM OpensAgain == ASSUME CleanFaults PROVE Spec => []ReopensAfterCrash
<1>1. TypeOK /\ WalInv /\ CleanInv => ReopensAfterCrash
  <2> SUFFICES ASSUME TypeOK, WalInv, CleanInv, pc \in Serving,
                      NEW n \in DOMAIN files, NEW f \in Survivors(files[n])
               PROVE  LET dir == [files EXCEPT ![n] = f] IN
                      /\ ~EndsMidRecord(dir, n)
                      /\ n = MaxOf(DOMAIN dir) =>
                           \A c \in commits : n + Len(dir[n].data) >= c.applied
    BY DEF ReopensAfterCrash
  <2> DEFINE dir == [files EXCEPT ![n] = f]
  <2>1. /\ dir[n] = f /\ DOMAIN dir = DOMAIN files
        /\ files[n] \in File /\ n \in Nat /\ Len(files[n].data) \in Nat
        /\ files[n].synced <= Len(files[n].data)
    BY DiskTypes DEF WalInv, FilesInv
  <2>2. /\ Len(f.data) \in Nat /\ files[n].synced <= Len(f.data)
        /\ files[n].synced = Len(files[n].data) /\ ~files[n].torn => ~f.torn
    BY <2>1, SurvivorParts
  <2>3. /\ active \in DOMAIN files /\ active \in Nat /\ applied \in Nat
        /\ files[active].synced \in Nat /\ applied <= active + files[active].synced
        /\ \A m \in DOMAIN files : m # active => m < active
    BY TailFacts
  <2>4. MaxOf(DOMAIN files) = active
    <3>1. MaxOf(DOMAIN files) \in DOMAIN files /\ active <= MaxOf(DOMAIN files)
      BY <2>3, LastSegment DEF WalInv
    <3> QED
      BY <2>3, <3>1, DiskTypes
  <2>5. CASE n = active
    <3>1. applied <= n + Len(f.data)
      BY <2>1, <2>2, <2>3, <2>5
    <3>2. \A c \in commits : c.applied \in Nat /\ c.applied <= applied
      BY DiskTypes DEF WalInv, StoreInv
    <3>3. \A c \in commits : n + Len(f.data) >= c.applied
      BY <2>1, <2>2, <2>3, <3>1, <3>2
    <3> QED
      BY <2>1, <2>4, <2>5, <3>3 DEF EndsMidRecord
  <2>6. CASE n # active
    <3>1. files[n].synced = Len(files[n].data) /\ ~files[n].torn
      BY <2>3, <2>6 DEF CleanInv, FilesClean
    <3>2. ~f.torn
      BY <2>2, <3>1
    <3> QED
      BY <2>1, <2>4, <2>6, <3>2 DEF EndsMidRecord
  <2> QED
    BY <2>5, <2>6
<1> QED
  BY <1>1, CleanInvariant, PTL
=============================================================================
