----------------------------- MODULE WalProofs ------------------------------
(***************************************************************************)
(* Theorems about Wal for all values of its constants: its type, and that  *)
(* no acknowledged write is lost or hidden, whatever call fails and        *)
(* whenever the process or the machine stops.                              *)
(***************************************************************************)
EXTENDS WalInvariant, WellFoundedInduction, TLAPS

(* A nonempty set of numbers has a least one, which MinOf picks.           *)
LEMMA MinOfProperties ==
  ASSUME NEW S \in SUBSET Nat, S # {}
  PROVE  /\ MinOf(S) \in S
         /\ \A m \in S : MinOf(S) <= m
<1> DEFINE R == { p \in Nat \X Nat : p[1] < p[2] }
<1>1. IsWellFoundedOn(R, Nat)
  BY NatLessThanWellFounded, Zenon DEF OpToRel
<1>2. PICK x \in S : \A y \in S : <<y, x>> \notin R
  BY <1>1, WFMin
<1>3. ASSUME NEW y \in S, y < x PROVE FALSE
  <2>1. <<y, x>> \in R  BY <1>3
  <2>. QED  BY <1>2, <2>1
<1> HIDE DEF R
<1>4. \A y \in S : x <= y  BY <1>3
<1>. QED  BY <1>4 DEF MinOf

(* MaxOf picks the largest member of a set that has one.                   *)
LEMMA MaxOfProperties ==
  ASSUME NEW S \in SUBSET Nat, \E n \in S : \A m \in S : m <= n
  PROVE  /\ MaxOf(S) \in S
         /\ \A m \in S : m <= MaxOf(S)
BY DEF MaxOf

(* What is left of a sequence behind its first k elements.                 *)
LEMMA SuffixParts ==
  ASSUME NEW S, NEW s \in Seq(S), NEW k \in Nat
  PROVE  /\ SubSeq(s, k + 1, Len(s)) \in Seq(S)
         /\ k < Len(s) => Len(SubSeq(s, k + 1, Len(s))) = Len(s) - k
         /\ \A p \in 1..Len(SubSeq(s, k + 1, Len(s))) :
              SubSeq(s, k + 1, Len(s))[p] = s[k + p]
<1>. DEFINE u == SubSeq(s, k + 1, Len(s))
<1>1. CASE k < Len(s)
  <2>1. u \in Seq(S)  BY <1>1
  <2>2. Len(u) = Len(s) - k  BY <1>1
  <2>3. ASSUME NEW p \in 1..Len(u) PROVE u[p] = s[k + p]
    <3>1. p \in 1..Len(s) - k  BY <2>2
    <3>. QED  BY <1>1, <3>1
  <2>. QED  BY <2>1, <2>2, <2>3
<1>2. CASE ~(k < Len(s))
  <2>1. u = << >>  BY <1>2
  <2>. QED  BY <1>2, <2>1
<1>. QED  BY <1>1, <1>2

(* What the file operations leave is a file again.                         *)
LEMMA FileParts ==
  ASSUME NEW f \in File
  PROVE  /\ f.data \in Seq(Record)
         /\ f.synced \in Nat
         /\ f.torn \in BOOLEAN
         /\ \A k \in 0..Len(f.data) : SubSeq(f.data, 1, k) \in Seq(Record)
<1>1. /\ f.data \in Seq(Record)
      /\ f.synced \in Nat
      /\ f.torn \in BOOLEAN
  BY DEF File
<1>2. ASSUME NEW k \in 0..Len(f.data) PROVE SubSeq(f.data, 1, k) \in Seq(Record)
  BY <1>1
<1>. QED  BY <1>1, <1>2

LEMMA WrittenType ==
  ASSUME NEW f \in File, NEW s \in Seq(Record)
  PROVE  Written(f, s) \in File
<1>1. f.data \o s \in Seq(Record)  BY FileParts
<1>. QED  BY <1>1 DEF File, Written

LEMMA PartlyWrittenType ==
  ASSUME NEW f \in File, NEW s \in Seq(Record)
  PROVE  PartlyWritten(f, s) \subseteq File
<1>. SUFFICES ASSUME NEW g \in PartlyWritten(f, s) PROVE g \in File
  OBVIOUS
<1>1. ASSUME NEW k \in 0..Len(s) PROVE f.data \o SubSeq(s, 1, k) \in Seq(Record)
  <2>1. SubSeq(s, 1, k) \in Seq(Record)  OBVIOUS
  <2>. QED  BY FileParts, <2>1
<1>2. PICK k \in 0..Len(s) :
        \/ g = [f EXCEPT !.data = @ \o SubSeq(s, 1, k)]
        \/ g = [f EXCEPT !.data = @ \o SubSeq(s, 1, k), !.torn = TRUE]
  <2>1. \A k \in 0..(Len(s) - 1) : k \in 0..Len(s)  OBVIOUS
  <2>. QED  BY <2>1, Zenon DEF PartlyWritten
<1>. QED  BY <1>1, <1>2 DEF File

LEMMA SyncedType ==
  ASSUME NEW f \in File
  PROVE  Synced(f) \in File
BY FileParts DEF File, Synced

LEMMA TruncatedType ==
  ASSUME NEW f \in File, NEW len \in 0..Len(f.data)
  PROVE  /\ Truncated(f, len) \in File
         /\ HalfTruncated(f, len) \subseteq File
<1>1. SubSeq(f.data, 1, len) \in Seq(Record)  BY FileParts
<1>2. len \in Nat  BY FileParts
<1>3. Truncated(f, len) \in File  BY <1>1, <1>2 DEF File, Truncated
<1>4. HalfTruncated(f, len) \subseteq File  BY <1>1 DEF File, HalfTruncated
<1>. QED  BY <1>3, <1>4

LEMMA SurvivorsType ==
  ASSUME NEW f \in File
  PROVE  Survivors(f) \subseteq File
<1>. SUFFICES ASSUME NEW g \in Survivors(f) PROVE g \in File
  OBVIOUS
<1>1. PICK k \in f.synced..Len(f.data), t \in BOOLEAN : g = CutTo(f, k, t)
  <2>1. \A k \in f.synced..(Len(f.data) - 1) : k \in f.synced..Len(f.data)
    BY FileParts
  <2>. QED  BY <2>1, Zenon DEF Survivors
<1>2. k \in Nat /\ k \in 0..Len(f.data)  BY FileParts
<1>. QED  BY FileParts, <1>1, <1>2 DEF File, CutTo

(* A concatenation holds both parts, the second after the first.           *)
LEMMA ConcatParts ==
  ASSUME NEW S, NEW s \in Seq(S), NEW t \in Seq(S)
  PROVE  /\ s \o t \in Seq(S)
         /\ Len(s \o t) = Len(s) + Len(t)
         /\ \A i \in 1..Len(s) : (s \o t)[i] = s[i]
         /\ \A i \in 1..Len(t) : (s \o t)[Len(s) + i] = t[i]
OBVIOUS

(* A caller's status stays one of Status.                                  *)
LEMMA ToldType ==
  ASSUME client \in [Message -> Status], NEW m, NEW status \in Status
  PROVE  Told(m, status) \in [Message -> Status]
BY DEF Told

LEMMA RecordsOfType ==
  ASSUME NEW r \in Request
  PROVE  RecordsOf(r) \in Seq(Record)
BY MessagesAssumption DEF RecordsOf, Record

LEMMA EmptyFileType == EmptyFile \in File
BY DEF EmptyFile, File

LEMMA EmptyRecords == <<>> \in Seq(Record)
OBVIOUS

(* Taking a message leaves the queue and the batch in their types.         *)
LEMMA TakeTypes ==
  ASSUME TypeOK, Take
  PROVE  /\ queue' \in Seq(Message)
         /\ batch' \in Seq(Request)
         /\ bytes' \in Seq(Record)
         /\ requested' \in Checkpoint \cup {None}
<1>1. queue # <<>> /\ queue \in Seq(Message)  BY DEF Take, TypeOK
<1>2. Head(queue) \in Message /\ queue' \in Seq(Message)  BY <1>1 DEF Take
<1>3. /\ batch \in Seq(Request) /\ bytes \in Seq(Record)
      /\ requested \in Checkpoint \cup {None}
  BY DEF TypeOK
<1>4. CASE Head(queue) \in Request
  <2>1. RecordsOf(Head(queue)) \in Seq(Record)  BY <1>4, RecordsOfType
  <2>2. bytes' = bytes \o RecordsOf(Head(queue))  BY <1>4 DEF Take
  <2>3. bytes' \in Seq(Record)  BY <1>3, <2>1, <2>2
  <2>4. batch' = Append(batch, Head(queue)) /\ requested' = requested
    BY <1>4 DEF Take
  <2>. QED  BY <1>2, <1>3, <1>4, <2>3, <2>4
<1>5. CASE Head(queue) \notin Request
  BY <1>2, <1>3, <1>5 DEF Take, Message
<1>. QED  BY <1>4, <1>5

(* An applied batch leaves a store of the right type.                      *)
LEMMA StoreApplyType ==
  ASSUME TypeOK, NEW s \in Seq(Record), NEW upto \in Nat, StoreApply(s, upto)
  PROVE  /\ hist' \in Seq(Record)
         /\ applied' \in Nat
         /\ commits' \subseteq Commit
<1>1. hist' \in Seq(Record)  BY DEF StoreApply, TypeOK
<1>2. Len(hist) \in Nat /\ Len(s) \in Nat  BY DEF TypeOK
<1>. QED  BY <1>1, <1>2 DEF StoreApply, Commit, TypeOK

(* A crash falls back to a commit, a prefix of the store.                  *)
LEMMA FallType ==
  ASSUME TypeOK, WalInv,
         \E c \in commits :
           StoreFallsTo(c) /\ commits' \subseteq commits
  PROVE  /\ hist' \in Seq(Record)
         /\ applied' \in Nat
         /\ commits' \subseteq Commit
<1>1. PICK c \in commits : StoreFallsTo(c) /\ commits' \subseteq commits
  OBVIOUS
<1>2. c.len \in Nat /\ c.applied \in Nat /\ c.len <= Len(hist)
  BY DEF WalInv, StoreInv, TypeOK, Commit
<1>3. SubSeq(hist, 1, c.len) \in Seq(Record)
  BY <1>2 DEF TypeOK
<1>. QED  BY <1>1, <1>2, <1>3 DEF StoreFallsTo, TypeOK

(* Where there are segments, MaxOf picks the last one.                     *)
LEMMA LastSegment ==
  ASSUME TypeOK, FilesInv, DOMAIN files # {}
  PROVE  /\ MaxOf(DOMAIN files) \in DOMAIN files
         /\ \A n \in DOMAIN files : n <= MaxOf(DOMAIN files)
BY MaxOfProperties DEF TypeOK, FilesInv

(* Every step keeps the variables in their types.                          *)
LEMMA TypeStep ==
  ASSUME TypeOK, WalInv, [Next]_vars
  PROVE  TypeOK'
<1>1. ASSUME NEW r \in Request, SendWrite(r) PROVE TypeOK'
  <2>1. client' \in [Message -> Status]
    BY <1>1 DEF SendWrite, Message, Status, TypeOK
  <2>2. queue' \in Seq(Message)
    BY <1>1 DEF SendWrite, Message, TypeOK
  <2>. QED  BY <1>1, <2>1, <2>2 DEF TypeOK, SendWrite, clientVars, batchVars, tailVars, storeVars, scanVars
<1>2. ASSUME NEW c \in Checkpoint, SendCheckpoint(c) PROVE TypeOK'
  <2>1. client' \in [Message -> Status]
    BY <1>2 DEF SendCheckpoint, Message, Status, TypeOK
  <2>2. queue' \in Seq(Message)
    BY <1>2 DEF SendCheckpoint, Message, TypeOK
  <2>. QED  BY <1>2, <2>1, <2>2 DEF TypeOK, SendCheckpoint, clientVars, batchVars, tailVars, storeVars, scanVars
<1>3. ASSUME NEW m \in Message, Cancel(m) PROVE TypeOK'
  <2>1. client' \in [Message -> Status]
    BY <1>3 DEF Cancel, Message, Status, TypeOK
  <2>. QED  BY <1>3, <2>1 DEF TypeOK, Cancel, clientVars, batchVars, tailVars, storeVars, scanVars
<1>4. ASSUME Shutdown PROVE TypeOK'
  <2>1. closing' \in BOOLEAN
    BY <1>4 DEF Shutdown, TypeOK
  <2>2. restarts' \in Nat
    BY <1>4 DEF Shutdown, TypeOK
  <2>. QED  BY <1>4, <2>1, <2>2 DEF TypeOK, Shutdown, clientVars, batchVars, tailVars, storeVars, scanVars
<1>5. ASSUME Receive PROVE TypeOK'
  <2>1. /\ queue' \in Seq(Message) /\ batch' \in Seq(Request)
        /\ bytes' \in Seq(Record) /\ requested' \in Checkpoint \cup {None}
    BY <1>5, TakeTypes DEF Receive
  <2>2. pc' \in Serving \cup Opening \cup {"down", "closed", "failed"}
    BY <1>5 DEF Receive, TypeOK, Serving, Opening
  <2>. QED  BY <1>5, <2>1, <2>2 DEF TypeOK, Receive, Take, clientVars, batchVars, tailVars, storeVars, scanVars
<1>6. ASSUME Drain PROVE TypeOK'
  <2>1. /\ queue' \in Seq(Message) /\ batch' \in Seq(Request)
        /\ bytes' \in Seq(Record) /\ requested' \in Checkpoint \cup {None}
    BY <1>6, TakeTypes DEF Drain
  <2>2. pc' \in Serving \cup Opening \cup {"down", "closed", "failed"}
    BY <1>6 DEF Drain, TypeOK, Serving, Opening
  <2>. QED  BY <1>6, <2>1, <2>2 DEF TypeOK, Drain, Take, clientVars, batchVars, tailVars, storeVars, scanVars
<1>7. ASSUME Drained PROVE TypeOK'
  <2>1. pc' \in Serving \cup Opening \cup {"down", "closed", "failed"}
    BY <1>7 DEF Drained, TypeOK, Serving, Opening
  <2>. QED  BY <1>7, <2>1 DEF TypeOK, Drained, clientVars, batchVars, tailVars, storeVars, scanVars
<1>8. ASSUME ThreadExit PROVE TypeOK'
  <2>1. pc' \in Serving \cup Opening \cup {"down", "closed", "failed"}
    BY <1>8 DEF ThreadExit, TypeOK, Serving, Opening
  <2>. QED  BY <1>8, <2>1 DEF TypeOK, ThreadExit, clientVars, batchVars, tailVars, storeVars, scanVars
<1>9. ASSUME EncodeFails PROVE TypeOK'
  <2>1. verdict' \in {"ok", "error"} /\ granted' \in Seq(Nat)
    BY <1>9 DEF EncodeFails, Refuse
  <2>2. pc' \in Serving \cup Opening \cup {"down", "closed", "failed"}
    BY <1>9 DEF EncodeFails, Refuse, TypeOK, Serving, Opening
  <2>. QED  BY <1>9, <2>1, <2>2 DEF TypeOK, EncodeFails, clientVars, batchVars, tailVars, storeVars, scanVars
<1>10. ASSUME RollOver PROVE TypeOK'
  <2>1. /\ DOMAIN files' \subseteq Nat /\ files' \in [DOMAIN files' -> File]
    BY <1>10, EmptyFileType DEF RollOver, TypeOK
  <2>2. active' \in Nat /\ written' \in Nat /\ poisoned' \in BOOLEAN
    BY <1>10 DEF RollOver, TypeOK
  <2>. QED  BY <1>10, <2>1, <2>2 DEF TypeOK, RollOver, clientVars, batchVars, tailVars, storeVars, scanVars
<1>11. ASSUME NameTaken PROVE TypeOK'
  <2>1. verdict' \in {"ok", "error"} /\ granted' \in Seq(Nat)
    BY <1>11 DEF NameTaken, Refuse
  <2>2. pc' \in Serving \cup Opening \cup {"down", "closed", "failed"}
    BY <1>11 DEF NameTaken, Refuse, TypeOK, Serving, Opening
  <2>. QED  BY <1>11, <2>1, <2>2 DEF TypeOK, NameTaken, clientVars, batchVars, tailVars, storeVars, scanVars
<1>12. ASSUME RollOverFails PROVE TypeOK'
  <2>1. verdict' \in {"ok", "error"} /\ granted' \in Seq(Nat)
    BY <1>12 DEF RollOverFails, Refuse
  <2>2. pc' \in Serving \cup Opening \cup {"down", "closed", "failed"}
    BY <1>12 DEF RollOverFails, Refuse, TypeOK, Serving, Opening
  <2>3. faults' \in Nat
    BY <1>12 DEF RollOverFails, Fault, TypeOK
  <2>. QED  BY <1>12, <2>1, <2>2, <2>3 DEF TypeOK, RollOverFails, clientVars, batchVars, tailVars, storeVars, scanVars
<1>13. ASSUME AppendPoisoned PROVE TypeOK'
  <2>1. verdict' \in {"ok", "error"} /\ granted' \in Seq(Nat)
    BY <1>13 DEF AppendPoisoned, Refuse
  <2>2. pc' \in Serving \cup Opening \cup {"down", "closed", "failed"}
    BY <1>13 DEF AppendPoisoned, Refuse, TypeOK, Serving, Opening
  <2>. QED  BY <1>13, <2>1, <2>2 DEF TypeOK, AppendPoisoned, clientVars, batchVars, tailVars, storeVars, scanVars
<1>14. ASSUME AppendBytes PROVE TypeOK'
  <2>1. active \in DOMAIN files /\ files[active] \in File
    BY <1>14 DEF AppendBytes, WalInv, TailInv, Serving, TypeOK
  <2>2. Written(files[active], bytes) \in File
    BY <2>1, WrittenType DEF TypeOK
  <2>3. /\ DOMAIN files' \subseteq Nat /\ files' \in [DOMAIN files' -> File]
    BY <1>14, <2>2 DEF AppendBytes, TypeOK
  <2>4. written' \in Nat
    BY <1>14 DEF AppendBytes, TypeOK
  <2>5. pc' \in Serving \cup Opening \cup {"down", "closed", "failed"}
    BY <1>14 DEF AppendBytes, TypeOK, Serving, Opening
  <2>. QED  BY <1>14, <2>1, <2>2, <2>3, <2>4, <2>5 DEF TypeOK, AppendBytes, clientVars, batchVars, tailVars, storeVars, scanVars
<1>15. ASSUME AppendFails PROVE TypeOK'
  <2>1. active \in DOMAIN files /\ files[active] \in File
    BY <1>15 DEF AppendFails, WalInv, TailInv, Serving, TypeOK
  <2>2. PartlyWritten(files[active], bytes) \subseteq File
    BY <2>1, PartlyWrittenType DEF TypeOK
  <2>3. /\ DOMAIN files' \subseteq Nat /\ files' \in [DOMAIN files' -> File]
    BY <1>15, <2>2 DEF AppendFails, TypeOK
  <2>4. faults' \in Nat
    BY <1>15 DEF AppendFails, Fault, TypeOK
  <2>5. pc' \in Serving \cup Opening \cup {"down", "closed", "failed"}
    BY <1>15 DEF AppendFails, TypeOK, Serving, Opening
  <2>. QED  BY <1>15, <2>1, <2>2, <2>3, <2>4, <2>5 DEF TypeOK, AppendFails, clientVars, batchVars, tailVars, storeVars, scanVars
<1>16. ASSUME Rewind PROVE TypeOK'
  <2>1. /\ active \in DOMAIN files /\ files[active] \in File
        /\ written <= Len(files[active].data)
    BY <1>16 DEF Rewind, WalInv, TailInv, Serving, TypeOK
  <2>2. Truncated(files[active], written) \in File
    BY <2>1, FileParts, TruncatedType DEF TypeOK
  <2>3. /\ DOMAIN files' \subseteq Nat /\ files' \in [DOMAIN files' -> File]
    BY <1>16, <2>2 DEF Rewind, TypeOK
  <2>4. verdict' \in {"ok", "error"} /\ granted' \in Seq(Nat)
    BY <1>16 DEF Rewind, Refuse
  <2>5. pc' \in Serving \cup Opening \cup {"down", "closed", "failed"}
    BY <1>16 DEF Rewind, Refuse, TypeOK, Serving, Opening
  <2>. QED  BY <1>16, <2>1, <2>2, <2>3, <2>4, <2>5 DEF TypeOK, Rewind, clientVars, batchVars, tailVars, storeVars, scanVars
<1>17. ASSUME RewindFails PROVE TypeOK'
  <2>1. /\ active \in DOMAIN files /\ files[active] \in File
        /\ written <= Len(files[active].data)
    BY <1>17 DEF RewindFails, WalInv, TailInv, Serving, TypeOK
  <2>2. HalfTruncated(files[active], written) \subseteq File
    BY <2>1, FileParts, TruncatedType DEF TypeOK
  <2>3. /\ DOMAIN files' \subseteq Nat /\ files' \in [DOMAIN files' -> File]
    BY <1>17, <2>2 DEF RewindFails, TypeOK
  <2>4. poisoned' \in BOOLEAN
    BY <1>17 DEF RewindFails, TypeOK
  <2>5. faults' \in Nat
    BY <1>17 DEF RewindFails, Fault, TypeOK
  <2>6. verdict' \in {"ok", "error"} /\ granted' \in Seq(Nat)
    BY <1>17 DEF RewindFails, Refuse
  <2>7. pc' \in Serving \cup Opening \cup {"down", "closed", "failed"}
    BY <1>17 DEF RewindFails, Refuse, TypeOK, Serving, Opening
  <2>. QED  BY <1>17, <2>1, <2>2, <2>3, <2>4, <2>5, <2>6, <2>7 DEF TypeOK, RewindFails, clientVars, batchVars, tailVars, storeVars, scanVars
<1>18. ASSUME Sync PROVE TypeOK'
  <2>1. active \in DOMAIN files /\ files[active] \in File
    BY <1>18 DEF Sync, WalInv, TailInv, Serving, TypeOK
  <2>2. Synced(files[active]) \in File
    BY <2>1, SyncedType
  <2>3. /\ DOMAIN files' \subseteq Nat /\ files' \in [DOMAIN files' -> File]
    BY <1>18, <2>2 DEF Sync, TypeOK
  <2>4. appended' \in Nat
    BY <1>18 DEF Sync, TypeOK
  <2>5. pc' \in Serving \cup Opening \cup {"down", "closed", "failed"}
    BY <1>18 DEF Sync, TypeOK, Serving, Opening
  <2>. QED  BY <1>18, <2>1, <2>2, <2>3, <2>4, <2>5 DEF TypeOK, Sync, clientVars, batchVars, tailVars, storeVars, scanVars
<1>19. ASSUME SyncFails PROVE TypeOK'
  <2>1. verdict' \in {"ok", "error"} /\ granted' \in Seq(Nat)
    BY <1>19 DEF SyncFails, Refuse
  <2>2. pc' \in Serving \cup Opening \cup {"down", "closed", "failed"}
    BY <1>19 DEF SyncFails, Refuse, TypeOK, Serving, Opening
  <2>3. faults' \in Nat
    BY <1>19 DEF SyncFails, Fault, TypeOK
  <2>. QED  BY <1>19, <2>1, <2>2, <2>3 DEF TypeOK, SyncFails, clientVars, batchVars, tailVars, storeVars, scanVars
<1>20. ASSUME Apply PROVE TypeOK'
  <2>1. /\ bytes \in Seq(Record) /\ applied + Len(bytes) \in Nat
        /\ Len(hist) \in Nat
    BY DEF TypeOK
  <2>2. hist' \in Seq(Record) /\ applied' \in Nat /\ commits' \subseteq Commit
    BY <1>20, <2>1, StoreApplyType DEF Apply
  <2>3. verdict' \in {"ok", "error"} /\ granted' \in Seq(Nat)
    BY <1>20, <2>1 DEF Apply
  <2>4. pc' \in Serving \cup Opening \cup {"down", "closed", "failed"}
    BY <1>20 DEF Apply, TypeOK, Serving, Opening
  <2>. QED  BY <1>20, <2>1, <2>2, <2>3, <2>4 DEF TypeOK, Apply, clientVars, batchVars, tailVars, storeVars, scanVars
<1>21. ASSUME ApplyFails PROVE TypeOK'
  <2>1. verdict' \in {"ok", "error"} /\ granted' \in Seq(Nat)
    BY <1>21 DEF ApplyFails, Refuse
  <2>2. pc' \in Serving \cup Opening \cup {"down", "closed", "failed"}
    BY <1>21 DEF ApplyFails, Refuse, TypeOK, Serving, Opening
  <2>3. faults' \in Nat
    BY <1>21 DEF ApplyFails, Fault, TypeOK
  <2>. QED  BY <1>21, <2>1, <2>2, <2>3 DEF TypeOK, ApplyFails, clientVars, batchVars, tailVars, storeVars, scanVars
<1>22. ASSUME AnswerOk PROVE TypeOK'
  <2>1. Head(batch) \in Request /\ batch' \in Seq(Request)
    BY <1>22 DEF AnswerOk, TypeOK
  <2>2. client' \in [Message -> Status]
    BY <1>22, ToldType DEF AnswerOk, Status, TypeOK
  <2>3. Width[Head(batch)] \in Nat /\ granted \in Seq(Nat)
    BY <2>1, MessagesAssumption DEF TypeOK
  <2>4. Handed(Head(batch)) \in Seq(Nat)
    BY <2>3 DEF Handed
  <2>5. reply' \in [Request -> Seq(Nat)]
    BY <1>22, <2>1, <2>4 DEF AnswerOk, TypeOK
  <2>6. granted' \in Seq(Nat)
    BY <1>22, <2>1, <2>3 DEF AnswerOk
  <2>. QED  BY <1>22, <2>1, <2>2, <2>3, <2>4, <2>5, <2>6 DEF TypeOK, AnswerOk, clientVars, batchVars, tailVars, storeVars, scanVars
<1>23. ASSUME AnswerError PROVE TypeOK'
  <2>1. batch' \in Seq(Request)
    BY <1>23 DEF AnswerError, TypeOK
  <2>2. client' \in [Message -> Status]
    BY <1>23, ToldType DEF AnswerError, Status, TypeOK
  <2>. QED  BY <1>23, <2>1, <2>2 DEF TypeOK, AnswerError, clientVars, batchVars, tailVars, storeVars, scanVars
<1>24. ASSUME Answered PROVE TypeOK'
  <2>1. bytes' \in Seq(Record)
    BY <1>24 DEF Answered
  <2>2. pc' \in Serving \cup Opening \cup {"down", "closed", "failed"}
    BY <1>24 DEF Answered, TypeOK, Serving, Opening
  <2>. QED  BY <1>24, <2>1, <2>2 DEF TypeOK, Answered, clientVars, batchVars, tailVars, storeVars, scanVars
<1>25. ASSUME NothingDue PROVE TypeOK'
  <2>1. pc' \in Serving \cup Opening \cup {"down", "closed", "failed"}
    BY <1>25 DEF NothingDue, TypeOK, Serving, Opening
  <2>. QED  BY <1>25, <2>1 DEF TypeOK, NothingDue, clientVars, batchVars, tailVars, storeVars, scanVars
<1>26. ASSUME FlushStore PROVE TypeOK'
  <2>1. commits' \subseteq Commit
    BY <1>26 DEF FlushStore, Commit, Latest, TypeOK
  <2>2. pc' \in Serving \cup Opening \cup {"down", "closed", "failed"}
    BY <1>26 DEF FlushStore, TypeOK, Serving, Opening
  <2>. QED  BY <1>26, <2>1, <2>2 DEF TypeOK, FlushStore, clientVars, batchVars, tailVars, storeVars, scanVars
<1>27. ASSUME FlushFails PROVE TypeOK'
  <2>1. client' \in [Message -> Status]
    BY <1>27, ToldType DEF FlushFails, CompactEnds, Status, TypeOK
  <2>2. requested' \in Checkpoint \cup {None}
    BY <1>27 DEF FlushFails, CompactEnds, TypeOK
  <2>3. pc' \in Serving \cup Opening \cup {"down", "closed", "failed"}
    BY <1>27 DEF FlushFails, CompactEnds, TypeOK, Serving, Opening
  <2>4. faults' \in Nat
    BY <1>27 DEF FlushFails, Fault, TypeOK
  <2>. QED  BY <1>27, <2>1, <2>2, <2>3, <2>4 DEF TypeOK, FlushFails, CompactEnds, clientVars, batchVars, tailVars, storeVars, scanVars
<1>28. ASSUME RemoveSegment PROVE TypeOK'
  <2>1. /\ DOMAIN files' \subseteq Nat /\ files' \in [DOMAIN files' -> File]
    BY <1>28 DEF RemoveSegment, TypeOK
  <2>. QED  BY <1>28, <2>1 DEF TypeOK, RemoveSegment, clientVars, batchVars, tailVars, storeVars, scanVars
<1>29. ASSUME RemoveFails PROVE TypeOK'
  <2>1. client' \in [Message -> Status]
    BY <1>29, ToldType DEF RemoveFails, CompactEnds, Status, TypeOK
  <2>2. requested' \in Checkpoint \cup {None}
    BY <1>29 DEF RemoveFails, CompactEnds, TypeOK
  <2>3. pc' \in Serving \cup Opening \cup {"down", "closed", "failed"}
    BY <1>29 DEF RemoveFails, CompactEnds, TypeOK, Serving, Opening
  <2>4. faults' \in Nat
    BY <1>29 DEF RemoveFails, Fault, TypeOK
  <2>. QED  BY <1>29, <2>1, <2>2, <2>3, <2>4 DEF TypeOK, RemoveFails, CompactEnds, clientVars, batchVars, tailVars, storeVars, scanVars
<1>30. ASSUME Compacted PROVE TypeOK'
  <2>1. client' \in [Message -> Status]
    BY <1>30, ToldType DEF Compacted, CompactEnds, Status, TypeOK
  <2>2. requested' \in Checkpoint \cup {None}
    BY <1>30 DEF Compacted, CompactEnds, TypeOK
  <2>3. pc' \in Serving \cup Opening \cup {"down", "closed", "failed"}
    BY <1>30 DEF Compacted, CompactEnds, TypeOK, Serving, Opening
  <2>4. appended' \in Nat
    BY <1>30 DEF Compacted, TypeOK
  <2>. QED  BY <1>30, <2>1, <2>2, <2>3, <2>4 DEF TypeOK, Compacted, CompactEnds, clientVars, batchVars, tailVars, storeVars, scanVars
<1>31. ASSUME Kill PROVE TypeOK'
  <2>1. client' \in [Message -> Status]
    BY <1>31 DEF Kill, LoseMemory, Status, TypeOK
  <2>2. /\ queue' \in Seq(Message) /\ batch' \in Seq(Request)
        /\ bytes' \in Seq(Record) /\ granted' \in Seq(Nat)
        /\ pending' \in Seq(Record)
    BY <1>31 DEF Kill, LoseMemory
  <2>3. /\ closing' \in BOOLEAN /\ poisoned' \in BOOLEAN
        /\ verdict' \in {"ok", "error"} /\ requested' \in Checkpoint \cup {None}
        /\ reply' = reply
    BY <1>31 DEF Kill, LoseMemory
  <2>4. /\ appended' \in Nat /\ active' \in Nat /\ written' \in Nat
        /\ scan' \subseteq Nat /\ seen' \in Nat
    BY <1>31 DEF Kill, LoseMemory
  <2>5. restarts' \in Nat
    BY <1>31 DEF Kill, TypeOK
  <2>6. pc' \in Serving \cup Opening \cup {"down", "closed", "failed"}
    BY <1>31 DEF Kill, TypeOK, Serving, Opening
  <2>7. hist' \in Seq(Record) /\ applied' \in Nat /\ commits' \subseteq Commit
    BY <1>31, FallType DEF Kill
  <2>. QED  BY <1>31, <2>1, <2>2, <2>3, <2>4, <2>5, <2>6, <2>7 DEF TypeOK, Kill, LoseMemory, clientVars, batchVars, tailVars, storeVars, scanVars
<1>32. ASSUME PowerLoss PROVE TypeOK'
  <2>1. client' \in [Message -> Status]
    BY <1>32 DEF PowerLoss, LoseMemory, Status, TypeOK
  <2>2. /\ queue' \in Seq(Message) /\ batch' \in Seq(Request)
        /\ bytes' \in Seq(Record) /\ granted' \in Seq(Nat)
        /\ pending' \in Seq(Record)
    BY <1>32 DEF PowerLoss, LoseMemory
  <2>3. /\ closing' \in BOOLEAN /\ poisoned' \in BOOLEAN
        /\ verdict' \in {"ok", "error"} /\ requested' \in Checkpoint \cup {None}
        /\ reply' = reply
    BY <1>32 DEF PowerLoss, LoseMemory
  <2>4. /\ appended' \in Nat /\ active' \in Nat /\ written' \in Nat
        /\ scan' \subseteq Nat /\ seen' \in Nat
    BY <1>32 DEF PowerLoss, LoseMemory
  <2>5. restarts' \in Nat
    BY <1>32 DEF PowerLoss, TypeOK
  <2>6. pc' \in Serving \cup Opening \cup {"down", "closed", "failed"}
    BY <1>32 DEF PowerLoss, TypeOK, Serving, Opening
  <2>7. hist' \in Seq(Record) /\ applied' \in Nat /\ commits' \subseteq Commit
    BY <1>32, FallType DEF PowerLoss, TypeOK
  <2>8. \A n \in DOMAIN files : Survivors(files[n]) \subseteq File
    BY SurvivorsType DEF TypeOK
  <2>9. /\ DOMAIN files' \subseteq Nat /\ files' \in [DOMAIN files' -> File]
    BY <1>32, <2>8 DEF PowerLoss, TypeOK
  <2>. QED  BY <1>32, <2>1, <2>2, <2>3, <2>4, <2>5, <2>6, <2>7, <2>8, <2>9 DEF TypeOK, PowerLoss, LoseMemory, clientVars, batchVars, tailVars, storeVars, scanVars
<1>33. ASSUME Open PROVE TypeOK'
  <2>1. /\ closing' \in BOOLEAN /\ poisoned' \in BOOLEAN
        /\ requested' \in Checkpoint \cup {None}
    BY <1>33 DEF Open
  <2>2. pending' \in Seq(Record) /\ scan' \subseteq Nat
    BY <1>33 DEF Open, TypeOK
  <2>3. /\ appended' \in Nat /\ active' \in Nat /\ written' \in Nat
        /\ seen' \in Nat
    BY <1>33 DEF Open
  <2>4. pc' \in Serving \cup Opening \cup {"down", "closed", "failed"}
    BY <1>33 DEF Open, TypeOK, Serving, Opening
  <2>. QED  BY <1>33, <2>1, <2>2, <2>3, <2>4 DEF TypeOK, Open, clientVars, batchVars, tailVars, storeVars, scanVars
<1>34. ASSUME ScanSegment PROVE TypeOK'
  <2>1. /\ MinOf(scan) \in DOMAIN files /\ MinOf(scan) \in Nat
        /\ files[MinOf(scan)].data \in Seq(Record)
    BY <1>34, MinOfProperties DEF ScanSegment, WalInv, ScanInv, TypeOK, File
  <2>2. Unapplied(MinOf(scan)) \in Seq(Record)
    <3> DEFINE data == files[MinOf(scan)].data
               skip == IF applied > MinOf(scan)
                       THEN applied - MinOf(scan) ELSE 0
    <3>1. skip \in Nat
      BY <2>1 DEF TypeOK
    <3>2. SubSeq(data, skip + 1, Len(data)) \in Seq(Record)
      BY <2>1, <3>1, SuffixParts
    <3>. QED  BY <3>2 DEF Unapplied
  <2>3. pending' \in Seq(Record)
    BY <1>34, <2>2 DEF ScanSegment, TypeOK
  <2>4. seen' \in Nat
    BY <1>34, <2>1 DEF ScanSegment
  <2>5. scan' \subseteq Nat
    BY <1>34 DEF ScanSegment, TypeOK
  <2>. QED  BY <1>34, <2>1, <2>2, <2>3, <2>4, <2>5 DEF TypeOK, ScanSegment, clientVars, batchVars, tailVars, storeVars, scanVars
<1>35. ASSUME ScanRefused PROVE TypeOK'
  <2>1. scan' \subseteq Nat /\ seen' \in Nat /\ pending' \in Seq(Record)
    BY <1>35 DEF ScanRefused, OpenFailed
  <2>2. pc' \in Serving \cup Opening \cup {"down", "closed", "failed"}
    BY <1>35 DEF ScanRefused, OpenFailed, TypeOK, Serving, Opening
  <2>. QED  BY <1>35, <2>1, <2>2 DEF TypeOK, ScanRefused, OpenFailed, clientVars, batchVars, tailVars, storeVars, scanVars
<1>36. ASSUME ReadFails PROVE TypeOK'
  <2>1. scan' \subseteq Nat /\ seen' \in Nat /\ pending' \in Seq(Record)
    BY <1>36 DEF ReadFails, OpenFailed
  <2>2. pc' \in Serving \cup Opening \cup {"down", "closed", "failed"}
    BY <1>36 DEF ReadFails, OpenFailed, TypeOK, Serving, Opening
  <2>3. faults' \in Nat
    BY <1>36 DEF ReadFails, Fault, TypeOK
  <2>. QED  BY <1>36, <2>1, <2>2, <2>3 DEF TypeOK, ReadFails, OpenFailed, clientVars, batchVars, tailVars, storeVars, scanVars
<1>37. ASSUME ReplayRefused PROVE TypeOK'
  <2>1. scan' \subseteq Nat /\ seen' \in Nat /\ pending' \in Seq(Record)
    BY <1>37 DEF ReplayRefused, OpenFailed
  <2>2. pc' \in Serving \cup Opening \cup {"down", "closed", "failed"}
    BY <1>37 DEF ReplayRefused, OpenFailed, TypeOK, Serving, Opening
  <2>. QED  BY <1>37, <2>1, <2>2 DEF TypeOK, ReplayRefused, OpenFailed, clientVars, batchVars, tailVars, storeVars, scanVars
<1>38. ASSUME Replay PROVE TypeOK'
  <2>1. hist' \in Seq(Record) /\ applied' \in Nat /\ commits' \subseteq Commit
    BY <1>38, StoreApplyType DEF Replay, storeVars, TypeOK
  <2>2. seen' \in Nat /\ pending' \in Seq(Record)
    BY <1>38 DEF Replay
  <2>3. pc' \in Serving \cup Opening \cup {"down", "closed", "failed"}
    BY <1>38 DEF Replay, TypeOK, Serving, Opening
  <2>. QED  BY <1>38, <2>1, <2>2, <2>3 DEF TypeOK, Replay, clientVars, batchVars, tailVars, storeVars, scanVars
<1>39. ASSUME ReplayFails PROVE TypeOK'
  <2>1. scan' \subseteq Nat /\ seen' \in Nat /\ pending' \in Seq(Record)
    BY <1>39 DEF ReplayFails, OpenFailed
  <2>2. pc' \in Serving \cup Opening \cup {"down", "closed", "failed"}
    BY <1>39 DEF ReplayFails, OpenFailed, TypeOK, Serving, Opening
  <2>3. faults' \in Nat
    BY <1>39 DEF ReplayFails, Fault, TypeOK
  <2>. QED  BY <1>39, <2>1, <2>2, <2>3 DEF TypeOK, ReplayFails, OpenFailed, clientVars, batchVars, tailVars, storeVars, scanVars
<1>40. ASSUME ReopenTail PROVE TypeOK'
  <2>1. /\ MaxOf(DOMAIN files) \in DOMAIN files /\ MaxOf(DOMAIN files) \in Nat
        /\ files[MaxOf(DOMAIN files)] \in File
    BY <1>40, LastSegment DEF ReopenTail, WalInv, TypeOK
  <2>2. LET f == files[MaxOf(DOMAIN files)] IN Truncated(f, Len(f.data)) \in File
    BY <2>1, FileParts, TruncatedType
  <2>3. /\ DOMAIN files' \subseteq Nat /\ files' \in [DOMAIN files' -> File]
    BY <1>40, <2>1, <2>2 DEF ReopenTail, TypeOK
  <2>4. active' \in Nat /\ written' \in Nat
    BY <1>40, <2>1 DEF ReopenTail, File
  <2>5. pc' \in Serving \cup Opening \cup {"down", "closed", "failed"}
    BY <1>40 DEF ReopenTail, TypeOK, Serving, Opening
  <2>. QED  BY <1>40, <2>1, <2>2, <2>3, <2>4, <2>5 DEF TypeOK, ReopenTail, clientVars, batchVars, tailVars, storeVars, scanVars
<1>41. ASSUME CreateFirst PROVE TypeOK'
  <2>1. /\ DOMAIN files' \subseteq Nat /\ files' \in [DOMAIN files' -> File]
    BY <1>41, EmptyFileType DEF CreateFirst
  <2>2. active' \in Nat /\ written' \in Nat
    BY <1>41 DEF CreateFirst
  <2>3. pc' \in Serving \cup Opening \cup {"down", "closed", "failed"}
    BY <1>41 DEF CreateFirst, TypeOK, Serving, Opening
  <2>. QED  BY <1>41, <2>1, <2>2, <2>3 DEF TypeOK, CreateFirst, clientVars, batchVars, tailVars, storeVars, scanVars
<1>42. ASSUME ReopenFails PROVE TypeOK'
  <2>1. scan' \subseteq Nat /\ seen' \in Nat /\ pending' \in Seq(Record)
    BY <1>42 DEF ReopenFails, OpenFailed
  <2>2. pc' \in Serving \cup Opening \cup {"down", "closed", "failed"}
    BY <1>42 DEF ReopenFails, OpenFailed, TypeOK, Serving, Opening
  <2>3. faults' \in Nat
    BY <1>42 DEF ReopenFails, Fault, TypeOK
  <2>4. DOMAIN files # {} =>
        LET f == files[MaxOf(DOMAIN files)] IN
        HalfTruncated(f, Len(f.data)) \subseteq File
    <3>. SUFFICES ASSUME DOMAIN files # {}
                  PROVE  LET f == files[MaxOf(DOMAIN files)] IN
                         HalfTruncated(f, Len(f.data)) \subseteq File
      OBVIOUS
    <3>1. files[MaxOf(DOMAIN files)] \in File
      BY LastSegment DEF WalInv, TypeOK
    <3>. QED  BY <3>1, FileParts, TruncatedType
  <2>5. /\ DOMAIN files' \subseteq Nat /\ files' \in [DOMAIN files' -> File]
    BY <1>42, <2>4 DEF ReopenFails, TypeOK
  <2>. QED  BY <1>42, <2>1, <2>2, <2>3, <2>4, <2>5 DEF TypeOK, ReopenFails, OpenFailed, clientVars, batchVars, tailVars, storeVars, scanVars
<1>43. ASSUME Idle PROVE TypeOK'
  <2>1. vars' = vars
    BY <1>43 DEF Idle
  <2>. QED  BY <1>43, <2>1 DEF TypeOK, Idle, vars, clientVars, batchVars, tailVars, storeVars, scanVars
<1>44. CASE UNCHANGED vars
  BY <1>44 DEF TypeOK, vars, clientVars, batchVars, tailVars, storeVars, scanVars
<1>. QED
  BY <1>1, <1>2, <1>3, <1>4, <1>5, <1>6, <1>7, <1>8, <1>9, <1>10, <1>11, <1>12, <1>13, <1>14, <1>15, <1>16, <1>17, <1>18, <1>19, <1>20, <1>21, <1>22, <1>23, <1>24, <1>25, <1>26, <1>27, <1>28, <1>29, <1>30, <1>31, <1>32, <1>33, <1>34, <1>35, <1>36, <1>37, <1>38, <1>39, <1>40, <1>41, <1>42, <1>43, <1>44
     DEF Next, ClientStep, ThreadStep, TakeStep, RetireStep, CompactStep, OpenStep

-----------------------------------------------------------------------------
(* Frames: what of the invariant follows from how little a step changes.   *)

(* Growing the synced part of segments and dropping commits keeps FilesInv. *)
LEMMA FilesFrame ==
  ASSUME TypeOK, FilesInv, TypeOK',
         DOMAIN files' = DOMAIN files,
         \A n \in DOMAIN files :
           /\ files[n].synced <= files'[n].synced
           /\ files'[n].synced <= Len(files'[n].data),
         \A c \in commits' : \E d \in commits : d.applied <= c.applied
  PROVE  FilesInv'
<1>1. \A n \in DOMAIN files : n \in Nat /\ files[n] \in File /\ files'[n] \in File
  BY DEF TypeOK
<1>2. \A n \in DOMAIN files : files[n].synced \in Nat /\ files'[n].synced \in Nat
  BY <1>1, FileParts
<1>3. ASSUME NEW n \in DOMAIN files
      PROVE  \/ n = 0
             \/ \E m \in DOMAIN files : m < n /\ n <= m + files'[m].synced
             \/ \A c \in commits' : n <= c.applied
  <2>1. CASE \E m \in DOMAIN files : m < n /\ n <= m + files[m].synced
    <3>1. PICK m \in DOMAIN files : m < n /\ n <= m + files[m].synced
      BY <2>1
    <3>2. n <= m + files'[m].synced  BY <1>1, <1>2, <3>1
    <3>. QED  BY <3>1, <3>2
  <2>2. CASE \A c \in commits : n <= c.applied
    <3>1. ASSUME NEW c \in commits' PROVE n <= c.applied
      <4>1. PICK d \in commits : d.applied <= c.applied  OBVIOUS
      <4>2. d.applied \in Nat /\ c.applied \in Nat /\ n \in Nat
        BY <1>1 DEF TypeOK, Commit
      <4>. QED  BY <2>2, <4>1, <4>2
    <3>. QED  BY <3>1
  <2>. QED  BY <2>1, <2>2 DEF FilesInv
<1>. QED  BY <1>3 DEF FilesInv

(* What was recoverable from a commit that remains is still recoverable    *)
(* while no segment comes or goes and none loses a synced record.          *)
LEMMA RecoverableFrame ==
  ASSUME TypeOK, TypeOK',
         DOMAIN files' = DOMAIN files,
         \A n \in DOMAIN files : \A i \in 1..files[n].synced :
           i \in 1..files'[n].synced /\ files'[n].data[i] = files[n].data[i],
         NEW c, \A k \in 1..c.len : hist'[k] = hist[k],
         NEW rec, Recoverable(c, rec)
  PROVE  Recoverable(c, rec)'
<1>1. CASE HeldAt(c, rec)
  BY <1>1 DEF Recoverable, HeldAt
<1>2. CASE ReplayedFrom(c, rec)
  <2>1. PICK n \in DOMAIN files :
          /\ \A m \in DOMAIN files : m > n => m > c.applied
          /\ \E i \in 1..files[n].synced :
               files[n].data[i] = rec /\ n + i > c.applied
    BY <1>2 DEF ReplayedFrom
  <2>2. PICK i \in 1..files[n].synced :
          files[n].data[i] = rec /\ n + i > c.applied
    BY <2>1
  <2>3. i \in 1..files'[n].synced /\ files'[n].data[i] = rec
    BY <2>2
  <2>. QED  BY <2>1, <2>2, <2>3 DEF Recoverable, ReplayedFrom
<1>. QED  BY <1>1, <1>2 DEF Recoverable

LEMMA LiveFrame ==
  ASSUME TypeOK, LiveInv, TypeOK',
         DOMAIN files' = DOMAIN files,
         \A n \in DOMAIN files : \A i \in 1..files[n].synced :
           i \in 1..files'[n].synced /\ files'[n].data[i] = files[n].data[i],
         commits' \subseteq commits,
         \A c \in commits' : \A k \in 1..c.len : hist'[k] = hist[k],
         \A r \in Request : Live(r)' => Live(r)
  PROVE  LiveInv'
<1>. SUFFICES ASSUME NEW r \in Request, Live(r)', NEW i \in 1..Width[r],
                     NEW c \in commits'
              PROVE  Recoverable(c, <<r, i>>)'
  BY DEF LiveInv
<1>1. Live(r)  OBVIOUS
<1>2. Recoverable(c, <<r, i>>)  BY <1>1 DEF LiveInv
<1>. QED  BY <1>2, RecoverableFrame

(* Steps that touch neither the log, nor the store, nor the tail.          *)
QuietMove ==
  \/ pc' = pc /\ scan' = scan /\ seen' = seen /\ pending' = pending
     /\ (pc \in {"sync", "apply"} => bytes' = bytes)
  \/ /\ pc' \in {"receive", "drain", "retire", "answer", "settle"}
     /\ pc \in Serving \ {"rewind"}
  \/ pc' \in {"closed", "failed"}

LEMMA QuietStep ==
  ASSUME TypeOK, WalInv, TypeOK',
         UNCHANGED <<files, storeVars, tailVars>>,
         QuietMove, BatchInv',
         \A r \in Request : Live(r)' => Live(r)
  PROVE  WalInv'
<1>. USE DEF storeVars, tailVars
<1>1. StoreInv'
  BY DEF WalInv, StoreInv, QuietMove, Latest, Serving
<1>2. FilesInv'
  BY DEF WalInv, FilesInv
<1>3. TailInv'
  BY DEF WalInv, TailInv, QuietMove, Serving
<1>4. FlightInv'
  BY DEF WalInv, FlightInv, QuietMove, Serving
<1>5. LiveInv'
  <2>1. \A n \in DOMAIN files : \A i \in 1..files[n].synced :
          i \in 1..files'[n].synced /\ files'[n].data[i] = files[n].data[i]
    OBVIOUS
  <2>. QED  BY <2>1, LiveFrame DEF WalInv
<1>6. VisibleInv'
  <2>. SUFFICES ASSUME pc' \in Serving \cup {"reopen"},
                       NEW r \in Request, Live(r)', NEW i \in 1..Width[r],
                       NEW c \in commits, applied <= c.applied
                PROVE  HeldAt(c, <<r, i>>)'
    BY DEF VisibleInv
  <2>1. pc \in Serving \cup {"reopen"}
    BY DEF QuietMove, Serving
  <2>. QED  BY <2>1 DEF WalInv, VisibleInv, HeldAt
<1>7. ScanInv'
  BY DEF WalInv, ScanInv, QuietMove, Serving
<1>8. ReopenInv'
  BY DEF WalInv, ReopenInv, QuietMove, Serving
<1>. QED  BY <1>1, <1>2, <1>3, <1>4, <1>5, <1>6, <1>7, <1>8 DEF WalInv

(* A quiet step that answers nobody with success and leaves the batch.     *)
PlainMove ==
  /\ UNCHANGED <<files, storeVars, tailVars, batch, bytes>>
  /\ QuietMove
  /\ \A r \in Request : client'[r] = "acked" => client[r] = "acked"
  /\ pc' = "answer" /\ verdict' = "ok" => pc = "answer" /\ verdict = "ok"

LEMMA PlainStep ==
  ASSUME TypeOK, WalInv, TypeOK', PlainMove
  PROVE  WalInv'
<1>1. BatchInv'  BY DEF WalInv, BatchInv, PlainMove
<1>2. \A r \in Request : Live(r)' => Live(r)  BY DEF Live, PlainMove
<1>. QED  BY <1>1, <1>2, QuietStep DEF PlainMove

(* Steps of clients, refusals and failed compactions or openings.          *)
LEMMA PlainActions ==
  ASSUME TypeOK, WalInv, TypeOK',
         \/ \E r \in Request : SendWrite(r)
         \/ \E c \in Checkpoint : SendCheckpoint(c)
         \/ \E m \in Message : Cancel(m)
         \/ Shutdown \/ Drained \/ ThreadExit \/ EncodeFails \/ NameTaken
         \/ RollOverFails \/ AppendPoisoned \/ SyncFails \/ ApplyFails
         \/ NothingDue \/ FlushFails \/ RemoveFails \/ Compacted
         \/ ScanRefused \/ ReadFails \/ ReplayRefused \/ ReplayFails \/ Idle
  PROVE  WalInv'
<1>. SUFFICES PlainMove  BY PlainStep
<1>. USE DEF PlainMove, QuietMove, Serving, clientVars, batchVars, tailVars,
             storeVars, scanVars
<1>1. ASSUME NEW r \in Request, SendWrite(r) PROVE PlainMove
  BY <1>1 DEF SendWrite, TypeOK, Message
<1>2. ASSUME NEW c \in Checkpoint, SendCheckpoint(c) PROVE PlainMove
  BY <1>2 DEF SendCheckpoint, TypeOK, Message
<1>3. ASSUME NEW m \in Message, Cancel(m) PROVE PlainMove
  BY <1>3 DEF Cancel, TypeOK, Message
<1>4. ASSUME Shutdown PROVE PlainMove
  BY <1>4 DEF Shutdown, TypeOK, Message
<1>5. ASSUME Drained PROVE PlainMove
  BY <1>5 DEF Drained, TypeOK, Message
<1>6. ASSUME ThreadExit PROVE PlainMove
  BY <1>6 DEF ThreadExit, TypeOK, Message
<1>7. ASSUME EncodeFails PROVE PlainMove
  BY <1>7 DEF EncodeFails, Refuse, TypeOK, Message
<1>8. ASSUME NameTaken PROVE PlainMove
  BY <1>8 DEF NameTaken, Refuse, TypeOK, Message
<1>9. ASSUME RollOverFails PROVE PlainMove
  BY <1>9 DEF RollOverFails, Refuse, TypeOK, Message
<1>10. ASSUME AppendPoisoned PROVE PlainMove
  BY <1>10 DEF AppendPoisoned, Refuse, TypeOK, Message
<1>11. ASSUME SyncFails PROVE PlainMove
  BY <1>11 DEF SyncFails, Refuse, TypeOK, Message
<1>12. ASSUME ApplyFails PROVE PlainMove
  BY <1>12 DEF ApplyFails, Refuse, TypeOK, Message
<1>13. ASSUME NothingDue PROVE PlainMove
  BY <1>13 DEF NothingDue, TypeOK, Message
<1>14. ASSUME FlushFails PROVE PlainMove
  BY <1>14, MessagesAssumption DEF FlushFails, CompactEnds, Told, TypeOK, Message
<1>15. ASSUME RemoveFails PROVE PlainMove
  BY <1>15, MessagesAssumption DEF RemoveFails, CompactEnds, Told, TypeOK, Message
<1>16. ASSUME Compacted PROVE PlainMove
  BY <1>16, MessagesAssumption DEF Compacted, CompactEnds, Told, TypeOK, Message
<1>17. ASSUME ScanRefused PROVE PlainMove
  BY <1>17 DEF ScanRefused, OpenFailed, TypeOK, Message
<1>18. ASSUME ReadFails PROVE PlainMove
  BY <1>18 DEF ReadFails, OpenFailed, TypeOK, Message
<1>19. ASSUME ReplayRefused PROVE PlainMove
  BY <1>19 DEF ReplayRefused, OpenFailed, TypeOK, Message
<1>20. ASSUME ReplayFails PROVE PlainMove
  BY <1>20 DEF ReplayFails, OpenFailed, TypeOK, Message
<1>21. ASSUME Idle PROVE PlainMove
  BY <1>21 DEF Idle, vars, TypeOK, Message
<1>. QED
  BY <1>1, <1>2, <1>3, <1>4, <1>5, <1>6, <1>7, <1>8, <1>9, <1>10, <1>11, <1>12, <1>13, <1>14, <1>15, <1>16, <1>17, <1>18, <1>19, <1>20, <1>21

(* A request taken into the batch brings all its records.                  *)
LEMMA TakeBatch ==
  ASSUME TypeOK, WalInv, Take
  PROVE  BatchInv'
<1>1. /\ batch \in Seq(Request) /\ bytes \in Seq(Record)
      /\ queue \in Seq(Message) /\ queue # <<>>
  BY DEF TypeOK, Take
<1>2. CASE Head(queue) \notin Request
  <2>1. batch' = batch /\ bytes' = bytes  BY <1>2 DEF Take
  <2>. QED  BY <2>1 DEF WalInv, BatchInv
<1>3. CASE Head(queue) \in Request
  <2>. DEFINE r == Head(queue)
  <2>1. batch' = Append(batch, r) /\ bytes' = bytes \o RecordsOf(r)
    BY <1>3 DEF Take
  <2>2. Width[r] \in Nat  BY <1>3, MessagesAssumption
  <2>3. RecordsOf(r) \in Seq(Record) /\ Len(RecordsOf(r)) = Width[r]
    BY <1>3, <2>2, RecordsOfType DEF RecordsOf
  <2>4. \A i \in 1..Width[r] : RecordsOf(r)[i] = <<r, i>>
    BY DEF RecordsOf
  <2> HIDE DEF r
  <2>5. /\ Len(bytes') = Len(bytes) + Width[r]
        /\ \A j \in 1..Len(bytes) : bytes'[j] = bytes[j]
        /\ \A i \in 1..Width[r] : bytes'[Len(bytes) + i] = <<r, i>>
    BY <1>1, <2>1, <2>2, <2>3, <2>4, ConcatParts
  <2>6. ASSUME NEW k \in 1..Len(batch'), NEW i \in 1..Width[batch'[k]]
        PROVE  \E j \in 1..Len(bytes') : bytes'[j] = <<batch'[k], i>>
    <3>1. CASE k \in 1..Len(batch)
      <4>1. batch'[k] = batch[k]  BY <1>1, <2>1, <3>1
      <4>2. PICK j \in 1..Len(bytes) : bytes[j] = <<batch[k], i>>
        BY <3>1, <4>1 DEF WalInv, BatchInv
      <4>3. j \in 1..Len(bytes')  BY <1>1, <2>2, <2>5
      <4>. QED  BY <2>5, <4>1, <4>2, <4>3
    <3>2. CASE k = Len(batch) + 1
      <4>1. batch'[k] = r  BY <1>1, <2>1, <3>2
      <4>2. Len(bytes) + i \in 1..Len(bytes')
        BY <1>1, <2>2, <2>5, <4>1
      <4>. QED  BY <2>5, <4>1, <4>2
    <3>3. Len(batch') = Len(batch) + 1  BY <1>1, <1>3, <2>1 DEF r
    <3>. QED  BY <1>1, <3>1, <3>2, <3>3
  <2>. QED  BY <2>6 DEF BatchInv
<1>. QED  BY <1>2, <1>3

(* Steps that fill a batch or answer one of its requests.                  *)
LEMMA BatchActions ==
  ASSUME TypeOK, WalInv, TypeOK',
         Receive \/ Drain \/ AnswerOk \/ AnswerError \/ Answered
  PROVE  WalInv'
<1>. USE DEF QuietMove, Serving, clientVars, batchVars, tailVars, storeVars,
             scanVars
<1>1. ASSUME Receive \/ Drain PROVE WalInv'
  <2>1. BatchInv'  BY <1>1, TakeBatch DEF Receive, Drain
  <2>2. UNCHANGED <<files, storeVars, tailVars>> /\ QuietMove
    BY <1>1 DEF Receive, Drain, Take
  <2>3. \A r \in Request : Live(r)' => Live(r)
    BY <1>1 DEF Live, Receive, Drain, Take
  <2>. QED  BY <2>1, <2>2, <2>3, QuietStep
<1>2. ASSUME AnswerOk \/ AnswerError PROVE WalInv'
  <2>1. batch \in Seq(Request) /\ batch # <<>> /\ batch' = Tail(batch)
        /\ bytes' = bytes /\ pc = "answer" /\ pc' = pc
    BY <1>2 DEF AnswerOk, AnswerError, TypeOK
  <2>2. /\ \A k \in 1..Len(batch') : k + 1 \in 1..Len(batch)
                                      /\ batch'[k] = batch[k + 1]
        /\ 1 \in 1..Len(batch) /\ Head(batch) = batch[1]
    BY <2>1
  <2>3. BatchInv'
    <3>. SUFFICES ASSUME NEW k \in 1..Len(batch'), NEW i \in 1..Width[batch'[k]]
                  PROVE  \E j \in 1..Len(bytes) : bytes[j] = <<batch'[k], i>>
      BY <2>1 DEF BatchInv
    <3>1. k + 1 \in 1..Len(batch) /\ batch'[k] = batch[k + 1]  BY <2>2
    <3>. QED  BY <3>1 DEF WalInv, BatchInv
  <2>4. UNCHANGED <<files, storeVars, tailVars>> /\ QuietMove
    BY <1>2 DEF AnswerOk, AnswerError
  <2>5. ASSUME NEW r \in Request, Live(r)' PROVE Live(r)
    <3>1. verdict' = verdict  BY <1>2 DEF AnswerOk, AnswerError
    <3>2. CASE client'[r] = "acked"
      <4>1. client[r] = "acked" \/ (verdict = "ok" /\ r = Head(batch))
        BY <1>2, <3>2 DEF AnswerOk, AnswerError, Told, TypeOK, Message
      <4>. QED  BY <2>1, <2>2, <4>1 DEF Live
    <3>3. CASE verdict' = "ok" /\ \E k \in 1..Len(batch') : batch'[k] = r
      BY <2>1, <2>2, <3>1, <3>3 DEF Live
    <3>. QED  BY <2>5, <3>2, <3>3 DEF Live
  <2>. QED  BY <2>3, <2>4, <2>5, QuietStep
<1>3. ASSUME Answered PROVE WalInv'
  <2>1. batch' = <<>>  BY <1>3 DEF Answered
  <2>2. BatchInv'  BY <2>1 DEF BatchInv
  <2>3. UNCHANGED <<files, storeVars, tailVars>> /\ QuietMove
    BY <1>3 DEF Answered
  <2>4. \A r \in Request : Live(r)' => Live(r)
    BY <1>3 DEF Live, Answered
  <2>. QED  BY <2>2, <2>3, <2>4, QuietStep
<1>. QED  BY <1>1, <1>2, <1>3

(* Writing to the end of the active segment, short of losing what is       *)
(* synced there, leaves only TailInv and FlightInv to show.                *)
TailMove(g) ==
  /\ files' = [files EXCEPT ![active] = g]
  /\ files[active].synced <= g.synced /\ g.synced <= Len(g.data)
  /\ \A i \in 1..files[active].synced : g.data[i] = files[active].data[i]
  /\ UNCHANGED <<client, storeVars, batch, bytes>>
  /\ pc \in {"retire", "rewind", "sync"}
  /\ pc' \in {"rewind", "sync", "apply", "answer"}
  /\ pc' = "answer" => verdict' # "ok"

LEMMA TailStep ==
  ASSUME TypeOK, WalInv, TypeOK', NEW g, TailMove(g), TailInv', FlightInv'
  PROVE  WalInv'
<1>. USE DEF storeVars
<1>1. /\ active \in DOMAIN files /\ DOMAIN files' = DOMAIN files
      /\ \A n \in DOMAIN files : files[n] \in File /\ files'[n] \in File
      /\ files'[active] = g
      /\ \A n \in DOMAIN files : n # active => files'[n] = files[n]
  BY DEF TailMove, WalInv, TailInv, Serving, TypeOK
<1>2. \A n \in DOMAIN files :
        /\ files[n].synced \in Nat /\ files'[n].synced \in Nat
        /\ files[n].synced <= files'[n].synced
        /\ files'[n].synced <= Len(files'[n].data)
  BY <1>1, FileParts DEF TailMove, WalInv, FilesInv
<1>3. \A n \in DOMAIN files : \A i \in 1..files[n].synced :
        i \in 1..files'[n].synced /\ files'[n].data[i] = files[n].data[i]
  BY <1>1, <1>2 DEF TailMove
<1>4. StoreInv'
  BY DEF TailMove, WalInv, StoreInv, Latest
<1>5. FilesInv'
  <2>1. ASSUME NEW c \in commits' PROVE c \in commits /\ c.applied <= c.applied
    <3>1. c \in commits  BY DEF TailMove
    <3>2. c.applied \in Nat  BY <3>1 DEF TypeOK, Commit
    <3>. QED  BY <3>1, <3>2
  <2>. QED  BY <1>1, <1>2, <2>1, FilesFrame DEF WalInv
<1>6. BatchInv'
  BY DEF TailMove, WalInv, BatchInv
<1>7. \A r \in Request : Live(r)' => Live(r)
  BY DEF TailMove, Live
<1>8. LiveInv'
  BY <1>1, <1>3, <1>7, LiveFrame DEF TailMove, WalInv
<1>9. VisibleInv'
  <2>. SUFFICES ASSUME NEW r \in Request, Live(r)', NEW i \in 1..Width[r],
                       NEW c \in commits, applied <= c.applied
                PROVE  HeldAt(c, <<r, i>>)'
    BY DEF VisibleInv, TailMove
  <2>1. pc \in Serving  BY DEF TailMove, Serving
  <2>. QED  BY <1>7, <2>1 DEF WalInv, VisibleInv, HeldAt, TailMove
<1>10. ScanInv' /\ ReopenInv'
  BY DEF ScanInv, ReopenInv, TailMove
<1>. QED  BY <1>4, <1>5, <1>6, <1>8, <1>9, <1>10 DEF WalInv

(* Appending, rewinding and flushing.                                      *)
LEMMA TailActions ==
  ASSUME TypeOK, WalInv, TypeOK',
         AppendBytes \/ AppendFails \/ Rewind \/ RewindFails \/ Sync
  PROVE  WalInv'
<1>. DEFINE f == files[active]
<1>1. /\ pc \in Serving /\ pc \in {"retire", "rewind", "sync"}
      /\ active \in DOMAIN files /\ active \in Nat /\ f \in File
      /\ applied \in Nat /\ written \in Nat /\ bytes \in Seq(Record)
  BY DEF AppendBytes, AppendFails, Rewind, RewindFails, Sync, WalInv, TailInv,
         Serving, TypeOK
<1>2. /\ f.data \in Seq(Record) /\ f.synced \in Nat
      /\ f.synced <= written /\ written <= Len(f.data)
      /\ applied <= active + f.synced
      /\ active <= applied /\ \A n \in DOMAIN files : n <= active
  BY <1>1, FileParts DEF WalInv, TailInv
<1>3. Len(f.data) \in Nat /\ Len(bytes) \in Nat  BY <1>1, <1>2
<1>4. ASSUME AppendBytes PROVE WalInv'
  <2>. DEFINE g == Written(f, bytes)
  <2>1. g \in File /\ g.data = f.data \o bytes /\ g.synced = f.synced
    BY <1>1, WrittenType DEF Written, File
  <2>2. /\ Len(g.data) = Len(f.data) + Len(bytes)
        /\ \A i \in 1..Len(f.data) : g.data[i] = f.data[i]
        /\ \A j \in 1..Len(bytes) : g.data[Len(f.data) + j] = bytes[j]
    BY <1>1, <1>2, <2>1, ConcatParts
  <2>3. written = Len(f.data)
    BY <1>4 DEF AppendBytes, WalInv, TailInv, Serving
  <2>4. /\ files' = [files EXCEPT ![active] = g]
        /\ written' = written + Len(bytes) /\ pc' = "sync" /\ pc = "retire"
        /\ active' = active /\ poisoned' = poisoned /\ ~poisoned
        /\ UNCHANGED <<client, storeVars, batch, bytes>>
    BY <1>4 DEF AppendBytes, clientVars, batchVars
  <2>5. /\ files'[active] = g /\ DOMAIN files' = DOMAIN files
    BY <1>1, <2>4
  <2> HIDE DEF g
  <2>6. TailMove(g)
    BY <1>1, <1>2, <1>3, <2>1, <2>2, <2>4 DEF TailMove
  <2>7. TailInv'
    <3>1. g.synced <= written' /\ written' = Len(g.data) /\ applied' = applied
      BY <1>1, <1>2, <1>3, <2>1, <2>2, <2>3, <2>4 DEF storeVars
    <3>. QED  BY <1>1, <1>2, <2>1, <2>4, <2>5, <3>1 DEF TailInv
  <2>8. FlightInv'
    <3>1. written' - Len(bytes') = Len(f.data)
      BY <1>3, <2>3, <2>4
    <3>2. applied <= active + Len(f.data)
      BY <1>1, <1>2, <1>3
    <3>. QED
      BY <1>1, <1>3, <2>2, <2>3, <2>4, <2>5, <3>1, <3>2 DEF FlightInv, storeVars
  <2>. QED  BY <2>6, <2>7, <2>8, TailStep
<1>5. ASSUME AppendFails PROVE WalInv'
  <2>1. PICK g \in PartlyWritten(f, bytes) : files' = [files EXCEPT ![active] = g]
    BY <1>5 DEF AppendFails
  <2>2. PICK k \in 0..Len(bytes) :
          /\ g.data = f.data \o SubSeq(bytes, 1, k) /\ g.synced = f.synced
    <3>1. \A k \in 0..(Len(bytes) - 1) : k \in 0..Len(bytes)  BY <1>3
    <3>. QED  BY <1>1, <3>1 DEF PartlyWritten, File
  <2>3. SubSeq(bytes, 1, k) \in Seq(Record)  BY <1>1, <1>3
  <2>. DEFINE b == SubSeq(bytes, 1, k)
  <2>a. Len(b) \in Nat  BY <2>3
  <2> HIDE DEF b
  <2>4. /\ Len(g.data) = Len(f.data) + Len(b)
        /\ \A i \in 1..Len(f.data) : g.data[i] = f.data[i]
    <3>1. g.data = f.data \o b /\ b \in Seq(Record)  BY <2>2, <2>3 DEF b
    <3>. QED  BY <1>2, <3>1, ConcatParts
  <2>5. /\ pc' = "rewind" /\ pc = "retire"
        /\ UNCHANGED <<client, storeVars, batch, bytes, active, written, poisoned>>
        /\ ~poisoned
    BY <1>5 DEF AppendFails, clientVars, batchVars, tailVars
  <2>6. /\ files'[active] = g /\ DOMAIN files' = DOMAIN files
    BY <1>1, <2>1
  <2>7. TailMove(g)
    BY <1>1, <1>2, <1>3, <2>a, <2>1, <2>2, <2>4, <2>5 DEF TailMove
  <2>8. TailInv'
    <3>1. written <= Len(g.data)
      BY <1>1, <1>2, <1>3, <2>a, <2>4
    <3>2. applied' = applied
      BY <2>5 DEF storeVars
    <3>. QED  BY <1>1, <1>2, <2>2, <2>5, <2>6, <3>1, <3>2 DEF TailInv
  <2>9. FlightInv'  BY <2>5 DEF FlightInv
  <2>. QED  BY <2>7, <2>8, <2>9, TailStep
<1>6. ASSUME Rewind PROVE WalInv'
  <2>. DEFINE g == Truncated(f, written)
  <2>1. g.data = SubSeq(f.data, 1, written) /\ g.synced = written
    BY DEF Truncated
  <2>2. Len(g.data) = written /\ \A i \in 1..written : g.data[i] = f.data[i]
    BY <1>1, <1>2, <1>3, <2>1
  <2>3. /\ files' = [files EXCEPT ![active] = g]
        /\ pc' = "answer" /\ verdict' = "error" /\ pc = "rewind"
        /\ UNCHANGED <<client, storeVars, batch, bytes, active, written, poisoned>>
    BY <1>6 DEF Rewind, Refuse, clientVars, tailVars
  <2>4. /\ files'[active] = g /\ DOMAIN files' = DOMAIN files
    BY <1>1, <2>3
  <2> HIDE DEF g
  <2>5. TailMove(g)
    BY <1>2, <1>3, <1>1, <2>1, <2>2, <2>3 DEF TailMove
  <2>6. TailInv'
    BY <1>1, <1>2, <1>3, <2>1, <2>2, <2>3, <2>4 DEF TailInv, storeVars
  <2>7. FlightInv'  BY <2>3 DEF FlightInv
  <2>. QED  BY <2>5, <2>6, <2>7, TailStep
<1>7. ASSUME RewindFails PROVE WalInv'
  <2>1. PICK g \in HalfTruncated(f, written) : files' = [files EXCEPT ![active] = g]
    BY <1>7 DEF RewindFails
  <2>2. /\ g.synced = f.synced
        /\ g.data = f.data \/ g.data = SubSeq(f.data, 1, written)
    BY <1>1, <2>1 DEF HalfTruncated, File
  <2>3. /\ written <= Len(g.data) /\ Len(g.data) \in Nat
        /\ \A i \in 1..written : g.data[i] = f.data[i]
    BY <1>1, <1>2, <1>3, <2>2
  <2>4. /\ pc' = "answer" /\ verdict' = "error" /\ pc = "rewind"
        /\ poisoned' = TRUE
        /\ UNCHANGED <<client, storeVars, batch, bytes, active, written>>
    BY <1>7 DEF RewindFails, Refuse, clientVars
  <2>5. /\ files'[active] = g /\ DOMAIN files' = DOMAIN files
    BY <1>1, <2>1
  <2>6. TailMove(g)
    BY <1>1, <1>2, <1>3, <2>1, <2>2, <2>3, <2>4 DEF TailMove
  <2>7. TailInv'
    BY <1>1, <1>2, <1>3, <2>2, <2>3, <2>4, <2>5 DEF TailInv, storeVars
  <2>8. FlightInv'  BY <2>4 DEF FlightInv
  <2>. QED  BY <2>6, <2>7, <2>8, TailStep
<1>8. ASSUME Sync PROVE WalInv'
  <2>. DEFINE g == Synced(f)
  <2>1. g.data = f.data /\ g.synced = Len(f.data)
    BY <1>1 DEF Synced, File
  <2>2. /\ files' = [files EXCEPT ![active] = g]
        /\ pc' = "apply" /\ pc = "sync"
        /\ UNCHANGED <<client, storeVars, batch, bytes, active, written, poisoned>>
    BY <1>8 DEF Sync, clientVars, batchVars, tailVars
  <2>3. /\ files'[active] = g /\ DOMAIN files' = DOMAIN files
    BY <1>1, <2>2
  <2>4. written = Len(f.data) /\ ~poisoned
    BY <2>2 DEF WalInv, TailInv, Serving
  <2> HIDE DEF g
  <2>5. TailMove(g)
    BY <1>1, <1>2, <1>3, <2>1, <2>2, <2>4 DEF TailMove
  <2>6. TailInv'
    BY <1>1, <1>2, <1>3, <2>1, <2>2, <2>3, <2>4 DEF TailInv, storeVars
  <2>7. FlightInv'
    BY <2>1, <2>2, <2>3, <2>4 DEF WalInv, FlightInv, storeVars
  <2>. QED  BY <2>5, <2>6, <2>7, TailStep
<1>. QED  BY <1>4, <1>5, <1>6, <1>7, <1>8

(* A new segment begins where the synced records of the old one reach; a   *)
(* commit that old segments no longer cover has every live write.          *)
LEMMA RollOverAction ==
  ASSUME TypeOK, WalInv, TypeOK', RollOver
  PROVE  WalInv'
<1>. USE DEF storeVars
<1>1. /\ pc = "retire" /\ pc' = pc /\ applied \notin DOMAIN files
      /\ DOMAIN files' = DOMAIN files \cup {applied}
      /\ files'[applied] = EmptyFile
      /\ \A n \in DOMAIN files : files'[n] = files[n]
      /\ active' = applied /\ written' = 0 /\ poisoned' = FALSE
      /\ UNCHANGED <<client, batch, bytes, verdict, storeVars>>
  BY DEF RollOver, clientVars, batchVars
<1>2. /\ active \in DOMAIN files /\ active <= applied
      /\ \A n \in DOMAIN files : n <= active
      /\ applied <= active + files[active].synced
  BY <1>1 DEF WalInv, TailInv, Serving
<1>3. /\ applied \in Nat /\ active \in Nat
      /\ \A n \in DOMAIN files : n \in Nat
      /\ \A c \in commits : c.applied \in Nat
  BY <1>2 DEF TypeOK, Commit
<1>4. active < applied  BY <1>1, <1>2, <1>3
<1>5. EmptyFile.synced = 0 /\ EmptyFile.data = <<>> /\ Len(EmptyFile.data) = 0
  BY DEF EmptyFile
<1>6. StoreInv'
  BY <1>1 DEF WalInv, StoreInv, Latest
<1>7. FilesInv'
  <2>1. \A n \in DOMAIN files' : files'[n].synced <= Len(files'[n].data)
    BY <1>1, <1>5 DEF WalInv, FilesInv
  <2>2. \A n \in DOMAIN files' : n <= applied
    BY <1>1, <1>2, <1>3
  <2>3. ASSUME NEW n \in DOMAIN files'
        PROVE  \/ n = 0
               \/ \E m \in DOMAIN files' : m < n /\ n <= m + files'[m].synced
               \/ \A c \in commits' : n <= c.applied
    <3>1. CASE n = applied
      BY <1>1, <1>2, <1>4, <3>1
    <3>2. CASE n \in DOMAIN files
      BY <1>1, <3>2 DEF WalInv, FilesInv
    <3>. QED  BY <1>1, <3>1, <3>2
  <2>. QED  BY <1>1, <2>1, <2>2, <2>3 DEF FilesInv
<1>8. TailInv'
  BY <1>1, <1>2, <1>3, <1>5 DEF TailInv, Serving
<1>9. FlightInv' /\ ScanInv' /\ ReopenInv'
  BY <1>1 DEF FlightInv, ScanInv, ReopenInv
<1>10. BatchInv'
  BY <1>1 DEF WalInv, BatchInv
<1>11. \A r \in Request : Live(r)' => Live(r)
  BY <1>1 DEF Live
<1>12. VisibleInv'
  <2>. SUFFICES ASSUME NEW r \in Request, Live(r)', NEW i \in 1..Width[r],
                       NEW c \in commits, applied <= c.applied
                PROVE  HeldAt(c, <<r, i>>)'
    BY <1>1 DEF VisibleInv
  <2>. QED  BY <1>1, <1>11 DEF WalInv, VisibleInv, HeldAt, Serving
<1>13. LiveInv'
  <2>. SUFFICES ASSUME NEW r \in Request, Live(r)', NEW i \in 1..Width[r],
                       NEW c \in commits
                PROVE  Recoverable(c, <<r, i>>)'
    BY <1>1 DEF LiveInv
  <2>1. Live(r) /\ Recoverable(c, <<r, i>>)
    BY <1>11 DEF WalInv, LiveInv
  <2>2. CASE HeldAt(c, <<r, i>>)
    BY <1>1, <2>2 DEF Recoverable, HeldAt
  <2>3. CASE applied <= c.applied
    BY <1>12, <1>1, <2>3 DEF VisibleInv, Recoverable, Serving
  <2>4. CASE ReplayedFrom(c, <<r, i>>) /\ ~(applied <= c.applied)
    <3>1. applied > c.applied  BY <1>3, <2>4
    <3>2. PICK n \in DOMAIN files :
            /\ \A m \in DOMAIN files : m > n => m > c.applied
            /\ \E j \in 1..files[n].synced :
                 files[n].data[j] = <<r, i>> /\ n + j > c.applied
      BY <2>4 DEF ReplayedFrom
    <3>3. \A m \in DOMAIN files' : m > n => m > c.applied
      BY <1>1, <3>1, <3>2
    <3>4. n \in DOMAIN files' /\ files'[n] = files[n]
      BY <1>1
    <3>. QED  BY <3>2, <3>3, <3>4 DEF Recoverable, ReplayedFrom
  <2>. QED  BY <2>1, <2>2, <2>3, <2>4 DEF Recoverable
<1>. QED
  BY <1>6, <1>7, <1>8, <1>9, <1>10, <1>12, <1>13 DEF WalInv

(* Records applied at the end of the store leave its commits ordered.      *)
LEMMA StoreGrows ==
  ASSUME TypeOK, WalInv, TypeOK', NEW s \in Seq(Record), NEW upto \in Nat,
         StoreApply(s, upto), applied <= upto, s = <<>> => upto = applied,
         files' = files, pc' # "remove"
  PROVE  /\ StoreInv' /\ FilesInv'
         /\ \A k \in 1..Len(hist) : hist'[k] = hist[k]
         /\ \A k \in 1..Len(s) : hist'[Len(hist) + k] = s[k]
         /\ Len(hist) \in Nat /\ Len(s) \in Nat
         /\ Len(hist') = Len(hist) + Len(s) /\ applied' = upto
         /\ Latest' \in commits'
         /\ commits' = commits \cup {Latest'}
<1>1. hist' = hist \o s /\ hist \in Seq(Record) /\ applied' = upto
      /\ applied \in Nat
  BY DEF StoreApply, TypeOK
<1>2. /\ Len(hist') = Len(hist) + Len(s)
      /\ \A k \in 1..Len(hist) : hist'[k] = hist[k]
      /\ \A k \in 1..Len(s) : hist'[Len(hist) + k] = s[k]
      /\ Len(hist) \in Nat /\ Len(s) \in Nat
  BY <1>1, ConcatParts
<1>3. commits' = commits \cup {Latest'}
  BY <1>1, <1>2 DEF StoreApply, Latest
<1>4. /\ Latest'.len = Len(hist) + Len(s) /\ Latest'.applied = upto
      /\ Latest.len = Len(hist) /\ Latest.applied = applied
  BY <1>1, <1>2 DEF Latest
<1>5. \A c \in commits : c.len \in Nat /\ c.applied \in Nat
  BY DEF TypeOK, Commit
<1>6. /\ \A c \in commits : c.len <= Len(hist) /\ c.applied <= applied
      /\ \A c, d \in commits : c.len <= d.len => c.applied <= d.applied
      /\ Latest \in commits
  BY DEF WalInv, StoreInv
<1> HIDE DEF Latest
<1>7. \A c \in commits' : c.len <= Len(hist') /\ c.applied <= applied'
  BY <1>1, <1>2, <1>3, <1>4, <1>5, <1>6
<1>8. ASSUME NEW c \in commits', NEW d \in commits', c.len <= d.len
      PROVE  c.applied <= d.applied
  <2>1. CASE c \in commits /\ d \in commits
    BY <1>6, <1>8, <2>1
  <2>2. CASE d = Latest'
    BY <1>1, <1>4, <1>7, <2>2
  <2>3. CASE c = Latest' /\ d \in commits
    <3>1. Len(hist) + Len(s) <= d.len /\ d.len <= Len(hist)
      BY <1>4, <1>6, <1>8, <2>3
    <3>2. Len(s) = 0 /\ d.len = Len(hist)
      BY <1>2, <1>5, <2>3, <3>1
    <3>3. upto = applied  BY <3>2
    <3>4. Latest.applied <= d.applied
      BY <1>1, <1>2, <1>4, <1>6, <2>3, <3>2
    <3>. QED  BY <1>4, <2>3, <3>3, <3>4
  <2>. QED  BY <1>3, <2>1, <2>2, <2>3
<1>9. StoreInv'
  BY <1>3, <1>7, <1>8 DEF StoreInv
<1>10. FilesInv'
  <2>1. ASSUME NEW c \in commits' PROVE \E d \in commits : d.applied <= c.applied
    <3>1. CASE c \in commits  BY <1>5, <3>1
    <3>2. CASE c = Latest'  BY <1>4, <1>6, <3>2
    <3>. QED  BY <1>3, <3>1, <3>2
  <2>2. \A n \in DOMAIN files : files[n].synced \in Nat
                                  /\ files[n].synced <= Len(files[n].data)
    BY FileParts DEF TypeOK, WalInv, FilesInv
  <2>3. \A n \in DOMAIN files : files[n].synced <= files'[n].synced
                                  /\ files'[n].synced <= Len(files'[n].data)
    BY <2>2
  <2>. QED  BY <2>1, <2>3, FilesFrame DEF WalInv
<1>. QED  BY <1>1, <1>2, <1>3, <1>9, <1>10 DEF StoreInv

(* An applied batch is held by the new commit, and older commits replay it *)
(* from the end of the active segment.                                     *)
LEMMA ApplyAction ==
  ASSUME TypeOK, WalInv, TypeOK', Apply
  PROVE  WalInv'
<1>1. /\ pc = "apply" /\ pc' = "answer" /\ verdict' = "ok"
      /\ UNCHANGED <<client, batch, bytes, active, written, poisoned, files>>
      /\ StoreApply(bytes, applied + Len(bytes))
  BY DEF Apply, clientVars, tailVars
<1>2. /\ bytes \in Seq(Record) /\ Len(bytes) \in Nat /\ applied \in Nat
      /\ written \in Nat /\ active \in Nat
      /\ \A c \in commits : c.applied \in Nat /\ c.len \in Nat
  <2>1. /\ bytes \in Seq(Record) /\ applied \in Nat
        /\ written \in Nat /\ active \in Nat /\ commits \subseteq Commit
    BY DEF TypeOK
  <2>. QED  BY <2>1 DEF Commit
<1>3. applied + Len(bytes) \in Nat /\ applied <= applied + Len(bytes)
      /\ (bytes = <<>> => applied + Len(bytes) = applied)
  BY <1>2
<1>4. /\ StoreInv' /\ FilesInv'
      /\ \A k \in 1..Len(hist) : hist'[k] = hist[k]
      /\ \A k \in 1..Len(bytes) : hist'[Len(hist) + k] = bytes[k]
      /\ Len(hist) \in Nat
      /\ Len(hist') = Len(hist) + Len(bytes)
      /\ applied' = applied + Len(bytes)
      /\ commits' = commits \cup {Latest'}
  <2>1. files' = files /\ pc' # "remove"  BY <1>1
  <2>. QED  BY <1>1, <1>2, <1>3, <2>1, StoreGrows
<1>5. /\ active \in DOMAIN files /\ active <= applied
      /\ \A n \in DOMAIN files : n <= active /\ n \in Nat
      /\ files[active].synced = written
      /\ written = Len(files[active].data) /\ ~poisoned
      /\ Len(bytes) <= written
      /\ applied <= active + (written - Len(bytes))
      /\ \A j \in 1..Len(bytes) :
           files[active].data[(written - Len(bytes)) + j] = bytes[j]
  BY <1>1 DEF WalInv, TailInv, FlightInv, Serving, TypeOK
<1>6. TailInv'
  <2>1. active <= applied' /\ applied' <= active + written /\ written <= written
    BY <1>2, <1>4, <1>5
  <2>. QED  BY <1>1, <1>5, <2>1 DEF TailInv
<1>7. FlightInv' /\ ScanInv' /\ ReopenInv'
  BY <1>1 DEF FlightInv, ScanInv, ReopenInv
<1>8. BatchInv'
  BY <1>1 DEF WalInv, BatchInv
<1>9. ASSUME NEW r \in Request, Live(r)'
      PROVE  Live(r) \/ \E k \in 1..Len(batch) : batch[k] = r
  BY <1>1, <1>9 DEF Live
<1>10. Latest'.len = Len(hist') /\ Latest'.applied = applied'
  BY DEF Latest
<1>11. \A c \in commits : c.len <= Len(hist) /\ c.applied <= applied
  BY DEF WalInv, StoreInv
<1>12. ASSUME NEW r \in Request, NEW k \in 1..Len(batch), batch[k] = r,
              NEW i \in 1..Width[r]
       PROVE  /\ bytes # <<>>
              /\ HeldAt(Latest, <<r, i>>)'
              /\ \A c \in commits : ReplayedFrom(c, <<r, i>>)'
  <2>1. PICK j \in 1..Len(bytes) : bytes[j] = <<r, i>>
    BY <1>12 DEF WalInv, BatchInv
  <2>2. Len(hist) + j \in 1..Len(hist') /\ hist'[Len(hist) + j] = <<r, i>>
    BY <1>2, <1>4, <2>1
  <2>3. HeldAt(Latest, <<r, i>>)'
    BY <1>10, <2>2 DEF HeldAt
  <2>4. ASSUME NEW c \in commits PROVE ReplayedFrom(c, <<r, i>>)'
    <3>. DEFINE p == (written - Len(bytes)) + j
    <3>1. Len(bytes) \in Nat /\ written \in Nat
      BY <1>2, <1>5
    <3>2. p \in 1..written
      BY <1>5, <2>1, <3>1
    <3>3. files[active].data[p] = bytes[j]
      BY <1>5, <2>1
    <3>4. /\ p \in 1..files[active].synced
          /\ files[active].data[p] = <<r, i>>
      BY <1>5, <2>1, <3>2, <3>3
    <3>5. active + p > c.applied
      BY <1>2, <1>5, <1>11
    <3>6. \A m \in DOMAIN files : m > active => m > c.applied
      BY <1>2, <1>5
    <3>. QED  BY <1>1, <1>5, <3>4, <3>5, <3>6 DEF ReplayedFrom
  <2>5. bytes # <<>>  BY <2>1
  <2>. QED  BY <2>3, <2>4, <2>5
<1>13. ASSUME NEW r \in Request, Live(r), NEW i \in 1..Width[r]
       PROVE  /\ HeldAt(Latest, <<r, i>>)'
              /\ \A c \in commits : Recoverable(c, <<r, i>>)'
              /\ \A c \in commits : applied <= c.applied => HeldAt(c, <<r, i>>)'
  <2>1. \A c \in commits : \A k \in 1..c.len : k \in 1..Len(hist)
    BY <1>2, <1>4, <1>11
  <2>2. ASSUME NEW c \in commits PROVE Recoverable(c, <<r, i>>)'
    <3>1. Recoverable(c, <<r, i>>)
      BY <1>13 DEF WalInv, LiveInv
    <3>2. \A k \in 1..c.len : hist'[k] = hist[k]
      BY <1>4, <2>1
    <3>3. \A n \in DOMAIN files : \A k \in 1..files[n].synced :
            k \in 1..files'[n].synced /\ files'[n].data[k] = files[n].data[k]
      BY <1>1
    <3>4. DOMAIN files' = DOMAIN files  BY <1>1
    <3>. QED  BY <3>1, <3>2, <3>3, <3>4, RecoverableFrame
  <2>3. ASSUME NEW c \in commits, applied <= c.applied PROVE HeldAt(c, <<r, i>>)'
    <3>1. HeldAt(c, <<r, i>>)
      BY <1>1, <1>13, <2>3 DEF WalInv, VisibleInv, Serving
    <3>. QED  BY <1>4, <2>1, <3>1 DEF HeldAt
  <2>4. HeldAt(Latest, <<r, i>>)'
    <3>1. Latest \in commits /\ Latest.applied = applied /\ Latest.len = Len(hist)
      BY DEF WalInv, StoreInv, Latest
    <3>2. applied <= Latest.applied  BY <1>2, <3>1
    <3>3. HeldAt(Latest, <<r, i>>)
      BY <1>1, <1>13, <3>1, <3>2 DEF WalInv, VisibleInv, Serving
    <3>4. PICK k \in 1..Len(hist) : hist[k] = <<r, i>>
      BY <3>1, <3>3 DEF HeldAt
    <3>5. k \in 1..Len(hist') /\ hist'[k] = <<r, i>>
      BY <1>2, <1>4, <3>4
    <3>. QED  BY <1>10, <3>5 DEF HeldAt
  <2>. QED  BY <2>2, <2>3, <2>4
<1>14. LiveInv'
  <2>. SUFFICES ASSUME NEW r \in Request, Live(r)', NEW i \in 1..Width[r],
                       NEW c \in commits'
                PROVE  Recoverable(c, <<r, i>>)'
    BY DEF LiveInv
  <2>1. CASE Live(r)
    BY <1>4, <1>13, <2>1 DEF Recoverable
  <2>2. CASE \E k \in 1..Len(batch) : batch[k] = r
    BY <1>4, <1>12, <2>2 DEF Recoverable
  <2>. QED  BY <1>9, <2>1, <2>2
<1>15. VisibleInv'
  <2>. SUFFICES ASSUME NEW r \in Request, Live(r)', NEW i \in 1..Width[r],
                       NEW c \in commits', applied' <= c.applied
                PROVE  HeldAt(c, <<r, i>>)'
    BY DEF VisibleInv
  <2>1. CASE c = Latest'
    BY <1>9, <1>12, <1>13, <2>1
  <2>2. CASE c \in commits
    <3>1. Len(bytes) = 0 /\ applied <= c.applied
      BY <1>2, <1>4, <1>11, <2>2
    <3>2. bytes = <<>>  BY <1>2, <3>1
    <3>. QED  BY <1>9, <1>12, <1>13, <2>2, <3>1, <3>2
  <2>. QED  BY <1>4, <2>1, <2>2
<1>. QED
  BY <1>4, <1>6, <1>7, <1>8, <1>14, <1>15 DEF WalInv

(* A flush leaves the one commit at which nothing has to be replayed.      *)
LEMMA FlushAction ==
  ASSUME TypeOK, WalInv, TypeOK', FlushStore
  PROVE  WalInv'
<1>1. /\ pc = "settle" /\ pc' = "remove" /\ commits' = {Latest}
      /\ UNCHANGED <<client, batch, bytes, verdict, active, written, poisoned,
                     files, hist, applied>>
  BY DEF FlushStore, clientVars, batchVars, tailVars
<1>2. Latest \in commits /\ Latest' = Latest
  BY <1>1 DEF WalInv, StoreInv, Latest
<1>3. \A c \in commits' : c \in commits /\ c = Latest
  BY <1>1, <1>2
<1>4. Latest.len = Len(hist) /\ Latest.applied = applied
      /\ applied \in Nat /\ Len(hist) \in Nat
  BY DEF Latest, TypeOK
<1>5. StoreInv'
  <2>1. \A c \in commits' : c.len <= Len(hist) /\ c.applied <= applied
    BY <1>3 DEF WalInv, StoreInv
  <2>2. \A c, d \in commits' : c.applied <= d.applied
    BY <1>3, <1>4
  <2>. QED  BY <1>1, <1>2, <2>1, <2>2 DEF StoreInv
<1>6. FilesInv'
  BY <1>1, <1>3 DEF WalInv, FilesInv
<1>7. TailInv'
  BY <1>1 DEF WalInv, TailInv, Serving
<1>8. FlightInv' /\ ScanInv' /\ ReopenInv'
  BY <1>1 DEF FlightInv, ScanInv, ReopenInv
<1>9. BatchInv'
  BY <1>1 DEF WalInv, BatchInv
<1>10. \A r \in Request : Live(r)' => Live(r)
  BY <1>1 DEF Live
<1>11. LiveInv'
  <2>1. \A n \in DOMAIN files : \A i \in 1..files[n].synced :
          i \in 1..files'[n].synced /\ files'[n].data[i] = files[n].data[i]
    BY <1>1
  <2>2. /\ commits' \subseteq commits
        /\ \A c \in commits' : \A k \in 1..c.len : hist'[k] = hist[k]
        /\ DOMAIN files' = DOMAIN files
    BY <1>1, <1>3
  <2>. QED  BY <1>10, <2>1, <2>2, LiveFrame DEF WalInv
<1>12. VisibleInv'
  <2>. SUFFICES ASSUME NEW r \in Request, Live(r)', NEW i \in 1..Width[r],
                       NEW c \in commits', applied <= c.applied
                PROVE  HeldAt(c, <<r, i>>)'
    BY <1>1 DEF VisibleInv
  <2>. QED  BY <1>1, <1>3, <1>10 DEF WalInv, VisibleInv, HeldAt, Serving
<1>. QED
  BY <1>5, <1>6, <1>7, <1>8, <1>9, <1>11, <1>12 DEF WalInv

(* A segment the flushed store is past holds nothing that is still needed. *)
LEMMA RemoveAction ==
  ASSUME TypeOK, WalInv, TypeOK', RemoveSegment
  PROVE  WalInv'
<1>. USE DEF storeVars
<1>. DEFINE d == MinOf(Removable)
<1>1. /\ pc = "remove" /\ pc' = pc
      /\ DOMAIN files' = DOMAIN files \ {d}
      /\ \A n \in DOMAIN files' : files'[n] = files[n]
      /\ UNCHANGED <<client, batch, bytes, verdict, active, written, poisoned,
                     storeVars>>
  BY DEF RemoveSegment, clientVars, batchVars, tailVars
<1>2. d \in Removable
  <2>1. Removable \subseteq Nat /\ Removable # {}
    BY DEF RemoveSegment, Removable, TypeOK
  <2>. QED  BY <2>1, MinOfProperties
<1>3. d \in DOMAIN files /\ \E m \in DOMAIN files : m > d
  BY <1>2 DEF Removable
<1> HIDE DEF d
<1>4. /\ commits = {Latest} /\ Latest.applied = applied
      /\ applied \in Nat /\ active \in Nat
      /\ \A n \in DOMAIN files : n \in Nat
  BY <1>1 DEF WalInv, StoreInv, Latest, TypeOK
<1>5. /\ active \in DOMAIN files /\ \A n \in DOMAIN files : n <= active
      /\ active <= applied
  BY <1>1 DEF WalInv, TailInv, Serving
<1>6. active \in DOMAIN files'
  BY <1>1, <1>3, <1>4, <1>5
<1>7. StoreInv'
  BY <1>1 DEF WalInv, StoreInv, Latest
<1>8. FilesInv'
  <2>1. \A n \in DOMAIN files' : \A c \in commits' : n <= c.applied
    BY <1>1, <1>4, <1>5
  <2>2. \A n \in DOMAIN files' : files'[n].synced <= Len(files'[n].data)
    BY <1>1 DEF WalInv, FilesInv
  <2>3. \A n \in DOMAIN files' : n <= active
    BY <1>1, <1>5
  <2>. QED  BY <1>6, <2>1, <2>2, <2>3 DEF FilesInv
<1>9. TailInv'
  BY <1>1, <1>6 DEF WalInv, TailInv, Serving
<1>10. FlightInv' /\ ScanInv' /\ ReopenInv'
  BY <1>1 DEF FlightInv, ScanInv, ReopenInv
<1>11. BatchInv'
  BY <1>1 DEF WalInv, BatchInv
<1>12. \A r \in Request : Live(r)' => Live(r)
  BY <1>1 DEF Live
<1>13. VisibleInv'
  <2>. SUFFICES ASSUME NEW r \in Request, Live(r)', NEW i \in 1..Width[r],
                       NEW c \in commits, applied <= c.applied
                PROVE  HeldAt(c, <<r, i>>)'
    BY <1>1 DEF VisibleInv
  <2>. QED  BY <1>1, <1>12 DEF WalInv, VisibleInv, HeldAt, Serving
<1>14. LiveInv'
  <2>1. \A c \in commits' : applied' <= c.applied
    BY <1>1, <1>4
  <2>. QED  BY <1>1, <1>13, <2>1 DEF LiveInv, VisibleInv, Recoverable, Serving
<1>. QED
  BY <1>7, <1>8, <1>9, <1>10, <1>11, <1>13, <1>14 DEF WalInv

(* A crash falls back to one commit and keeps every synced record.         *)
CrashMove(c) ==
  /\ c \in commits /\ StoreFallsTo(c)
  /\ c \in commits' /\ commits' \subseteq commits
  /\ \A e \in commits' : e.len <= c.len
  /\ DOMAIN files' = DOMAIN files
  /\ \A n \in DOMAIN files :
       /\ files[n].synced <= files'[n].synced
       /\ files'[n].synced <= Len(files'[n].data)
       /\ \A i \in 1..files[n].synced : files'[n].data[i] = files[n].data[i]
  /\ LoseMemory /\ pc' = "down"

LEMMA CrashStep ==
  ASSUME TypeOK, WalInv, TypeOK', NEW c, CrashMove(c)
  PROVE  WalInv'
<1>1. /\ c \in commits /\ c \in commits' /\ commits' \subseteq commits
      /\ hist' = SubSeq(hist, 1, c.len) /\ applied' = c.applied
      /\ \A e \in commits' : e.len <= c.len
      /\ pc' = "down" /\ batch' = <<>>
  BY DEF CrashMove, StoreFallsTo, LoseMemory
<1>2. /\ \A e \in commits : e \in Commit /\ e.len \in Nat /\ e.applied \in Nat
      /\ hist \in Seq(Record) /\ Len(hist) \in Nat
  <2>1. commits \subseteq Commit /\ hist \in Seq(Record)  BY DEF TypeOK
  <2>. QED  BY <2>1 DEF Commit
<1>3. /\ \A e \in commits : e.len <= Len(hist)
      /\ \A d, e \in commits : d.len <= e.len => d.applied <= e.applied
  BY DEF WalInv, StoreInv
<1>4. /\ Len(hist') = c.len
      /\ \A k \in 1..c.len : hist'[k] = hist[k]
  <2>1. c.len \in 0..Len(hist)  BY <1>1, <1>2, <1>3
  <2>. QED  BY <1>1, <1>2, <2>1
<1>5. Latest' = c
  <2>1. Latest' = [len |-> c.len, applied |-> c.applied]
    BY <1>1, <1>4 DEF Latest
  <2>2. c \in Commit  BY <1>1, <1>2
  <2>. QED  BY <2>1, <2>2 DEF Commit
<1>6. StoreInv'
  <2>1. \A e \in commits' : e.len <= Len(hist') /\ e.applied <= applied'
    BY <1>1, <1>3, <1>4
  <2>2. \A d, e \in commits' : d.len <= e.len => d.applied <= e.applied
    BY <1>1, <1>3
  <2>. QED  BY <1>1, <1>5, <2>1, <2>2 DEF StoreInv
<1>7. FilesInv'
  <2>1. ASSUME NEW e \in commits' PROVE e \in commits /\ e.applied <= e.applied
    BY <1>1, <1>2
  <2>. QED  BY <2>1, FilesFrame DEF CrashMove, WalInv
<1>8. TailInv' /\ FlightInv' /\ VisibleInv' /\ ScanInv' /\ ReopenInv'
  BY <1>1 DEF TailInv, FlightInv, VisibleInv, ScanInv, ReopenInv, Serving
<1>9. BatchInv'
  BY <1>1 DEF BatchInv
<1>10. \A r \in Request : Live(r)' => Live(r)
  BY <1>1 DEF CrashMove, LoseMemory, Live, TypeOK, Message
<1>11. LiveInv'
  <2>1. \A e \in commits' : \A k \in 1..e.len : hist'[k] = hist[k]
    <3>1. \A e \in commits' : \A k \in 1..e.len : k \in 1..c.len
      BY <1>1, <1>2
    <3>. QED  BY <1>4, <3>1
  <2>2. \A n \in DOMAIN files : \A i \in 1..files[n].synced :
          i \in 1..files'[n].synced /\ files'[n].data[i] = files[n].data[i]
    <3>1. \A n \in DOMAIN files : files[n].synced \in Nat /\ files'[n].synced \in Nat
      BY FileParts DEF TypeOK, CrashMove
    <3>. QED  BY <3>1 DEF CrashMove
  <2>3. DOMAIN files' = DOMAIN files  BY DEF CrashMove
  <2>. QED  BY <1>1, <1>10, <2>1, <2>2, <2>3, LiveFrame DEF WalInv
<1>. QED
  BY <1>6, <1>7, <1>8, <1>9, <1>11 DEF WalInv

(* What a power loss leaves of a segment begins with its synced records.   *)
LEMMA SurvivorsKeep ==
  ASSUME NEW f \in File, f.synced <= Len(f.data), NEW g \in Survivors(f)
  PROVE  /\ f.synced <= g.synced /\ g.synced <= Len(g.data)
         /\ \A i \in 1..f.synced : g.data[i] = f.data[i]
<1>1. PICK k \in f.synced..Len(f.data), t \in BOOLEAN : g = CutTo(f, k, t)
  <2>1. \A k \in f.synced..(Len(f.data) - 1) : k \in f.synced..Len(f.data)
    BY FileParts
  <2>. QED  BY <2>1, Zenon DEF Survivors
<1>2. f.data \in Seq(Record) /\ f.synced \in Nat /\ k \in 0..Len(f.data)
  BY FileParts
<1>3. g.data = SubSeq(f.data, 1, k) /\ g.synced = k
  BY <1>1 DEF CutTo
<1>. QED  BY <1>2, <1>3

LEMMA CrashActions ==
  ASSUME TypeOK, WalInv, TypeOK', Kill \/ PowerLoss
  PROVE  WalInv'
<1>1. \A n \in DOMAIN files :
        /\ files[n] \in File /\ files[n].synced \in Nat
        /\ files[n].synced <= Len(files[n].data)
  BY FileParts DEF TypeOK, WalInv, FilesInv
<1>2. \A c \in commits : c.len \in Nat
  BY DEF TypeOK, Commit
<1>3. ASSUME Kill PROVE WalInv'
  <2>1. PICK c \in commits :
          StoreFallsTo(c) /\ commits' = { e \in commits : e.len <= c.len }
    BY <1>3 DEF Kill
  <2>2. c.len <= c.len  BY <1>2
  <2>3. files' = files /\ LoseMemory /\ pc' = "down"
    BY <1>3 DEF Kill
  <2>4. CrashMove(c)
    BY <1>1, <2>1, <2>2, <2>3 DEF CrashMove
  <2>. QED  BY <2>4, CrashStep
<1>4. ASSUME PowerLoss PROVE WalInv'
  <2>1. PICK c \in commits : StoreFallsTo(c) /\ commits' = {c}
    BY <1>4 DEF PowerLoss
  <2>2. c.len <= c.len  BY <1>2
  <2>3. /\ LoseMemory /\ pc' = "down" /\ DOMAIN files' = DOMAIN files
        /\ \A n \in DOMAIN files : files'[n] \in Survivors(files[n])
    BY <1>4 DEF PowerLoss
  <2>4. \A n \in DOMAIN files :
          /\ files[n].synced <= files'[n].synced
          /\ files'[n].synced <= Len(files'[n].data)
          /\ \A i \in 1..files[n].synced : files'[n].data[i] = files[n].data[i]
    BY <1>1, <2>3, SurvivorsKeep
  <2>5. CrashMove(c)
    BY <2>1, <2>2, <2>3, <2>4 DEF CrashMove
  <2>. QED  BY <2>5, CrashStep
<1>. QED  BY <1>3, <1>4

(* Recovery starts with nothing read.                                      *)
LEMMA OpenAction ==
  ASSUME TypeOK, WalInv, TypeOK', Open
  PROVE  WalInv'
<1>. USE DEF storeVars
<1>1. /\ pc' = "scan" /\ pc \notin Serving /\ scan' = DOMAIN files /\ seen' = 0
      /\ UNCHANGED <<client, batch, bytes, files, storeVars>>
  BY DEF Open, batchVars, Serving
<1>2. StoreInv' /\ FilesInv' /\ BatchInv'
  BY <1>1 DEF WalInv, StoreInv, Latest, FilesInv, BatchInv
<1>3. TailInv' /\ FlightInv' /\ VisibleInv' /\ ReopenInv'
  BY <1>1 DEF TailInv, FlightInv, VisibleInv, ReopenInv, Serving
<1>4. ScanInv'
  BY <1>1 DEF ScanInv
<1>5. LiveInv'
  <2>1. \A r \in Request : Live(r)' => Live(r)
    BY <1>1 DEF Live
  <2>. QED  BY <1>1, <2>1, LiveFrame DEF WalInv
<1>. QED
  BY <1>2, <1>3, <1>4, <1>5 DEF WalInv

(* Reading the next segment adds its unapplied records to those to replay. *)
LEMMA ScanAction ==
  ASSUME TypeOK, WalInv, TypeOK', ScanSegment
  PROVE  WalInv'
<1>. USE DEF storeVars
<1>. DEFINE n == MinOf(scan)
            data == files[n].data
            skip == IF applied > n THEN applied - n ELSE 0
            u == SubSeq(data, skip + 1, Len(data))
<1>1. /\ pc = "scan" /\ pc' = pc /\ scan # {}
      /\ seen' = n + Len(data) /\ pending' = pending \o u /\ scan' = scan \ {n}
      /\ UNCHANGED <<client, batch, bytes, files, storeVars>>
  BY DEF ScanSegment, Unapplied, clientVars, batchVars
<1>2. StoreInv' /\ FilesInv' /\ BatchInv'
  BY <1>1 DEF WalInv, StoreInv, Latest, FilesInv, BatchInv
<1>3. TailInv' /\ FlightInv' /\ VisibleInv' /\ ReopenInv'
  BY <1>1 DEF TailInv, FlightInv, VisibleInv, ReopenInv, Serving
<1>4. LiveInv'
  <2>1. \A r \in Request : Live(r)' => Live(r)
    BY <1>1 DEF Live
  <2>. QED  BY <1>1, <2>1, LiveFrame DEF WalInv
<1>5. /\ scan \subseteq DOMAIN files /\ DOMAIN files \subseteq Nat
      /\ applied \in Nat /\ pending \in Seq(Record)
  BY <1>1 DEF WalInv, ScanInv, TypeOK
<1>6. n \in scan /\ \A m \in scan : n <= m
  BY <1>1, <1>5, MinOfProperties
<1>7. n \in Nat /\ n \in DOMAIN files /\ data \in Seq(Record) /\ Len(data) \in Nat
  <2>1. n \in DOMAIN files /\ n \in Nat  BY <1>5, <1>6
  <2>2. files[n] \in File  BY <2>1 DEF TypeOK
  <2>3. data \in Seq(Record)  BY <2>2, FileParts
  <2>. QED  BY <2>1, <2>3
<1>8. skip \in Nat /\ skip = (IF applied > n THEN applied - n ELSE 0)
  BY <1>5, <1>7
<1> HIDE DEF n, data, skip
<1>14. u \in Seq(Record)
  BY <1>7, <1>8, SuffixParts
<1>9. ASSUME NEW i \in 1..Len(data), n + i > applied
      PROVE  \E k \in 1..Len(u) : u[k] = data[i]
  <2>1. i > skip /\ skip < Len(data)  BY <1>5, <1>7, <1>8, <1>9
  <2>2. Len(u) = Len(data) - skip  BY <1>7, <1>8, <2>1, SuffixParts
  <2>3. i - skip \in 1..Len(u)  BY <1>7, <1>8, <2>1, <2>2
  <2>4. \A p \in 1..Len(u) : u[p] = data[skip + p]
    BY <1>7, <1>8, SuffixParts
  <2>5. skip + (i - skip) = i  BY <1>8
  <2>6. u[i - skip] = data[i]  BY <2>3, <2>4, <2>5
  <2>. QED  BY <2>3, <2>6
<1> HIDE DEF u
<1>10. /\ Len(pending') = Len(pending) + Len(u)
       /\ Len(pending) \in Nat /\ Len(u) \in Nat
       /\ \A k \in 1..Len(pending) : pending'[k] = pending[k]
       /\ \A k \in 1..Len(u) : pending'[Len(pending) + k] = u[k]
  BY <1>1, <1>5, <1>14, ConcatParts
<1>11. /\ \A m \in DOMAIN files \ scan : m < n
       /\ \A m \in DOMAIN files \ scan : \A j \in scan : m < j
       /\ \A m \in DOMAIN files \ scan : \A i \in 1..Len(files[m].data) :
            m + i > applied => \E k \in 1..Len(pending) : pending[k] = files[m].data[i]
  BY <1>1, <1>6 DEF WalInv, ScanInv
<1>12. ASSUME NEW m \in DOMAIN files \ scan'
       PROVE  /\ \A j \in scan' : m < j
              /\ (\A j \in DOMAIN files \ scan' : j <= m) =>
                   seen' = m + Len(files[m].data)
              /\ \A i \in 1..Len(files[m].data) : m + i > applied =>
                   \E k \in 1..Len(pending') : pending'[k] = files[m].data[i]
  <2>1. CASE m = n
    <3>1. \A j \in scan' : m < j  BY <1>1, <1>5, <1>6, <1>7, <2>1
    <3>2. ASSUME NEW i \in 1..Len(data), n + i > applied
          PROVE  \E k \in 1..Len(pending') : pending'[k] = data[i]
      <4>1. PICK k \in 1..Len(u) : u[k] = data[i]  BY <1>9, <3>2
      <4>2. Len(pending) + k \in 1..Len(pending')  BY <1>10
      <4>. QED  BY <1>10, <4>1, <4>2
    <3>. QED  BY <1>1, <2>1, <3>1, <3>2 DEF data
  <2>2. CASE m \in DOMAIN files \ scan
    <3>1. \A j \in scan' : m < j  BY <1>1, <1>11, <2>2
    <3>2. ~(\A j \in DOMAIN files \ scan' : j <= m)
      <4>1. n \in DOMAIN files \ scan' /\ m < n /\ m \in Nat
        BY <1>1, <1>5, <1>7, <1>11, <2>2
      <4>2. ~(n <= m)  BY <1>7, <4>1
      <4>. QED  BY <4>1, <4>2
    <3>3. ASSUME NEW i \in 1..Len(files[m].data), m + i > applied
          PROVE  \E k \in 1..Len(pending') : pending'[k] = files[m].data[i]
      <4>1. PICK k \in 1..Len(pending) : pending[k] = files[m].data[i]
        BY <1>11, <2>2, <3>3
      <4>2. k \in 1..Len(pending')  BY <1>10
      <4>. QED  BY <1>10, <4>1, <4>2
    <3>. QED  BY <3>1, <3>2, <3>3
  <2>. QED  BY <1>1, <2>1, <2>2
<1>13. ScanInv'
  <2>1. scan' \subseteq DOMAIN files /\ scan' # DOMAIN files
    BY <1>1, <1>5, <1>7
  <2>2. files' = files /\ applied' = applied  BY <1>1
  <2>. QED  BY <1>12, <2>1, <2>2 DEF ScanInv
<1>. QED
  BY <1>2, <1>3, <1>4, <1>13 DEF WalInv

(* A record past the applied position is among those recovery will replay, *)
(* and none is beyond the last it read.                                    *)
LEMMA AllRead ==
  ASSUME TypeOK, WalInv, pc = "scan", scan = {}
  PROVE  /\ \A n \in DOMAIN files : \A i \in 1..files[n].synced :
              n + i > applied =>
                \E k \in 1..Len(pending) : pending[k] = files[n].data[i]
         /\ \A n \in DOMAIN files : (\A m \in DOMAIN files : m <= n) =>
              seen = n + Len(files[n].data)
         /\ DOMAIN files = {} => seen = 0
         /\ \A n \in DOMAIN files : n \in Nat /\ files[n].synced \in Nat
              /\ Len(files[n].data) \in Nat
              /\ files[n].synced <= Len(files[n].data)
<1>1. \A n \in DOMAIN files : n \in Nat /\ files[n] \in File
        /\ files[n].synced <= Len(files[n].data)
  BY DEF TypeOK, WalInv, FilesInv
<1>2. \A n \in DOMAIN files : files[n].synced \in Nat /\ Len(files[n].data) \in Nat
  BY <1>1, FileParts
<1>3. \A n \in DOMAIN files : \A i \in 1..files[n].synced :
        i \in 1..Len(files[n].data)
  BY <1>1, <1>2
<1>4. /\ \A n \in DOMAIN files : \A i \in 1..Len(files[n].data) :
           n + i > applied =>
             \E k \in 1..Len(pending) : pending[k] = files[n].data[i]
      /\ \A n \in DOMAIN files : (\A m \in DOMAIN files : m <= n) =>
           seen = n + Len(files[n].data)
      /\ DOMAIN files = {} => seen = 0
  BY DEF WalInv, ScanInv
<1>. QED  BY <1>1, <1>2, <1>3, <1>4

(* With nothing left to replay, the store already stands where the log     *)
(* ends, and every commit as recent holds what was recoverable.            *)
LEMMA ReplayNothing ==
  ASSUME TypeOK, WalInv, TypeOK', Replay, pending = <<>>
  PROVE  WalInv'
<1>. USE DEF storeVars
<1>1. /\ pc = "scan" /\ scan = {} /\ pc' = "reopen" /\ applied <= seen
      /\ UNCHANGED <<client, batch, bytes, files, storeVars>>
  BY DEF Replay, clientVars, batchVars, TypeOK
<1>2. /\ \A n \in DOMAIN files : \A i \in 1..files[n].synced : ~(n + i > applied)
      /\ \A n \in DOMAIN files : (\A m \in DOMAIN files : m <= n) =>
           seen = n + Len(files[n].data)
      /\ DOMAIN files = {} => seen = 0
      /\ \A n \in DOMAIN files : n \in Nat /\ files[n].synced \in Nat
  BY <1>1, AllRead
<1>3. applied \in Nat /\ \A c \in commits : c.applied \in Nat
  <2>1. applied \in Nat /\ commits \subseteq Commit  BY DEF TypeOK
  <2>. QED  BY <2>1 DEF Commit
<1>4. StoreInv' /\ FilesInv' /\ BatchInv'
  BY <1>1 DEF WalInv, StoreInv, Latest, FilesInv, BatchInv
<1>5. TailInv' /\ FlightInv' /\ ScanInv'
  BY <1>1 DEF TailInv, FlightInv, ScanInv, Serving
<1>6. \A r \in Request : Live(r)' => Live(r)
  BY <1>1 DEF Live
<1>7. LiveInv'
  BY <1>1, <1>6, LiveFrame DEF WalInv
<1>8. VisibleInv'
  <2>. SUFFICES ASSUME NEW r \in Request, Live(r)', NEW i \in 1..Width[r],
                       NEW c \in commits, applied <= c.applied
                PROVE  HeldAt(c, <<r, i>>)'
    BY <1>1 DEF VisibleInv
  <2>1. Recoverable(c, <<r, i>>)  BY <1>6 DEF WalInv, LiveInv
  <2>2. ~ReplayedFrom(c, <<r, i>>)
    <3>1. \A n \in DOMAIN files : \A j \in 1..files[n].synced : ~(n + j > c.applied)
      BY <1>2, <1>3
    <3>. QED  BY <3>1 DEF ReplayedFrom
  <2>. QED  BY <1>1, <2>1, <2>2 DEF Recoverable, HeldAt
<1>9. ReopenInv'
  <2>1. ASSUME NEW n \in DOMAIN files PROVE n <= applied
    <3>1. CASE n = 0  BY <1>3, <3>1
    <3>2. CASE \E m \in DOMAIN files : m < n /\ n <= m + files[m].synced
      <4>1. PICK m \in DOMAIN files : m < n /\ n <= m + files[m].synced
        BY <3>2
      <4>2. n - m \in 1..files[m].synced /\ m + (n - m) = n
        BY <1>2, <4>1
      <4>3. ~(m + (n - m) > applied)  BY <1>2, <4>2
      <4>. QED  BY <1>2, <1>3, <4>2, <4>3
    <3>3. CASE \A c \in commits : n <= c.applied
      <4>1. Latest \in commits /\ Latest.applied = applied
        BY DEF WalInv, StoreInv, Latest
      <4>. QED  BY <3>3, <4>1
    <3>. QED  BY <3>1, <3>2, <3>3 DEF WalInv, FilesInv
  <2>2. DOMAIN files = {} => applied = 0
    BY <1>1, <1>2, <1>3
  <2>. QED  BY <1>1, <1>2, <2>1, <2>2 DEF ReopenInv
<1>. QED
  BY <1>4, <1>5, <1>7, <1>8, <1>9 DEF WalInv

(* Replayed records are held by the new commit, which is where the log     *)
(* ends; an older commit as recent as that had them already.               *)
LEMMA ReplaySome ==
  ASSUME TypeOK, WalInv, TypeOK', Replay, pending # <<>>
  PROVE  WalInv'
<1>1. /\ pc = "scan" /\ scan = {} /\ pc' = "reopen" /\ seen >= applied
      /\ UNCHANGED <<client, batch, bytes, files>>
      /\ StoreApply(pending, seen)
  BY DEF Replay, clientVars, batchVars
<1>2. pending \in Seq(Record) /\ seen \in Nat /\ applied \in Nat
      /\ commits \subseteq Commit
  BY DEF TypeOK
<1>3. \A c \in commits : c.applied \in Nat /\ c.len \in Nat
  BY <1>2 DEF Commit
<1>4. /\ StoreInv' /\ FilesInv'
      /\ \A k \in 1..Len(hist) : hist'[k] = hist[k]
      /\ \A k \in 1..Len(pending) : hist'[Len(hist) + k] = pending[k]
      /\ Len(hist) \in Nat /\ Len(pending) \in Nat
      /\ Len(hist') = Len(hist) + Len(pending) /\ applied' = seen
      /\ commits' = commits \cup {Latest'}
  <2>1. applied <= seen /\ pc' # "remove" /\ files' = files  BY <1>1, <1>2
  <2>. QED  BY <1>1, <1>2, <2>1, StoreGrows
<1>5. /\ \A n \in DOMAIN files : \A i \in 1..files[n].synced :
           n + i > applied =>
             \E k \in 1..Len(pending) : pending[k] = files[n].data[i]
      /\ \A n \in DOMAIN files : (\A m \in DOMAIN files : m <= n) =>
           seen = n + Len(files[n].data)
      /\ DOMAIN files = {} => seen = 0
      /\ \A n \in DOMAIN files : n \in Nat /\ files[n].synced \in Nat
           /\ Len(files[n].data) \in Nat
           /\ files[n].synced <= Len(files[n].data)
  BY <1>1, AllRead
<1>6. /\ Latest \in commits /\ Latest.applied = applied /\ Latest.len = Len(hist)
      /\ Latest'.applied = seen /\ Latest'.len = Len(hist')
      /\ \A c \in commits : c.len <= Len(hist) /\ c.applied <= applied
  BY <1>4 DEF WalInv, StoreInv, Latest
<1>7. TailInv' /\ FlightInv' /\ ScanInv'
  BY <1>1 DEF TailInv, FlightInv, ScanInv, Serving
<1>8. BatchInv'
  BY <1>1 DEF WalInv, BatchInv
<1>9. \A r \in Request : Live(r)' => Live(r)
  BY <1>1 DEF Live
<1>10. \A c \in commits : \A k \in 1..c.len : k \in 1..Len(hist)
  BY <1>3, <1>4, <1>6
<1>11. ASSUME NEW r \in Request, Live(r), NEW i \in 1..Width[r]
       PROVE  HeldAt(Latest, <<r, i>>)'
  <2>1. Recoverable(Latest, <<r, i>>)  BY <1>6, <1>11 DEF WalInv, LiveInv
  <2>2. CASE HeldAt(Latest, <<r, i>>)
    <3>1. PICK k \in 1..Len(hist) : hist[k] = <<r, i>>
      BY <1>6, <2>2 DEF HeldAt
    <3>2. k \in 1..Len(hist') /\ hist'[k] = <<r, i>>  BY <1>4, <3>1
    <3>. QED  BY <1>6, <3>2 DEF HeldAt
  <2>3. CASE ReplayedFrom(Latest, <<r, i>>)
    <3>1. PICK n \in DOMAIN files : \E j \in 1..files[n].synced :
            files[n].data[j] = <<r, i>> /\ n + j > applied
      BY <1>6, <2>3 DEF ReplayedFrom
    <3>2. PICK k \in 1..Len(pending) : pending[k] = <<r, i>>
      BY <1>5, <3>1
    <3>3. Len(hist) + k \in 1..Len(hist') /\ hist'[Len(hist) + k] = <<r, i>>
      BY <1>4, <3>2
    <3>. QED  BY <1>6, <3>3 DEF HeldAt
  <2>. QED  BY <2>1, <2>2, <2>3 DEF Recoverable
<1>12. LiveInv'
  <2>. SUFFICES ASSUME NEW r \in Request, Live(r)', NEW i \in 1..Width[r],
                       NEW c \in commits'
                PROVE  Recoverable(c, <<r, i>>)'
    BY DEF LiveInv
  <2>1. CASE c = Latest'
    BY <1>9, <1>11, <2>1 DEF Recoverable
  <2>2. CASE c \in commits
    <3>1. Recoverable(c, <<r, i>>)  BY <1>9, <2>2 DEF WalInv, LiveInv
    <3>2. \A k \in 1..c.len : hist'[k] = hist[k]  BY <1>4, <1>10, <2>2
    <3>3. \A n \in DOMAIN files : \A k \in 1..files[n].synced :
            k \in 1..files'[n].synced /\ files'[n].data[k] = files[n].data[k]
      BY <1>1
    <3>4. DOMAIN files' = DOMAIN files  BY <1>1
    <3>. QED  BY <3>1, <3>2, <3>3, <3>4, RecoverableFrame
  <2>. QED  BY <1>4, <2>1, <2>2
<1>13. \A n \in DOMAIN files : n <= seen
  <2>. SUFFICES ASSUME DOMAIN files # {} PROVE \A n \in DOMAIN files : n <= seen
    OBVIOUS
  <2>1. PICK n \in DOMAIN files : \A m \in DOMAIN files : m <= n
    BY DEF WalInv, FilesInv
  <2>2. seen = n + Len(files[n].data) /\ n <= seen  BY <1>5, <2>1
  <2>. QED  BY <1>2, <1>5, <2>1, <2>2
<1>14. VisibleInv'
  <2>. SUFFICES ASSUME NEW r \in Request, Live(r)', NEW i \in 1..Width[r],
                       NEW c \in commits', seen <= c.applied
                PROVE  HeldAt(c, <<r, i>>)'
    BY <1>4 DEF VisibleInv
  <2>1. CASE c = Latest'
    BY <1>9, <1>11, <2>1
  <2>2. CASE c \in commits
    <3>1. c.applied = seen  BY <1>1, <1>2, <1>3, <1>6, <2>2
    <3>2. Recoverable(c, <<r, i>>)  BY <1>9, <2>2 DEF WalInv, LiveInv
    <3>3. ~ReplayedFrom(c, <<r, i>>)
      <4>. SUFFICES ASSUME NEW n \in DOMAIN files,
                           \A m \in DOMAIN files : m > n => m > c.applied,
                           NEW j \in 1..files[n].synced, n + j > c.applied
                    PROVE  FALSE
        BY DEF ReplayedFrom
      <4>1. \A m \in DOMAIN files : m <= n
        BY <1>2, <1>5, <1>13, <3>1
      <4>2. seen = n + Len(files[n].data)  BY <1>5, <4>1
      <4>. QED  BY <1>5, <3>1, <4>2
    <3>. QED  BY <1>4, <1>10, <2>2, <3>2, <3>3 DEF Recoverable, HeldAt
  <2>. QED  BY <1>4, <2>1, <2>2
<1>15. ReopenInv'
  <2>1. \A n \in DOMAIN files : (\A m \in DOMAIN files : m <= n) =>
          seen <= n + Len(files[n].data)
    BY <1>2, <1>5
  <2>. QED  BY <1>1, <1>4, <1>5, <1>13, <2>1 DEF ReopenInv
<1>. QED
  BY <1>4, <1>7, <1>8, <1>12, <1>14, <1>15 DEF WalInv

(* Opening the last segment for appending, after recovery has replayed.    *)
LEMMA ReopenActions ==
  ASSUME TypeOK, WalInv, TypeOK', ReopenTail \/ CreateFirst \/ ReopenFails
  PROVE  WalInv'
<1>. USE DEF storeVars
<1>1. /\ pc = "reopen" /\ pc' \in {"receive", "failed"}
      /\ UNCHANGED <<client, batch, bytes, storeVars>>
  BY DEF ReopenTail, CreateFirst, ReopenFails, OpenFailed, clientVars, batchVars
<1>2. StoreInv' /\ BatchInv'
  BY <1>1 DEF WalInv, StoreInv, Latest, BatchInv
<1>3. FlightInv' /\ ScanInv' /\ ReopenInv'
  BY <1>1 DEF FlightInv, ScanInv, ReopenInv
<1>4. \A r \in Request : Live(r)' => Live(r)
  BY <1>1 DEF Live
<1>5. VisibleInv'
  <2>. SUFFICES ASSUME NEW r \in Request, Live(r)', NEW i \in 1..Width[r],
                       NEW c \in commits, applied <= c.applied
                PROVE  HeldAt(c, <<r, i>>)'
    BY <1>1 DEF VisibleInv
  <2>. QED  BY <1>1, <1>4 DEF WalInv, VisibleInv, HeldAt
<1>6. \A n \in DOMAIN files :
        /\ n \in Nat /\ files[n] \in File /\ files[n].data \in Seq(Record)
        /\ files[n].synced \in Nat /\ files[n].synced <= Len(files[n].data)
        /\ Len(files[n].data) \in Nat
  <2>1. \A n \in DOMAIN files : n \in Nat /\ files[n] \in File
          /\ files[n].synced <= Len(files[n].data)
    BY DEF TypeOK, WalInv, FilesInv
  <2>2. \A n \in DOMAIN files : files[n].data \in Seq(Record) /\ files[n].synced \in Nat
    BY <2>1, FileParts
  <2>. QED  BY <2>1, <2>2
<1>7. ASSUME NEW N, N \in DOMAIN files, \A n \in DOMAIN files : n <= N,
             NEW g, files' = [files EXCEPT ![N] = g],
             g.data = files[N].data, files[N].synced <= g.synced,
             g.synced <= Len(g.data)
      PROVE  FilesInv' /\ LiveInv'
  <2>1. /\ DOMAIN files' = DOMAIN files /\ files'[N] = g
        /\ \A n \in DOMAIN files : n # N => files'[n] = files[n]
    BY <1>7
  <2>2. \A n \in DOMAIN files :
          /\ files[n].synced <= files'[n].synced
          /\ files'[n].synced <= Len(files'[n].data)
          /\ files'[n].synced \in Nat
          /\ files'[n].data = files[n].data
    <3>1. \A n \in DOMAIN files : files'[n] \in File  BY <2>1 DEF TypeOK
    <3>2. \A n \in DOMAIN files : files'[n].synced \in Nat  BY <3>1, FileParts
    <3>. QED  BY <1>6, <1>7, <2>1, <3>2
  <2>3. ASSUME NEW c \in commits' PROVE c \in commits /\ c.applied <= c.applied
    <3>1. c \in commits /\ commits \subseteq Commit  BY <1>1 DEF TypeOK
    <3>2. c.applied \in Nat  BY <3>1 DEF Commit
    <3>. QED  BY <3>1, <3>2
  <2>4. FilesInv'
    BY <2>1, <2>2, <2>3, FilesFrame DEF WalInv
  <2>5. \A n \in DOMAIN files : \A i \in 1..files[n].synced :
          i \in 1..files'[n].synced /\ files'[n].data[i] = files[n].data[i]
    BY <1>6, <2>2
  <2>6. LiveInv'
    BY <1>1, <1>4, <2>1, <2>5, LiveFrame DEF WalInv
  <2>. QED  BY <2>4, <2>6
<1>8. ASSUME ReopenTail PROVE WalInv'
  <2>. DEFINE N == MaxOf(DOMAIN files)
              g == Truncated(files[N], Len(files[N].data))
  <2>1. /\ files' = [files EXCEPT ![N] = g]
        /\ active' = N /\ written' = Len(files[N].data) /\ pc' = "receive"
        /\ DOMAIN files # {}
    <3>1. DOMAIN files # {}
      BY <1>8 DEF ReopenTail, TypeOK
    <3>. QED  BY <1>8, <3>1 DEF ReopenTail
  <2>2. N \in DOMAIN files /\ \A n \in DOMAIN files : n <= N
    BY <2>1, LastSegment DEF WalInv
  <2>3. g.data = files[N].data /\ g.synced = Len(files[N].data)
    <3>1. files[N].data \in Seq(Record)  BY <1>6, <2>2
    <3>. QED  BY <3>1 DEF Truncated
  <2> HIDE DEF N, g
  <2>4. FilesInv' /\ LiveInv'
    <3>1. files[N].synced <= g.synced /\ g.synced <= Len(g.data)
      BY <1>6, <2>2, <2>3
    <3>2. files' = [files EXCEPT ![N] = g]  BY <2>1
    <3>. QED  BY <1>7, <2>2, <2>3, <3>1, <3>2, Zenon
  <2>5. N <= applied /\ applied <= N + Len(files[N].data)
    BY <1>1, <2>2 DEF WalInv, ReopenInv
  <2>6. files'[N] = g /\ DOMAIN files' = DOMAIN files
    BY <2>1, <2>2
  <2>7. TailInv'
    BY <1>1, <1>6, <2>1, <2>2, <2>3, <2>5, <2>6 DEF TailInv
  <2>. QED  BY <1>2, <1>3, <1>5, <2>4, <2>7 DEF WalInv
<1>9. ASSUME CreateFirst PROVE WalInv'
  <2>1. /\ DOMAIN files = {} /\ DOMAIN files' = {0} /\ files'[0] = EmptyFile
        /\ active' = 0 /\ written' = 0 /\ pc' = "receive"
    BY <1>9 DEF CreateFirst
  <2>2. EmptyFile.synced = 0 /\ EmptyFile.data = <<>> /\ Len(EmptyFile.data) = 0
    BY DEF EmptyFile
  <2>3. applied = 0
    BY <1>1, <2>1 DEF WalInv, ReopenInv
  <2>4. FilesInv'
    BY <2>1, <2>2 DEF FilesInv
  <2>5. TailInv'
    BY <1>1, <2>1, <2>2, <2>3 DEF TailInv
  <2>6. LiveInv'
    <3>. SUFFICES ASSUME NEW r \in Request, Live(r)', NEW i \in 1..Width[r],
                         NEW c \in commits
                  PROVE  Recoverable(c, <<r, i>>)'
      BY <1>1 DEF LiveInv
    <3>1. Recoverable(c, <<r, i>>)  BY <1>4 DEF WalInv, LiveInv
    <3>2. ~ReplayedFrom(c, <<r, i>>)  BY <2>1 DEF ReplayedFrom
    <3>. QED  BY <1>1, <3>1, <3>2 DEF Recoverable, HeldAt
  <2>. QED  BY <1>2, <1>3, <1>5, <2>4, <2>5, <2>6 DEF WalInv
<1>10. ASSUME ReopenFails PROVE WalInv'
  <2>1. pc' = "failed"  BY <1>10 DEF ReopenFails, OpenFailed
  <2>2. TailInv'  BY <2>1 DEF TailInv, Serving
  <2>3. CASE DOMAIN files = {}
    <3>1. files' = files  BY <1>10, <2>3 DEF ReopenFails
    <3>2. FilesInv'  BY <1>1, <3>1 DEF WalInv, FilesInv
    <3>3. LiveInv'  BY <1>1, <1>4, <3>1, LiveFrame DEF WalInv
    <3>. QED  BY <1>2, <1>3, <1>5, <2>2, <3>2, <3>3 DEF WalInv
  <2>4. CASE DOMAIN files # {}
    <3>. DEFINE N == MaxOf(DOMAIN files)
    <3>1. PICK g \in HalfTruncated(files[N], Len(files[N].data)) :
            files' = [files EXCEPT ![N] = g]
      BY <1>10, <2>4 DEF ReopenFails
    <3>2. N \in DOMAIN files /\ \A n \in DOMAIN files : n <= N
      BY <2>4, LastSegment DEF WalInv
    <3> HIDE DEF N
    <3>3. g.data = files[N].data /\ g.synced = files[N].synced
      <4>1. files[N].data \in Seq(Record) /\ files[N] \in File  BY <1>6, <3>2
      <4>2. SubSeq(files[N].data, 1, Len(files[N].data)) = files[N].data
        BY <4>1
      <4>. QED  BY <3>1, <4>1, <4>2 DEF HalfTruncated, File
    <3>4. FilesInv' /\ LiveInv'
      <4>1. files[N].synced <= g.synced /\ g.synced <= Len(g.data)
        BY <1>6, <3>2, <3>3
      <4>. QED  BY <1>7, <3>1, <3>2, <3>3, <4>1, Zenon
    <3>. QED  BY <1>2, <1>3, <1>5, <2>2, <3>4 DEF WalInv
  <2>. QED  BY <2>3, <2>4
<1>. QED  BY <1>8, <1>9, <1>10

(* The invariant holds of a fresh log and every step preserves it.         *)
LEMMA InitWalInv == Init => TypeOK /\ WalInv
<1>. SUFFICES ASSUME Init PROVE TypeOK /\ WalInv
  OBVIOUS
<1>1. TypeOK
  <2>1. /\ client \in [Message -> Status] /\ reply \in [Request -> Seq(Nat)]
        /\ queue \in Seq(Message) /\ batch \in Seq(Request)
        /\ bytes \in Seq(Record) /\ granted \in Seq(Nat)
        /\ hist \in Seq(Record) /\ pending \in Seq(Record)
    BY DEF Init, Status
  <2>2. DOMAIN files \subseteq Nat /\ files \in [DOMAIN files -> File]
    BY DEF Init
  <2>3. commits \subseteq Commit
    BY DEF Init, Commit
  <2>4. /\ closing \in BOOLEAN /\ pc = "down" /\ verdict \in {"ok", "error"}
        /\ requested \in Checkpoint \cup {None} /\ appended \in Nat
        /\ active \in Nat /\ written \in Nat /\ poisoned \in BOOLEAN
        /\ applied \in Nat /\ scan \subseteq Nat /\ seen \in Nat
        /\ faults \in Nat /\ restarts \in Nat
    BY DEF Init
  <2>. QED  BY <2>1, <2>2, <2>3, <2>4 DEF TypeOK
<1>2. /\ pc = "down" /\ DOMAIN files = {} /\ batch = <<>> /\ hist = <<>>
      /\ applied = 0 /\ commits = {[len |-> 0, applied |-> 0]}
      /\ \A r \in Request : client[r] = "idle"
  BY DEF Init, Message
<1>3. StoreInv
  BY <1>2 DEF StoreInv, Latest
<1>4. FilesInv /\ BatchInv
  BY <1>2 DEF FilesInv, BatchInv
<1>5. LiveInv
  BY <1>2 DEF LiveInv, Live
<1>6. TailInv /\ FlightInv /\ VisibleInv /\ ScanInv /\ ReopenInv
  BY <1>2 DEF TailInv, FlightInv, VisibleInv, ScanInv, ReopenInv, Serving
<1>. QED  BY <1>1, <1>3, <1>4, <1>5, <1>6 DEF WalInv

LEMMA WalInvStep ==
  ASSUME TypeOK, WalInv, [Next]_vars
  PROVE  TypeOK' /\ WalInv'
<1>1. TypeOK'  BY TypeStep
<1>2. CASE UNCHANGED vars
  <2>1. PlainMove
    BY <1>2 DEF PlainMove, QuietMove, vars, clientVars, batchVars, tailVars,
                storeVars, scanVars
  <2>. QED  BY <1>1, <2>1, PlainStep
<1>3. CASE Next
  BY <1>1, <1>3, PlainActions, BatchActions, TailActions, RollOverAction,
     ApplyAction, FlushAction, RemoveAction, CrashActions, OpenAction,
     ScanAction, ReplayNothing, ReplaySome, ReopenActions
     DEF Next, ClientStep, ThreadStep, TakeStep, RetireStep, CompactStep,
         OpenStep
<1>. QED  BY <1>1, <1>2, <1>3

-----------------------------------------------------------------------------
(* The variables keep their types, whatever fails and crashes.             *)
THEOREM TypeCorrect == Spec => []TypeOK
<1>1. TypeOK /\ WalInv /\ [Next]_vars => TypeOK' /\ WalInv'
  BY WalInvStep
<1>. QED  BY InitWalInv, <1>1, PTL DEF Spec

(* The inductive invariant of the log, its crashes and its recovery.       *)
THEOREM InvariantHolds == Spec => []WalInv
<1>1. TypeOK /\ WalInv /\ [Next]_vars => TypeOK' /\ WalInv'
  BY WalInvStep
<1>. QED  BY InitWalInv, <1>1, PTL DEF Spec

(* No crash loses an acknowledged write: the store a crash falls back to   *)
(* holds its records, or the synced part of the log replays them.  It      *)
(* rests on the order in retire (append, flush, apply, then answer) and on *)
(* compaction flushing the store before it removes a segment.              *)
THEOREM Durability == Spec => []AckedRecoverable
<1>1. TypeOK /\ WalInv => AckedRecoverable
  BY DEF WalInv, LiveInv, Live, Recoverable, AckedRecoverable
<1>. QED  BY TypeCorrect, InvariantHolds, <1>1, PTL

(* Whenever the log is open, what was acknowledged before is in the store: *)
(* recovery replays every record past the applied position and the thread  *)
(* serves only after that.                                                 *)
THEOREM Visibility == Spec => []AckedVisible
<1>1. TypeOK /\ WalInv => AckedVisible
  <2>. SUFFICES ASSUME TypeOK, WalInv, pc \in Serving,
                       NEW r \in Request, client[r] = "acked",
                       NEW i \in 1..Width[r]
                PROVE  Shown(<<r, i>>)
    BY DEF AckedVisible
  <2>1. Latest \in commits /\ Latest.applied = applied
        /\ Latest.len = Len(hist) /\ applied \in Nat
    BY DEF WalInv, StoreInv, Latest, TypeOK
  <2>2. applied <= Latest.applied  BY <2>1
  <2>3. HeldAt(Latest, <<r, i>>)
    BY <2>1, <2>2 DEF WalInv, VisibleInv, Live
  <2>. QED  BY <2>1, <2>3 DEF HeldAt, Shown
<1>. QED  BY TypeCorrect, InvariantHolds, <1>1, PTL
=============================================================================
