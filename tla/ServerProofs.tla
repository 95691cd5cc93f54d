---------------------------- MODULE ServerProofs ----------------------------
(***************************************************************************)
(* Proofs about the running program: the log that remains covers every     *)
(* commit the store may fall back to, no crash leaves a log that its own   *)
(* store refuses, and a caller reads back the write whose revision it was  *)
(* told, for any number of writes, compactions, stops, kills and power     *)
(* losses.                                                                 *)
(***************************************************************************)
EXTENDS Server, KvStoreProofs

-----------------------------------------------------------------------------
(* The inductive invariant.                                                *)

SequencesInv ==
  /\ Chain(commits) /\ Chain(hist) /\ Chain(log)
  /\ commits # <<>>
  /\ base \in Nat /\ synced \in Nat
  /\ base <= synced /\ synced <= End

(* Every commit lies within the log that remains, and the durable one      *)
(* within its flushed part; the last one is the store's whole history.     *)
CommitsInv ==
  /\ \A i \in 1..Len(commits) :
       /\ commits[i].backend.applied \in Nat
       /\ commits[i].length = commits[i].backend.applied
       /\ base <= commits[i].backend.applied
       /\ commits[i].backend.applied <= End
       /\ commits[i].backend.applied <= Len(hist)
  /\ \A i, j \in 1..Len(commits) :
       i <= j => commits[i].backend.applied <= commits[j].backend.applied
  /\ commits[1].backend.applied <= synced
  /\ commits[Len(commits)].backend.applied = Len(hist)

(* The log that remains is what the store applied.                         *)
ContentInv ==
  \A p \in base + 1..Len(hist) : log[p - base] = hist[p].mutation

(* While it serves, nothing the store applied is unflushed.                *)
PlaceInv ==
  /\ server \in Serving \cup {"down", "opened", "replayed"}
  /\ server # "down" => pc # "down"
  /\ pc # "down" => applied = Len(hist)
  /\ server \in Serving =>
       \A i \in 1..Len(commits) : commits[i].backend.applied <= synced
  /\ server = "trimming" =>
       \A i \in 1..Len(commits) : commits[i].backend.applied = applied
  /\ server = "synced" => synced = End

ServerInv == SequencesInv /\ CommitsInv /\ ContentInv /\ PlaceInv

-----------------------------------------------------------------------------
(* What the store's steps do to its commits and its history.               *)

(* A commit follows the others.                                            *)
LEMMA Committing ==
  ASSUME Chain(commits), NEW n, NEW records, NEW position,
         commits' = Commit(commits, Snapshot(n, records, position))
  PROVE  /\ Chain(commits') /\ commits' # <<>>
         /\ Len(commits') = Len(commits) + 1
         /\ \A i \in 1..Len(commits) : commits'[i] = commits[i]
         /\ commits'[Len(commits) + 1].length = n
         /\ commits'[Len(commits) + 1].backend.applied = position
<1> DEFINE x == Snapshot(n, records, position)
<1>1. x.length = n /\ x.backend.applied = position
  BY DEF Snapshot
<1> HIDE DEF x
<1>2. commits' = Append(commits, x)
  BY DEF Commit, x
<1>3. /\ Chain(commits')
      /\ Len(commits') = Len(commits) + 1
      /\ \A i \in 1..Len(commits) : commits'[i] = commits[i]
      /\ commits'[Len(commits) + 1] = x
  BY <1>2, AppendChain
<1>4. Len(commits) \in Nat
  BY ChainParts
<1>5. commits' # <<>>
  BY <1>3, <1>4
<1> QED
  BY <1>1, <1>3, <1>5

(* The records the store has not applied continue its history.             *)
LEMMA Applying ==
  ASSUME ServerInv, applied = Len(hist), UNCHANGED <<log, base>>,
         Apply(Pending, End)
  PROVE  /\ Chain(commits') /\ commits' # <<>>
         /\ Len(commits') = Len(commits) + 1
         /\ \A i \in 1..Len(commits) : commits'[i] = commits[i]
         /\ commits'[Len(commits) + 1].length = End
         /\ commits'[Len(commits) + 1].backend.applied = End
         /\ Chain(hist') /\ Len(hist') = End
         /\ ContentInv'
         /\ applied' = End /\ pc' = pc /\ pc = "open"
<1>1. /\ Len(commits) \in Nat \ {0} /\ Len(hist) \in Nat /\ Len(log) \in Nat
      /\ base \in Nat /\ End \in Nat
      /\ base <= applied /\ applied <= End
  BY ChainParts DEF ServerInv, SequencesInv, CommitsInv, End
<1>2. /\ Chain(Pending) /\ Len(Pending) = End - applied
      /\ \A i \in 1..End - applied : Pending[i] = log[applied - base + i]
  <2>1. /\ applied - base + 1 \in Nat \ {0}
        /\ applied - base + 1 <= Len(log) + 1
    BY <1>1 DEF End
  <2>2. Chain(log)
    BY DEF ServerInv, SequencesInv
  <2>3. /\ Chain(Pending)
        /\ Len(Pending) = Len(log) - (applied - base + 1) + 1
        /\ \A i \in 1..Len(log) - (applied - base + 1) + 1 :
             Pending[i] = log[(applied - base + 1) + i - 1]
    BY <1>1, <2>1, <2>2, CutChain DEF Pending
  <2>4. Len(log) - (applied - base + 1) + 1 = End - applied
    BY <1>1 DEF End
  <2>5. ASSUME NEW i \in 1..End - applied
        PROVE  Pending[i] = log[applied - base + i]
    <3>1. (applied - base + 1) + i - 1 = applied - base + i
      BY <1>1
    <3> QED
      BY <2>3, <2>4, <3>1
  <2> QED
    BY <2>3, <2>4, <2>5
<1> DEFINE numbered == Numbered(Pending)
<1>3. /\ Chain(numbered) /\ Len(numbered) = End - applied
      /\ \A i \in 1..End - applied : numbered[i].mutation = Pending[i]
  <2>1. DOMAIN Pending = 1..End - applied
    BY <1>2, ChainParts
  <2>2. numbered = [i \in 1..End - applied |->
                      [revision |-> current + i, mutation |-> Pending[i]]]
    BY <2>1 DEF Numbered
  <2> HIDE DEF numbered
  <2> DEFINE T == { numbered[i] : i \in DOMAIN numbered }
  <2>3. numbered \in [1..End - applied -> T] /\ End - applied \in Nat
    BY <1>1, <2>2
  <2> HIDE DEF T
  <2>4. Len(numbered) = End - applied
    BY <1>1, <2>2
  <2>5. Chain(numbered)
    <3>1. numbered \in Seq(T)
      BY <2>3
    <3> QED
      BY <3>1, SeqIsChain
  <2>6. \A i \in 1..End - applied : numbered[i].mutation = Pending[i]
    BY <2>2
  <2> QED
    BY <2>4, <2>5, <2>6
<1> HIDE DEF numbered
<1>4. hist' = hist \o numbered /\ Chain(hist)
  BY DEF Apply, numbered, ServerInv, SequencesInv
<1>5. /\ Chain(hist') /\ Len(hist') = End
      /\ \A i \in 1..Len(hist) : hist'[i] = hist[i]
      /\ \A i \in Len(hist) + 1..End : hist'[i] = numbered[i - Len(hist)]
  BY <1>1, <1>3, <1>4, JoinedChain
<1>6. commits' = Commit(commits, Snapshot(Len(hist'), Records(Pending), End))
  BY DEF Apply
<1>7. /\ Chain(commits') /\ commits' # <<>>
      /\ Len(commits') = Len(commits) + 1
      /\ \A i \in 1..Len(commits) : commits'[i] = commits[i]
      /\ commits'[Len(commits) + 1].length = End
      /\ commits'[Len(commits) + 1].backend.applied = End
  BY <1>5, <1>6, Committing DEF ServerInv, SequencesInv
<1>8. ContentInv'
  <2> SUFFICES ASSUME NEW p \in base + 1..End
               PROVE  log[p - base] = hist'[p].mutation
    BY <1>5 DEF ContentInv
  <2>1. CASE p <= Len(hist)
    BY <1>1, <1>5, <2>1 DEF ServerInv, ContentInv
  <2>2. CASE p > Len(hist)
    <3>1. p - Len(hist) \in 1..End - applied /\ p \in Len(hist) + 1..End
      BY <1>1, <2>2
    <3>2. hist'[p].mutation = Pending[p - Len(hist)]
      BY <1>3, <1>5, <3>1
    <3>3. Pending[p - Len(hist)] = log[applied - base + (p - Len(hist))]
      BY <1>2, <3>1
    <3>4. applied - base + (p - Len(hist)) = p - base
      BY <1>1
    <3> QED
      BY <3>2, <3>3, <3>4
  <2> QED
    BY <1>1, <2>1, <2>2
<1>9. applied' = End /\ pc' = pc /\ pc = "open"
  BY DEF Apply
<1> QED
  BY <1>5, <1>7, <1>8, <1>9

(* The store falls back to one of its commits.                             *)
LEMMA Falling ==
  ASSUME ServerInv, NEW i \in 1..Len(commits), FallTo(i)
  PROVE  /\ Chain(commits') /\ commits' # <<>> /\ Len(commits') = i
         /\ \A j \in 1..i : commits'[j] = commits[j]
         /\ Chain(hist') /\ Len(hist') = commits[i].backend.applied
         /\ \A p \in 1..Len(hist') : hist'[p] = hist[p]
         /\ pc' = "down"
<1> DEFINE n == commits[i].backend.applied
<1>1. /\ Len(commits) \in Nat \ {0} /\ Len(hist) \in Nat
      /\ n \in Nat /\ n <= Len(hist) /\ commits[i].length = n
  BY ChainParts DEF ServerInv, SequencesInv, CommitsInv
<1> HIDE DEF n
<1>2. /\ commits' = SubSeq(commits, 1, i) /\ hist' = SubSeq(hist, 1, n)
      /\ Chain(commits) /\ Chain(hist) /\ pc' = "down"
  BY <1>1 DEF FallTo, ServerInv, SequencesInv
<1>3. /\ Chain(commits') /\ Len(commits') = i
      /\ \A j \in 1..i : commits'[j] = commits[j]
  <2>1. /\ Chain(SubSeq(commits, 1, i)) /\ Len(SubSeq(commits, 1, i)) = i - 1 + 1
        /\ \A j \in 1..i - 1 + 1 : SubSeq(commits, 1, i)[j] = commits[1 + j - 1]
    BY <1>1, <1>2, CutChain
  <2> QED
    BY <1>1, <1>2, <2>1
<1>4. /\ Chain(hist') /\ Len(hist') = n
      /\ \A p \in 1..n : hist'[p] = hist[p]
  <2>1. /\ Chain(SubSeq(hist, 1, n)) /\ Len(SubSeq(hist, 1, n)) = n - 1 + 1
        /\ \A j \in 1..n - 1 + 1 : SubSeq(hist, 1, n)[j] = hist[1 + j - 1]
    BY <1>1, <1>2, CutChain
  <2> QED
    BY <1>1, <1>2, <2>1
<1>5. commits' # <<>>
  BY <1>1, <1>3
<1> QED
  BY <1>2, <1>3, <1>4, <1>5 DEF n

-----------------------------------------------------------------------------
(* The invariant holds at first, and every step keeps it.                  *)

LEMMA ServerInvInit == ServerInit => ServerInv
<1> SUFFICES ASSUME ServerInit PROVE ServerInv
  OBVIOUS
<1> DEFINE x == [length |-> 0, backend |-> EmptyBackend]
<1>1. commits = <<x>> /\ hist = <<>> /\ log = <<>>
  BY DEF ServerInit, Init, CreateTable
<1>2. x.length = 0 /\ x.backend.applied = 0
  BY DEF EmptyBackend
<1> HIDE DEF x
<1>3. Chain(commits) /\ Chain(hist) /\ Chain(log)
  <2>1. commits \in Seq({x}) /\ hist \in Seq({}) /\ log \in Seq({})
    BY <1>1
  <2> QED
    BY <2>1, SeqIsChain
<1>4. Len(commits) = 1 /\ commits[1] = x /\ Len(hist) = 0 /\ Len(log) = 0
  BY <1>1
<1>5. base = 0 /\ synced = 0 /\ server = "idle" /\ pc = "open" /\ applied = 0 /\ End = 0
  BY <1>4 DEF ServerInit, Init, End
<1>6. SequencesInv
  BY <1>1, <1>3, <1>5 DEF SequencesInv
<1>7. CommitsInv
  BY <1>2, <1>4, <1>5 DEF CommitsInv
<1>8. ContentInv
  BY <1>4, <1>5 DEF ContentInv
<1>9. PlaceInv
  BY <1>2, <1>4, <1>5 DEF PlaceInv, Serving
<1> QED
  BY <1>6, <1>7, <1>8, <1>9 DEF ServerInv

(* What the invariant gives to every case.                                 *)
LEMMA Lengths ==
  ASSUME ServerInv
  PROVE  /\ Len(commits) \in Nat \ {0} /\ Len(hist) \in Nat /\ Len(log) \in Nat
         /\ base \in Nat /\ synced \in Nat /\ End \in Nat /\ End = base + Len(log)
         /\ backend.applied = Len(hist)
         /\ base <= Len(hist) /\ Len(hist) <= End
         /\ backend = commits[Len(commits)].backend
<1>1. Len(commits) \in Nat \ {0} /\ Len(hist) \in Nat /\ Len(log) \in Nat
  BY ChainParts DEF ServerInv, SequencesInv
<1>2. backend = commits[Len(commits)].backend
  BY DEF backend, Committed
<1> QED
  BY <1>1, <1>2 DEF ServerInv, SequencesInv, CommitsInv, End

(* A commit of everything applied, after the others.                       *)
LEMMA Lengthened ==
  ASSUME ServerInv, NEW m \in Nat, Len(hist) <= m, m <= End,
         UNCHANGED <<base, synced>>, End' = End, Len(hist') = m,
         Len(commits') = Len(commits) + 1,
         \A i \in 1..Len(commits) : commits'[i] = commits[i],
         commits'[Len(commits) + 1].length = m,
         commits'[Len(commits) + 1].backend.applied = m
  PROVE  CommitsInv'
<1> USE Lengths
<1> DEFINE at(i) == commits[i].backend.applied
<1>1. \A i \in 1..Len(commits) :
        /\ at(i) \in Nat /\ commits[i].length = at(i)
        /\ base <= at(i) /\ at(i) <= End /\ at(i) <= Len(hist)
  BY DEF ServerInv, CommitsInv
<1>2. \A i \in 1..Len(commits') : i \in 1..Len(commits) \/ i = Len(commits) + 1
  OBVIOUS
<1>3. ASSUME NEW i \in 1..Len(commits')
      PROVE  /\ commits'[i].backend.applied \in Nat
             /\ commits'[i].length = commits'[i].backend.applied
             /\ base' <= commits'[i].backend.applied
             /\ commits'[i].backend.applied <= End'
             /\ commits'[i].backend.applied <= Len(hist')
  <2>1. CASE i \in 1..Len(commits)
    BY SMTT(30), <1>1, <2>1
  <2>2. CASE i = Len(commits) + 1
    BY <2>2
  <2> QED
    BY <1>2, <2>1, <2>2
<1>4. ASSUME NEW i \in 1..Len(commits'), NEW j \in 1..Len(commits'), i <= j
      PROVE  commits'[i].backend.applied <= commits'[j].backend.applied
  <2>1. CASE j \in 1..Len(commits)
    <3>1. i \in 1..Len(commits)
      BY <1>4, <2>1
    <3> QED
      BY <1>4, <2>1, <3>1 DEF ServerInv, CommitsInv
  <2>2. CASE j = Len(commits) + 1
    BY <1>3, <2>2
  <2> QED
    BY <1>2, <2>1, <2>2
<1>5. commits'[1].backend.applied <= synced'
  <2>1. 1 \in 1..Len(commits)
    OBVIOUS
  <2> QED
    BY <2>1 DEF ServerInv, CommitsInv
<1> QED
  BY <1>3, <1>4, <1>5 DEF CommitsInv

(* The log's own steps that leave the store alone.                         *)
LEMMA QuietSteps ==
  ASSUME ServerInv, OpenStore \/ ReopenTail \/ Sync \/ TrimEnds
  PROVE  ServerInv'
<1> USE Lengths
<1>1. /\ UNCHANGED <<commits, hist, log, base>>
      /\ End' = End
  BY DEF OpenStore, Open, ReopenTail, Sync, TrimEnds, storeVars, logVars, vars,
         stateVars, ghostVars, End
<1>2. CASE OpenStore
  <2>1. synced' = synced /\ server' = "opened" /\ pc' = "open" /\ applied' = Len(hist)
    BY <1>2 DEF OpenStore, Open, Goes, logVars
  <2> QED
    BY <1>1, <2>1 DEF ServerInv, SequencesInv, CommitsInv, ContentInv, PlaceInv, Serving
<1>3. CASE ReopenTail
  <2>1. synced' = End /\ server = "replayed" /\ server' = "idle" /\ pc' = pc /\ applied' = applied
    BY <1>3 DEF ReopenTail, Goes, storeVars, vars, stateVars
  <2> QED
    BY <1>1, <2>1 DEF ServerInv, SequencesInv, CommitsInv, ContentInv, PlaceInv, Serving
<1>4. CASE Sync
  <2>1. synced' = End /\ server = "logged" /\ server' = "synced" /\ pc' = pc /\ applied' = applied
    BY <1>4 DEF Sync, Goes, storeVars, vars, stateVars
  <2> QED
    BY <1>1, <2>1 DEF ServerInv, SequencesInv, CommitsInv, ContentInv, PlaceInv, Serving
<1>5. CASE TrimEnds
  <2>1. synced' = synced /\ server = "trimming" /\ server' = "idle" /\ pc' = pc /\ applied' = applied
    BY <1>5 DEF TrimEnds, Goes, storeVars, vars, stateVars, logVars
  <2> QED
    BY <1>1, <2>1 DEF ServerInv, SequencesInv, CommitsInv, ContentInv, PlaceInv, Serving
<1> QED
  BY <1>2, <1>3, <1>4, <1>5

(* Recovery and the writer thread apply what the store has not.            *)
LEMMA ApplySteps ==
  ASSUME ServerInv, Recover \/ ApplyAndAnswer
  PROVE  ServerInv'
<1> USE Lengths
<1>1. /\ UNCHANGED <<log, base, synced>> /\ End' = End
      /\ applied = Len(hist) /\ applied <= End
  BY DEF Recover, ApplyAndAnswer, Goes, logVars, End, ServerInv, PlaceInv, Serving
<1>2. ASSUME Apply(Pending, End),
             \/ server = "opened" /\ server' = "replayed"
             \/ server = "synced" /\ server' = "idle"
      PROVE  ServerInv'
  <2>1. /\ Chain(commits') /\ commits' # <<>>
        /\ Len(commits') = Len(commits) + 1
        /\ \A i \in 1..Len(commits) : commits'[i] = commits[i]
        /\ commits'[Len(commits) + 1].length = End
        /\ commits'[Len(commits) + 1].backend.applied = End
        /\ Chain(hist') /\ Len(hist') = End
        /\ ContentInv'
        /\ applied' = End /\ pc' = pc /\ pc = "open"
    BY <1>1, <1>2, Applying
  <2>2. SequencesInv'
    BY <1>1, <2>1 DEF ServerInv, SequencesInv
  <2>3. CommitsInv'
    BY <1>1, <2>1, Lengthened
  <2>4. PlaceInv'
    BY SMTT(60), <1>1, <1>2, <2>1 DEF ServerInv, PlaceInv, Serving
  <2> QED
    BY <2>1, <2>2, <2>3, <2>4 DEF ServerInv
<1>3. CASE Recover
  <2>1. server = "opened" /\ server' = "replayed"
    BY <1>1, <1>3 DEF Recover, Goes
  <2>2. CASE End <= applied
    <3>1. UNCHANGED <<commits, hist, pc, applied>>
      BY <1>3, <2>2 DEF Recover, storeVars, vars, stateVars, ghostVars
    <3> QED
      BY <1>1, <2>1, <3>1
      DEF ServerInv, SequencesInv, CommitsInv, ContentInv, PlaceInv, Serving
  <2>3. CASE ~(End <= applied)
    <3>1. Apply(Pending, End)
      BY <1>3, <2>3 DEF Recover
    <3> QED
      BY <1>2, <2>1, <3>1
  <2> QED
    BY <2>2, <2>3
<1>4. CASE ApplyAndAnswer
  <2>1. server = "synced" /\ server' = "idle" /\ Apply(Pending, applied + Len(Pending))
    BY <1>4 DEF ApplyAndAnswer, Goes
  <2>2. Len(Pending) = End - applied
    <3>1. Chain(log) /\ applied - base + 1 \in Nat \ {0} /\ applied - base + 1 <= Len(log) + 1
      BY <1>1 DEF ServerInv, SequencesInv
    <3>2. Len(Pending) = Len(log) - (applied - base + 1) + 1
      BY <3>1, CutChain DEF Pending
    <3> QED
      BY SMTT(30), <1>1, <3>2
  <2>3. applied + Len(Pending) = End
    BY <1>1, <2>2
  <2> QED
    BY <1>2, <2>1, <2>3
<1> QED
  BY <1>3, <1>4

(* The log grows at its end.                                               *)
LEMMA AppendStep ==
  ASSUME ServerInv, NEW b \in Batch, AppendBatch(b)
  PROVE  ServerInv'
<1> USE Lengths
<1>1. /\ UNCHANGED <<commits, hist, pc, applied, base, synced>>
      /\ server' = "logged" /\ server = "idle" /\ log' = log \o b
  BY DEF AppendBatch, Goes, storeVars, vars, stateVars, ghostVars
<1>2. Chain(b)
  <2>1. PICK n \in 1..MaxBatch : b \in [1..n -> Mutation]
    BY DEF Batch
  <2>2. n \in Nat
    BY <2>1, BoundsAssumption
  <2>3. b \in Seq(Mutation)
    BY <2>1, <2>2
  <2> QED
    BY <2>3, SeqIsChain
<1>3. /\ Chain(log') /\ Len(log') = Len(log) + Len(b) /\ Len(b) \in Nat
      /\ \A i \in 1..Len(log) : log'[i] = log[i]
  BY <1>1, <1>2, JoinedChain, ChainParts DEF ServerInv, SequencesInv
<1>4. End' = End + Len(b)
  BY <1>1, <1>3 DEF End
<1>5. SequencesInv'
  BY <1>1, <1>3, <1>4 DEF ServerInv, SequencesInv
<1>6. CommitsInv'
  BY SMTT(30), <1>1, <1>3, <1>4 DEF ServerInv, CommitsInv
<1>7. ContentInv'
  BY SMTT(30), <1>1, <1>3 DEF ServerInv, ContentInv
<1>8. PlaceInv'
  BY <1>1, <1>3, <1>4 DEF ServerInv, PlaceInv, Serving
<1> QED
  BY <1>5, <1>6, <1>7, <1>8 DEF ServerInv

(* A checkpoint leaves one commit, of everything applied.                  *)
LEMMA FlushStep ==
  ASSUME ServerInv, FlushStore
  PROVE  ServerInv'
<1> USE Lengths
<1> DEFINE x == Snapshot(Len(hist), backend.records, applied)
<1>1. /\ UNCHANGED <<hist, pc, applied, log, base, synced>>
      /\ server = "idle" /\ server' = "trimming" /\ commits' = <<x>>
  BY DEF FlushStore, Goes, Checkpoint, CommitDurable, logVars, stateVars
<1>2. applied = Len(hist) /\ applied <= synced
  BY <1>1 DEF ServerInv, PlaceInv, CommitsInv, Serving
<1>3. x.length = applied /\ x.backend.applied = applied
  BY <1>2 DEF Snapshot
<1> HIDE DEF x
<1>4. Chain(commits') /\ Len(commits') = 1 /\ commits'[1] = x
  <2>1. commits' \in Seq({x})
    BY <1>1
  <2> QED
    BY <1>1, <2>1, SeqIsChain
<1>5. End' = End
  BY <1>1 DEF End
<1>6. SequencesInv'
  BY <1>1, <1>4, <1>5 DEF ServerInv, SequencesInv
<1>7. CommitsInv'
  BY <1>1, <1>2, <1>3, <1>4, <1>5 DEF ServerInv, CommitsInv
<1>8. ContentInv'
  BY <1>1 DEF ServerInv, ContentInv
<1>9. PlaceInv'
  BY <1>1, <1>2, <1>3, <1>4, <1>5 DEF ServerInv, PlaceInv, Serving
<1> QED
  BY <1>6, <1>7, <1>8, <1>9 DEF ServerInv

(* A removed segment lies before everything a commit still needs.          *)
LEMMA RemoveStep ==
  ASSUME ServerInv, NEW n \in base + 1..End, RemoveSegment(n)
  PROVE  ServerInv'
<1> USE Lengths
<1>1. /\ UNCHANGED <<commits, hist, pc, applied, synced, server>>
      /\ server = "trimming" /\ n <= applied /\ base' = n
      /\ log' = SubSeq(log, n - base + 1, Len(log))
  BY DEF RemoveSegment, storeVars, vars, stateVars, ghostVars
<1>2. /\ Chain(log') /\ Len(log') = End - n
      /\ \A i \in 1..End - n : log'[i] = log[n - base + i]
  <2>1. /\ Chain(log) /\ n - base + 1 \in Nat \ {0}
        /\ n - base + 1 <= Len(log) + 1
    BY DEF ServerInv, SequencesInv
  <2> DEFINE m == n - base + 1
  <2>2. /\ Chain(log') /\ Len(log') = Len(log) - m + 1
        /\ \A i \in 1..Len(log) - m + 1 : log'[i] = log[m + i - 1]
    <3>1. /\ log' = SubSeq(log, m, Len(log)) /\ Len(log) \in Nat
          /\ Chain(log) /\ m \in Nat \ {0} /\ m <= Len(log) + 1
      BY <1>1, <2>1
    <3> HIDE DEF m
    <3> QED
      BY <3>1, CutChain
  <2>3. Len(log) - (n - base + 1) + 1 = End - n
    OBVIOUS
  <2>4. ASSUME NEW i \in 1..End - n PROVE log'[i] = log[n - base + i]
    <3>1. (n - base + 1) + i - 1 = n - base + i
      OBVIOUS
    <3> QED
      BY <2>2, <2>3, <3>1
  <2> QED
    BY <2>2, <2>3, <2>4
<1>3. n \in Nat /\ End' = End
  <2>1. n \in Nat
    OBVIOUS
  <2>2. base' + Len(log') = n + (End - n)
    BY <1>1, <1>2
  <2>3. n + (End - n) = End
    BY <2>1
  <2> QED
    BY <2>1, <2>2, <2>3 DEF End
<1>4. \A i \in 1..Len(commits) : commits[i].backend.applied = applied /\ applied <= synced
  BY <1>1 DEF ServerInv, PlaceInv, Serving
<1>5. SequencesInv'
  <2>1. 1 \in 1..Len(commits)
    OBVIOUS
  <2>2. applied \in Nat /\ applied <= synced
    BY <1>4, <2>1 DEF ServerInv, CommitsInv
  <2> QED
    BY <1>1, <1>2, <1>3, <2>2 DEF ServerInv, SequencesInv
<1>6. CommitsInv'
  BY <1>1, <1>3, <1>4 DEF ServerInv, CommitsInv
<1>7. ContentInv'
  <2> SUFFICES ASSUME NEW p \in n + 1..Len(hist)
               PROVE  log'[p - n] = hist[p].mutation
    BY <1>1 DEF ContentInv
  <2>1. p - n \in 1..End - n /\ n - base + (p - n) = p - base /\ p \in base + 1..Len(hist)
    OBVIOUS
  <2>2. log'[p - n] = log[p - base]
    BY <1>2, <2>1
  <2> QED
    BY <2>1, <2>2 DEF ServerInv, ContentInv
<1>8. PlaceInv'
  BY <1>1, <1>3 DEF ServerInv, PlaceInv
<1> QED
  BY <1>5, <1>6, <1>7, <1>8 DEF ServerInv

(* A compaction commits at the position of the last commit.                *)
LEMMA CompactStep ==
  ASSUME ServerInv, Compacts
  PROVE  ServerInv'
<1> USE Lengths
<1>1. /\ UNCHANGED <<hist, applied, log, base, synced, server>>
      /\ server \in Serving /\ pc' # "down" /\ End' = End
  BY DEF Compacts, CompactBegins, CompactNext, CompactFails, CompactEnds, logVars,
         stateVars, ghostVars, End
<1>2. applied = Len(hist) /\ Len(hist) <= synced
  BY <1>1 DEF ServerInv, PlaceInv, CommitsInv, Serving
<1>3. /\ server' = server /\ server \in Serving /\ server # "down"
      /\ applied' = Len(hist') /\ applied' = applied
      /\ synced' = synced /\ End' = End /\ pc' # "down"
      /\ server = "synced" => synced = End
  BY <1>1, <1>2 DEF ServerInv, PlaceInv, Serving
<1>4. CASE UNCHANGED commits
  <2>1. SequencesInv' /\ CommitsInv' /\ ContentInv'
    BY <1>1, <1>4 DEF ServerInv, SequencesInv, CommitsInv, ContentInv
  <2>2. PlaceInv'
    BY <1>3, <1>4 DEF ServerInv, PlaceInv
  <2> QED
    BY <2>1, <2>2 DEF ServerInv
<1>5. CASE CompactNext
  <2> PICK chunk \in Chunks :
        commits' = Commit(commits,
                     Snapshot(Len(hist), Without(backend.records, Revisions(chunk)),
                              backend.applied))
    BY <1>5 DEF CompactNext
  <2> DEFINE left == Without(backend.records, Revisions(chunk))
  <2>1. commits' = Commit(commits, Snapshot(Len(hist), left, backend.applied))
    OBVIOUS
  <2> HIDE DEF left
  <2>2. /\ Chain(commits') /\ commits' # <<>>
        /\ Len(commits') = Len(commits) + 1
        /\ \A i \in 1..Len(commits) : commits'[i] = commits[i]
        /\ commits'[Len(commits) + 1].length = Len(hist)
        /\ commits'[Len(commits) + 1].backend.applied = Len(hist)
    BY <2>1, Committing DEF ServerInv, SequencesInv
  <2>3. SequencesInv' /\ ContentInv'
    BY <1>1, <2>2 DEF ServerInv, SequencesInv, ContentInv
  <2>4. CommitsInv'
    BY <1>1, <2>2, Lengthened
  <2>5. PlaceInv'
    <3>1. ASSUME NEW i \in 1..Len(commits')
          PROVE  /\ commits'[i].backend.applied <= synced
                 /\ server = "trimming" => commits'[i].backend.applied = applied
      <4>1. CASE i \in 1..Len(commits)
        BY <1>1, <2>2, <4>1 DEF ServerInv, PlaceInv
      <4>2. CASE i = Len(commits) + 1
        BY <1>2, <2>2, <4>2
      <4> QED
        BY <2>2, <4>1, <4>2
    <3> QED
      BY <1>3, <3>1 DEF PlaceInv
  <2> QED
    BY <2>3, <2>4, <2>5 DEF ServerInv
<1> QED
  BY <1>4, <1>5 DEF Compacts, CompactBegins, CompactFails, CompactEnds

(* The process ends, at a commit within what is left of the log.           *)
LEMMA EndSteps ==
  ASSUME ServerInv, Stop \/ Kill \/ PowerLoss
  PROVE  ServerInv'
<1> USE Lengths
<1>1. ASSUME NEW i \in 1..Len(commits), FallTo(i), server' = "down",
             base' = base, Chain(log'), synced' \in base..End',
             commits[1].backend.applied <= synced',
             commits[i].backend.applied <= End',
             \A p \in 1..commits[i].backend.applied - base : log'[p] = log[p]
      PROVE  ServerInv'
  <2>1. /\ Chain(commits') /\ commits' # <<>> /\ Len(commits') = i
        /\ \A j \in 1..i : commits'[j] = commits[j]
        /\ Chain(hist') /\ Len(hist') = commits[i].backend.applied
        /\ \A p \in 1..Len(hist') : hist'[p] = hist[p]
        /\ pc' = "down"
    BY <1>1, Falling
  <2>2. End' \in Nat
    BY <1>1, ChainParts DEF End
  <2>3. SequencesInv'
    BY <1>1, <2>1, <2>2 DEF ServerInv, SequencesInv
  <2>4. CommitsInv'
    <3>1. ASSUME NEW j \in 1..i
          PROVE  commits[j].backend.applied <= commits[i].backend.applied
      BY SMTT(60), <1>1 DEF ServerInv, CommitsInv
    <3>2. /\ base \in Nat /\ 1 \in 1..i /\ i \in 1..i /\ i \in Nat
          /\ \A j \in 1..i : j \in 1..Len(commits)
      OBVIOUS
    <3>3. ASSUME NEW j \in 1..i
          PROVE  /\ commits[j].backend.applied \in Nat
                 /\ commits[j].length = commits[j].backend.applied
                 /\ base <= commits[j].backend.applied
                 /\ \A k \in 1..i : j <= k =>
                      commits[j].backend.applied <= commits[k].backend.applied
      BY <3>2 DEF ServerInv, CommitsInv
    <3>4. commits[i].backend.applied \in Nat /\ commits[i].backend.applied <= End'
      BY <1>1, <3>2, <3>3
    <3>5. ASSUME NEW j \in 1..i PROVE commits[j].backend.applied <= End'
      BY SMTT(30), <2>2, <3>1, <3>3, <3>4
    <3>6. /\ Len(commits') = i /\ commits'[i] = commits[i] /\ commits'[1] = commits[1]
          /\ Len(hist') = commits[i].backend.applied /\ base' = base
          /\ commits[1].backend.applied <= synced'
      BY <1>1, <2>1, <3>2
    <3>7. ASSUME NEW j \in 1..i
          PROVE  /\ commits'[j].backend.applied \in Nat
                 /\ commits'[j].length = commits'[j].backend.applied
                 /\ base <= commits'[j].backend.applied
                 /\ commits'[j].backend.applied <= End'
                 /\ commits'[j].backend.applied <= commits[i].backend.applied
                 /\ \A k \in 1..i : j <= k =>
                      commits'[j].backend.applied <= commits'[k].backend.applied
      BY <2>1, <3>1, <3>3, <3>5
    <3> QED
      BY <3>6, <3>7 DEF CommitsInv
  <2>5. ContentInv'
    <3> SUFFICES ASSUME NEW p \in base + 1..commits[i].backend.applied
                 PROVE  log'[p - base] = hist'[p].mutation
      BY <1>1, <2>1 DEF ContentInv
    <3>1. commits[i].backend.applied \in Nat /\ commits[i].backend.applied <= Len(hist)
      BY DEF ServerInv, CommitsInv
    <3>2. /\ p \in base + 1..Len(hist) /\ p \in 1..commits[i].backend.applied
          /\ p - base \in 1..commits[i].backend.applied - base
      <4>1. \A a, b, k \in Nat : k <= a /\ p \in b + 1..k =>
              p \in b + 1..a /\ p \in 1..k /\ p - b \in 1..k - b
        OBVIOUS
      <4> QED
        BY <3>1, <4>1
    <3> QED
      BY <1>1, <2>1, <3>2 DEF ServerInv, ContentInv
  <2>6. PlaceInv'
    BY <1>1, <2>1 DEF PlaceInv, Serving
  <2> QED
    BY <2>3, <2>4, <2>5, <2>6 DEF ServerInv
<1>2. CASE Stop
  <2>1. PICK i \in DOMAIN commits : FallTo(i)
    BY <1>2 DEF Stop
  <2>2. /\ server = "idle" /\ server' = "down" /\ UNCHANGED <<log, base, synced>>
        /\ End' = End
    BY <1>2 DEF Stop, Goes, logVars, End
  <2>3. i \in 1..Len(commits) /\ Chain(log) /\ synced \in base..End
    BY ChainParts DEF ServerInv, SequencesInv
  <2>4. commits[1].backend.applied <= synced /\ commits[i].backend.applied <= End
    BY <2>3 DEF ServerInv, CommitsInv
  <2>5. /\ base' = base /\ Chain(log') /\ synced' \in base..End'
        /\ commits[1].backend.applied <= synced'
        /\ commits[i].backend.applied <= End'
        /\ \A p \in 1..commits[i].backend.applied - base : log'[p] = log[p]
    BY <2>2, <2>3, <2>4
  <2> QED
    BY <1>1, <2>1, <2>2, <2>3, <2>5
<1>3. CASE Kill
  <2>1. /\ FallTo(1) /\ server' = "down" /\ UNCHANGED <<log, base, synced>>
        /\ End' = End
    BY <1>3 DEF Kill, Killed, Survives, End
  <2>2. 1 \in 1..Len(commits) /\ Chain(log) /\ synced \in base..End
    BY DEF ServerInv, SequencesInv
  <2>3. commits[1].backend.applied <= synced /\ commits[1].backend.applied <= End
    BY <2>2 DEF ServerInv, CommitsInv
  <2>4. /\ base' = base /\ Chain(log') /\ synced' \in base..End'
        /\ commits[1].backend.applied <= synced'
        /\ commits[1].backend.applied <= End'
        /\ \A p \in 1..commits[1].backend.applied - base : log'[p] = log[p]
    BY <2>1, <2>2, <2>3
  <2> QED
    BY <1>1, <2>1, <2>2, <2>4
<1>4. CASE PowerLoss
  <2>1. PICK n \in synced..End : log' = SubSeq(log, 1, n - base) /\ synced' = n
    BY <1>4 DEF PowerLoss
  <2>2. FallTo(1) /\ server' = "down" /\ base' = base
    BY <1>4 DEF PowerLoss, Killed, Survives
  <2>3. /\ n \in Nat /\ n - base \in Nat /\ n - base <= Len(log) /\ base <= synced
        /\ Chain(log) /\ 1 \in 1..Len(commits)
    BY DEF ServerInv, SequencesInv
  <2> DEFINE m == n - base
  <2>4. /\ Chain(log') /\ Len(log') = m - 1 + 1
        /\ \A p \in 1..m - 1 + 1 : log'[p] = log[1 + p - 1]
    <3>1. m \in Nat /\ m <= Len(log) /\ log' = SubSeq(log, 1, m)
      BY <2>1, <2>3
    <3> HIDE DEF m
    <3> QED
      BY <2>3, <3>1, CutChain
  <2>5. Len(log') = n - base /\ \A p \in 1..n - base : log'[p] = log[p]
    BY SMTT(30), <2>3, <2>4
  <2>6. End' = n
    BY <2>2, <2>3, <2>5 DEF End
  <2>7. commits[1].backend.applied \in Nat /\ commits[1].backend.applied <= synced
    BY <2>3 DEF ServerInv, CommitsInv
  <2>8. \A p \in 1..commits[1].backend.applied - base : log'[p] = log[p]
    BY SMTT(30), <2>3, <2>5, <2>7
  <2>9. /\ base' = base /\ Chain(log') /\ synced' \in base..End'
        /\ commits[1].backend.applied <= synced'
        /\ commits[1].backend.applied <= End'
    <3>1. n \in base..n /\ synced <= n /\ synced \in Nat
      BY <2>3 DEF ServerInv, SequencesInv
    <3>2. commits[1].backend.applied <= n
      BY <2>3, <2>7, <3>1
    <3> QED
      BY <2>1, <2>2, <2>4, <2>6, <3>1, <3>2
  <2> QED
    BY <1>1, <2>2, <2>3, <2>8, <2>9
<1> QED
  BY <1>2, <1>3, <1>4

LEMMA ServerInvStep == ServerInv /\ [ServerNext]_serverVars => ServerInv'
<1> SUFFICES ASSUME ServerInv, [ServerNext]_serverVars PROVE ServerInv'
  OBVIOUS
<1>1. CASE UNCHANGED serverVars
  BY <1>1 DEF serverVars, storeVars, vars, stateVars, ghostVars, logVars,
              ServerInv, SequencesInv, CommitsInv, ContentInv, PlaceInv, End
<1>2. CASE OpenStore \/ ReopenTail \/ Sync \/ TrimEnds
  BY <1>2, QuietSteps
<1>3. CASE Recover \/ ApplyAndAnswer
  BY <1>3, ApplySteps
<1>4. ASSUME NEW b \in Batch, AppendBatch(b) PROVE ServerInv'
  BY <1>4, AppendStep
<1>5. CASE FlushStore
  BY <1>5, FlushStep
<1>6. ASSUME NEW n \in base + 1..End, RemoveSegment(n) PROVE ServerInv'
  BY <1>6, RemoveStep
<1>7. CASE Compacts
  BY <1>7, CompactStep
<1>8. CASE Stop \/ Kill \/ PowerLoss
  BY <1>8, EndSteps
<1> QED
  BY <1>1, <1>2, <1>3, <1>4, <1>5, <1>6, <1>7, <1>8 DEF ServerNext

-----------------------------------------------------------------------------
(* The theorems.                                                           *)

(* The inductive invariant holds in every state of the program.            *)
THEOREM Covered == ServerSpec => []ServerInv
<1> QED
  BY ServerInvInit, ServerInvStep, PTL DEF ServerSpec

(* Whatever commit a crash or a stop leaves, the log that remains starts   *)
(* no later than it and goes on exactly as the store did: no segment is    *)
(* removed too early.                                                      *)
THEOREM LogCovers == ServerSpec => []LogCoversStore
<1>1. ServerInv => LogCoversStore
  <2> SUFFICES ASSUME ServerInv PROVE LogCoversStore
    OBVIOUS
  <2>1. DOMAIN commits = 1..Len(commits)
    BY ChainParts DEF ServerInv, SequencesInv
  <2> QED
    BY <2>1 DEF LogCoversStore, ServerInv, CommitsInv, ContentInv
<1> QED
  BY <1>1, Covered, PTL

(* No kill and no power loss, at whatever step of starting, serving or     *)
(* stopping, leaves a log that recovery refuses over its own store.        *)
THEOREM OwnLogOpens == ServerSpec => []OpensOwnLog
<1>1. ServerInv => OpensOwnLog
  BY DEF ServerInv, PlaceInv, Serving, OpensOwnLog
<1> QED
  BY <1>1, Covered, PTL

-----------------------------------------------------------------------------
(* The store under the server, and what it was given.                      *)

(* The log holds mutations, and only what is flushed was answered.         *)
GivenInv ==
  /\ log \in Seq(Mutation)
  /\ told \in [DOMAIN told -> Write] /\ DOMAIN told \subseteq 1..synced

LEMMA PendingParts ==
  ASSUME ServerInv, log \in Seq(Mutation), applied = Len(hist)
  PROVE  /\ Pending \in Seq(Mutation) /\ Len(Pending) = End - applied
         /\ applied \in Nat /\ End \in Nat /\ applied <= End /\ base <= applied /\ base \in Nat
         /\ \A i \in 1..End - applied : Pending[i] = log[applied - base + i]
<1>1. /\ Len(hist) \in Nat /\ Len(log) \in Nat /\ base \in Nat /\ End \in Nat /\ End = base + Len(log)
      /\ base <= applied /\ applied <= End
  BY Lengths
<1> DEFINE m == applied - base + 1
           n == Len(log)
<1>2. /\ m \in Nat \ {0} /\ n \in Nat /\ n <= Len(log) /\ m <= n + 1 /\ n - m + 1 = End - applied
      /\ applied \in Nat
  BY <1>1
<1>3. Pending = SubSeq(log, m, n) /\ Chain(log)
  BY SeqIsChain DEF Pending
<1>4. \A i \in 1..End - applied : m + i - 1 = applied - base + i
  BY <1>1
<1> HIDE DEF m, n
<1>5. /\ Len(SubSeq(log, m, n)) = n - m + 1
      /\ \A i \in 1..n - m + 1 : SubSeq(log, m, n)[i] = log[m + i - 1]
  BY <1>2, <1>3, CutChain
<1>6. SubSeq(log, m, n) \in Seq(Mutation)
  BY <1>2
<1> QED
  BY <1>1, <1>2, <1>3, <1>4, <1>5, <1>6

(* What is applied to the store, by recovery or by the writer thread.      *)
LEMMA AppliesPending ==
  ASSUME ServerInv, log \in Seq(Mutation), ApplyAndAnswer \/ (Recover /\ ~(End <= applied))
  PROVE  /\ Pending \in Seq(Mutation) /\ End \in Nat /\ Apply(Pending, End)
         /\ applied = Len(hist) /\ applied <= End /\ applied \in Nat /\ Len(Pending) = End - applied
         /\ base <= applied /\ base \in Nat
         /\ \A i \in 1..End - applied : Pending[i] = log[applied - base + i]
<1>1. applied = Len(hist)
  BY DEF Recover, ApplyAndAnswer, Goes, ServerInv, PlaceInv, Serving
<1>2. /\ Pending \in Seq(Mutation) /\ Len(Pending) = End - applied
      /\ applied \in Nat /\ End \in Nat /\ applied <= End /\ base <= applied /\ base \in Nat
      /\ \A i \in 1..End - applied : Pending[i] = log[applied - base + i]
  BY <1>1, PendingParts
<1>3. applied + Len(Pending) = End
  BY <1>2
<1>4. Apply(Pending, End)
  BY <1>3 DEF Recover, ApplyAndAnswer
<1> QED
  BY <1>1, <1>2, <1>4

(* The process ends at one of the commits.                                 *)
LEMMA EndsAt ==
  ASSUME ServerInv, StoreInv, Stop \/ Kill \/ PowerLoss
  PROVE  /\ \E i \in DOMAIN commits : FallTo(i)
         /\ spent' \in [Counted -> Nat] /\ spent'["compact"] = spent["compact"]
         /\ spent'["compactions"] = spent["compactions"]
         /\ server' = "down" /\ base' = base /\ told' = told
<1>1. spent \in [Counted -> Nat] /\ 1 \in DOMAIN commits /\ CommitsOK(commits, Len(hist))
  <2>1. Len(commits) \in Nat \ {0} /\ DOMAIN commits = 1..Len(commits)
    BY LastRecords
  <2> QED
    BY <2>1 DEF StoreInv, TypesHold, BackendHolds
<1>2. CASE Stop
  BY <1>1, <1>2 DEF Stop, Goes, logVars
<1>3. CASE Kill \/ PowerLoss
  <2>1. Killed
    BY <1>3 DEF Kill, PowerLoss
  <2>2. Fault("crash") /\ FallTo(1) /\ server' = "down" /\ base' = base /\ told' = told
    BY <2>1 DEF Killed, Survives
  <2>3. /\ spent' \in [Counted -> Nat] /\ spent'["compact"] = spent["compact"]
        /\ spent'["compactions"] = spent["compactions"]
    BY <1>1, <2>2, CountedKinds, FaultCounts
  <2> QED
    BY <1>1, <2>2, <2>3
<1> QED
  BY <1>2, <1>3

LEMMA CompactsOne ==
  ASSUME StoreInv, Compacts
  PROVE  \/ \E at \in Nat : CompactBegins(at) /\ at <= current - CompactLag
         \/ CompactNext \/ CompactFails \/ CompactEnds
<1>1. \A at \in 0..(current - CompactLag) : at \in Nat /\ at <= current - CompactLag
  BY LagAssumption DEF StoreInv, TypesHold
<1> QED
  BY <1>1 DEF Compacts

(* Steps of the log and of the threads around the store.                   *)
StoreRests ==
  \/ ReopenTail \/ Sync \/ TrimEnds \/ (Recover /\ End <= applied)
  \/ (\E b \in Batch : AppendBatch(b)) \/ (\E n \in base + 1..End : RemoveSegment(n))
  \/ UNCHANGED serverVars

LEMMA Rests ==
  ASSUME StoreRests PROVE UNCHANGED vars
  BY DEF StoreRests, ReopenTail, Sync, TrimEnds, Recover, AppendBatch, RemoveSegment, serverVars, storeVars

(* The store keeps its own invariant in the running program.               *)
LEMMA ServerStoreStep ==
  ASSUME ServerInv, StoreInv, log \in Seq(Mutation), [ServerNext]_serverVars PROVE StoreInv'
<1>1. CASE StoreRests
  BY <1>1, Rests, StutterInv
<1>2. CASE ApplyAndAnswer \/ (Recover /\ ~(End <= applied))
  BY <1>2, AppliesPending, ApplyInv
<1>3. CASE OpenStore
  BY <1>3, OpenInv DEF OpenStore
<1>4. CASE FlushStore
  BY <1>4, CheckpointInv DEF FlushStore
<1>5. CASE Compacts
  BY <1>5, CompactsOne, BeginsInv, NextInv, FailsInv, EndsInv
<1>6. CASE Stop \/ Kill \/ PowerLoss
  BY <1>6, EndsAt, FallInv
<1> QED
  BY <1>1, <1>2, <1>3, <1>4, <1>5, <1>6 DEF ServerNext, StoreRests

LEMMA ServerSoundStep ==
  ASSUME ServerInv, StoreInv, log \in Seq(Mutation), [ServerNext]_serverVars, SoundInv PROVE SoundInv'
<1>0. KeepsExact => SoundInv'
  BY DEF KeepsExact
<1>1. CASE StoreRests
  BY <1>0, <1>1, Rests, StutterExact
<1>2. CASE ApplyAndAnswer \/ (Recover /\ ~(End <= applied))
  BY <1>0, <1>2, AppliesPending, ApplyExact
<1>3. CASE OpenStore
  BY <1>3, OpenSound DEF OpenStore
<1>4. CASE FlushStore
  BY <1>0, <1>4, CheckpointKeeps DEF FlushStore
<1>5. CASE Compacts
  BY <1>0, <1>5, CompactsOne, BeginsKeeps, NextKeeps, FailsKeeps, EndsKeeps
<1>6. CASE Stop \/ Kill \/ PowerLoss
  BY <1>6, EndsAt, FallKeeps
<1> QED
  BY <1>1, <1>2, <1>3, <1>4, <1>5, <1>6 DEF ServerNext, StoreRests

(* What the writer thread answers.                                         *)
LEMMA Answers ==
  ASSUME ServerInv, StoreInv, GivenInv, ApplyAndAnswer
  PROVE  /\ synced' = synced /\ synced = End /\ log' = log /\ base' = base
         /\ \A i \in DOMAIN told' :
              \/ /\ i \in DOMAIN told /\ i <= applied /\ told'[i] = told[i]
              \/ /\ i \in applied + 1..End /\ i - applied \in 1..End - applied
                 /\ told'[i] = [revision |-> current + (i - applied),
                                mutation |-> Pending[i - applied]]
         /\ told' = [i \in DOMAIN told' |-> told'[i]] /\ DOMAIN told' \subseteq 1..End
<1>1. /\ Pending \in Seq(Mutation) /\ End \in Nat /\ applied <= End /\ applied \in Nat
      /\ Len(Pending) = End - applied
  BY AppliesPending DEF GivenInv
<1>2. synced' = synced /\ synced = End /\ log' = log /\ base' = base
  BY DEF ApplyAndAnswer, Goes, logVars, ServerInv, PlaceInv
<1>3. DOMAIN told \subseteq 1..End
  BY <1>2 DEF GivenInv
<1> DEFINE n == Len(Pending)
           D == DOMAIN told \cup (applied + 1..applied + n)
           answer(i) == IF i > applied THEN Numbered(Pending)[i - applied] ELSE told[i]
<1>4. told' = [i \in D |-> answer(i)]
  BY DEF ApplyAndAnswer
<1>5. DOMAIN Pending = 1..n /\ n = End - applied
  BY <1>1
<1>6. \A j \in 1..n : Numbered(Pending)[j] = [revision |-> current + j, mutation |-> Pending[j]]
  BY <1>5 DEF Numbered
<1> HIDE DEF n
<1>7. D \subseteq 1..End
  BY <1>1, <1>3, <1>5
<1>8. \A i \in D : \/ i \in DOMAIN told /\ i <= applied /\ ~(i > applied)
                   \/ i > applied /\ i \in applied + 1..End /\ i - applied \in 1..n
  BY <1>1, <1>3, <1>5
<1> HIDE DEF D
<1>9. DOMAIN told' = D /\ told' = [i \in DOMAIN told' |-> told'[i]] /\ \A i \in D : told'[i] = answer(i)
  BY <1>4
<1>10. ASSUME NEW i \in D
       PROVE  \/ /\ i \in DOMAIN told /\ i <= applied /\ told'[i] = told[i]
              \/ /\ i \in applied + 1..End /\ i - applied \in 1..n
                 /\ told'[i] = [revision |-> current + (i - applied),
                                mutation |-> Pending[i - applied]]
  BY <1>6, <1>8, <1>9
<1> QED
  BY <1>2, <1>5, <1>7, <1>9, <1>10

LEMMA GivenStart ==
  ASSUME ServerInit PROVE GivenInv
<1>1. log = <<>> /\ synced = 0 /\ told = [p \in {} |-> {}]
  BY DEF ServerInit
<1> QED
  BY <1>1 DEF GivenInv

LEMMA GivenStep ==
  ASSUME ServerInv, StoreInv, GivenInv, [ServerNext]_serverVars PROVE GivenInv'
<1>0. /\ Len(log) \in Nat /\ base \in Nat /\ synced \in Nat /\ End \in Nat /\ End = base + Len(log)
      /\ base <= synced /\ synced <= End
  BY Lengths DEF ServerInv, SequencesInv
<1>1. ASSUME log' \in Seq(Mutation), told' = told, synced' \in Nat, synced <= synced' PROVE GivenInv'
  BY <1>0, <1>1 DEF GivenInv
<1>2. CASE ApplyAndAnswer
  <2>1. /\ synced' = synced /\ synced = End /\ log' = log
        /\ \A i \in DOMAIN told' :
              \/ /\ i \in DOMAIN told /\ i <= applied /\ told'[i] = told[i]
              \/ /\ i \in applied + 1..End /\ i - applied \in 1..End - applied
                 /\ told'[i] = [revision |-> current + (i - applied),
                                mutation |-> Pending[i - applied]]
        /\ told' = [i \in DOMAIN told' |-> told'[i]] /\ DOMAIN told' \subseteq 1..End
    BY <1>2, Answers
  <2>2. /\ \A j \in 1..End - applied : Pending[j] \in Mutation /\ current + j \in Nat
        /\ \A i \in DOMAIN told : told[i] \in Write
    <3>1. Pending \in Seq(Mutation) /\ Len(Pending) = End - applied /\ applied \in Nat
      BY <1>2, AppliesPending DEF GivenInv
    <3> QED
      BY <3>1 DEF GivenInv, StoreInv, TypesHold
  <2>3. \A r \in Nat, m \in Mutation : [revision |-> r, mutation |-> m] \in Write
    BY DEF Write, Revision
  <2>4. \A i \in DOMAIN told' : told'[i] \in Write
    BY <2>1, <2>2, <2>3
  <2> QED
    BY <2>1, <2>4 DEF GivenInv
<1>3. CASE Sync \/ ReopenTail
  BY <1>0, <1>1, <1>3 DEF Sync, ReopenTail, GivenInv
<1>4. CASE OpenStore \/ Recover \/ FlushStore \/ TrimEnds \/ Compacts \/ Stop \/ Kill \/ UNCHANGED serverVars
  <2>1. log' = log /\ told' = told /\ synced' = synced
    BY <1>4 DEF OpenStore, Recover, FlushStore, TrimEnds, Compacts, Stop, Kill, Killed, serverVars, logVars
  <2> QED
    BY <1>0, <1>1, <2>1 DEF GivenInv
<1>5. ASSUME NEW b \in Batch, AppendBatch(b) PROVE GivenInv'
  <2>1. log' = log \o b /\ told' = told /\ synced' = synced
    BY <1>5 DEF AppendBatch
  <2>2. b \in Seq(Mutation)
    BY BoundsAssumption DEF Batch
  <2>3. log' \in Seq(Mutation)
    BY <2>1, <2>2 DEF GivenInv
  <2> QED
    BY <1>0, <1>1, <2>1, <2>3
<1>6. ASSUME NEW n \in base + 1..End, RemoveSegment(n) PROVE GivenInv'
  <2> DEFINE m == n - base + 1
  <2>1. log' = SubSeq(log, m, Len(log)) /\ told' = told /\ synced' = synced
    BY <1>6 DEF RemoveSegment
  <2>2. m \in Nat \ {0}
    BY <1>0
  <2> HIDE DEF m
  <2>3. log' \in Seq(Mutation)
    BY <1>0, <2>1, <2>2 DEF GivenInv
  <2> QED
    BY <1>0, <1>1, <2>1, <2>3
<1>7. CASE PowerLoss
  <2>1. PICK n \in synced..End : log' = SubSeq(log, 1, n - base) /\ synced' = n
    BY <1>7 DEF PowerLoss
  <2> DEFINE m == n - base
  <2>2. told' = told /\ n \in Nat /\ m \in Nat /\ m <= Len(log) /\ synced <= n
    BY <1>0, <1>7 DEF PowerLoss, Killed
  <2>3. log' = SubSeq(log, 1, m)
    BY <2>1
  <2> HIDE DEF m
  <2>4. log' \in Seq(Mutation)
    BY <1>0, <2>2, <2>3 DEF GivenInv
  <2> QED
    BY <1>0, <1>1, <2>1, <2>2, <2>4
<1> QED
  BY <1>2, <1>3, <1>4, <1>5, <1>6, <1>7 DEF ServerNext

LEMMA ServerStarts ==
  ASSUME ServerInit PROVE ServerInv /\ StoreInv /\ SoundInv /\ GivenInv
<1>1. Init
  BY DEF ServerInit
<1> QED
  BY <1>1, ServerInvInit, StartInv, StartExact, GivenStart DEF ExactInv

(* The running program keeps the store's invariant and what it was given.  *)
THEOREM ServerStoreInvariant == ServerSpec => [](ServerInv /\ StoreInv /\ SoundInv /\ GivenInv)
<1> DEFINE I == ServerInv /\ StoreInv /\ SoundInv /\ GivenInv
<1>1. ServerInit => I
  BY ServerStarts
<1>2. I /\ [ServerNext]_serverVars => I'
  <2> SUFFICES ASSUME I, [ServerNext]_serverVars PROVE I'
    OBVIOUS
  <2>1. log \in Seq(Mutation)
    BY DEF GivenInv
  <2> QED
    BY <2>1, ServerInvStep, ServerStoreStep, ServerSoundStep, GivenStep
<1> QED
  BY <1>1, <1>2, PTL DEF ServerSpec

(* The variables of the running program keep their types; what is told is  *)
(* in the flushed part of the log.                                         *)
THEOREM ServerTyped == ServerSpec => []ServerTypeOK
<1>1. ServerInv /\ StoreInv /\ GivenInv => ServerTypeOK
  <2> SUFFICES ASSUME ServerInv, StoreInv, GivenInv PROVE ServerTypeOK
    OBVIOUS
  <2>1. TypeOK
    BY InvTypes
  <2>2. base \in Nat /\ synced \in base..End /\ server \in Serving \cup {"down", "opened", "replayed", "refused"}
    BY Lengths DEF ServerInv, SequencesInv, PlaceInv
  <2> QED
    BY <2>1, <2>2 DEF ServerTypeOK, GivenInv
<1> QED
  BY <1>1, ServerStoreInvariant, PTL

-----------------------------------------------------------------------------
(* Compactions that stay behind the current revision.                      *)

(* A commit holds the record of its last write. *)
LastKept(C, i) == \E d \in BOOLEAN : <<LengthOf(C, i), d>> \in DOMAIN RecordsAt(C, i)

(* Then revisions are positions, in every commit the store may fall to.    *)
UnbrokenInv ==
  /\ \A i \in 1..Len(hist) : RevOf(hist, i) = i
  /\ \A i \in 1..Len(commits) : LengthOf(commits, i) # 0 => LastKept(commits, i)
  /\ pc # "down" => current = Len(hist)
  /\ pc = "compacting" => target < current
  /\ compacted <= floor

LEMMA UnbrokenStart ==
  ASSUME Init PROVE UnbrokenInv
<1>1. /\ hist = <<>> /\ commits = <<[length |-> 0, backend |-> EmptyBackend]>> /\ current = 0
      /\ compacted = 0 /\ floor = 0 /\ pc = "open"
  BY DEF Init, CreateTable
<1>2. Len(commits) = 1 /\ LengthOf(commits, 1) = 0
  BY <1>1 DEF LengthOf
<1> QED
  BY <1>1, <1>2 DEF UnbrokenInv

LEMMA UnbrokenApply ==
  ASSUME StoreInv, NEW batch \in Seq(Mutation), NEW upto \in Nat, Apply(batch, upto), UnbrokenInv
  PROVE  UnbrokenInv'
<1> DEFINE n == Len(batch)
           N == Len(hist)
           R == backend'.records
<1>1. /\ n \in Nat /\ current \in Nat /\ Batched(R, current, batch)
      /\ UpTo(R, current) = backend.records /\ UpTo(R, current + n) = R
      /\ Len(hist') = N + n /\ (\A i \in 1..N : hist'[i] = hist[i])
      /\ Continues(hist', N, current, batch)
      /\ Len(commits') = Len(commits) + 1 /\ Len(commits) \in Nat
      /\ IsCommit(commits', Len(commits'), Len(hist'), R, upto)
      /\ \A i \in 1..Len(commits) : SameCommit(commits, commits', i)
  BY BatchApplied
<1>2. /\ pc = "open" /\ pc' = pc /\ current' = current + n /\ target' = target
      /\ compacted' = compacted /\ floor' = floor
  BY DEF Apply, compactionVars
<1>3. current = N /\ N \in Nat
  BY <1>1, <1>2 DEF UnbrokenInv
<1>4. /\ RecordsAt(commits, Len(commits)) = backend.records /\ LengthOf(commits, Len(commits)) = N
      /\ Len(commits) \in 1..Len(commits)
  BY LastRecords, ExactParts
<1> HIDE DEF n, N, R
<1>5. ASSUME NEW i \in 1..Len(hist') PROVE RevOf(hist', i) = i
  <2>1. CASE i \in 1..N
    BY <1>1, <2>1 DEF UnbrokenInv, RevOf, N
  <2>2. CASE i \notin 1..N
    <3>1. i - N \in 1..n /\ N + (i - N) = i
      BY <1>1, <1>3, <2>2
    <3>2. RevOf(hist', N + (i - N)) = current + (i - N)
      BY <1>1, <3>1 DEF Continues, n
    <3> QED
      BY <1>3, <3>1, <3>2
  <2> QED
    BY <2>1, <2>2
<1>6. ASSUME N + n # 0 PROVE \E d \in BOOLEAN : <<N + n, d>> \in DOMAIN R
  <2>1. CASE n = 0
    <3>1. R = backend.records /\ N # 0
      BY <1>1, <1>3, <1>6, <2>1
    <3>2. LastKept(commits, Len(commits))
      BY <1>4, <3>1 DEF UnbrokenInv
    <3> QED
      BY <1>3, <1>4, <2>1, <3>1, <3>2 DEF LastKept
  <2>2. CASE n # 0
    <3>1. n \in 1..n
      BY <1>1, <2>2
    <3>2. PICK d \in BOOLEAN : d <=> IsTombstone(batch[n])
      OBVIOUS
    <3>3. <<current + n, d>> \in DOMAIN R
      BY <1>1, <3>1, <3>2 DEF Batched, n
    <3> QED
      BY <1>3, <3>3
  <2> QED
    BY <2>1, <2>2
<1>7. ASSUME NEW i \in 1..Len(commits'), LengthOf(commits', i) # 0 PROVE LastKept(commits', i)
  <2>1. CASE i \in 1..Len(commits)
    BY <1>1, <1>7, <2>1 DEF SameCommit, UnbrokenInv, LastKept
  <2>2. CASE i = Len(commits')
    <3>1. LengthOf(commits', i) = N + n /\ RecordsAt(commits', i) = R
      BY <1>1, <2>2 DEF IsCommit
    <3> QED
      BY <1>6, <1>7, <3>1 DEF LastKept
  <2> QED
    BY <1>1, <2>1, <2>2
<1>8. current' = Len(hist')
  BY <1>1, <1>2, <1>3
<1> QED
  BY <1>2, <1>5, <1>7, <1>8 DEF UnbrokenInv

LEMMA UnbrokenCheckpoint ==
  ASSUME StoreInv, Checkpoint, UnbrokenInv PROVE UnbrokenInv'
<1> DEFINE N == Len(hist)
<1>1. /\ RecordsOf(backend.records, N) /\ applied \in Nat /\ N \in Nat
      /\ RecordsAt(commits, Len(commits)) = backend.records /\ LengthOf(commits, Len(commits)) = N
      /\ Len(commits) \in 1..Len(commits)
  BY LastRecords, ExactParts DEF StoreInv, TypesHold
<1>2. /\ commits' = CommitDurable(commits, Snapshot(N, backend.records, applied))
      /\ hist' = hist /\ floor' = floor /\ current' = current /\ compacted' = compacted /\ pc = "open" /\ pc' = pc
  BY DEF Checkpoint, stateVars
<1>3. Len(commits') = 1 /\ IsCommit(commits', 1, N, backend.records, applied)
  BY <1>1, <1>2, CommitAlone
<1> HIDE DEF N
<1>4. ASSUME NEW i \in 1..Len(commits'), LengthOf(commits', i) # 0 PROVE LastKept(commits', i)
  <2>1. i = 1 /\ LengthOf(commits', i) = N /\ RecordsAt(commits', i) = backend.records
    BY <1>3, <1>4 DEF IsCommit
  <2>2. LastKept(commits, Len(commits))
    BY <1>1, <1>4, <2>1 DEF UnbrokenInv
  <2> QED
    BY <1>1, <2>1, <2>2 DEF LastKept
<1>5. \A i \in 1..Len(hist') : RevOf(hist', i) = i
  BY <1>2 DEF UnbrokenInv, RevOf
<1> QED
  BY <1>2, <1>4, <1>5 DEF UnbrokenInv

LEMMA UnbrokenNext ==
  ASSUME StoreInv, CompactNext, UnbrokenInv PROVE UnbrokenInv'
<1> DEFINE N == Len(hist)
<1>1. /\ pc = "compacting" /\ pc' = pc /\ hist' = hist /\ current' = current /\ compacted' = compacted
      /\ floor' = floor /\ target' = target
  BY DEF CompactNext, stateVars, ghostVars
<1>2. /\ N \in Nat /\ RecordsAt(commits, Len(commits)) = backend.records
      /\ LengthOf(commits, Len(commits)) = N /\ Len(commits) \in 1..Len(commits)
      /\ target \in Nat /\ Dropping(backend.records, dropping, target) /\ target < N
  BY <1>1, LastRecords, ExactParts DEF StoreInv, DropHolds, UnbrokenInv
<1>3. PICK chunk \in SUBSET dropping :
        LET R2 == Without(backend.records, Revisions(chunk)) IN
        /\ Len(commits') = Len(commits) + 1 /\ Len(commits) \in Nat
        /\ IsCommit(commits', Len(commits'), Len(hist), R2, backend.applied)
        /\ \A i \in 1..Len(commits) : SameCommit(commits, commits', i)
  BY ChunkParts
<1> DEFINE R == backend.records
           R2 == Without(R, Revisions(chunk))
<1>4. N \notin Revisions(chunk)
  <2>1. \A p \in chunk : p = <<p[1], p[2]>> /\ p[1] \in Key /\ p[2] \in Nat /\ p[2] <= target
    <3>1. \A p \in dropping : p = <<p[1], p[2]>> /\ p[1] \in Key /\ p[2] \in Nat
      BY <1>2 DEF Dropping
    <3> QED
      BY <1>2, <3>1 DEF Dropping, Drop
  <2> QED
    BY <1>2, <2>1 DEF Revisions
<1>5. \A d \in BOOLEAN : <<N, d>> \in DOMAIN R => <<N, d>> \in DOMAIN R2
  BY <1>4 DEF Without
<1> HIDE DEF N, R, R2
<1>6. ASSUME NEW i \in 1..Len(commits'), LengthOf(commits', i) # 0 PROVE LastKept(commits', i)
  <2>1. CASE i \in 1..Len(commits)
    BY <1>3, <1>6, <2>1 DEF SameCommit, UnbrokenInv, LastKept
  <2>2. CASE i = Len(commits')
    <3>1. LengthOf(commits', i) = N /\ RecordsAt(commits', i) = R2
      BY <1>3, <2>2 DEF IsCommit, N, R, R2
    <3>2. LastKept(commits, Len(commits))
      BY <1>2, <1>6, <3>1 DEF UnbrokenInv
    <3> QED
      BY <1>2, <1>5, <3>1, <3>2 DEF LastKept, R
  <2> QED
    BY <1>3, <2>1, <2>2
<1>7. \A i \in 1..Len(hist') : RevOf(hist', i) = i
  BY <1>1 DEF UnbrokenInv, RevOf
<1> QED
  BY <1>1, <1>6, <1>7 DEF UnbrokenInv

LEMMA UnbrokenFall ==
  ASSUME StoreInv, NEW i \in DOMAIN commits, FallTo(i), UnbrokenInv PROVE UnbrokenInv'
<1> DEFINE n == LengthOf(commits, i)
<1>1. /\ n \in 0..Len(hist) /\ Len(commits') = i /\ Len(hist) \in Nat
      /\ \A j \in 1..i : j \in 1..Len(commits) /\ SameCommit(commits, commits', j)
      /\ Len(hist') = n /\ \A j \in 1..n : hist'[j] = hist[j]
  BY FallParts, ExactParts
<1>2. pc' = "down" /\ floor' = floor /\ compacted' = 0 /\ floor \in Nat
  BY ExactParts DEF FallTo
<1> HIDE DEF n
<1>3. \A j \in 1..Len(hist') : RevOf(hist', j) = j
  BY <1>1 DEF UnbrokenInv, RevOf
<1>4. \A j \in 1..Len(commits') : LengthOf(commits', j) # 0 => LastKept(commits', j)
  BY <1>1 DEF UnbrokenInv, SameCommit, LastKept
<1> QED
  BY <1>2, <1>3, <1>4 DEF UnbrokenInv

LEMMA UnbrokenOpen ==
  ASSUME StoreInv, Open, UnbrokenInv PROVE UnbrokenInv'
<1> DEFINE R == backend.records
           N == Len(hist)
<1>1. /\ pc' = "open" /\ current' = Newest(R) /\ compacted' = 0 /\ hist' = hist /\ commits' = commits
      /\ floor' = floor
  BY DEF Open, ghostVars
<1>2. /\ N \in Nat /\ floor \in Nat /\ RecordsAt(commits, Len(commits)) = R
      /\ LengthOf(commits, Len(commits)) = N /\ Len(commits) \in 1..Len(commits)
      /\ RecordsOf(R, N)
  BY LastRecords, ExactParts
<1> HIDE DEF R, N
<1>3. Newest(R) \in 0..N /\ RecordsOf(R, Newest(R)) /\ Newest(R) \in Nat
  BY <1>2, NewestIs
<1>4. Newest(R) = N
  <2>1. CASE N = 0
    BY <1>3, <2>1
  <2>2. CASE N # 0
    <3>1. LastKept(commits, Len(commits))
      BY <1>2, <2>2 DEF UnbrokenInv
    <3>2. PICK d \in BOOLEAN : <<N, d>> \in DOMAIN R
      BY <1>2, <3>1 DEF LastKept
    <3>3. <<N, d>>[1] \in 1..Newest(R)
      BY <1>3, <3>2, RecordKeys
    <3> QED
      BY <1>2, <1>3, <3>3
  <2> QED
    BY <2>1, <2>2
<1> QED
  BY <1>1, <1>2, <1>4 DEF UnbrokenInv, RevOf, LengthOf, LastKept, RecordsAt, N

LEMMA UnbrokenCompacts ==
  ASSUME StoreInv, Compacts, UnbrokenInv, CompactLag >= 1 PROVE UnbrokenInv'
<1>1. ASSUME NEW at \in Nat, CompactBegins(at), at <= current - CompactLag PROVE UnbrokenInv'
  <2>1. /\ pc' = "compacting" /\ pc = "open" /\ hist' = hist /\ commits' = commits /\ current' = current
        /\ compacted' = compacted /\ target' = at /\ floor' = Max({floor, at})
    BY <1>1 DEF CompactBegins
  <2>2. floor \in Nat /\ current \in Nat /\ compacted \in Nat
    BY DEF StoreInv, TypesHold
  <2>3. floor' >= floor /\ floor' \in Nat
    BY <2>1, <2>2, HigherOf
  <2>4. target' < current'
    BY <1>1, <2>1, <2>2, LagAssumption
  <2> QED
    BY <2>1, <2>2, <2>3, <2>4 DEF UnbrokenInv, RevOf, LengthOf, LastKept, RecordsAt
<1>2. CASE CompactFails
  <2>1. /\ pc = "compacting" /\ pc' = "open" /\ hist' = hist /\ commits' = commits /\ current' = current
        /\ compacted' = compacted /\ floor' = floor
    BY <1>2 DEF CompactFails, stateVars, ghostVars
  <2> QED
    BY <2>1 DEF UnbrokenInv, RevOf, LengthOf, LastKept, RecordsAt
<1>3. CASE CompactEnds
  <2>1. /\ pc = "compacting" /\ pc' = "open" /\ hist' = hist /\ commits' = commits /\ current' = current
        /\ compacted' = target /\ floor' = floor /\ target <= floor
    BY <1>3 DEF CompactEnds, StoreInv, DropHolds
  <2> QED
    BY <2>1 DEF UnbrokenInv, RevOf, LengthOf, LastKept, RecordsAt
<1> QED
  BY <1>1, <1>2, <1>3, CompactsOne, UnbrokenNext

LEMMA UnbrokenStep ==
  ASSUME ServerInv, StoreInv, log \in Seq(Mutation), CompactLag >= 1, [ServerNext]_serverVars, UnbrokenInv
  PROVE  UnbrokenInv'
<1>1. CASE StoreRests
  <2>1. UNCHANGED vars
    BY <1>1, Rests
  <2>2. /\ hist' = hist /\ commits' = commits /\ current' = current /\ pc' = pc /\ target' = target
        /\ compacted' = compacted /\ floor' = floor
    BY <2>1 DEF vars, stateVars, compactionVars, ghostVars
  <2> QED
    BY <2>2 DEF UnbrokenInv, RevOf, LengthOf, LastKept, RecordsAt
<1>2. CASE ApplyAndAnswer \/ (Recover /\ ~(End <= applied))
  BY <1>2, AppliesPending, UnbrokenApply
<1>3. CASE OpenStore
  BY <1>3, UnbrokenOpen DEF OpenStore
<1>4. CASE FlushStore
  BY <1>4, UnbrokenCheckpoint DEF FlushStore
<1>5. CASE Compacts
  BY <1>5, UnbrokenCompacts
<1>6. CASE Stop \/ Kill \/ PowerLoss
  BY <1>6, EndsAt, UnbrokenFall
<1> QED
  BY <1>1, <1>2, <1>3, <1>4, <1>5, <1>6 DEF ServerNext, StoreRests

-----------------------------------------------------------------------------
(* What was told.                                                          *)

(* It is what the log holds at its revision, and the store's history too,  *)
(* which reaches as far whenever callers are served.                       *)
TellsInv ==
  /\ \A p \in DOMAIN told :
       /\ told[p].revision = p
       /\ p > base => told[p].mutation = log[p - base]
       /\ p <= Len(hist) => told[p].mutation = MutOf(hist, p)
  /\ server = "replayed" => Len(hist) = End
  /\ server \in Serving => DOMAIN told \subseteq 1..Len(hist)

LEMMA ToldWithin ==
  ASSUME ServerInv, GivenInv
  PROVE  \A p \in DOMAIN told : p \in Nat /\ p >= 1 /\ p <= synced /\ p <= End
<1>1. synced \in Nat /\ End \in Nat /\ synced <= End
  BY Lengths DEF ServerInv, SequencesInv
<1> QED
  BY <1>1 DEF GivenInv

(* Steps that tell nothing. *)
LEMMA TellsStay ==
  ASSUME ServerInv, ServerInv', GivenInv, TellsInv, told' = told,
         \A p \in DOMAIN told : p > base' => p > base /\ log'[p - base'] = log[p - base],
         \A p \in DOMAIN told : p <= base' => p <= Len(hist) /\ hist'[p] = hist[p],
         server' = "replayed" => Len(hist') = End',
         server' \in Serving => DOMAIN told \subseteq 1..Len(hist')
  PROVE  TellsInv'
<1>1. base \in Nat /\ base' \in Nat /\ Len(hist) \in Nat /\ Len(hist') \in Nat
  BY ChainParts DEF ServerInv, SequencesInv
<1>2. ASSUME NEW p \in DOMAIN told, p <= Len(hist') PROVE told[p].mutation = MutOf(hist', p)
  <2>1. p \in Nat /\ p >= 1
    BY ToldWithin
  <2>2. CASE p > base'
    <3>1. p \in base' + 1..Len(hist')
      BY <1>1, <1>2, <2>1, <2>2
    <3>2. log'[p - base'] = hist'[p].mutation
      BY <3>1 DEF ServerInv, ContentInv
    <3> QED
      BY <2>2, <3>2 DEF TellsInv, MutOf
  <2>3. CASE ~(p > base')
    <3>1. p <= Len(hist) /\ hist'[p] = hist[p]
      BY <1>1, <2>1, <2>3
    <3> QED
      BY <3>1 DEF TellsInv, MutOf
  <2> QED
    BY <2>2, <2>3
<1>3. \A p \in DOMAIN told : told[p].revision = p /\ (p > base' => told[p].mutation = log'[p - base'])
  BY DEF TellsInv
<1> QED
  BY <1>2, <1>3 DEF TellsInv

LEMMA TellsAnswer ==
  ASSUME ServerInv, ServerInv', StoreInv, GivenInv, UnbrokenInv, TellsInv, ApplyAndAnswer
  PROVE  TellsInv'
<1>1. /\ log' = log /\ base' = base
      /\ \A i \in DOMAIN told' :
           \/ /\ i \in DOMAIN told /\ i <= applied /\ told'[i] = told[i]
           \/ /\ i \in applied + 1..End /\ i - applied \in 1..End - applied
              /\ told'[i] = [revision |-> current + (i - applied), mutation |-> Pending[i - applied]]
      /\ DOMAIN told' \subseteq 1..End
  BY Answers
<1>2. /\ Pending \in Seq(Mutation) /\ End \in Nat /\ Apply(Pending, End)
      /\ applied = Len(hist) /\ applied <= End /\ applied \in Nat /\ Len(Pending) = End - applied
      /\ base <= applied /\ base \in Nat
      /\ \A i \in 1..End - applied : Pending[i] = log[applied - base + i]
  BY AppliesPending DEF GivenInv
<1>3. pc = "open" /\ server = "synced" /\ server' = "idle" /\ current = applied
  BY <1>2 DEF Apply, ApplyAndAnswer, Goes, UnbrokenInv
<1>4. Len(hist') = End
  <2>1. Len(hist') = Len(hist) + Len(Pending)
    BY <1>2, BatchApplied
  <2> QED
    BY <1>2, <2>1
<1>5. ASSUME NEW p \in DOMAIN told'
      PROVE  /\ p \in Nat /\ p <= End
             /\ told'[p].revision = p /\ (p > base => told'[p].mutation = log[p - base])
  <2>1. p \in 1..End
    BY <1>1
  <2>2. CASE p \in DOMAIN told /\ told'[p] = told[p]
    BY <1>2, <2>1, <2>2 DEF TellsInv
  <2>3. CASE /\ p \in applied + 1..End /\ p - applied \in 1..End - applied
             /\ told'[p] = [revision |-> current + (p - applied), mutation |-> Pending[p - applied]]
    <3>1. current + (p - applied) = p /\ applied - base + (p - applied) = p - base
      <4>1. p \in Nat
        BY <2>1
      <4> QED
        BY <1>2, <1>3, <4>1
    <3>2. Pending[p - applied] = log[p - base]
      BY <1>2, <2>3, <3>1
    <3> QED
      BY <1>2, <2>1, <2>3, <3>1, <3>2
  <2> QED
    BY <1>1, <2>2, <2>3
<1>6. ASSUME NEW p \in DOMAIN told' PROVE told'[p].mutation = MutOf(hist', p)
  <2>1. CASE p > base
    <3>1. p \in base' + 1..Len(hist')
      BY <1>1, <1>2, <1>4, <1>5, <2>1
    <3>2. log'[p - base'] = hist'[p].mutation
      BY <3>1 DEF ServerInv, ContentInv
    <3> QED
      BY <1>1, <1>5, <2>1, <3>2 DEF MutOf
  <2>2. CASE ~(p > base)
    <3>1. ~(p \in applied + 1..End) /\ p <= Len(hist) /\ p \in 1..Len(hist)
      BY <1>1, <1>2, <1>5, <2>2
    <3>2. p \in DOMAIN told /\ told'[p] = told[p]
      BY <1>1, <3>1
    <3>3. hist'[p] = hist[p]
      BY <1>2, <3>1, BatchApplied
    <3> QED
      BY <3>1, <3>2, <3>3 DEF TellsInv, MutOf
  <2> QED
    BY <2>1, <2>2
<1> QED
  BY <1>1, <1>3, <1>4, <1>5, <1>6 DEF TellsInv

LEMMA TellsStep ==
  ASSUME ServerInv, ServerInv', StoreInv, GivenInv, UnbrokenInv, TellsInv, [ServerNext]_serverVars
  PROVE  TellsInv'
<1>0. /\ Len(log) \in Nat /\ base \in Nat /\ synced \in Nat /\ End \in Nat /\ End = base + Len(log)
      /\ base <= synced /\ synced <= End /\ Len(hist) \in Nat /\ base <= Len(hist) /\ Len(hist) <= End
      /\ \A p \in DOMAIN told : p \in Nat /\ p >= 1 /\ p <= synced /\ p <= End
  BY Lengths, ToldWithin DEF ServerInv, SequencesInv
<1>1. CASE ApplyAndAnswer
  BY <1>1, TellsAnswer
<1>2. ASSUME told' = told, log' = log, base' = base, hist' = hist,
             server' = "replayed" => Len(hist) = End,
             server' \in Serving => server \in Serving \cup {"replayed"}
      PROVE  TellsInv'
  <2>1. server' \in Serving => DOMAIN told \subseteq 1..Len(hist)
    <3>1. CASE server \in Serving
      BY <3>1 DEF TellsInv
    <3>2. CASE server = "replayed"
      BY <1>0, <3>2 DEF TellsInv
    <3> QED
      BY <1>2, <3>1, <3>2
  <2>2. End' = End
    BY <1>2 DEF End
  <2>3. \A p \in DOMAIN told : p <= base => p <= Len(hist)
    BY <1>0
  <2> QED
    BY <1>2, <2>1, <2>2, <2>3, TellsStay
<1>3. CASE UNCHANGED serverVars
  BY <1>2, <1>3 DEF serverVars, storeVars, vars, ghostVars, logVars, TellsInv
<1>4. CASE OpenStore \/ Sync \/ TrimEnds \/ ReopenTail \/ FlushStore \/ Compacts
  <2>1. told' = told /\ log' = log /\ base' = base /\ hist' = hist
    BY <1>4 DEF OpenStore, Open, Sync, TrimEnds, ReopenTail, FlushStore, Checkpoint, Compacts, CompactBegins,
                CompactNext, CompactFails, CompactEnds, storeVars, vars, ghostVars, logVars
  <2>2. server' # "replayed" /\ (server' \in Serving => server \in Serving \cup {"replayed"})
    BY <1>4 DEF OpenStore, Sync, TrimEnds, ReopenTail, FlushStore, Compacts, Goes, Serving
  <2> QED
    BY <1>2, <2>1, <2>2
<1>5. CASE Recover
  <2>1. told' = told /\ log' = log /\ base' = base /\ server' \in {"replayed", "refused"} /\ server = "opened"
    BY <1>5 DEF Recover, Goes, logVars
  <2>2. applied = Len(hist)
    BY <2>1 DEF ServerInv, PlaceInv
  <2>3. CASE End <= applied
    <3>1. hist' = hist
      BY <1>5, <2>3 DEF Recover, storeVars, vars, ghostVars
    <3>2. Len(hist) = End
      BY <1>0, <2>2, <2>3
    <3> QED
      BY <1>2, <2>1, <3>1, <3>2 DEF Serving
  <2>4. CASE ~(End <= applied)
    <3>1. /\ Pending \in Seq(Mutation) /\ Apply(Pending, End) /\ Len(Pending) = End - applied
          /\ applied \in Nat
      BY <1>5, <2>4, AppliesPending DEF GivenInv
    <3>2. Len(hist') = Len(hist) + Len(Pending) /\ \A i \in 1..Len(hist) : hist'[i] = hist[i]
      BY <1>0, <3>1, BatchApplied
    <3>3. Len(hist') = End /\ End' = End
      BY <1>0, <2>1, <2>2, <3>1, <3>2 DEF End
    <3>4. \A p \in DOMAIN told : p <= base => p <= Len(hist) /\ hist'[p] = hist[p]
      BY <1>0, <3>2
    <3> QED
      BY <2>1, <3>3, <3>4, TellsStay DEF Serving
  <2> QED
    BY <2>3, <2>4
<1>6. ASSUME NEW b \in Batch, AppendBatch(b) PROVE TellsInv'
  <2>1. /\ told' = told /\ log' = log \o b /\ base' = base /\ hist' = hist
        /\ server = "idle" /\ server' = "logged"
    BY <1>6 DEF AppendBatch, Goes, storeVars, vars, ghostVars
  <2>2. b \in Seq(Mutation)
    BY BoundsAssumption DEF Batch
  <2>3. \A i \in 1..Len(log) : log'[i] = log[i]
    BY <2>1, <2>2 DEF GivenInv
  <2>4. \A p \in DOMAIN told : p > base => p - base \in 1..Len(log)
    BY <1>0
  <2>5. \A p \in DOMAIN told : p <= base => p <= Len(hist)
    BY <1>0
  <2>6. DOMAIN told \subseteq 1..Len(hist)
    BY <2>1 DEF TellsInv, Serving
  <2> QED
    BY <2>1, <2>3, <2>4, <2>5, <2>6, TellsStay
<1>7. ASSUME NEW n \in base + 1..End, RemoveSegment(n) PROVE TellsInv'
  <2> DEFINE m == n - base + 1
  <2>1. /\ told' = told /\ log' = SubSeq(log, m, Len(log)) /\ base' = n /\ hist' = hist
        /\ server = "trimming" /\ server' = "trimming" /\ n <= applied
    BY <1>7 DEF RemoveSegment, storeVars, vars, ghostVars
  <2>2. /\ m \in Nat \ {0} /\ m <= Len(log) + 1 /\ n \in Nat /\ n >= base
        /\ Len(log) - m + 1 = End - n /\ \A p \in Nat : m + (p - n) - 1 = p - base
    BY <1>0
  <2>3. applied = Len(hist) /\ Chain(log)
    BY <2>1 DEF ServerInv, PlaceInv, SequencesInv, Serving
  <2> HIDE DEF m
  <2>4. \A i \in 1..Len(log) - m + 1 : log'[i] = log[m + i - 1]
    BY <1>0, <2>1, <2>2, <2>3, CutChain
  <2>5. ASSUME NEW p \in DOMAIN told, p > n PROVE p > base /\ log'[p - n] = log[p - base]
    <3>1. p \in Nat /\ p <= End /\ p > base /\ p - n \in 1..Len(log) - m + 1
      BY <1>0, <2>2, <2>5
    <3> QED
      BY <2>2, <2>4, <3>1
  <2>6. \A p \in DOMAIN told : p <= n => p <= Len(hist)
    BY <1>0, <2>1, <2>2, <2>3
  <2>7. DOMAIN told \subseteq 1..Len(hist)
    BY <2>1 DEF TellsInv, Serving
  <2> QED
    BY <2>1, <2>5, <2>6, <2>7, TellsStay
<1>8. CASE Stop \/ Kill \/ PowerLoss
  <2>1. PICK i \in DOMAIN commits : FallTo(i)
    BY <1>8, EndsAt
  <2>2. told' = told /\ base' = base /\ server' = "down"
    BY <1>8, EndsAt
  <2>3. /\ LengthOf(commits, i) \in Nat /\ Len(hist') = LengthOf(commits, i)
        /\ LengthOf(commits, i) <= Len(hist)
        /\ \A j \in 1..LengthOf(commits, i) : hist'[j] = hist[j]
        /\ i \in 1..Len(commits)
    BY <2>1, FallParts
  <2>4. base <= LengthOf(commits, i)
    BY <2>3 DEF ServerInv, CommitsInv, LengthOf
  <2>5. \A p \in DOMAIN told : p <= base => p <= Len(hist) /\ hist'[p] = hist[p]
    BY <1>0, <2>3, <2>4
  <2>6. \A p \in DOMAIN told : p > base => log'[p - base] = log[p - base]
    <3>1. CASE Stop \/ Kill
      BY <3>1 DEF Stop, Kill, logVars
    <3>2. CASE PowerLoss
      <4>1. PICK n \in synced..End : log' = SubSeq(log, 1, n - base)
        BY <3>2 DEF PowerLoss
      <4> DEFINE m == n - base
      <4>2. /\ m \in Nat /\ m <= Len(log) /\ n \in Nat /\ log' = SubSeq(log, 1, m) /\ m - 1 + 1 = m
            /\ 1 \in Nat \ {0} /\ 1 <= m + 1 /\ Chain(log)
        BY <1>0, <4>1 DEF ServerInv, SequencesInv
      <4>3. \A p \in DOMAIN told : p > base => p - base \in 1..m /\ 1 + (p - base) - 1 = p - base
        BY <1>0, <4>1, <4>2
      <4> HIDE DEF m
      <4>4. \A j \in 1..m - 1 + 1 : log'[j] = log[1 + j - 1]
        BY <4>2, CutChain
      <4> QED
        BY <4>2, <4>3, <4>4
    <3> QED
      BY <1>8, <3>1, <3>2
  <2> QED
    BY <2>2, <2>5, <2>6, TellsStay DEF Serving
<1> QED
  BY <1>1, <1>3, <1>4, <1>5, <1>6, <1>7, <1>8 DEF ServerNext

(* The write at position p is what a read there finds.                     *)
LEMMA LiveAt ==
  ASSUME hist \in Seq(Write), UnbrokenInv, NEW p \in 1..Len(hist), NEW i \in 1..Len(hist)
  PROVE  Live(hist, Len(hist), KeyOf(hist, p), p, i) <=> i = p /\ ~DeadOf(hist, p)
<1>1. Len(hist) \in Nat /\ \A j \in 1..Len(hist) : RevOf(hist, j) = j
  BY WriteParts DEF UnbrokenInv
<1>2. ASSUME Live(hist, Len(hist), KeyOf(hist, p), p, i) PROVE i = p /\ ~DeadOf(hist, p)
  <2>1. i <= p /\ ~DeadOf(hist, i)
    BY <1>1, <1>2 DEF Live
  <2>2. ~(i < p)
    <3> SUFFICES ASSUME i < p PROVE FALSE
      OBVIOUS
    <3>1. p \in i + 1..Len(hist) /\ RevOf(hist, p) <= p
      BY <1>1
    <3> QED
      BY <1>2, <3>1 DEF Live
  <2> QED
    BY <1>1, <2>1, <2>2
<1>3. ASSUME i = p, ~DeadOf(hist, p) PROVE Live(hist, Len(hist), KeyOf(hist, p), p, i)
  <2>1. \A j \in i + 1..Len(hist) : ~(RevOf(hist, j) <= p)
    BY <1>1, <1>3
  <2> QED
    BY <1>1, <1>3, <2>1 DEF Live
<1> QED
  BY <1>2, <1>3

LEMMA ReadBack ==
  ASSUME StoreInv, UnbrokenInv, pc # "down", IndexExact, NEW p \in 1..Len(hist), p >= floor
  PROVE  LET m == MutOf(hist, p) IN
         { <<r.modified, r.stored>> : r \in ReadAt(m.key, p) } = { <<p, m.value>> } \ { <<p, Deleted>> }
<1> DEFINE m == MutOf(hist, p)
           k == KeyOf(hist, p)
           n == Len(hist)
           S == { <<r.modified, r.stored>> : r \in ReadAt(k, p) }
<1>1. /\ BackedBy(index, backend.records)
      /\ Exact(ReadsOf(index), backend.records, hist, n, floor)
  BY RunningExact
<1>2. hist \in Seq(Write) /\ floor \in Nat /\ p \in Nat /\ RevOf(hist, p) = p
  BY DEF StoreInv, TypesHold, UnbrokenInv
<1>3. m.key = k /\ k \in Key /\ (DeadOf(hist, p) <=> m.value = Deleted)
  BY <1>2, WriteParts DEF IsTombstone
<1>4. ASSUME NEW q, NEW v
      PROVE  (\E r \in ReadAt(k, p) : Pair(q, v) = Pair(r.modified, r.stored)) <=>
               q = p /\ v = m.value /\ m.value # Deleted
  <2>1. ReadsLive(k, p, Pair(q, v))
    BY <1>1, <1>2, <1>3, ReadPairs
  <2>2. \A i \in 1..n : Live(hist, n, k, p, i) <=> i = p /\ m.value # Deleted
    BY <1>2, <1>3, LiveAt
  <2>3. Pair(q, v) = Pair(p, m.value) <=> q = p /\ v = m.value
    BY DEF Pair
  <2> HIDE DEF m, k, n
  <2> QED
    BY <1>2, <2>1, <2>2, <2>3 DEF ReadsLive, m, n
<1>5. ASSUME NEW q, NEW v PROVE <<q, v>> \in S <=> q = p /\ v = m.value /\ m.value # Deleted
  <2>1. \A r : Pair(q, v) = Pair(r.modified, r.stored) <=> <<q, v>> = <<r.modified, r.stored>>
    BY DEF Pair
  <2> HIDE DEF m, k
  <2> QED
    BY <1>4, <2>1
<1>6. \A x \in S : \E q, v : x = <<q, v>>
  OBVIOUS
<1>7. S = { <<p, m.value>> } \ { <<p, Deleted>> }
  <2> HIDE DEF S, m
  <2> QED
    BY <1>5, <1>6
<1> QED
  BY <1>3, <1>7

LEMMA ToldIsRead ==
  ASSUME ServerInv, StoreInv, SoundInv, Sound, GivenInv, UnbrokenInv, TellsInv
  PROVE  ToldReadable
<1> SUFFICES ASSUME server \in Serving, NEW p \in DOMAIN told, told[p].revision >= floor
             PROVE  LET at == told[p].revision
                        m == told[p].mutation
                    IN  /\ Readable(at)
                        /\ { <<r.modified, r.stored>> : r \in ReadAt(m.key, at) } =
                           { <<at, m.value>> } \ { <<at, Deleted>> }
  BY DEF ToldReadable
<1>1. pc # "down" /\ IndexExact
  BY DEF ServerInv, PlaceInv, SoundInv, Serving
<1>2. p \in 1..Len(hist) /\ told[p].revision = p /\ told[p].mutation = MutOf(hist, p)
  <2>1. p \in 1..Len(hist)
    BY DEF TellsInv
  <2> QED
    BY <2>1 DEF TellsInv
<1>3. current = Len(hist) /\ compacted <= floor /\ compacted \in Nat /\ floor \in Nat
  BY <1>1 DEF UnbrokenInv, StoreInv, TypesHold
<1>4. Readable(p)
  BY <1>2, <1>3 DEF Readable
<1> QED
  BY <1>1, <1>2, <1>4, ReadBack

(* Compactions stay behind the current revision, and none follows one that *)
(* failed.                                                                 *)
CompactsBehind ==
  /\ CompactLag >= 1
  /\ "compact" \notin Faults \/ MaxCompactions <= 1

LEMMA ServerBounds ==
  ASSUME BoundsInv, StoreInv, [ServerNext]_serverVars PROVE BoundsInv'
<1>1. CASE UNCHANGED spent
  BY <1>1 DEF BoundsInv
<1>2. CASE Compacts
  <2>1. PICK at : CompactBegins(at) \/ CompactNext \/ CompactFails \/ CompactEnds
    BY <1>2 DEF Compacts
  <2>2. CASE CompactBegins(at)
    <3>1. spent["compactions"] < MaxCompactions /\ Spent("compactions")
      BY <2>2 DEF CompactBegins
    <3>2. /\ spent' \in [Counted -> Nat] /\ spent'["compactions"] = spent["compactions"] + 1
          /\ spent'["compact"] = spent["compact"] /\ spent'["crash"] = spent["crash"]
      BY <3>1, CountedKinds, SpentCounts DEF BoundsInv
    <3> QED
      BY <3>1, <3>2, CountedKinds, BoundsAssumption DEF BoundsInv
  <2>3. CASE CompactFails
    BY <2>3, FaultBounds DEF CompactFails
  <2>4. CASE CompactNext \/ CompactEnds
    BY <1>1, <2>4 DEF CompactNext, CompactEnds
  <2> QED
    BY <2>1, <2>2, <2>3, <2>4
<1>3. CASE Kill \/ PowerLoss
  BY <1>3, FaultBounds DEF Kill, PowerLoss, Killed
<1> QED
  BY <1>1, <1>2, <1>3 DEF ServerNext, OpenStore, Open, Recover, ReopenTail, AppendBatch, Sync, ApplyAndAnswer,
     Apply, FlushStore, Checkpoint, RemoveSegment, TrimEnds, Stop, serverVars, storeVars, vars

(* As long as compactions stay behind the current revision and none        *)
(* follows one that failed, a caller that was told a revision reads its    *)
(* write there until a compaction passes it, whatever was trimmed, killed, *)
(* lost unflushed, replayed or stopped since.                              *)
THEOREM ToldAlwaysReadable ==
  ASSUME CompactsBehind PROVE ServerSpec => []ToldReadable
<1> DEFINE I == ServerInv /\ StoreInv /\ SoundInv /\ GivenInv
           J == UnbrokenInv /\ TellsInv /\ BoundsInv
<1>1. ServerInit => J
  <2> SUFFICES ASSUME ServerInit PROVE J
    OBVIOUS
  <2>1. Init /\ told = [p \in {} |-> {}] /\ server = "idle"
    BY DEF ServerInit
  <2>2. TellsInv
    BY <2>1 DEF TellsInv
  <2> QED
    BY <2>1, <2>2, UnbrokenStart, StartBounds
<1>2. I /\ I' /\ J /\ [ServerNext]_serverVars => J'
  <2> SUFFICES ASSUME I, I', J, [ServerNext]_serverVars PROVE J'
    OBVIOUS
  <2>1. CompactLag >= 1 /\ log \in Seq(Mutation)
    BY DEF CompactsBehind, GivenInv
  <2> QED
    BY <2>1, UnbrokenStep, TellsStep, ServerBounds
<1>3. I /\ J => ToldReadable
  <2> SUFFICES ASSUME I, J PROVE ToldReadable
    OBVIOUS
  <2>1. Sound
    <3>1. /\ spent["compact"] \in Nat /\ spent["compactions"] \in Nat
          /\ spent["compact"] # 0 => "compact" \in Faults
          /\ spent["compactions"] <= MaxCompactions
      BY CountedKinds DEF BoundsInv
    <3> QED
      BY <3>1, BoundsAssumption DEF CompactsBehind, Sound
  <2> QED
    BY <2>1, ToldIsRead
<1>4. ServerSpec => []I
  BY ServerStoreInvariant
<1> QED
  BY <1>1, <1>2, <1>3, <1>4, PTL DEF ServerSpec

-----------------------------------------------------------------------------
(* The store by itself.                                                    *)

(* As long as the process lives, the watermark reads are compared with is  *)
(* the highest of a compaction that returned, and a running compaction is  *)
(* not below it.                                                           *)
WatermarkInv ==
  /\ spent \in [Counted -> Nat]
  /\ compacted \in Nat /\ target \in Nat /\ discarded \in Nat
  /\ spent["crash"] = 0 =>
       /\ pc # "down" /\ discarded = compacted
       /\ pc = "compacting" => compacted <= target

LEMMA WatermarkInit == Init => WatermarkInv
BY DEF Init, WatermarkInv, Counted

LEMMA WatermarkStep == WatermarkInv /\ [Next]_vars => WatermarkInv'
<1> SUFFICES ASSUME WatermarkInv, [Next]_vars PROVE WatermarkInv'
  OBVIOUS
<1> USE DEF WatermarkInv, Counted
<1>1. ASSUME NEW batch \in Batch, Apply(batch, applied + Len(batch)) PROVE WatermarkInv'
  BY <1>1 DEF Apply, compactionVars
<1>2. CASE Checkpoint
  BY <1>2 DEF Checkpoint, stateVars, compactionVars
<1>3. CASE TransactionFails \/ UNCHANGED vars
  BY <1>3 DEF TransactionFails, vars, stateVars, compactionVars, ghostVars
<1>4. ASSUME NEW at \in 0..MaxWrites, CompactBegins(at) PROVE WatermarkInv'
  <2>1. at \in Nat /\ compacted <= at
    BY <1>4, BoundsAssumption DEF CompactBegins, Readable
  <2> QED
    BY <1>4, <2>1 DEF CompactBegins, Spent
<1>5. CASE CompactNext
  BY <1>5 DEF CompactNext, stateVars, ghostVars
<1>6. CASE CompactFails
  BY <1>6 DEF CompactFails, Fault, Spent, stateVars, ghostVars
<1>7. CASE CompactEnds
  <2>1. Max({discarded, target}) \in Nat
    <3>1. \A a, b \in Nat : \E x \in {a, b} : \A y \in {a, b} : x >= y
      OBVIOUS
    <3> QED
      BY <3>1 DEF Max
  <2>2. discarded <= target => Max({discarded, target}) = target
    BY DEF Max
  <2> QED
    BY <1>7, <2>1, <2>2 DEF CompactEnds
<1>8. CASE Crash
  <2>1. spent' = [spent EXCEPT !["crash"] = @ + 1]
    BY <1>8 DEF Crash, Fault, Spent
  <2>2. target' = 0 /\ compacted' = 0 /\ discarded' = discarded
    BY <1>8 DEF Crash, FallTo
  <2> QED
    BY <2>1, <2>2
<1>9. CASE Open
  BY <1>9 DEF Open, compactionVars, ghostVars
<1> QED
  BY <1>1, <1>2, <1>3, <1>4, <1>5, <1>6, <1>7, <1>8, <1>9 DEF Next

(* Once a compaction returned, store.rs:306 refuses every read below its   *)
(* watermark for as long as the process lives.                             *)
THEOREM CompactedStaysRefused == Spec => []CompactedRefused
<1>1. WatermarkInv => CompactedRefused
  BY DEF WatermarkInv, CompactedRefused, Readable
<1> QED
  BY <1>1, WatermarkInit, WatermarkStep, PTL DEF Spec
=============================================================================
