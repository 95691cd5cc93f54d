----------------------------- MODULE MemProofs ------------------------------
(***************************************************************************)
(* Proofs about the in-memory backend: its gate admits one writer, no      *)
(* release strands a waiter, and the backend implements the contract of    *)
(* Engine, for any number of threads, keys and calls.                      *)
(***************************************************************************)
EXTENDS MemEngine, TLAPS

(* What Applied makes of an insertion, a removal and an untouched buffer.  *)
LEMMA AppliedKeeps == \A c \in SUBSET Key : Applied(c, Untouched) = c
  BY DEF Applied, Untouched

LEMMA AppliedInsert ==
  ASSUME NEW c \in SUBSET Key, NEW w \in [Key -> {"kept", "put", "removed"}], NEW k \in Key
  PROVE  Applied(c, [w EXCEPT ![k] = "put"]) = Applied(c, w) \cup {k}
  BY DEF Applied

LEMMA AppliedRemove ==
  ASSUME NEW c \in SUBSET Key, NEW w \in [Key -> {"kept", "put", "removed"}], NEW k \in Key
  PROVE  Applied(c, [w EXCEPT ![k] = "removed"]) = Applied(c, w) \ {k}
  BY DEF Applied

LEMMA MemInvInit == Init => MemInv
<1> SUFFICES ASSUME Init PROVE MemInv
  OBVIOUS
<1>1. TypeOK
  <2>1. Untouched \in [Key -> {"kept", "put", "removed"}]
    BY DEF Untouched
  <2>2. changes \in 0..MaxChanges
    BY MemAssumption DEF Init
  <2> QED
    BY <2>1, <2>2 DEF Init, TypeOK
<1>2. SlotOwned
  BY DEF Init, SlotOwned, Holds
<1>3. CopyCurrent
  BY DEF Init, CopyCurrent
<1> QED
  BY <1>1, <1>2, <1>3 DEF MemInv

LEMMA MemInvStep == MemInv /\ [Next]_vars => MemInv'
<1> SUFFICES ASSUME MemInv, [Next]_vars PROVE MemInv'
  OBVIOUS
<1> USE MemAssumption
<1>1. CASE UNCHANGED vars
  BY <1>1 DEF vars, MemInv, TypeOK, SlotOwned, CopyCurrent, Holds, Applied
<1>2. ASSUME NEW t \in Thread, BeginRead(t) PROVE MemInv'
  BY <1>2 DEF BeginRead, Goes, MemInv, TypeOK, SlotOwned, CopyCurrent, Holds, Applied
<1>3. ASSUME NEW t \in Thread, NextPage(t) PROVE MemInv'
  BY <1>3 DEF NextPage, MemInv, TypeOK, SlotOwned, CopyCurrent, Holds, Applied
<1>4. ASSUME NEW t \in Thread, EndRead(t) PROVE MemInv'
  BY <1>4 DEF EndRead, Goes, MemInv, TypeOK, SlotOwned, CopyCurrent, Holds, Applied
<1>5. ASSUME NEW t \in Thread, NEW ask \in Ask, StartScan(t, ask) PROVE MemInv'
  BY <1>5 DEF StartScan, MemInv, TypeOK, SlotOwned, CopyCurrent, Holds, Applied
<1>6. ASSUME NEW t \in Thread, CallWrite(t) PROVE MemInv'
  BY <1>6 DEF CallWrite, Goes, MemInv, TypeOK, SlotOwned, CopyCurrent, Holds, Applied
<1>7. ASSUME NEW t \in Thread, Acquire(t) PROVE MemInv'
  BY <1>7 DEF Acquire, Goes, MemInv, TypeOK, SlotOwned, CopyCurrent, Holds, Applied
<1>8. ASSUME NEW t \in Thread, Sleep(t) \/ Wake(t) PROVE MemInv'
  <2>1. TypeOK'
    BY <1>8 DEF Sleep, Wake, Goes, MemInv, TypeOK
  <2>2. SlotOwned'
    BY <1>8 DEF Sleep, Wake, Goes, MemInv, TypeOK, SlotOwned, Holds
  <2>3. CopyCurrent'
    BY <1>8 DEF Sleep, Wake, Goes, MemInv, TypeOK, CopyCurrent, Applied
  <2> QED
    BY <2>1, <2>2, <2>3 DEF MemInv
<1>9. ASSUME NEW t \in Thread, Clone(t) PROVE MemInv'
  BY <1>9, AppliedKeeps DEF Clone, Goes, MemInv, TypeOK, SlotOwned, CopyCurrent, Holds
<1>10. ASSUME NEW t \in Thread, NEW k \in Key, InsertKey(t, k) PROVE MemInv'
  <2>1. TypeOK'
    BY <1>10 DEF InsertKey, MemInv, TypeOK
  <2>2. SlotOwned'
    BY <1>10 DEF InsertKey, MemInv, SlotOwned, Holds
  <2>3. CopyCurrent'
    <3>1. /\ pc[t] = "writing" /\ pc' = pc /\ committed' = committed
          /\ view' = [view EXCEPT ![t] = view[t] \cup {k}]
          /\ writes' = [writes EXCEPT ![t] = [writes[t] EXCEPT ![k] = "put"]]
      BY <1>10 DEF InsertKey, MemInv, TypeOK
    <3>2. view[t] = Applied(committed, writes[t])
      BY <3>1 DEF MemInv, CopyCurrent
    <3>3. view'[t] = Applied(committed', writes'[t])
      <4>1. committed \in SUBSET Key /\ writes[t] \in [Key -> {"kept", "put", "removed"}]
        BY DEF MemInv, TypeOK
      <4>2. Applied(committed, [writes[t] EXCEPT ![k] = "put"])
              = Applied(committed, writes[t]) \cup {k}
        BY <4>1, AppliedInsert
      <4>3. /\ view'[t] = view[t] \cup {k}
            /\ writes'[t] = [writes[t] EXCEPT ![k] = "put"]
        BY <3>1 DEF MemInv, TypeOK
      <4> QED
        BY <3>1, <3>2, <4>2, <4>3
    <3>4. ASSUME NEW u \in Thread, u # t
          PROVE  /\ pc'[u] = "writing" => view'[u] = Applied(committed', writes'[u])
                 /\ pc'[u] # "writing" => writes'[u] = Untouched
      BY <3>1, <3>4 DEF MemInv, TypeOK, CopyCurrent
    <3> QED
      BY <3>1, <3>3, <3>4 DEF CopyCurrent
  <2> QED
    BY <2>1, <2>2, <2>3 DEF MemInv
<1>11. ASSUME NEW t \in Thread, NEW k \in Key, RemoveKey(t, k) PROVE MemInv'
  <2>1. TypeOK'
    BY <1>11 DEF RemoveKey, MemInv, TypeOK
  <2>2. SlotOwned'
    BY <1>11 DEF RemoveKey, MemInv, SlotOwned, Holds
  <2>3. CopyCurrent'
    <3>1. /\ pc[t] = "writing" /\ pc' = pc /\ committed' = committed
          /\ view' = [view EXCEPT ![t] = view[t] \ {k}]
          /\ writes' = [writes EXCEPT ![t] = [writes[t] EXCEPT ![k] = "removed"]]
      BY <1>11 DEF RemoveKey, MemInv, TypeOK
    <3>2. view[t] = Applied(committed, writes[t])
      BY <3>1 DEF MemInv, CopyCurrent
    <3>3. view'[t] = Applied(committed', writes'[t])
      <4>1. committed \in SUBSET Key /\ writes[t] \in [Key -> {"kept", "put", "removed"}]
        BY DEF MemInv, TypeOK
      <4>2. Applied(committed, [writes[t] EXCEPT ![k] = "removed"])
              = Applied(committed, writes[t]) \ {k}
        BY <4>1, AppliedRemove
      <4>3. /\ view'[t] = view[t] \ {k}
            /\ writes'[t] = [writes[t] EXCEPT ![k] = "removed"]
        BY <3>1 DEF MemInv, TypeOK
      <4> QED
        BY <3>1, <3>2, <4>2, <4>3
    <3>4. ASSUME NEW u \in Thread, u # t
          PROVE  /\ pc'[u] = "writing" => view'[u] = Applied(committed', writes'[u])
                 /\ pc'[u] # "writing" => writes'[u] = Untouched
      BY <3>1, <3>4 DEF MemInv, TypeOK, CopyCurrent
    <3> QED
      BY <3>1, <3>3, <3>4 DEF CopyCurrent
  <2> QED
    BY <2>1, <2>2, <2>3 DEF MemInv
<1>12. ASSUME NEW t \in Thread, Commit(t) PROVE MemInv'
  BY <1>12 DEF Commit, Goes, MemInv, TypeOK, SlotOwned, CopyCurrent, Holds, Untouched
<1>13. ASSUME NEW t \in Thread, Abort(t) PROVE MemInv'
  BY <1>13 DEF Abort, Goes, MemInv, TypeOK, SlotOwned, CopyCurrent, Holds, Untouched
<1>14. ASSUME NEW t \in Thread, Release(t) PROVE MemInv'
  BY <1>14 DEF Release, Goes, MemInv, TypeOK, SlotOwned, CopyCurrent, Holds, Applied
<1>15. ASSUME NEW t \in Thread, Notify(t) PROVE MemInv'
  <2>1. PICK u \in Thread :
          /\ pc[t] = "notify" /\ (u = t \/ pc[u] = "asleep")
          /\ pc' = IF u = t THEN [pc EXCEPT ![t] = "idle"]
                            ELSE [pc EXCEPT ![t] = "idle", ![u] = "acquire"]
          /\ UNCHANGED <<committed, held, view, writes, scan, changes>>
    BY <1>15 DEF Notify, MemInv, TypeOK
  <2>2. TypeOK'
    BY <2>1 DEF MemInv, TypeOK
  <2>3. SlotOwned'
    BY <2>1 DEF MemInv, TypeOK, SlotOwned, Holds
  <2>4. CopyCurrent'
    BY <2>1 DEF MemInv, TypeOK, CopyCurrent, Applied
  <2> QED
    BY <2>2, <2>3, <2>4 DEF MemInv
<1> QED
  BY <1>1, <1>2, <1>3, <1>4, <1>5, <1>6, <1>7, <1>8, <1>9, <1>10, <1>11,
     <1>12, <1>13, <1>14, <1>15 DEF Next

(* The gate admits one writer, and a writer works on the last commit and   *)
(* its own changes.                                                        *)
THEOREM MemInvariant == Spec => []MemInv
  BY MemInvInit, MemInvStep, PTL DEF Spec

LEMMA WakeupInit == Init => NoLostWakeup
  BY DEF Init, NoLostWakeup

LEMMA WakeupStep == MemInv /\ NoLostWakeup /\ [Next]_vars => NoLostWakeup'
<1> SUFFICES ASSUME MemInv, NoLostWakeup, [Next]_vars PROVE NoLostWakeup'
  OBVIOUS
<1> USE DEF MemInv, TypeOK, NoLostWakeup
<1>1. CASE UNCHANGED vars
  BY <1>1 DEF vars
<1>2. ASSUME NEW t \in Thread,
             BeginRead(t) \/ NextPage(t) \/ EndRead(t) \/ CallWrite(t)
             \/ \E ask \in Ask : StartScan(t, ask)
      PROVE  NoLostWakeup'
  BY <1>2 DEF BeginRead, NextPage, EndRead, CallWrite, StartScan, Goes
<1>3. ASSUME NEW t \in Thread, Acquire(t) \/ Sleep(t) \/ Wake(t) PROVE NoLostWakeup'
  BY <1>3 DEF Acquire, Sleep, Wake, Goes
<1>4. ASSUME NEW t \in Thread,
             Clone(t) \/ Commit(t) \/ Abort(t)
             \/ \E k \in Key : InsertKey(t, k) \/ RemoveKey(t, k)
      PROVE  NoLostWakeup'
  BY <1>4 DEF Clone, Commit, Abort, InsertKey, RemoveKey, Goes
<1>5. ASSUME NEW t \in Thread, Release(t) PROVE NoLostWakeup'
  BY <1>5 DEF Release, Goes
<1>6. ASSUME NEW t \in Thread, Notify(t) PROVE NoLostWakeup'
  <2>1. CASE \E u \in Thread : pc[u] = "asleep"
    BY <1>6, <2>1 DEF Notify
  <2>2. CASE \A u \in Thread : pc[u] # "asleep"
    BY <1>6, <2>2 DEF Notify
  <2> QED
    BY <2>1, <2>2
<1> QED
  BY <1>1, <1>2, <1>3, <1>4, <1>5, <1>6 DEF Next

(* No release of the writer slot leaves every waiter asleep.               *)
THEOREM NoWaiterStranded == Spec => []NoLostWakeup
  BY MemInvariant, WakeupInit, WakeupStep, PTL DEF Spec

-----------------------------------------------------------------------------
(* The contract.                                                           *)

LEMMA ContractInit == Init => Contract!EngineInit
  BY DEF Init, Contract!EngineInit, Untouched, Contract!Untouched

(* The contract's view of the threads.                                     *)
TxnOf == [t \in Thread |-> CASE pc[t] = "reading" -> "read"
                             [] pc[t] = "writing" -> "write"
                             [] OTHER -> "none"]
SnapshotOf == [t \in Thread |-> IF pc[t] = "reading" THEN view[t] ELSE {}]

LEMMA ContractStep ==
  MemInv /\ [Next]_vars => [Contract!EngineNext]_(Contract!engineVars)
<1> SUFFICES ASSUME MemInv, [Next]_vars
             PROVE  [Contract!EngineNext]_(Contract!engineVars)
  OBVIOUS
<1> USE DEF MemInv, TypeOK
<1> DEFINE Same == /\ committed' = committed /\ TxnOf' = TxnOf
                   /\ SnapshotOf' = SnapshotOf /\ writes' = writes
<1>0. Same => UNCHANGED Contract!engineVars
  BY DEF TxnOf, SnapshotOf, Contract!engineVars
<1>1. CASE UNCHANGED vars
  BY <1>0, <1>1 DEF vars, TxnOf, SnapshotOf
<1>2. ASSUME NEW t \in Thread,
             \/ NextPage(t) \/ CallWrite(t) \/ Acquire(t) \/ Sleep(t) \/ Wake(t)
             \/ Release(t) \/ \E ask \in Ask : StartScan(t, ask)
      PROVE  Same
  BY <1>2 DEF NextPage, CallWrite, Acquire, Sleep, Wake, Release, StartScan, Goes,
              TxnOf, SnapshotOf
<1>3. ASSUME NEW t \in Thread, Notify(t) PROVE Same
  BY <1>3 DEF Notify, TxnOf, SnapshotOf
<1>4. ASSUME NEW t \in Thread, BeginRead(t) PROVE Contract!BeginRead(t)
  BY <1>4 DEF BeginRead, Goes, Contract!BeginRead
<1>5. ASSUME NEW t \in Thread, EndRead(t) PROVE Contract!EndRead(t)
  BY <1>5 DEF EndRead, Goes, Contract!EndRead
<1>6. ASSUME NEW t \in Thread, Clone(t) PROVE Contract!BeginWrite(t)
  BY <1>6 DEF Clone, Goes, SlotOwned, Holds, Contract!BeginWrite
<1>7. ASSUME NEW t \in Thread, NEW k \in Key, InsertKey(t, k)
      PROVE  Contract!InsertKey(t, k)
  BY <1>7 DEF InsertKey, Contract!InsertKey
<1>8. ASSUME NEW t \in Thread, NEW k \in Key, RemoveKey(t, k)
      PROVE  Contract!RemoveKey(t, k)
  BY <1>8 DEF RemoveKey, Contract!RemoveKey
<1>9. ASSUME NEW t \in Thread, Commit(t) PROVE Contract!Commit(t)
  BY <1>9 DEF Commit, Goes, CopyCurrent, Applied, Untouched, Contract!Commit,
              Contract!OwnView, Contract!Applied, Contract!Untouched
<1>10. ASSUME NEW t \in Thread, Abort(t) PROVE Contract!Abort(t)
  BY <1>10 DEF Abort, Goes, Untouched, Contract!Abort, Contract!Untouched
<1> QED
  BY <1>0, <1>1, <1>2, <1>3, <1>4, <1>5, <1>6, <1>7, <1>8, <1>9, <1>10
  DEF Next, Contract!EngineNext

(* Every behaviour of the in-memory backend is one of the contract: one    *)
(* writer, stable snapshots, atomic commits in a total order.              *)
THEOREM ContractKept == Spec => ImplementsEngine
  BY MemInvariant, ContractInit, ContractStep, PTL
  DEF Spec, ImplementsEngine, Contract!EngineSpec
=============================================================================
