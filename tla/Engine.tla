------------------------------- MODULE Engine -------------------------------
(***************************************************************************)
(* The contract every storage backend promises: one writer at a time,      *)
(* readers on a snapshot nobody disturbs, commits that apply all of a      *)
(* transaction's writes at once, to whatever was committed before them.    *)
(*                                                                         *)
(* A content is the set of keys present; values play no part in what the   *)
(* contract says of transactions.                                          *)
(***************************************************************************)
EXTENDS Naturals

CONSTANTS Thread, Key

VARIABLES
  committed,    \* keys present after the last commit
  txn,          \* the transaction each thread has open, if any
  snapshot,     \* what a read transaction sees
  buffer        \* what a write transaction has changed

engineVars == <<committed, txn, snapshot, buffer>>

Untouched == [k \in Key |-> "kept"]

Applied(content, writes) ==
  { k \in Key : writes[k] = "put" \/ (writes[k] = "kept" /\ k \in content) }

EngineTypeOK ==
  /\ committed \subseteq Key
  /\ txn \in [Thread -> {"none", "read", "write"}]
  /\ snapshot \in [Thread -> SUBSET Key]
  /\ buffer \in [Thread -> [Key -> {"kept", "put", "removed"}]]

EngineInit ==
  /\ committed = {}
  /\ txn = [t \in Thread |-> "none"]
  /\ snapshot = [t \in Thread |-> {}]
  /\ buffer = [t \in Thread |-> Untouched]

BeginRead(t) ==
  /\ txn[t] = "none"
  /\ txn' = [txn EXCEPT ![t] = "read"]
  /\ snapshot' = [snapshot EXCEPT ![t] = committed]
  /\ UNCHANGED <<committed, buffer>>

EndRead(t) ==
  /\ txn[t] = "read"
  /\ txn' = [txn EXCEPT ![t] = "none"]
  /\ snapshot' = [snapshot EXCEPT ![t] = {}]
  /\ UNCHANGED <<committed, buffer>>

(* Blocks until no other write transaction is open. *)
BeginWrite(t) ==
  /\ txn[t] = "none"
  /\ \A u \in Thread : txn[u] # "write"
  /\ txn' = [txn EXCEPT ![t] = "write"]
  /\ UNCHANGED <<committed, snapshot, buffer>>

InsertKey(t, k) ==
  /\ txn[t] = "write"
  /\ buffer' = [buffer EXCEPT ![t][k] = "put"]
  /\ UNCHANGED <<committed, txn, snapshot>>

RemoveKey(t, k) ==
  /\ txn[t] = "write"
  /\ buffer' = [buffer EXCEPT ![t][k] = "removed"]
  /\ UNCHANGED <<committed, txn, snapshot>>

(* What a write transaction reads: its own writes over the last commit. *)
OwnView(t) == Applied(committed, buffer[t])

Commit(t) ==
  /\ txn[t] = "write"
  /\ committed' = OwnView(t)
  /\ txn' = [txn EXCEPT ![t] = "none"]
  /\ buffer' = [buffer EXCEPT ![t] = Untouched]
  /\ UNCHANGED snapshot

(* abort, a dropped transaction, and a commit that failed. *)
Abort(t) ==
  /\ txn[t] = "write"
  /\ txn' = [txn EXCEPT ![t] = "none"]
  /\ buffer' = [buffer EXCEPT ![t] = Untouched]
  /\ UNCHANGED <<committed, snapshot>>

EngineNext ==
  \E t \in Thread :
    \/ BeginRead(t) \/ EndRead(t)
    \/ BeginWrite(t) \/ Commit(t) \/ Abort(t)
    \/ \E k \in Key : InsertKey(t, k) \/ RemoveKey(t, k)

EngineSpec == EngineInit /\ [][EngineNext]_engineVars
=============================================================================
