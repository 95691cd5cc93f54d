---------------------------- MODULE WalInvariant ----------------------------
(***************************************************************************)
(* The inductive invariant of Wal from which AckedRecoverable and          *)
(* AckedVisible follow, whatever call fails and whenever a crash comes.    *)
(***************************************************************************)
EXTENDS Wal

(* Writes that must not be lost: the acknowledged ones, and those of a     *)
(* batch that is applied and being answered.                               *)
Live(r) ==
  \/ client[r] = "acked"
  \/ /\ pc = "answer" /\ verdict = "ok"
     /\ \E k \in 1..Len(batch) : batch[k] = r

Recoverable(c, rec) == HeldAt(c, rec) \/ ReplayedFrom(c, rec)

(* The commits a crash may leave are ordered, and the store is the last.   *)
StoreInv ==
  /\ Latest \in commits
  /\ \A c \in commits : c.len <= Len(hist) /\ c.applied <= applied
  /\ \A c, d \in commits : c.len <= d.len => c.applied <= d.applied
  /\ pc = "remove" => commits = {Latest}

(* Only whole records are synced; some segment is the last; a segment      *)
(* begins no later than the synced records of an earlier one end, unless   *)
(* every commit is past its beginning.                                     *)
FilesInv ==
  /\ \A n \in DOMAIN files : files[n].synced <= Len(files[n].data)
  /\ DOMAIN files # {} => \E n \in DOMAIN files : \A m \in DOMAIN files : m <= n
  /\ \A n \in DOMAIN files :
       \/ n = 0
       \/ \E m \in DOMAIN files : m < n /\ n <= m + files[m].synced
       \/ \A c \in commits : n <= c.applied

(* The segment appended to: it is the last, it begins at or below the      *)
(* applied position, and its synced records reach that position.           *)
TailInv ==
  pc \in Serving =>
    /\ active \in DOMAIN files
    /\ \A n \in DOMAIN files : n <= active
    /\ active <= applied
    /\ applied <= active + files[active].synced
    /\ files[active].synced <= written
    /\ written <= Len(files[active].data)
    /\ pc = "rewind" \/ poisoned \/ written = Len(files[active].data)
    /\ pc \in {"rewind", "sync", "apply"} => ~poisoned

(* The batch between its append and its apply lies at the end of the       *)
(* active segment, past the applied position.                              *)
FlightInv ==
  /\ pc \in {"sync", "apply"} =>
       /\ Len(bytes) <= written
       /\ applied <= active + (written - Len(bytes))
       /\ \A j \in 1..Len(bytes) :
            files[active].data[(written - Len(bytes)) + j] = bytes[j]
  /\ pc = "apply" => files[active].synced = written

(* Every mutation of a request of the batch is among its bytes.            *)
BatchInv ==
  \A k \in 1..Len(batch) : \A i \in 1..Width[batch[k]] :
    \E j \in 1..Len(bytes) : bytes[j] = <<batch[k], i>>

LiveInv ==
  \A r \in Request : Live(r) =>
    \A i \in 1..Width[r] : \A c \in commits : Recoverable(c, <<r, i>>)

(* Once replayed, a live write is held by every commit as recent, by its   *)
(* log position, as the store.                                             *)
VisibleInv ==
  pc \in Serving \cup {"reopen"} =>
    \A r \in Request : Live(r) =>
      \A i \in 1..Width[r] : \A c \in commits :
        applied <= c.applied => HeldAt(c, <<r, i>>)

(* Recovery has read a first part of the segments, and has every record of *)
(* theirs past the applied position among those it will replay.            *)
ScanInv ==
  pc = "scan" =>
    /\ scan \subseteq DOMAIN files
    /\ \A n \in DOMAIN files \ scan :
         /\ \A m \in scan : n < m
         /\ (\A m \in DOMAIN files \ scan : m <= n) =>
              seen = n + Len(files[n].data)
         /\ \A i \in 1..Len(files[n].data) : n + i > applied =>
              \E k \in 1..Len(pending) : pending[k] = files[n].data[i]
    /\ scan = DOMAIN files => seen = 0

ReopenInv ==
  pc = "reopen" =>
    /\ \A n \in DOMAIN files :
         /\ n <= applied
         /\ (\A m \in DOMAIN files : m <= n) =>
              applied <= n + Len(files[n].data)
    /\ DOMAIN files = {} => applied = 0

(* The strengthening of AckedRecoverable and AckedVisible that every step  *)
(* of the log, of a crash and of recovery preserves.                       *)
WalInv ==
  /\ StoreInv
  /\ FilesInv
  /\ TailInv
  /\ FlightInv
  /\ BatchInv
  /\ LiveInv
  /\ VisibleInv
  /\ ScanInv
  /\ ReopenInv
=============================================================================
