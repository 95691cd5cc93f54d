---------------------------- MODULE StoreFormat -----------------------------
(***************************************************************************)
(* The bytes the store keeps in its backend: revisions and backend keys,   *)
(* records with the length of their user key, the marker of the applied    *)
(* position, and the paged scan by which opening reads all of them back.   *)
(*                                                                         *)
(* Bytes, and the widths of a number and of a length, are small; the       *)
(* constants stand in the order of the bytes of the code.                  *)
(***************************************************************************)
EXTENDS Bounds, FiniteSetsExt

CONSTANTS
  Width,           \* bytes of a u64
  LenWidth,        \* bytes of the u32 before a user key
  WireMax,         \* i64::MAX
  RevisionPrefix,  \* 't'
  Separator,       \* '_'
  TombstoneByte,   \* TOMBSTONE
  AppliedKey,      \* APPLIED_KEY
  MaxPayload,      \* the longest record the log accepts
  ScanPage,        \* SCAN_PAGE
  UserKey, Value,  \* keys and values of writes, as byte strings
  Foreign,         \* backend keys that other programs may have written
  MaxForeign,      \* bound: such keys in a behaviour
  MaxAdvance       \* bound: log positions one mutation accounts for

Radix == ByteMax + 1
Byte == 0..ByteMax

ASSUME FormatAssumption ==
  /\ {Width, LenWidth, ScanPage} \subseteq Nat \ {0}
  /\ WireMax \in 1..Radix^Width - 2
  /\ {RevisionPrefix, Separator, TombstoneByte} \subseteq Byte
  /\ \A s \in UserKey \cup Value \cup Foreign \cup {AppliedKey} : s \in Seq(Byte)
  /\ MaxPayload \in 0..Radix^LenWidth - 1 /\ MaxForeign \in Nat
  /\ MaxAdvance \in Nat \ {0}

-----------------------------------------------------------------------------
(* Numbers and revisions.                                                  *)

BigEndian(n, width) == [i \in 1..width |-> (n \div Radix^(width - i)) % Radix]

Number(bytes) == FoldLeft(LAMBDA n, b : n * Radix + b, 0, bytes)

(* Revision::new: a set of one revision, or of none. *)
NewRevision(main, sub) ==
  { r \in { [main |-> main, sub |-> sub] } : r.main <= WireMax /\ r.sub <= WireMax }

NextMain(r) == NewRevision(r.main + 1, 0)

EncodedLen == 2 * Width + 1

(* Mutant: the main part is written with its last byte first. *)
EncodeLittleEndian(r) ==
  Reverse(BigEndian(r.main, Width)) \o <<Separator>> \o BigEndian(r.sub, Width)

EncodeRevision(r) ==
  BigEndian(r.main, Width) \o <<Separator>> \o BigEndian(r.sub, Width)

DecodeRevision(bytes) ==
  IF Len(bytes) # EncodedLen \/ bytes[Width + 1] # Separator THEN {}
  ELSE NewRevision(Number(SubSeq(bytes, 1, Width)),
                   Number(SubSeq(bytes, Width + 2, EncodedLen)))

(* as_wire: the main part as a signed number of the same width. *)
AsWire(r) == IF r.main <= WireMax THEN r.main ELSE r.main - Radix^Width

-----------------------------------------------------------------------------
(* Backend keys and records.                                               *)

BackendKey(r, tombstone) ==
  <<RevisionPrefix>> \o EncodeRevision(r) \o
    (IF tombstone THEN <<TombstoneByte>> ELSE <<>>)

AllRecords == BoundsOf([form |-> "prefix", key |-> <<RevisionPrefix>>])

(* Mutant: whatever follows the revision marks a deletion. *)
ParseKeyLoose(key) ==
  IF key = <<>> \/ Len(key) \notin EncodedLen + 1..EncodedLen + 2 THEN {}
  ELSE { [revision |-> r, tombstone |-> Len(key) > EncodedLen + 1] :
           r \in DecodeRevision(SubSeq(key, 2, EncodedLen + 1)) }

ParseKey(key) ==
  IF \/ key = <<>> \/ Head(key) # RevisionPrefix
     \/ Len(key) \notin EncodedLen + 1..EncodedLen + 2
     \/ Len(key) = EncodedLen + 2 /\ Last(key) # TombstoneByte
  THEN {}
  ELSE { [revision |-> r, tombstone |-> Len(key) = EncodedLen + 2] :
           r \in DecodeRevision(SubSeq(key, 2, EncodedLen + 1)) }

(* A key too long for the prefix is stored under the largest length. *)
EncodeRecord(key, value) ==
  BigEndian(Min({Len(key), Radix^LenWidth - 1}), LenWidth) \o key \o value

DecodeRecord(bytes) ==
  LET keyEnd == LenWidth + Number(SubSeq(bytes, 1, LenWidth)) IN
  IF Len(bytes) < LenWidth \/ Len(bytes) < keyEnd THEN {}
  ELSE { [key |-> SubSeq(bytes, LenWidth + 1, keyEnd),
          value |-> SubSeq(bytes, keyEnd + 1, Len(bytes))] }

(* Mutant: the log takes records of any length. *)
LoggableAny(key, value) == TRUE

(* What the log in front of the store lets through. *)
Loggable(key, value) == Len(key) + Len(value) <= MaxPayload

-----------------------------------------------------------------------------

VARIABLES
  pc,        \* running, closed, scanning, or how opening or writing failed
  content,   \* the backend: keys and values, as bytes
  index,     \* the records the index lists, in the order it was told of them
  current,   \* State.current
  applied,   \* State.applied
  bounds,    \* what is left of the range to scan
  history,   \* the records written and not compacted, in order
  logged,    \* history: the position of the log handed over last
  foreign    \* the keys others wrote

vars == <<pc, content, index, current, applied, bounds, history, logged, foreign>>

Zero == [main |-> 0, sub |-> 0]

Init ==
  /\ pc = "running"
  /\ content = [k \in {} |-> <<>>]
  /\ index = <<>> /\ current = Zero /\ applied = 0
  /\ bounds = AllRecords
  /\ history = <<>> /\ logged = 0 /\ foreign = {}

KeyOf(rec) == BackendKey(rec.revision, rec.tombstone)

Listing(rec) == [revision |-> rec.revision, tombstone |-> rec.tombstone, key |-> rec.key]

(* Mutant: the marker is that of the apply before. *)
MarkerBehind(upto) == AppliedKey :> BigEndian(applied, Width)

Marker(upto) == AppliedKey :> BigEndian(upto, Width)

(* An apply of one mutation, the log being at upto; a deletion stores an   *)
(* empty value.                                                            *)
Write(key, value, tombstone, upto) ==
  /\ pc = "running" /\ Loggable(key, value)
  /\ tombstone => value = <<>>
  /\ \E r \in NextMain(current) :
       LET rec == [revision |-> r, tombstone |-> tombstone, key |-> key, value |-> value] IN
       /\ content' = Marker(upto) @@ (KeyOf(rec) :> EncodeRecord(key, value)) @@ content
       /\ index' = Append(index, Listing(rec))
       /\ history' = Append(history, rec)
       /\ current' = r
  /\ applied' = upto /\ logged' = upto
  /\ UNCHANGED <<pc, bounds, foreign>>

(* next_main panics; the transaction is dropped and the process ends. *)
RevisionsExhausted ==
  /\ pc = "running" /\ NextMain(current) = {}
  /\ pc' = "closed"
  /\ UNCHANGED <<content, index, current, applied, bounds, history, logged, foreign>>

(* A compaction below the current revision drops a record. *)
Drop(i) ==
  LET rec == history[i]
      keys == { BackendKey(rec.revision, t) : t \in BOOLEAN } IN
  /\ pc = "running" /\ rec.revision # current
  /\ content' = Restrict(content, DOMAIN content \ keys)
  /\ index' = RemoveAt(index, i)
  /\ history' = RemoveAt(history, i)
  /\ UNCHANGED <<pc, current, applied, bounds, logged, foreign>>

Close ==
  /\ pc = "running" /\ pc' = "closed"
  /\ UNCHANGED <<content, index, current, applied, bounds, history, logged, foreign>>

(* Another program writes to the database while it is closed, under some   *)
(* key, a value that would pass for a record.                              *)
Intrude(k) ==
  /\ pc = "closed" /\ Cardinality(foreign) < MaxForeign
  /\ content' = (k :> EncodeRecord(<<>>, <<>>)) @@ content
  /\ foreign' = foreign \cup {k}
  /\ UNCHANGED <<pc, index, current, applied, bounds, history, logged>>

(* KvStore::open reads the marker, if there is one. *)
OpenBegins ==
  LET raw == IF AppliedKey \in DOMAIN content THEN content[AppliedKey]
                                             ELSE BigEndian(0, Width) IN
  /\ pc = "closed"
  /\ pc' = IF Len(raw) = Width THEN "scanning" ELSE "corrupt"
  /\ applied' = Number(raw)
  /\ index' = <<>> /\ current' = Zero /\ bounds' = AllRecords
  /\ UNCHANGED <<content, history, logged, foreign>>

(* The first rows of the range, with their values. *)
Collect ==
  LET keys == Page(DOMAIN content, bounds, ScanPage)
  IN  [i \in DOMAIN keys |-> [key |-> keys[i], value |-> content[keys[i]]]]

(* A row as a record, if it is one. *)
RowRecord(row) ==
  { [revision |-> p.revision, tombstone |-> p.tombstone, key |-> d.key] :
      p \in ParseKey(row.key), d \in DecodeRecord(row.value) }

(* One page of the scan; an empty one ends it, a row that is not a record  *)
(* refuses the store.                                                      *)
ScanRows ==
  LET rows == Collect
      read == [i \in DOMAIN rows |-> RowRecord(rows[i])] IN
  /\ pc = "scanning" /\ rows # <<>>
  /\ bounds' = AdvancePast(bounds, Last(rows).key)
  /\ IF \E i \in DOMAIN read : read[i] = {}
     THEN pc' = "corrupt" /\ UNCHANGED <<index, current>>
     ELSE LET records == [i \in DOMAIN read |-> CHOOSE rec \in read[i] : TRUE] IN
          /\ index' = index \o records
          /\ current' = Last(records).revision
          /\ UNCHANGED pc
  /\ UNCHANGED <<content, applied, history, logged, foreign>>

ScanEnds ==
  /\ pc = "scanning" /\ Collect = <<>>
  /\ pc' = "running"
  /\ UNCHANGED <<content, index, current, applied, bounds, history, logged, foreign>>

Next ==
  \/ \E key \in UserKey, value \in Value, t \in BOOLEAN, n \in 1..MaxAdvance :
       Write(key, value, t, applied + n)
  \/ RevisionsExhausted
  \/ \E i \in DOMAIN history : Drop(i)
  \/ Close
  \/ \E k \in Foreign : Intrude(k)
  \/ OpenBegins \/ ScanRows \/ ScanEnds

Spec == Init /\ [][Next]_vars

-----------------------------------------------------------------------------
(* Properties.                                                             *)

(* An opened store lists every record that was written and not compacted,  *)
(* once and in the order of the writes, and goes on from the last of their *)
(* revisions and from the log position handed over with the last write:    *)
(* the order of the bytes is that of the writes, no page skips or repeats  *)
(* a row, and the marker is of the same write as the newest record.        *)
OpenedExact ==
  pc = "running" =>
    /\ index = [i \in DOMAIN history |-> Listing(history[i])]
    /\ current = IF history = <<>> THEN Zero ELSE Last(history).revision
    /\ applied = logged

(* Opening refuses every key under the prefix of the records that is not   *)
(* one, and a malformed marker, and never what the store itself wrote.     *)
OpeningJudges ==
  LET read == { k \in foreign : k = AppliedKey \/ IsPrefix(<<RevisionPrefix>>, k) } IN
  /\ pc = "running" => read = {}
  /\ pc = "corrupt" => read # {}

(* Every record gives back the key and value of its write, however long    *)
(* the log lets them be, at a revision that a signed number can carry.     *)
RecordsKept ==
  \A i \in DOMAIN history :
    LET rec == history[i] IN
    /\ DecodeRecord(content[KeyOf(rec)]) = { [key |-> rec.key, value |-> rec.value] }
    /\ AsWire(rec.revision) > 0
=============================================================================
