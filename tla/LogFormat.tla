----------------------------- MODULE LogFormat ------------------------------
(***************************************************************************)
(* The bytes of a log segment: mutations encoded as records, records       *)
(* framed with a checksum and a length, and the reader that recovery runs  *)
(* over whatever a crash or a damaged medium left of them.                 *)
(*                                                                         *)
(* A cell stands for one field of the format and, in keys and values, for  *)
(* one byte.  The checksum is ideal: two contents never share one.         *)
(***************************************************************************)
EXTENDS Naturals, SequencesExt

CONSTANTS
  Key, Value,       \* keys and values, as sequences of bytes
  MaxPayload,       \* MAX_PAYLOAD_LEN, in cells
  Damage,           \* numbers a damaged field may come to hold
  MaxRecords,       \* bound: records appended in a behaviour
  MaxCrashes        \* bound: crashes in a behaviour

ASSUME FormatAssumption ==
  /\ \A s \in Key \cup Value : s \in Seq(Nat)
  /\ {MaxPayload, MaxRecords, MaxCrashes} \subseteq Nat
  /\ Damage \subseteq Nat

Version == 1
Put == 1
Delete == 2

Mutation ==
  [kind : {Put}, key : Key, value : Value] \cup
  [kind : {Delete}, key : Key, value : {<<>>}]

Cell(n) == <<n>>
Cells(bytes) == [i \in DOMAIN bytes |-> Cell(bytes[i])]

Checksum(len, payload) == <<len, payload>>

HeaderLen == 2

-----------------------------------------------------------------------------
(* record::encode and frame::encode.                                       *)

Payload(m) ==
  <<Cell(Version), Cell(m.kind), Cell(Len(m.key))>> \o Cells(m.key) \o Cells(m.value)

Encodable(m) == Len(Payload(m)) <= MaxPayload

Frame(payload) ==
  <<Checksum(Len(payload), payload), Cell(Len(payload))>> \o payload

Encoded(m) == Frame(Payload(m))

-----------------------------------------------------------------------------
(* frame::decode and record::decode: [result, mutation, width].            *)

Truncated == [result |-> "truncated"]
Corrupt == [result |-> "corrupt"]

Number(cell) == cell[1]
Numbers(cells) == [i \in DOMAIN cells |-> Number(cells[i])]

(* Mutant: a deletion and a put of nothing are read alike. *)
RecordLoose(payload, width) ==
  LET keyEnd == 3 + Number(payload[3])
      value == SubSeq(payload, keyEnd + 1, Len(payload))
  IN  [result |-> "record", width |-> width,
       mutation |-> [kind |-> IF value = <<>> THEN Delete ELSE Put,
                     key |-> Numbers(SubSeq(payload, 4, keyEnd)),
                     value |-> Numbers(value)]]

(* A payload whose checksum matched, read as a record. *)
Record(payload, width) ==
  IF \/ Len(payload) < 3
     \/ Number(payload[1]) # Version
     \/ 3 + Number(payload[3]) > Len(payload)
     \/ Number(payload[2]) \notin {Put, Delete}
     \/ Number(payload[2]) = Delete /\ Len(payload) > 3 + Number(payload[3])
  THEN Corrupt
  ELSE LET keyEnd == 3 + Number(payload[3]) IN
       [result |-> "record", width |-> width,
        mutation |-> [kind |-> Number(payload[2]),
                      key |-> Numbers(SubSeq(payload, 4, keyEnd)),
                      value |-> Numbers(SubSeq(payload, keyEnd + 1, Len(payload)))]]

(* Mutant: the checksum is looked at before the length is known to fit. *)
DecodeEager(bytes) ==
  IF Len(bytes) < HeaderLen THEN Truncated
  ELSE LET len == Number(bytes[2])
           payload == SubSeq(bytes, HeaderLen + 1,
                             IF HeaderLen + len <= Len(bytes) THEN HeaderLen + len
                                                              ELSE Len(bytes))
       IN  IF len > MaxPayload \/ bytes[1] # Checksum(len, payload) THEN Corrupt
           ELSE Record(payload, HeaderLen + len)

Decode(bytes) ==
  IF Len(bytes) < HeaderLen THEN Truncated
  ELSE LET len == Number(bytes[2])
           payload == SubSeq(bytes, HeaderLen + 1, HeaderLen + len)
       IN  IF len > MaxPayload THEN Corrupt
           ELSE IF HeaderLen + len > Len(bytes) THEN Truncated
           ELSE IF bytes[1] # Checksum(len, payload) THEN Corrupt
           ELSE Record(payload, HeaderLen + len)

-----------------------------------------------------------------------------

VARIABLES
  pc,        \* writing, or reading after a crash, or how the reading ended
  bytes,     \* the file
  written,   \* mutations whose frames were appended, in order
  whole,     \* how many of them the crash left whole
  damage,    \* the field that was damaged, if any
  rest,      \* what the reader has still to read
  read,      \* mutations it read
  valid,     \* cells of the file that held them
  crashes

vars == <<pc, bytes, written, whole, damage, rest, read, valid, crashes>>

TypeOK ==
  /\ pc \in {"writing", "reading", "end", "truncated", "corrupt"}
  /\ written \in Seq(Mutation) /\ read \in Seq(Mutation)
  /\ whole \in 0..Len(written)
  /\ damage \in {"none", "sum", "length", "payload"}
  /\ Len(rest) + valid = Len(bytes) \/ pc = "writing"
  /\ crashes \in 0..MaxCrashes

Init ==
  /\ pc = "writing" /\ bytes = <<>>
  /\ written = <<>> /\ whole = 0 /\ damage = "none"
  /\ rest = <<>> /\ read = <<>> /\ valid = 0 /\ crashes = 0

(* One mutation joins the log; a batch is several of these and one flush.  *)
AppendRecord(m) ==
  /\ pc = "writing" /\ Len(written) < MaxRecords
  /\ Encodable(m)
  /\ bytes' = bytes \o Encoded(m)
  /\ written' = Append(written, m)
  /\ whole' = whole + 1
  /\ UNCHANGED <<pc, damage, rest, read, valid, crashes>>

(* Where the frame of each record ends. *)
FrameEnds(ms) ==
  LET end[i \in 0..Len(ms)] ==
        IF i = 0 THEN 0 ELSE end[i - 1] + Len(Encoded(ms[i]))
  IN  end

(* The file is cut anywhere, and the log is opened. *)
CrashAt(n) ==
  /\ pc = "writing" /\ crashes < MaxCrashes
  /\ bytes' = SubSeq(bytes, 1, n) /\ rest' = SubSeq(bytes, 1, n)
  /\ whole' = Cardinality({ i \in DOMAIN written : FrameEnds(written)[i] <= n })
  /\ read' = <<>> /\ valid' = 0
  /\ pc' = "reading"
  /\ crashes' = crashes + 1
  /\ UNCHANGED <<written, damage>>

FieldAt(i) ==
  LET starts == { FrameEnds(written)[j] : j \in 0..Len(written) }
      start == CHOOSE s \in starts : s < i /\ \A t \in starts : t < i => t <= s
  IN  CASE i = start + 1 -> "sum" [] i = start + 2 -> "length" [] OTHER -> "payload"

(* One field of a record that was written whole is damaged at rest. *)
DamageField(i, n) ==
  /\ pc = "writing" /\ damage = "none" /\ crashes < MaxCrashes
  /\ bytes[i] # Cell(n)
  /\ bytes' = [bytes EXCEPT ![i] = Cell(n)]
  /\ rest' = bytes'
  /\ damage' = FieldAt(i)
  /\ read' = <<>> /\ valid' = 0
  /\ pc' = "reading"
  /\ crashes' = crashes + 1
  /\ UNCHANGED <<written, whole>>

(* Mutant: the width of the header is left out of the valid length. *)
ReadRecordHeaderless ==
  LET got == Decode(rest) IN
  /\ pc = "reading" /\ rest # <<>> /\ got.result = "record"
  /\ read' = Append(read, got.mutation)
  /\ valid' = valid + got.width - HeaderLen
  /\ rest' = SubSeq(rest, got.width + 1, Len(rest))
  /\ UNCHANGED <<pc, bytes, written, whole, damage, crashes>>

(* One turn of recover's loop over the bytes of the last segment. *)
ReadRecord ==
  LET got == Decode(rest) IN
  /\ pc = "reading" /\ rest # <<>> /\ got.result = "record"
  /\ read' = Append(read, got.mutation)
  /\ valid' = valid + got.width
  /\ rest' = SubSeq(rest, got.width + 1, Len(rest))
  /\ UNCHANGED <<pc, bytes, written, whole, damage, crashes>>

(* Mutant: any record that cannot be read ends the log. *)
ReadFailsQuietly ==
  /\ pc = "reading" /\ rest # <<>> /\ Decode(rest).result # "record"
  /\ pc' = "truncated"
  /\ UNCHANGED <<bytes, written, whole, damage, rest, read, valid, crashes>>

(* A record cut short ends the log of the last segment; a corrupt one is   *)
(* an error.                                                               *)
ReadFails ==
  LET got == Decode(rest) IN
  /\ pc = "reading" /\ rest # <<>> /\ got.result # "record"
  /\ pc' = got.result
  /\ UNCHANGED <<bytes, written, whole, damage, rest, read, valid, crashes>>

ReadEnds ==
  /\ pc = "reading" /\ rest = <<>>
  /\ pc' = "end"
  /\ UNCHANGED <<bytes, written, whole, damage, rest, read, valid, crashes>>

(* Mutant: the torn end of the file is kept. *)
ReopenUncut ==
  /\ pc \in {"end", "truncated"}
  /\ written' = read /\ whole' = Len(read)
  /\ damage' = "none"
  /\ pc' = "writing"
  /\ rest' = <<>> /\ read' = <<>> /\ valid' = 0
  /\ UNCHANGED <<bytes, crashes>>

(* Segment::reopen cuts the file after its last whole record. *)
Reopen ==
  /\ pc \in {"end", "truncated"}
  /\ bytes' = SubSeq(bytes, 1, valid)
  /\ written' = read /\ whole' = Len(read)
  /\ damage' = "none"
  /\ pc' = "writing"
  /\ rest' = <<>> /\ read' = <<>> /\ valid' = 0
  /\ UNCHANGED crashes

Next ==
  \/ \E m \in Mutation : AppendRecord(m)
  \/ \E n \in 0..Len(bytes) : CrashAt(n)
  \/ \E i \in DOMAIN bytes, n \in Damage : DamageField(i, n)
  \/ ReadRecord \/ ReadFails \/ ReadEnds \/ Reopen

Spec == Init /\ [][Next]_vars

-----------------------------------------------------------------------------
(* Properties.                                                             *)

(* Whatever was cut or damaged, the reader returns only records that were  *)
(* written, in order and from the first: it never reframes the bytes.      *)
ReadsWhatWasWritten == IsPrefix(read, written)

(* A cut alone is never taken for damage, and loses no whole record: the   *)
(* reading ends at the cut.                                                *)
CutEndsLog ==
  damage = "none" /\ pc \in {"end", "truncated", "corrupt"} =>
    /\ pc # "corrupt"
    /\ Len(read) = whole

(* Damage inside a checksum or a payload is reported, never passed over.   *)
DamageReported ==
  damage \in {"sum", "payload"} => pc \notin {"end", "truncated"}
=============================================================================
