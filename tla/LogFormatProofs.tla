--------------------------- MODULE LogFormatProofs ---------------------------
(***************************************************************************)
(* Proofs about the bytes of a segment, for any keys, values, widths and   *)
(* damage and any number of records and crashes: the reader returns a      *)
(* prefix of what was written, stops at a cut, and reports damage outside  *)
(* the field of a length.                                                  *)
(***************************************************************************)
EXTENDS LogFormat, FiniteSetTheorems, WellFoundedInduction, TLAPS

-----------------------------------------------------------------------------
(* Sequences.                                                              *)

LEMMA JoinParts ==
  ASSUME NEW S, NEW s \in Seq(S), NEW t \in Seq(S)
  PROVE  /\ s \o t \in Seq(S) /\ Len(s \o t) = Len(s) + Len(t)
         /\ Len(s) \in Nat /\ Len(t) \in Nat
         /\ \A i \in 1..Len(s) : (s \o t)[i] = s[i]
         /\ \A i \in 1..Len(t) : (s \o t)[Len(s) + i] = t[i]
<1>1. s \o t \in Seq(S) /\ Len(s \o t) = Len(s) + Len(t)
  OBVIOUS
<1>2. ASSUME NEW i \in 1..Len(t) PROVE (s \o t)[Len(s) + i] = t[i]
  <2>1. Len(s) + i \in 1..Len(s) + Len(t) /\ Len(s) + i > Len(s)
    OBVIOUS
  <2> QED
    BY <2>1
<1> QED
  BY <1>1, <1>2

LEMMA CutParts ==
  ASSUME NEW S, NEW s \in Seq(S), NEW a \in Nat, NEW b \in Nat,
         a <= b, b <= Len(s)
  PROVE  /\ SubSeq(s, a + 1, b) \in Seq(S) /\ Len(SubSeq(s, a + 1, b)) = b - a
         /\ \A i \in 1..b - a : SubSeq(s, a + 1, b)[i] = s[a + i]
<1>1. CASE a = b
  BY <1>1
<1>2. CASE a < b
  <2>1. a + 1 \in 1..Len(s) /\ b \in 1..Len(s)
    BY <1>2
  <2>2. SubSeq(s, a + 1, b) \in Seq(S) /\ Len(SubSeq(s, a + 1, b)) = b - a
    BY <1>2, <2>1
  <2>3. ASSUME NEW i \in 1..b - a PROVE SubSeq(s, a + 1, b)[i] = s[a + i]
    BY <1>2, <2>1
  <2> QED
    BY <2>2, <2>3
<1> QED
  BY <1>1, <1>2

-----------------------------------------------------------------------------
(* One record.                                                             *)

(* What a cell of the file may hold: a number, or a checksum. *)
Plain == Seq(Nat)
Field == Plain \cup (Nat \X Seq(Plain))

KindOf(m) == m.kind
KeyOf(m) == m.key
ValueOf(m) == m.value

LEMMA MutationParts ==
  ASSUME NEW m \in Mutation
  PROVE  /\ KindOf(m) \in {Put, Delete} /\ KindOf(m) \in Nat
         /\ KeyOf(m) \in Seq(Nat) /\ ValueOf(m) \in Seq(Nat)
         /\ Len(KeyOf(m)) \in Nat /\ Len(ValueOf(m)) \in Nat
         /\ KindOf(m) = Delete => Len(ValueOf(m)) = 0
         /\ m = [kind |-> KindOf(m), key |-> KeyOf(m), value |-> ValueOf(m)]
<1>1. m.kind \in {Put, Delete} /\ m.key \in Key /\ m.value \in Value \cup {<<>>}
  BY DEF Mutation
<1>2. KeyOf(m) \in Seq(Nat) /\ ValueOf(m) \in Seq(Nat)
  <2>1. <<>> \in Seq(Nat)
    OBVIOUS
  <2> QED
    BY <1>1, <2>1, FormatAssumption DEF KeyOf, ValueOf
<1>3. KindOf(m) = Delete => ValueOf(m) = <<>>
  BY DEF Mutation, Put, Delete, KindOf, ValueOf
<1>4. m = [kind |-> KindOf(m), key |-> KeyOf(m), value |-> ValueOf(m)]
  BY DEF Mutation, KindOf, KeyOf, ValueOf
<1>5. KindOf(m) \in {Put, Delete} /\ KindOf(m) \in Nat
  BY <1>1 DEF KindOf, Put, Delete
<1>6. Len(KeyOf(m)) \in Nat /\ Len(ValueOf(m)) \in Nat
  BY <1>2
<1>7. KindOf(m) = Delete => Len(ValueOf(m)) = 0
  BY <1>3
<1> QED
  BY <1>2, <1>4, <1>5, <1>6, <1>7

LEMMA CellParts ==
  ASSUME NEW n \in Nat
  PROVE  Cell(n) \in Plain /\ Cell(n) \in Field /\ Number(Cell(n)) = n
BY DEF Cell, Number, Plain, Field

LEMMA CellsParts ==
  ASSUME NEW s \in Seq(Nat)
  PROVE  /\ Cells(s) \in Seq(Plain) /\ Len(Cells(s)) = Len(s)
         /\ \A i \in 1..Len(s) : Cells(s)[i] = Cell(s[i])
<1>1. \A i \in 1..Len(s) : s[i] \in Nat /\ Cell(s[i]) \in Plain
  BY CellParts
<1>2. Cells(s) = [i \in 1..Len(s) |-> Cell(s[i])] /\ Len(s) \in Nat
  BY DEF Cells
<1>3. Cells(s) \in [1..Len(s) -> Plain]
  BY <1>1, <1>2
<1> QED
  BY <1>2, <1>3

LEMMA PayloadParts ==
  ASSUME NEW m \in Mutation
  PROVE  /\ Payload(m) \in Seq(Plain)
         /\ Len(Payload(m)) = 3 + Len(KeyOf(m)) + Len(ValueOf(m))
         /\ Payload(m)[1] = Cell(Version) /\ Payload(m)[2] = Cell(KindOf(m))
         /\ Payload(m)[3] = Cell(Len(KeyOf(m)))
         /\ \A i \in 1..Len(KeyOf(m)) : Payload(m)[3 + i] = Cell(KeyOf(m)[i])
         /\ \A i \in 1..Len(ValueOf(m)) : Payload(m)[3 + Len(KeyOf(m)) + i] = Cell(ValueOf(m)[i])
<1> DEFINE h == <<Cell(Version), Cell(KindOf(m)), Cell(Len(KeyOf(m)))>>
           k == Cells(KeyOf(m))
           v == Cells(ValueOf(m))
<1>1. /\ Version \in Nat /\ KindOf(m) \in Nat
      /\ KeyOf(m) \in Seq(Nat) /\ ValueOf(m) \in Seq(Nat)
  BY MutationParts DEF Version, Put, Delete
<1>2. Len(KeyOf(m)) \in Nat /\ Len(ValueOf(m)) \in Nat
  BY <1>1
<1>3. h \in Seq(Plain) /\ Len(h) = 3
      /\ h[1] = Cell(Version) /\ h[2] = Cell(KindOf(m)) /\ h[3] = Cell(Len(KeyOf(m)))
  BY <1>1, <1>2, CellParts
<1>4. /\ k \in Seq(Plain) /\ Len(k) = Len(KeyOf(m))
      /\ \A i \in 1..Len(KeyOf(m)) : k[i] = Cell(KeyOf(m)[i])
  BY <1>1, CellsParts
<1>5. /\ v \in Seq(Plain) /\ Len(v) = Len(ValueOf(m))
      /\ \A i \in 1..Len(ValueOf(m)) : v[i] = Cell(ValueOf(m)[i])
  BY <1>1, CellsParts
<1>6. Payload(m) = (h \o k) \o v
  BY DEF Payload, KindOf, KeyOf, ValueOf
<1> HIDE DEF h, k, v
<1>7. /\ h \o k \in Seq(Plain) /\ Len(h \o k) = 3 + Len(KeyOf(m))
      /\ \A i \in 1..3 : (h \o k)[i] = h[i]
      /\ \A i \in 1..Len(KeyOf(m)) : (h \o k)[3 + i] = k[i]
  <2>0. h \in Seq(Plain) /\ k \in Seq(Plain)
    BY <1>3, <1>4
  <2>1. /\ h \o k \in Seq(Plain) /\ Len(h \o k) = Len(h) + Len(k)
        /\ \A i \in 1..Len(h) : (h \o k)[i] = h[i]
        /\ \A i \in 1..Len(k) : (h \o k)[Len(h) + i] = k[i]
    BY <2>0, JoinParts
  <2>2. Len(h) = 3 /\ Len(k) = Len(KeyOf(m))
    BY <1>3, <1>4
  <2> QED
    BY <2>1, <2>2
<1> DEFINE hk == h \o k
<1>8. /\ hk \in Seq(Plain) /\ Len(hk) = 3 + Len(KeyOf(m))
      /\ \A i \in 1..3 : hk[i] = h[i]
      /\ \A i \in 1..Len(KeyOf(m)) : hk[3 + i] = k[i]
  BY <1>7
<1>9. Payload(m) = hk \o v
  BY <1>6
<1> HIDE DEF hk
<1>10. /\ Payload(m) \in Seq(Plain)
       /\ Len(Payload(m)) = 3 + Len(KeyOf(m)) + Len(ValueOf(m))
       /\ \A i \in 1..3 + Len(KeyOf(m)) : Payload(m)[i] = hk[i]
       /\ \A i \in 1..Len(ValueOf(m)) : Payload(m)[3 + Len(KeyOf(m)) + i] = v[i]
  <2>0. hk \in Seq(Plain) /\ v \in Seq(Plain)
    BY <1>5, <1>8
  <2>1. /\ hk \o v \in Seq(Plain) /\ Len(hk \o v) = Len(hk) + Len(v)
        /\ \A i \in 1..Len(hk) : (hk \o v)[i] = hk[i]
        /\ \A i \in 1..Len(v) : (hk \o v)[Len(hk) + i] = v[i]
    BY <2>0, JoinParts
  <2>2. Len(hk) = 3 + Len(KeyOf(m)) /\ Len(v) = Len(ValueOf(m))
    BY <1>5, <1>8
  <2> QED
    BY <1>9, <2>1, <2>2
<1>11. \A i \in 1..3 : Payload(m)[i] = h[i]
  BY <1>2, <1>8, <1>10
<1>12. \A i \in 1..Len(KeyOf(m)) : Payload(m)[3 + i] = k[i]
  <2> SUFFICES ASSUME NEW i \in 1..Len(KeyOf(m)) PROVE Payload(m)[3 + i] = k[i]
    OBVIOUS
  <2>1. 3 + i \in 1..3 + Len(KeyOf(m))
    BY <1>2
  <2> QED
    BY <1>8, <1>10, <2>1
<1> QED
  BY <1>3, <1>4, <1>5, <1>10, <1>11, <1>12

Width(m) == Len(Encoded(m))

LEMMA EncodedParts ==
  ASSUME NEW m \in Mutation
  PROVE  /\ Encoded(m) \in Seq(Field) /\ Len(Payload(m)) \in Nat
         /\ Width(m) \in Nat /\ Width(m) = 2 + Len(Payload(m)) /\ Width(m) >= 5
         /\ Encoded(m)[1] = Checksum(Len(Payload(m)), Payload(m))
         /\ Encoded(m)[2] = Cell(Len(Payload(m)))
         /\ \A i \in 1..Len(Payload(m)) : Encoded(m)[2 + i] = Payload(m)[i]
<1> DEFINE p == Payload(m)
           h == <<Checksum(Len(p), p), Cell(Len(p))>>
<1>1. p \in Seq(Plain) /\ Len(p) \in Nat /\ Len(p) >= 3
  <2>1. KeyOf(m) \in Seq(Nat) /\ ValueOf(m) \in Seq(Nat)
    BY MutationParts
  <2>2. Len(KeyOf(m)) \in Nat /\ Len(ValueOf(m)) \in Nat
    BY <2>1
  <2> QED
    BY <2>2, PayloadParts
<1>2. Encoded(m) = h \o p
  BY DEF Encoded, Frame
<1> HIDE DEF p
<1>3. \A i \in 1..Len(p) : p[i] \in Field
  BY <1>1 DEF Field
<1>4. p \in Seq(Field)
  BY <1>1, <1>3
<1>5. Checksum(Len(p), p) \in Field /\ Cell(Len(p)) \in Field
  BY <1>1, CellParts DEF Checksum, Field
<1>6. /\ h \in Seq(Field) /\ Len(h) = 2
      /\ h[1] = Checksum(Len(p), p) /\ h[2] = Cell(Len(p))
  BY <1>5
<1> HIDE DEF h
<1>7. /\ Encoded(m) \in Seq(Field) /\ Len(Encoded(m)) = 2 + Len(p)
      /\ \A i \in 1..2 : Encoded(m)[i] = h[i]
      /\ \A i \in 1..Len(p) : Encoded(m)[2 + i] = p[i]
  <2>0. h \in Seq(Field) /\ p \in Seq(Field)
    BY <1>4, <1>6
  <2>1. /\ h \o p \in Seq(Field) /\ Len(h \o p) = Len(h) + Len(p)
        /\ \A i \in 1..Len(h) : (h \o p)[i] = h[i]
        /\ \A i \in 1..Len(p) : (h \o p)[Len(h) + i] = p[i]
    BY <2>0, JoinParts
  <2>2. Len(h) = 2
    BY <1>6
  <2> QED
    BY <1>2, <2>1, <2>2
<1> QED
  BY <1>1, <1>6, <1>7 DEF p, Width

(* A payload is read back as the mutation it was made of. *)
LEMMA RecordOfPayload ==
  ASSUME NEW m \in Mutation, NEW w
  PROVE  Record(Payload(m), w) = [result |-> "record", width |-> w, mutation |-> m]
<1> DEFINE p == Payload(m)
           keyEnd == 3 + Len(KeyOf(m))
<1>1. /\ KindOf(m) \in {Put, Delete} /\ KindOf(m) \in Nat
      /\ KeyOf(m) \in Seq(Nat) /\ ValueOf(m) \in Seq(Nat)
      /\ KindOf(m) = Delete => Len(ValueOf(m)) = 0
      /\ m = [kind |-> KindOf(m), key |-> KeyOf(m), value |-> ValueOf(m)]
  BY MutationParts
<1>2. Len(KeyOf(m)) \in Nat /\ Len(ValueOf(m)) \in Nat
  BY <1>1
<1>3. /\ p \in Seq(Plain) /\ Len(p) = keyEnd + Len(ValueOf(m))
      /\ p[1] = Cell(Version) /\ p[2] = Cell(KindOf(m)) /\ p[3] = Cell(Len(KeyOf(m)))
      /\ \A i \in 1..Len(KeyOf(m)) : p[3 + i] = Cell(KeyOf(m)[i])
      /\ \A i \in 1..Len(ValueOf(m)) : p[keyEnd + i] = Cell(ValueOf(m)[i])
  BY PayloadParts
<1> HIDE DEF p
<1>4. Number(p[1]) = Version /\ Number(p[2]) = KindOf(m) /\ Number(p[3]) = Len(KeyOf(m))
  BY <1>1, <1>2, <1>3, CellParts DEF Version
<1>5. ~(\/ Len(p) < 3
        \/ Number(p[1]) # Version
        \/ 3 + Number(p[3]) > Len(p)
        \/ Number(p[2]) \notin {Put, Delete}
        \/ Number(p[2]) = Delete /\ Len(p) > 3 + Number(p[3]))
  BY <1>1, <1>2, <1>3, <1>4
<1>6. Numbers(SubSeq(p, 4, keyEnd)) = KeyOf(m)
  <2> DEFINE k == SubSeq(p, 4, keyEnd)
  <2>1. /\ k \in Seq(Plain) /\ Len(k) = Len(KeyOf(m))
        /\ \A i \in 1..Len(KeyOf(m)) : k[i] = p[3 + i]
    BY <1>2, <1>3
  <2> HIDE DEF k
  <2>2. DOMAIN k = 1..Len(KeyOf(m))
    BY <2>1
  <2>3. \A i \in 1..Len(KeyOf(m)) : Number(k[i]) = KeyOf(m)[i]
    <3> SUFFICES ASSUME NEW i \in 1..Len(KeyOf(m)) PROVE Number(k[i]) = KeyOf(m)[i]
      OBVIOUS
    <3>1. KeyOf(m)[i] \in Nat
      BY <1>1
    <3> QED
      BY <1>3, <2>1, <3>1, CellParts
  <2>4. Numbers(k) = [i \in 1..Len(KeyOf(m)) |-> KeyOf(m)[i]]
    BY <2>2, <2>3 DEF Numbers
  <2>5. KeyOf(m) = [i \in 1..Len(KeyOf(m)) |-> KeyOf(m)[i]]
    BY <1>1
  <2> QED
    BY <2>4, <2>5 DEF k
<1>7. Numbers(SubSeq(p, keyEnd + 1, Len(p))) = ValueOf(m)
  <2> DEFINE v == SubSeq(p, keyEnd + 1, Len(p))
  <2>1. /\ v \in Seq(Plain) /\ Len(v) = Len(ValueOf(m))
        /\ \A i \in 1..Len(ValueOf(m)) : v[i] = p[keyEnd + i]
    <3>1. CASE Len(ValueOf(m)) = 0
      BY <1>2, <1>3, <3>1
    <3>2. CASE Len(ValueOf(m)) # 0
      <4>1. /\ keyEnd + 1 \in 1..Len(p) /\ keyEnd + 1 \in Nat
            /\ Len(p) - keyEnd = Len(ValueOf(m))
        BY <1>2, <1>3, <3>2
      <4> QED
        BY <1>2, <1>3, <4>1
    <3> QED
      BY <3>1, <3>2
  <2> HIDE DEF v
  <2>2. DOMAIN v = 1..Len(ValueOf(m))
    BY <2>1
  <2>3. \A i \in 1..Len(ValueOf(m)) : Number(v[i]) = ValueOf(m)[i]
    <3> SUFFICES ASSUME NEW i \in 1..Len(ValueOf(m)) PROVE Number(v[i]) = ValueOf(m)[i]
      OBVIOUS
    <3>1. ValueOf(m)[i] \in Nat
      BY <1>1
    <3> QED
      BY <1>3, <2>1, <3>1, CellParts
  <2>4. Numbers(v) = [i \in 1..Len(ValueOf(m)) |-> ValueOf(m)[i]]
    BY <2>2, <2>3 DEF Numbers
  <2>5. ValueOf(m) = [i \in 1..Len(ValueOf(m)) |-> ValueOf(m)[i]]
    BY <1>1
  <2> QED
    BY <2>4, <2>5 DEF v
<1>8. Record(p, w) = [result |-> "record", width |-> w,
                      mutation |-> [kind |-> KindOf(m), key |-> KeyOf(m), value |-> ValueOf(m)]]
  BY <1>4, <1>5, <1>6, <1>7 DEF Record
<1> QED
  BY <1>1, <1>8 DEF p

LEMMA ChecksumParts ==
  ASSUME NEW l, NEW p, NEW k, NEW q
  PROVE  /\ Checksum(l, p) = Checksum(k, q) => l = k /\ p = q
         /\ Cell(k) # Checksum(l, p)
<1>1. Checksum(l, p) = Checksum(k, q) => l = k /\ p = q
  BY DEF Checksum
<1>2. Cell(k) # Checksum(l, p)
  <2>1. Len(<<k>>) = 1 /\ Len(<<l, p>>) = 2
    OBVIOUS
  <2> QED
    BY <2>1 DEF Cell, Checksum
<1> QED
  BY <1>1, <1>2

LEMMA SameSequence ==
  ASSUME NEW S, NEW T, NEW s \in Seq(S), NEW t \in Seq(T), Len(s) = Len(t),
         \A i \in 1..Len(t) : s[i] = t[i]
  PROVE  s = t
<1>1. s = [i \in 1..Len(t) |-> s[i]] /\ t = [i \in 1..Len(t) |-> t[i]]
  OBVIOUS
<1> QED
  BY <1>1

-----------------------------------------------------------------------------
(* One turn of the reader.                                                 *)

(* The bytes s begin with the first n cells of the frame of m. *)
Begins(s, m, n) == \A i \in 1..n : s[i] = Encoded(m)[i]

LEMMA DecodeWhole ==
  ASSUME NEW m \in Mutation, Encodable(m), NEW s \in Seq(Field),
         Width(m) <= Len(s), Begins(s, m, Width(m))
  PROVE  Decode(s) = [result |-> "record", width |-> Width(m), mutation |-> m]
<1> DEFINE p == Payload(m)
           l == Len(Payload(m))
<1>1. /\ l \in Nat /\ Width(m) = 2 + l /\ Len(s) \in Nat /\ p \in Seq(Plain)
      /\ l <= MaxPayload /\ MaxPayload \in Nat
  BY EncodedParts, PayloadParts, FormatAssumption DEF Encodable
<1>2. /\ s[1] = Checksum(l, p) /\ s[2] = Cell(l)
      /\ \A i \in 1..l : s[2 + i] = p[i]
  <2>1. 1 \in 1..Width(m) /\ 2 \in 1..Width(m) /\ \A i \in 1..l : 2 + i \in 1..Width(m)
    BY <1>1
  <2>2. s[1] = Encoded(m)[1] /\ s[2] = Encoded(m)[2]
        /\ \A i \in 1..l : s[2 + i] = Encoded(m)[2 + i]
    BY <2>1 DEF Begins
  <2> QED
    BY <2>2, EncodedParts
<1>3. Number(s[2]) = l
  BY <1>1, <1>2, CellParts
<1>4. SubSeq(s, 3, 2 + l) = p
  <2>1. /\ SubSeq(s, 2 + 1, 2 + l) \in Seq(Field) /\ Len(SubSeq(s, 2 + 1, 2 + l)) = (2 + l) - 2
        /\ \A i \in 1..(2 + l) - 2 : SubSeq(s, 2 + 1, 2 + l)[i] = s[2 + i]
    BY <1>1, CutParts
  <2>2. (2 + l) - 2 = l /\ 2 + 1 = 3
    BY <1>1
  <2>3. Len(SubSeq(s, 3, 2 + l)) = l /\ SubSeq(s, 3, 2 + l) \in Seq(Field)
        /\ \A i \in 1..l : SubSeq(s, 3, 2 + l)[i] = s[2 + i]
    BY <2>1, <2>2
  <2>4. \A i \in 1..l : SubSeq(s, 3, 2 + l)[i] = p[i]
    BY <1>2, <2>3
  <2> QED
    BY <1>1, <2>3, <2>4, SameSequence
<1>5. Record(p, 2 + l) = [result |-> "record", width |-> 2 + l, mutation |-> m]
  BY RecordOfPayload
<1> HIDE DEF p, l
<1>6. Decode(s) = Record(p, 2 + l)
  <2> DEFINE k == Number(s[2])
             q == SubSeq(s, 3, 2 + k)
  <2>1. Decode(s) = IF k > MaxPayload THEN Corrupt
                    ELSE IF 2 + k > Len(s) THEN Truncated
                    ELSE IF s[1] # Checksum(k, q) THEN Corrupt
                    ELSE Record(q, 2 + k)
    BY <1>1 DEF Decode, HeaderLen
  <2>2. k = l /\ q = p
    BY <1>3, <1>4
  <2> HIDE DEF k, q
  <2> QED
    BY <1>1, <1>2, <2>1, <2>2
<1> QED
  BY <1>1, <1>5, <1>6

LEMMA DecodeShort ==
  ASSUME NEW m \in Mutation, Encodable(m), NEW s \in Seq(Field),
         Len(s) < Width(m), Begins(s, m, Len(s))
  PROVE  Decode(s) = Truncated
<1> DEFINE l == Len(Payload(m))
<1>1. /\ l \in Nat /\ Width(m) = 2 + l /\ Len(s) \in Nat
      /\ l <= MaxPayload /\ MaxPayload \in Nat
  BY EncodedParts, FormatAssumption DEF Encodable
<1>2. CASE Len(s) < 2
  BY <1>2 DEF Decode, HeaderLen
<1>3. CASE Len(s) >= 2
  <2>1. s[2] = Cell(l)
    BY <1>1, <1>3, EncodedParts DEF Begins
  <2>2. Number(s[2]) = l
    BY <1>1, <2>1, CellParts
  <2> HIDE DEF l
  <2> QED
    BY <1>1, <1>3, <2>2 DEF Decode, HeaderLen
<1> QED
  BY <1>1, <1>2, <1>3

(* A frame with one cell changed is never read as a record, and is taken   *)
(* for a cut only if the cell is its length.                               *)
LEMMA DecodeDamaged ==
  ASSUME NEW m \in Mutation, Encodable(m), NEW s \in Seq(Field),
         Width(m) <= Len(s), NEW c \in 1..Width(m), NEW n \in Nat,
         s[c] = Cell(n), s[c] # Encoded(m)[c],
         \A i \in 1..Width(m) : i # c => s[i] = Encoded(m)[i]
  PROVE  /\ Decode(s).result \in {"truncated", "corrupt"}
         /\ c # 2 => Decode(s).result = "corrupt"
<1> DEFINE p == Payload(m)
           l == Len(Payload(m))
           k == Number(s[2])
           q == SubSeq(s, 3, 2 + k)
<1>1. /\ l \in Nat /\ Width(m) = 2 + l /\ Len(s) \in Nat /\ p \in Seq(Plain)
      /\ l <= MaxPayload /\ MaxPayload \in Nat /\ c \in Nat
  BY EncodedParts, PayloadParts, FormatAssumption DEF Encodable
<1>2. /\ Encoded(m)[1] = Checksum(l, p) /\ Encoded(m)[2] = Cell(l)
      /\ \A i \in 1..l : Encoded(m)[2 + i] = p[i]
  BY EncodedParts
<1>3. Truncated.result = "truncated" /\ Corrupt.result = "corrupt"
  BY DEF Truncated, Corrupt
<1>4. Decode(s) = IF k > MaxPayload THEN Corrupt
                  ELSE IF 2 + k > Len(s) THEN Truncated
                  ELSE IF s[1] # Checksum(k, q) THEN Corrupt
                  ELSE Record(q, 2 + k)
  BY <1>1 DEF Decode, HeaderLen
<1>5. s[1] # Checksum(k, q)
  <2>1. CASE c = 1
    BY <2>1, ChecksumParts
  <2>2. CASE c = 2
    <3>1. s[1] = Checksum(l, p)
      BY <1>1, <1>2, <2>2, SMTT(60)
    <3>2. k = n /\ n # l
      BY <1>2, <2>2, CellParts
    <3> QED
      BY <3>1, <3>2, ChecksumParts
  <2>3. CASE c > 2
    <3>1. s[1] = Checksum(l, p) /\ k = l
      BY <1>1, <1>2, <2>3, CellParts, SMTT(60)
    <3>2. c - 2 \in 1..l /\ c = 2 + (c - 2)
      BY <1>1, <2>3
    <3>3. s[c] # p[c - 2]
      BY <1>2, <3>2
    <3>4. q[c - 2] = s[c]
      <4>1. \A i \in 1..(2 + l) - 2 : SubSeq(s, 2 + 1, 2 + l)[i] = s[2 + i]
        BY <1>1, CutParts
      <4>2. (2 + l) - 2 = l /\ 2 + 1 = 3
        BY <1>1
      <4> QED
        BY <3>1, <3>2, <4>1, <4>2
    <3> QED
      <4>1. q # p
        BY <3>3, <3>4
      <4> HIDE DEF p, q, k, l
      <4>2. Checksum(l, p) # Checksum(k, q)
        BY <4>1, ChecksumParts
      <4> QED
        BY <3>1, <4>2
  <2> QED
    BY <1>1, <2>1, <2>2, <2>3
<1>6. ASSUME c # 2 PROVE k = l
  BY <1>1, <1>2, <1>6, CellParts
<1> HIDE DEF k, q, l
<1>7. c # 2 => ~(k > MaxPayload) /\ ~(2 + k > Len(s))
  BY <1>1, <1>6
<1> QED
  BY <1>3, <1>4, <1>5, <1>7

-----------------------------------------------------------------------------
(* Where frames end.                                                       *)

LEMMA Smallest ==
  ASSUME NEW S \in SUBSET Nat, S # {}
  PROVE  \E x \in S : \A y \in S : x <= y
<1> DEFINE R == { p \in Nat \X Nat : p[1] < p[2] }
<1>1. IsWellFoundedOn(R, Nat)
  BY NatLessThanWellFounded, Zenon DEF OpToRel
<1>2. PICK x \in S : \A y \in S : <<y, x>> \notin R
  BY <1>1, WFMin
<1>3. ASSUME NEW y \in S, y < x PROVE FALSE
  <2>1. <<y, x>> \in R
    BY <1>3
  <2> QED
    BY <1>2, <2>1
<1> HIDE DEF R
<1> QED
  BY <1>3

(* What FrameEnds says of a list of ends. *)
AreEnds(g, ms) ==
  /\ g \in [0..Len(ms) -> Nat]
  /\ g[0] = 0
  /\ \A i \in 1..Len(ms) : g[i] = g[i - 1] + Width(ms[i])

LEMMA MutationsParts ==
  ASSUME NEW ms \in Seq(Mutation)
  PROVE  /\ Len(ms) \in Nat
         /\ \A i \in 1..Len(ms) : ms[i] \in Mutation /\ Width(ms[i]) \in Nat /\ Width(ms[i]) >= 5
<1>1. Len(ms) \in Nat /\ \A i \in 1..Len(ms) : ms[i] \in Mutation
  OBVIOUS
<1> QED
  BY <1>1, EncodedParts

LEMMA EndsAre ==
  ASSUME NEW ms \in Seq(Mutation)
  PROVE  AreEnds(FrameEnds(ms), ms)
<1> DEFINE Upto(n) == \E g \in [0..n -> Nat] :
                        g[0] = 0 /\ \A i \in 1..n : g[i] = g[i - 1] + Width(ms[i])
           Bad == {n \in 0..Len(ms) : ~Upto(n)}
<1>1. Len(ms) \in Nat /\ \A i \in 1..Len(ms) : Width(ms[i]) \in Nat
  BY MutationsParts
<1>2. Bad = {}
  <2> SUFFICES ASSUME Bad # {} PROVE FALSE
    OBVIOUS
  <2>1. Bad \in SUBSET Nat
    BY <1>1
  <2>2. PICK n \in Bad : \A k \in Bad : n <= k
    BY <2>1, Smallest
  <2>3. n \in 0..Len(ms) /\ ~Upto(n) /\ n \in Nat
    <3> HIDE DEF Upto
    <3> QED
      BY <1>1, <2>2
  <2>4. CASE n = 0
    <3> DEFINE g == [i \in 0..0 |-> 0]
    <3>1. g \in [0..0 -> Nat] /\ g[0] = 0 /\ 1..0 = {}
      OBVIOUS
    <3> QED
      BY <2>3, <2>4, <3>1
  <2>5. CASE n > 0
    <3>1. n - 1 \in 0..Len(ms) /\ ~(n <= n - 1)
      BY <1>1, <2>3, <2>5
    <3>2. Upto(n - 1)
      BY <2>2, <3>1
    <3>3. PICK g \in [0..n - 1 -> Nat] :
            g[0] = 0 /\ \A i \in 1..n - 1 : g[i] = g[i - 1] + Width(ms[i])
      BY <3>2
    <3> DEFINE h == [i \in 0..n |-> IF i = n THEN g[n - 1] + Width(ms[n]) ELSE g[i]]
    <3>4. g[n - 1] \in Nat /\ Width(ms[n]) \in Nat
      BY <1>1, <2>3, <2>5, <3>3
    <3>5. h \in [0..n -> Nat]
      BY <2>3, <3>3, <3>4
    <3>6. h[0] = 0
      BY <2>3, <2>5, <3>3
    <3>7. \A i \in 1..n : h[i] = h[i - 1] + Width(ms[i])
      <4> SUFFICES ASSUME NEW i \in 1..n PROVE h[i] = h[i - 1] + Width(ms[i])
        OBVIOUS
      <4>1. i - 1 \in 0..n /\ i - 1 # n /\ h[i - 1] = g[i - 1]
        BY <2>3
      <4>2. CASE i = n
        BY <2>3, <2>5, <4>1, <4>2
      <4>3. CASE i # n
        <5>1. i \in 1..n - 1
          BY <2>3, <4>3
        <5> QED
          BY <3>3, <4>1, <4>3, <5>1
      <4> QED
        BY <4>2, <4>3
    <3> HIDE DEF h
    <3>8. Upto(n)
      BY <3>5, <3>6, <3>7
    <3> QED
      BY <2>3, <3>8
  <2> QED
    BY <2>3, <2>4, <2>5
<1>3. Upto(Len(ms))
  BY <1>1, <1>2, SMTT(60)
<1>4. PICK g \in [0..Len(ms) -> Nat] :
        g[0] = 0 /\ \A i \in 1..Len(ms) : g[i] = g[i - 1] + Width(ms[i])
  BY <1>3
<1> DEFINE Step(f) == [i \in 0..Len(ms) |-> IF i = 0 THEN 0 ELSE f[i - 1] + Len(Encoded(ms[i]))]
           f == FrameEnds(ms)
<1>5. g = Step(g)
  <2>1. g = [i \in 0..Len(ms) |-> g[i]]
    BY <1>4
  <2>2. \A i \in 0..Len(ms) : g[i] = IF i = 0 THEN 0 ELSE g[i - 1] + Len(Encoded(ms[i]))
    BY <1>1, <1>4 DEF Width
  <2> QED
    BY <2>1, <2>2
<1>6. f = Step(f)
  BY <1>5, Zenon DEF FrameEnds
<1> HIDE DEF f
<1>7. /\ DOMAIN f = 0..Len(ms) /\ f[0] = 0
      /\ \A i \in 1..Len(ms) : f[i] = f[i - 1] + Width(ms[i])
  <2>1. /\ DOMAIN f = 0..Len(ms)
        /\ \A i \in 0..Len(ms) : f[i] = IF i = 0 THEN 0 ELSE f[i - 1] + Len(Encoded(ms[i]))
    BY <1>6
  <2> QED
    BY <1>1, <2>1 DEF Width
<1> DEFINE Off == {n \in 0..Len(ms) : f[n] # g[n]}
<1>8. Off = {}
  <2> SUFFICES ASSUME Off # {} PROVE FALSE
    OBVIOUS
  <2>1. Off \in SUBSET Nat
    BY <1>1
  <2>2. PICK n \in Off : \A k \in Off : n <= k
    BY <2>1, Smallest
  <2>3. n \in 0..Len(ms) /\ n \in Nat /\ f[n] # g[n]
    BY <1>1, <2>2
  <2>4. n # 0
    BY <1>4, <1>7, <2>3
  <2>5. n - 1 \in 0..Len(ms) /\ ~(n <= n - 1) /\ n \in 1..Len(ms)
    BY <1>1, <2>3, <2>4
  <2>6. f[n - 1] = g[n - 1]
    BY <2>2, <2>5
  <2> QED
    BY <1>4, <1>7, <2>3, <2>5, <2>6
<1>9. \A n \in 0..Len(ms) : f[n] = g[n]
  BY <1>8
<1>10. f = g
  <2>1. f = [i \in 0..Len(ms) |-> f[i]] /\ g = [i \in 0..Len(ms) |-> g[i]]
    <3>1. f = [i \in 0..Len(ms) |-> f[i]]
      <4>1. \E t : f = [i \in 0..Len(ms) |-> IF i = 0 THEN 0 ELSE t[i - 1] + Len(Encoded(ms[i]))]
        BY <1>6
      <4> QED
        BY <1>7, <4>1
    <3> QED
      BY <1>4, <3>1
  <2> QED
    BY <1>9, <2>1
<1> QED
  BY <1>4, <1>7, <1>10 DEF AreEnds, f

(* Ends grow, by at least a header and the fixed fields of a record. *)
LEMMA EndsGrow ==
  ASSUME NEW ms \in Seq(Mutation)
  PROVE  \A i, j \in 0..Len(ms) : i < j => FrameEnds(ms)[i] + 5 <= FrameEnds(ms)[j]
<1> DEFINE f == FrameEnds(ms)
<1>1. /\ Len(ms) \in Nat /\ f \in [0..Len(ms) -> Nat]
      /\ \A i \in 1..Len(ms) : f[i] = f[i - 1] + Width(ms[i])
      /\ \A i \in 1..Len(ms) : Width(ms[i]) \in Nat /\ Width(ms[i]) >= 5
  BY EndsAre, MutationsParts DEF AreEnds
<1> HIDE DEF f
<1> SUFFICES ASSUME NEW i \in 0..Len(ms)
             PROVE  \A j \in 0..Len(ms) : i < j => f[i] + 5 <= f[j]
  BY DEF f
<1> DEFINE Bad == {j \in 0..Len(ms) : i < j /\ ~(f[i] + 5 <= f[j])}
<1>2. Bad = {}
  <2> SUFFICES ASSUME Bad # {} PROVE FALSE
    OBVIOUS
  <2>1. Bad \in SUBSET Nat
    BY <1>1
  <2>2. PICK n \in Bad : \A k \in Bad : n <= k
    BY <2>1, Smallest
  <2>3. /\ n \in 0..Len(ms) /\ n \in Nat /\ i < n /\ ~(f[i] + 5 <= f[n])
        /\ n \in 1..Len(ms) /\ n - 1 \in 0..Len(ms) /\ i \in Nat
    BY <1>1, <2>2
  <2>4. /\ f[n] = f[n - 1] + Width(ms[n]) /\ Width(ms[n]) \in Nat /\ Width(ms[n]) >= 5
        /\ f[n] \in Nat /\ f[n - 1] \in Nat /\ f[i] \in Nat
    BY <1>1, <2>3
  <2>5. CASE i = n - 1
    BY <2>3, <2>4, <2>5
  <2>6. CASE i # n - 1
    <3>1. ~(n <= n - 1) /\ i < n - 1
      BY <2>3, <2>6
    <3>2. f[i] + 5 <= f[n - 1]
      BY <2>2, <2>3, <3>1
    <3> QED
      BY <2>3, <2>4, <3>2
  <2> QED
    BY <2>5, <2>6
<1> QED
  BY <1>2

(* Lists that agree on their first n members agree on where those end. *)
LEMMA EndsAgree ==
  ASSUME NEW ms \in Seq(Mutation), NEW ns \in Seq(Mutation), NEW n \in Nat,
         n <= Len(ms), n <= Len(ns), \A i \in 1..n : ms[i] = ns[i]
  PROVE  \A i \in 0..n : FrameEnds(ms)[i] = FrameEnds(ns)[i]
<1> DEFINE f == FrameEnds(ms)
           g == FrameEnds(ns)
<1>1. /\ Len(ms) \in Nat /\ f[0] = 0
      /\ \A i \in 1..Len(ms) : f[i] = f[i - 1] + Width(ms[i])
  BY EndsAre, MutationsParts DEF AreEnds
<1>2. /\ Len(ns) \in Nat /\ g[0] = 0
      /\ \A i \in 1..Len(ns) : g[i] = g[i - 1] + Width(ns[i])
  BY EndsAre, MutationsParts DEF AreEnds
<1> HIDE DEF f, g
<1> DEFINE Off == {i \in 0..n : f[i] # g[i]}
<1>3. Off = {}
  <2> SUFFICES ASSUME Off # {} PROVE FALSE
    OBVIOUS
  <2>1. Off \in SUBSET Nat
    OBVIOUS
  <2>2. PICK k \in Off : \A i \in Off : k <= i
    BY <2>1, Smallest
  <2>3. k \in 0..n /\ k \in Nat /\ f[k] # g[k]
    BY <2>2
  <2>4. k # 0
    BY <1>1, <1>2, <2>3
  <2>5. k - 1 \in 0..n /\ ~(k <= k - 1) /\ k \in 1..n /\ k \in 1..Len(ms) /\ k \in 1..Len(ns)
    BY <1>1, <1>2, <2>3, <2>4
  <2>6. f[k - 1] = g[k - 1]
    BY <2>2, <2>5
  <2> QED
    BY <1>1, <1>2, <2>3, <2>5, <2>6
<1> QED
  BY <1>3 DEF f, g

(* Every place up to the last end lies in one frame. *)
LEMMA FrameOf ==
  ASSUME NEW ms \in Seq(Mutation), NEW p \in Nat, 0 < p, p <= FrameEnds(ms)[Len(ms)]
  PROVE  \E d \in 1..Len(ms) : FrameEnds(ms)[d - 1] < p /\ p <= FrameEnds(ms)[d]
<1> DEFINE f == FrameEnds(ms)
           Past == {j \in 0..Len(ms) : p <= f[j]}
<1>1. Len(ms) \in Nat /\ f \in [0..Len(ms) -> Nat] /\ f[0] = 0
  BY EndsAre, MutationsParts DEF AreEnds
<1> HIDE DEF f
<1>2. Past \in SUBSET Nat /\ Len(ms) \in Past
  BY <1>1 DEF f
<1>3. PICK d \in Past : \A j \in Past : d <= j
  BY <1>2, Smallest
<1>4. d \in 0..Len(ms) /\ d \in Nat /\ p <= f[d] /\ d # 0
  BY <1>1, <1>3
<1>5. d \in 1..Len(ms) /\ d - 1 \in 0..Len(ms) /\ ~(d <= d - 1)
  BY <1>1, <1>4
<1>6. ~(p <= f[d - 1])
  BY <1>3, <1>5
<1>7. f[d - 1] \in Nat
  BY <1>1, <1>5
<1>8. f[d - 1] < p
  BY <1>6, <1>7
<1> QED
  BY <1>4, <1>5, <1>8 DEF f

(* How many frames end at or before a place. *)
LEMMA FramesUpto ==
  ASSUME NEW ms \in Seq(Mutation), NEW p \in Nat
  PROVE  LET frames == Cardinality({i \in DOMAIN ms : FrameEnds(ms)[i] <= p}) IN
         /\ frames \in 0..Len(ms)
         /\ \A i \in 1..Len(ms) : i <= frames <=> FrameEnds(ms)[i] <= p
<1> DEFINE f == FrameEnds(ms)
           n == Len(ms)
           Past == {j \in 1..n + 1 : j = n + 1 \/ p < f[j]}
           S == {i \in DOMAIN ms : f[i] <= p}
<1>1. n \in Nat /\ DOMAIN ms = 1..n /\ f \in [0..n -> Nat]
      /\ \A i, j \in 0..n : i < j => f[i] + 5 <= f[j]
  BY EndsAre, EndsGrow, MutationsParts DEF AreEnds
<1> HIDE DEF f, n
<1>2. Past \in SUBSET Nat /\ n + 1 \in Past
  BY <1>1
<1>3. PICK k \in Past : \A j \in Past : k <= j
  BY <1>2, Smallest
<1>4. k \in 1..n + 1 /\ k \in Nat /\ k - 1 \in 0..n /\ k - 1 \in Nat
  BY <1>1, <1>3
<1>5. \A i \in 1..n : i <= k - 1 <=> f[i] <= p
  <2> SUFFICES ASSUME NEW i \in 1..n PROVE i <= k - 1 <=> f[i] <= p
    OBVIOUS
  <2>1. i \in Nat /\ f[i] \in Nat /\ i \in 0..n /\ i \in 1..n + 1 /\ i # n + 1
    BY <1>1
  <2>2. CASE i <= k - 1
    <3>1. ~(k <= i)
      BY <1>4, <2>1, <2>2
    <3>2. i \notin Past
      BY <1>3, <3>1
    <3> QED
      BY <2>1, <2>2, <3>2
  <2>3. CASE ~(i <= k - 1)
    <3>1. k <= i /\ k # n + 1 /\ k \in 0..n
      BY <1>1, <1>4, <2>1, <2>3
    <3>2. p < f[k] /\ f[k] \in Nat
      BY <1>1, <1>3, <3>1
    <3>3. k < i => f[k] + 5 <= f[i]
      BY <1>1, <2>1, <3>1
    <3>4. f[k] <= f[i]
      BY <1>4, <2>1, <3>1, <3>2, <3>3
    <3> QED
      BY <2>1, <2>3, <3>2, <3>4
  <2> QED
    BY <2>2, <2>3
<1>6. S = 1..(k - 1)
  BY <1>1, <1>4, <1>5
<1>7. Cardinality(1..(k - 1)) = k - 1
  <2>1. Cardinality(1..(k - 1)) = IF 1 > k - 1 THEN 0 ELSE (k - 1) - 1 + 1
    BY <1>4, FS_Interval
  <2> QED
    BY <1>4, <2>1
<1> HIDE DEF S
<1> QED
  BY <1>4, <1>5, <1>6, <1>7 DEF S, f, n

-----------------------------------------------------------------------------
(* The file as frames.                                                     *)

(* The c-th cell of the i-th frame is as it was encoded. *)
Kept(b, ms, i, c) == b[FrameEnds(ms)[i - 1] + c] = Encoded(ms[i])[c]

(* The file b is a first part of the frames of ms. *)
LaidOut(b, ms) ==
  /\ Len(b) <= FrameEnds(ms)[Len(ms)]
  /\ \A i \in 1..Len(ms) : \A c \in 1..Width(ms[i]) :
       FrameEnds(ms)[i - 1] + c <= Len(b) => Kept(b, ms, i, c)

(* The cell v holds a number. *)
Numbered(v) == \E n \in Nat : v = Cell(n)

(* The file b is the frames of ms but for the c-th cell of the d-th one. *)
DamagedAt(b, ms, d, c) ==
  /\ d \in 1..Len(ms) /\ c \in 1..Width(ms[d])
  /\ Len(b) = FrameEnds(ms)[Len(ms)]
  /\ Numbered(b[FrameEnds(ms)[d - 1] + c])
  /\ ~Kept(b, ms, d, c)
  /\ \A i \in 1..Len(ms) : \A k \in 1..Width(ms[i]) :
       ~(i = d /\ k = c) => Kept(b, ms, i, k)

(* Where the cells of a frame are. *)
LEMMA Places ==
  ASSUME NEW ms \in Seq(Mutation), NEW i \in 1..Len(ms), NEW c \in 1..Width(ms[i])
  PROVE  /\ i \in Nat /\ i - 1 \in 0..Len(ms) /\ c \in Nat /\ Len(ms) \in Nat
         /\ FrameEnds(ms)[i - 1] \in Nat /\ FrameEnds(ms)[i] \in Nat
         /\ FrameEnds(ms)[i - 1] + c \in Nat /\ FrameEnds(ms)[Len(ms)] \in Nat
         /\ FrameEnds(ms)[i - 1] < FrameEnds(ms)[i - 1] + c
         /\ FrameEnds(ms)[i - 1] + c <= FrameEnds(ms)[i]
         /\ FrameEnds(ms)[i] <= FrameEnds(ms)[Len(ms)]
<1> DEFINE f == FrameEnds(ms)
<1>1. /\ Len(ms) \in Nat /\ Width(ms[i]) \in Nat /\ i \in Nat /\ c \in Nat
      /\ i - 1 \in 0..Len(ms) /\ i \in 0..Len(ms)
  BY MutationsParts
<1>2. f \in [0..Len(ms) -> Nat] /\ f[i] = f[i - 1] + Width(ms[i])
  BY EndsAre DEF AreEnds
<1>3. i < Len(ms) => f[i] + 5 <= f[Len(ms)]
  BY <1>1, EndsGrow
<1> HIDE DEF f
<1>4. f[i] \in Nat /\ f[i - 1] \in Nat /\ f[Len(ms)] \in Nat
  BY <1>1, <1>2
<1>5. f[i] <= f[Len(ms)]
  BY <1>1, <1>3, <1>4
<1> QED
  BY <1>1, <1>2, <1>4, <1>5 DEF f

(* No two cells are at one place. *)
LEMMA PlacesDiffer ==
  ASSUME NEW ms \in Seq(Mutation), NEW i \in 1..Len(ms), NEW c \in 1..Width(ms[i]),
         NEW j \in 1..Len(ms), NEW k \in 1..Width(ms[j]), ~(i = j /\ c = k)
  PROVE  FrameEnds(ms)[i - 1] + c # FrameEnds(ms)[j - 1] + k
<1> DEFINE f == FrameEnds(ms)
<1>1. /\ Len(ms) \in Nat /\ i \in Nat /\ j \in Nat /\ c \in Nat /\ k \in Nat
      /\ f[i - 1] \in Nat /\ f[i] \in Nat /\ f[j - 1] \in Nat /\ f[j] \in Nat
      /\ f[i - 1] < f[i - 1] + c /\ f[i - 1] + c <= f[i]
      /\ f[j - 1] < f[j - 1] + k /\ f[j - 1] + k <= f[j]
  BY Places
<1>2. \A a, b \in 0..Len(ms) : a < b => f[a] + 5 <= f[b]
  BY EndsGrow
<1> HIDE DEF f
<1>3. CASE i = j
  BY <1>1, <1>3 DEF f
<1>4. CASE i < j
  <2>1. i = j - 1 \/ i < j - 1
    BY <1>1, <1>4
  <2>2. i \in 0..Len(ms) /\ j - 1 \in 0..Len(ms)
    BY <1>1, <1>4
  <2>3. i < j - 1 => f[i] + 5 <= f[j - 1]
    BY <1>2, <2>2
  <2>4. f[i] <= f[j - 1]
    BY <1>1, <2>1, <2>3
  <2> QED
    BY <1>1, <2>4 DEF f
<1>5. CASE j < i
  <2>1. j = i - 1 \/ j < i - 1
    BY <1>1, <1>5
  <2>2. j \in 0..Len(ms) /\ i - 1 \in 0..Len(ms)
    BY <1>1, <1>5
  <2>3. j < i - 1 => f[j] + 5 <= f[i - 1]
    BY <1>2, <2>2
  <2>4. f[j] <= f[i - 1]
    BY <1>1, <2>1, <2>3
  <2> QED
    BY <1>1, <2>4 DEF f
<1> QED
  BY <1>1, <1>3, <1>4, <1>5

LEMMA EmptyLaid == LaidOut(<<>>, <<>>) /\ FrameEnds(<<>>)[0] = 0
<1>1. <<>> \in Seq(Mutation) /\ Len(<<>>) = 0
  OBVIOUS
<1>2. FrameEnds(<<>>)[0] = 0
  BY <1>1, EndsAre DEF AreEnds
<1> QED
  BY <1>1, <1>2 DEF LaidOut

LEMMA AppendedParts ==
  ASSUME NEW m \in Mutation, NEW b \in Seq(Field)
  PROVE  /\ b \o Encoded(m) \in Seq(Field)
         /\ Len(b \o Encoded(m)) = Len(b) + Width(m) /\ Len(b) \in Nat
         /\ \A i \in 1..Len(b) : (b \o Encoded(m))[i] = b[i]
         /\ \A i \in 1..Width(m) : (b \o Encoded(m))[Len(b) + i] = Encoded(m)[i]
<1>1. Encoded(m) \in Seq(Field)
  BY EncodedParts
<1> QED
  BY <1>1, JoinParts DEF Width

(* A record is appended where the last one ends. *)
LEMMA LaidAppend ==
  ASSUME NEW ms \in Seq(Mutation), NEW m \in Mutation, NEW b \in Seq(Field),
         LaidOut(b, ms), Len(b) = FrameEnds(ms)[Len(ms)]
  PROVE  LET ns == Append(ms, m) IN
         /\ ns \in Seq(Mutation) /\ Len(ns) = Len(ms) + 1
         /\ b \o Encoded(m) \in Seq(Field)
         /\ LaidOut(b \o Encoded(m), ns)
         /\ Len(b \o Encoded(m)) = FrameEnds(ns)[Len(ns)]
<1> DEFINE ns == Append(ms, m)
           e == Encoded(m)
           a == b \o e
           f == FrameEnds(ms)
           g == FrameEnds(ns)
<1>1. /\ ns \in Seq(Mutation) /\ Len(ns) = Len(ms) + 1 /\ Len(ms) \in Nat
      /\ \A i \in 1..Len(ms) : ns[i] = ms[i]
      /\ ns[Len(ms) + 1] = m
  OBVIOUS
<1>2. e \in Seq(Field) /\ Len(e) = Width(m) /\ Width(m) \in Nat
  BY EncodedParts DEF Width
<1>3. /\ a \in Seq(Field) /\ Len(a) = Len(b) + Width(m) /\ Len(b) \in Nat
      /\ \A i \in 1..Len(b) : a[i] = b[i]
      /\ \A i \in 1..Width(m) : a[Len(b) + i] = e[i]
  BY AppendedParts, Zenon DEF Width
<1>4. \A i \in 0..Len(ms) : f[i] = g[i]
  <2>1. Len(ms) <= Len(ms) /\ Len(ms) <= Len(ns) /\ \A i \in 1..Len(ms) : ms[i] = ns[i]
    BY <1>1
  <2> HIDE DEF ns
  <2> QED
    BY <1>1, <2>1, EndsAgree
<1>5. g[Len(ms) + 1] = g[Len(ms)] + Width(m)
  <2>1. Len(ms) + 1 \in 1..Len(ns) /\ (Len(ms) + 1) - 1 = Len(ms)
    BY <1>1
  <2>2. \A i \in 1..Len(ns) : g[i] = g[i - 1] + Width(ns[i])
    BY <1>1, EndsAre DEF AreEnds
  <2> QED
    BY <1>1, <2>1, <2>2
<1>6. Len(b) = g[Len(ms)] /\ Len(a) = g[Len(ms) + 1]
  BY <1>1, <1>3, <1>4, <1>5
<1> HIDE DEF ns, e, a, g
<1>7. ASSUME NEW i \in 1..Len(ns), NEW c \in 1..Width(ns[i])
      PROVE  Kept(a, ns, i, c)
  <2>1. CASE i = Len(ms) + 1
    <3>1. i - 1 = Len(ms) /\ ns[i] = m /\ c \in 1..Width(m)
      BY <1>1, <2>1
    <3>2. a[g[i - 1] + c] = e[c]
      BY <1>3, <1>6, <3>1
    <3> QED
      BY <3>1, <3>2 DEF Kept, e, g
  <2>2. CASE i # Len(ms) + 1
    <3>1. i \in 1..Len(ms) /\ ns[i] = ms[i] /\ i - 1 \in 0..Len(ms)
      BY <1>1, <2>2
    <3>2. c \in 1..Width(ms[i]) /\ g[i - 1] = f[i - 1]
      BY <1>4, <3>1
    <3>3. f[i - 1] + c \in Nat /\ f[i - 1] + c <= f[Len(ms)] /\ 0 < f[i - 1] + c
      BY <3>1, <3>2, Places, SMTT(60)
    <3>4. f[i - 1] + c \in 1..Len(b)
      BY <1>3, <3>3
    <3>5. Kept(b, ms, i, c)
      BY <1>3, <3>1, <3>2, <3>4 DEF LaidOut
    <3> QED
      BY <1>3, <3>1, <3>2, <3>4, <3>5 DEF Kept, g
  <2> QED
    BY <2>1, <2>2
<1>8. Len(a) <= g[Len(ns)] /\ Len(a) = g[Len(ns)]
  BY <1>1, <1>3, <1>6, <1>2
<1>9. LaidOut(a, ns)
  BY <1>7, <1>8 DEF LaidOut, g
<1> QED
  BY <1>1, <1>3, <1>8, <1>9 DEF ns, a, e, g

(* A cut of the file is laid out as well. *)
LEMMA LaidCut ==
  ASSUME NEW ms \in Seq(Mutation), NEW b \in Seq(Field), LaidOut(b, ms), NEW n \in 0..Len(b)
  PROVE  /\ SubSeq(b, 1, n) \in Seq(Field) /\ Len(SubSeq(b, 1, n)) = n
         /\ LaidOut(SubSeq(b, 1, n), ms)
<1> DEFINE a == SubSeq(b, 1, n)
<1>1. n \in Nat /\ Len(b) \in Nat /\ n <= Len(b)
  OBVIOUS
<1>2. a \in Seq(Field) /\ Len(a) = n /\ \A i \in 1..n : a[i] = b[i]
  <2>1. /\ SubSeq(b, 0 + 1, n) \in Seq(Field) /\ Len(SubSeq(b, 0 + 1, n)) = n - 0
        /\ \A i \in 1..n - 0 : SubSeq(b, 0 + 1, n)[i] = b[0 + i]
    BY <1>1, CutParts
  <2> QED
    BY <1>1, <2>1
<1> HIDE DEF a
<1>3. FrameEnds(ms)[Len(ms)] \in Nat
  BY EndsAre, MutationsParts DEF AreEnds
<1>4. ASSUME NEW i \in 1..Len(ms), NEW c \in 1..Width(ms[i]), FrameEnds(ms)[i - 1] + c <= n
      PROVE  Kept(a, ms, i, c)
  <2>1. FrameEnds(ms)[i - 1] + c \in 1..n
    BY <1>1, <1>4, Places
  <2>2. Kept(b, ms, i, c)
    BY <1>1, <1>4, <2>1 DEF LaidOut
  <2> QED
    BY <1>2, <2>1, <2>2 DEF Kept
<1> QED
  BY <1>1, <1>2, <1>3, <1>4 DEF LaidOut, a

(* The file up to the end of its n-th frame is laid out as n frames, be    *)
(* there damage behind them or not.                                        *)
LEMMA LaidPrefix ==
  ASSUME NEW ms \in Seq(Mutation), NEW ns \in Seq(Mutation), NEW b \in Seq(Field),
         Len(ns) <= Len(ms), \A i \in 1..Len(ns) : ns[i] = ms[i],
         FrameEnds(ms)[Len(ns)] <= Len(b),
         \/ LaidOut(b, ms)
         \/ \E d \in 1..Len(ms) : \E c \in 1..Width(ms[d]) :
              DamagedAt(b, ms, d, c) /\ Len(ns) < d
  PROVE  LET a == SubSeq(b, 1, FrameEnds(ms)[Len(ns)]) IN
         a \in Seq(Field) /\ LaidOut(a, ns) /\ Len(a) = FrameEnds(ns)[Len(ns)]
<1> DEFINE end == FrameEnds(ms)[Len(ns)]
           a == SubSeq(b, 1, end)
<1>1. Len(ns) \in Nat /\ Len(ms) \in Nat /\ Len(b) \in Nat
  OBVIOUS
<1>2. \A i \in 0..Len(ns) : FrameEnds(ms)[i] = FrameEnds(ns)[i]
  BY <1>1, EndsAgree
<1>3. end \in Nat /\ end <= Len(b) /\ FrameEnds(ns)[Len(ns)] = end
  <2>1. FrameEnds(ms) \in [0..Len(ms) -> Nat] /\ Len(ns) \in 0..Len(ms)
    BY <1>1, EndsAre DEF AreEnds
  <2> QED
    BY <1>1, <1>2, <2>1
<1> HIDE DEF end
<1>4. a \in Seq(Field) /\ Len(a) = end /\ \A i \in 1..end : a[i] = b[i]
  <2>1. /\ SubSeq(b, 0 + 1, end) \in Seq(Field) /\ Len(SubSeq(b, 0 + 1, end)) = end - 0
        /\ \A i \in 1..end - 0 : SubSeq(b, 0 + 1, end)[i] = b[0 + i]
    BY <1>3, CutParts
  <2> QED
    BY <1>3, <2>1
<1> HIDE DEF a
<1>5. ASSUME NEW i \in 1..Len(ns), NEW c \in 1..Width(ns[i])
      PROVE  Kept(a, ns, i, c)
  <2>1. /\ i \in 1..Len(ms) /\ ns[i] = ms[i] /\ c \in 1..Width(ms[i])
        /\ i - 1 \in 0..Len(ns) /\ i \in Nat
    BY <1>1
  <2>2. FrameEnds(ms)[i - 1] = FrameEnds(ns)[i - 1]
    BY <1>2, <2>1
  <2>3. FrameEnds(ms)[i - 1] + c \in 1..end /\ FrameEnds(ms)[i - 1] + c <= Len(b)
    <3>1. /\ FrameEnds(ns)[i - 1] + c \in Nat /\ 0 < FrameEnds(ns)[i - 1] + c
          /\ FrameEnds(ns)[i - 1] + c <= FrameEnds(ns)[Len(ns)]
      BY Places, SMTT(60)
    <3> QED
      BY <1>1, <1>3, <2>2, <3>1
  <2>4. Kept(b, ms, i, c)
    <3>1. CASE LaidOut(b, ms)
      BY <2>1, <2>3, <3>1 DEF LaidOut
    <3>2. CASE \E d \in 1..Len(ms) : \E k \in 1..Width(ms[d]) :
                 DamagedAt(b, ms, d, k) /\ Len(ns) < d
      <4>1. PICK d \in 1..Len(ms) : \E k \in 1..Width(ms[d]) :
                   DamagedAt(b, ms, d, k) /\ Len(ns) < d
        BY <3>2
      <4>2. i # d
        BY <1>1, <4>1
      <4> QED
        BY <2>1, <4>1, <4>2 DEF DamagedAt
    <3> QED
      BY <3>1, <3>2
  <2> QED
    BY <1>4, <2>1, <2>2, <2>3, <2>4 DEF Kept
<1>6. Len(a) <= FrameEnds(ns)[Len(ns)] /\ Len(a) = FrameEnds(ns)[Len(ns)]
  BY <1>3, <1>4
<1> QED
  BY <1>4, <1>5, <1>6 DEF LaidOut, a, end

(* Damage to one field is damage to one cell of one frame. *)
LEMMA DamageLaid ==
  ASSUME NEW ms \in Seq(Mutation), NEW b \in Seq(Field), LaidOut(b, ms),
         Len(b) = FrameEnds(ms)[Len(ms)],
         NEW p \in 1..Len(b), NEW a \in Seq(Field), Len(a) = Len(b), a[p] # b[p],
         Numbered(a[p]),
         \A i \in 1..Len(b) : i # p => a[i] = b[i]
  PROVE  \E d \in 1..Len(ms) : \E c \in 1..Width(ms[d]) :
           DamagedAt(a, ms, d, c) /\ FrameEnds(ms)[d - 1] + c = p
<1> DEFINE f == FrameEnds(ms)
<1>1. /\ Len(b) \in Nat /\ p \in Nat /\ 0 < p /\ p <= f[Len(ms)]
      /\ DOMAIN b = 1..Len(b)
  OBVIOUS
<1>2. /\ Len(a) = Len(b) /\ a[p] # b[p] /\ Numbered(a[p])
      /\ \A i \in 1..Len(b) : i # p => a[i] = b[i]
  OBVIOUS
<1>3. PICK d \in 1..Len(ms) : f[d - 1] < p /\ p <= f[d]
  BY <1>1, FrameOf
<1>4. /\ Len(ms) \in Nat /\ Width(ms[d]) \in Nat /\ d - 1 \in 0..Len(ms) /\ d \in 0..Len(ms)
      /\ f[d] = f[d - 1] + Width(ms[d]) /\ f[d - 1] \in Nat
  <2>1. Len(ms) \in Nat /\ Width(ms[d]) \in Nat
    BY MutationsParts
  <2>2. f \in [0..Len(ms) -> Nat] /\ f[d] = f[d - 1] + Width(ms[d])
    BY EndsAre DEF AreEnds
  <2> HIDE DEF f
  <2> QED
    BY <2>1, <2>2, SMTT(60)
<1> DEFINE c == p - f[d - 1]
<1>5. c \in 1..Width(ms[d]) /\ f[d - 1] + c = p
  BY <1>1, <1>3, <1>4, SMTT(60)
<1> HIDE DEF c
<1>6. Kept(b, ms, d, c)
  BY <1>1, <1>5 DEF LaidOut
<1>7. ~Kept(a, ms, d, c)
  BY <1>2, <1>5, <1>6 DEF Kept
<1>8. ASSUME NEW i \in 1..Len(ms), NEW k \in 1..Width(ms[i]), ~(i = d /\ k = c)
      PROVE  Kept(a, ms, i, k)
  <2>1. f[i - 1] + k # p
    BY <1>5, <1>8, PlacesDiffer
  <2>2. f[i - 1] + k \in 1..Len(b)
    <3>1. /\ f[i - 1] \in Nat /\ f[i] \in Nat /\ f[Len(ms)] \in Nat /\ f[i - 1] + k \in Nat
          /\ f[i - 1] < f[i - 1] + k /\ f[i - 1] + k <= f[i] /\ f[i] <= f[Len(ms)]
      BY Places
    <3>2. Len(b) = f[Len(ms)]
      OBVIOUS
    <3> DEFINE q == f[i - 1] + k
               e == f[Len(ms)]
    <3>3. q \in Nat /\ 0 < q /\ q <= e /\ e = Len(b)
      <4> HIDE DEF f
      <4> QED
        BY <3>1, <3>2, SMTT(60)
    <3> HIDE DEF q, e
    <3>4. q \in 1..Len(b)
      BY <3>3
    <3> QED
      BY <3>4 DEF q
  <2>3. Kept(b, ms, i, k)
    BY <1>1, <2>2 DEF LaidOut
  <2> QED
    BY <1>2, <2>1, <2>2, <2>3 DEF Kept
<1>9. DamagedAt(a, ms, d, c)
  BY <1>2, <1>5, <1>7, <1>8 DEF DamagedAt
<1> QED
  BY <1>2, <1>5, <1>9

(* The field at a place of a frame. *)
LEMMA FieldParts ==
  ASSUME written \in Seq(Mutation),
         NEW d \in 1..Len(written), NEW c \in 1..Width(written[d]),
         NEW p \in Nat, p = FrameEnds(written)[d - 1] + c
  PROVE  /\ FieldAt(p) \in {"sum", "length", "payload"}
         /\ FieldAt(p) # "length" => c # 2
<1> DEFINE f == FrameEnds(written)
           starts == { f[j] : j \in 0..Len(written) }
           start == CHOOSE s \in starts : s < p /\ \A t \in starts : t < p => t <= s
<1>1. /\ Len(written) \in Nat /\ f \in [0..Len(written) -> Nat]
      /\ d - 1 \in 0..Len(written) /\ d \in Nat /\ c \in Nat
      /\ f[d - 1] < p /\ p <= f[d] /\ f[d - 1] \in Nat
  BY EndsAre, Places DEF AreEnds
<1>2. \A t \in starts : t < p => t <= f[d - 1]
  <2> SUFFICES ASSUME NEW j \in 0..Len(written), f[j] < p PROVE f[j] <= f[d - 1]
    OBVIOUS
  <2>1. f[j] \in Nat /\ f[d] \in Nat /\ j \in Nat /\ d \in 0..Len(written)
    BY <1>1, SMTT(60)
  <2>2. \A a, b \in 0..Len(written) : a < b => f[a] + 5 <= f[b]
    BY EndsGrow
  <2> HIDE DEF f
  <2>3. CASE j < d - 1
    BY <1>1, <2>1, <2>2, <2>3, SMTT(60)
  <2>4. CASE j = d - 1
    BY <1>1, <2>1, <2>4
  <2>5. CASE j >= d
    <3>1. j = d \/ d < j
      BY <1>1, <2>1, <2>5
    <3>2. d < j => f[d] + 5 <= f[j]
      BY <2>1, <2>2
    <3>3. f[d] <= f[j]
      BY <2>1, <3>1, <3>2
    <3> QED
      BY <1>1, <2>1, <3>3
  <2> QED
    BY <1>1, <2>1, <2>3, <2>4, <2>5
<1>3. f[d - 1] \in starts /\ starts \in SUBSET Nat
  BY <1>1
<1> HIDE DEF starts
<1>4. start \in starts /\ start < p /\ \A t \in starts : t < p => t <= start
  BY <1>1, <1>2, <1>3
<1>5. FieldAt(p) = CASE p = start + 1 -> "sum" [] p = start + 2 -> "length" [] OTHER -> "payload"
  BY DEF FieldAt, starts
<1> HIDE DEF start, f
<1>6. start = f[d - 1]
  <2>1. start \in Nat /\ start <= f[d - 1] /\ f[d - 1] <= start
    BY <1>1, <1>2, <1>3, <1>4
  <2> QED
    BY <1>1, <2>1
<1>7. c = 2 => p # start + 1 /\ p = start + 2
  BY <1>1, <1>6 DEF f
<1> QED
  BY <1>5, <1>7

-----------------------------------------------------------------------------
(* The inductive invariant.                                                *)

WrittenInv ==
  /\ written \in Seq(Mutation) /\ read \in Seq(Mutation) /\ bytes \in Seq(Field)
  /\ whole \in 0..Len(written)
  /\ damage \in {"none", "sum", "length", "payload"}
  /\ \A i \in 1..Len(written) : Encodable(written[i])

(* The file is a first part of the frames that were written, or all of     *)
(* them with damage to one cell, in a frame the reader has not passed.     *)
FramesInv ==
  /\ damage = "none" => LaidOut(bytes, written)
  /\ damage # "none" =>
       \E d \in 1..Len(written) : \E c \in 1..Width(written[d]) :
         /\ DamagedAt(bytes, written, d, c) /\ Len(read) < d
         /\ damage # "length" => c # 2

(* A log that is appended to is whole. *)
WritingInv ==
  pc = "writing" =>
    /\ damage = "none" /\ read = <<>>
    /\ whole = Len(written)
    /\ Len(bytes) = FrameEnds(written)[Len(written)]

(* The reader has read a first part of what was written, and what is left  *)
(* of the file begins where the frames of that part end.                   *)
ReadingInv ==
  pc \in {"reading", "end", "truncated", "corrupt"} =>
    /\ Len(read) <= Len(written) /\ \A i \in 1..Len(read) : read[i] = written[i]
    /\ valid = FrameEnds(written)[Len(read)] /\ valid <= Len(bytes)
    /\ rest = SubSeq(bytes, valid + 1, Len(bytes))
    /\ damage = "none" =>
         \A i \in 1..Len(written) : i <= whole <=> FrameEnds(written)[i] <= Len(bytes)

(* How the reading ended is what the rest of the file is. *)
EndedInv ==
  /\ pc = "end" => rest = <<>>
  /\ pc \in {"truncated", "corrupt"} => rest # <<>> /\ Decode(rest).result = pc

FormatInv ==
  /\ pc \in {"writing", "reading", "end", "truncated", "corrupt"}
  /\ crashes \in 0..MaxCrashes
  /\ WrittenInv
  /\ FramesInv
  /\ WritingInv
  /\ ReadingInv
  /\ EndedInv

(* What the reader has read and not read yet. *)
LEMMA RestParts ==
  ASSUME FormatInv, pc # "writing"
  PROVE  /\ valid \in Nat /\ Len(bytes) \in Nat /\ valid <= Len(bytes)
         /\ valid = FrameEnds(written)[Len(read)]
         /\ Len(read) \in Nat /\ Len(written) \in Nat /\ Len(read) <= Len(written)
         /\ rest \in Seq(Field) /\ Len(rest) = Len(bytes) - valid
         /\ \A i \in 1..Len(rest) : rest[i] = bytes[valid + i]
<1>1. /\ written \in Seq(Mutation) /\ read \in Seq(Mutation) /\ bytes \in Seq(Field)
      /\ Len(read) <= Len(written) /\ valid <= Len(bytes)
      /\ valid = FrameEnds(written)[Len(read)]
      /\ rest = SubSeq(bytes, valid + 1, Len(bytes))
  BY DEF FormatInv, WrittenInv, ReadingInv
<1>2. Len(read) \in Nat /\ Len(written) \in Nat /\ Len(bytes) \in Nat
  BY <1>1
<1>3. valid \in Nat
  <2>1. FrameEnds(written) \in [0..Len(written) -> Nat]
    BY <1>1, EndsAre DEF AreEnds
  <2> QED
    BY <1>1, <1>2, <2>1
<1>4. /\ SubSeq(bytes, valid + 1, Len(bytes)) \in Seq(Field)
      /\ Len(SubSeq(bytes, valid + 1, Len(bytes))) = Len(bytes) - valid
      /\ \A i \in 1..Len(bytes) - valid : SubSeq(bytes, valid + 1, Len(bytes))[i] = bytes[valid + i]
  <2>1. bytes \in Seq(Field) /\ valid <= Len(bytes)
    BY <1>1
  <2>2. Len(bytes) <= Len(bytes)
    BY <1>2
  <2> QED
    BY <1>2, <1>3, <2>1, <2>2, CutParts
<1> QED
  BY <1>1, <1>2, <1>3, <1>4

(* What the next turn of the reader finds: the next record, a cut, or the  *)
(* damaged frame.                                                          *)
Whole(m) ==
  /\ Decode(rest) = [result |-> "record", width |-> Width(m), mutation |-> m]
  /\ FrameEnds(written)[Len(read) + 1] = valid + Width(m)
  /\ valid + Width(m) <= Len(bytes)
  /\ damage # "none" =>
       \E d \in 1..Len(written) : \E c \in 1..Width(written[d]) :
         /\ DamagedAt(bytes, written, d, c) /\ Len(read) + 1 < d
         /\ damage # "length" => c # 2

Cut ==
  /\ damage = "none" /\ Decode(rest) = Truncated
  /\ Len(bytes) < FrameEnds(written)[Len(read) + 1]

Damaged ==
  /\ damage # "none" /\ Decode(rest).result \in {"truncated", "corrupt"}
  /\ damage # "length" => Decode(rest).result = "corrupt"

LEMMA NextTurn ==
  ASSUME FormatInv, pc # "writing", rest # <<>>
  PROVE  /\ Len(read) + 1 \in 1..Len(written)
         /\ Whole(written[Len(read) + 1]) \/ Cut \/ Damaged
<1> DEFINE n == Len(read) + 1
           m == written[n]
           f == FrameEnds(written)
<1>1. /\ valid \in Nat /\ Len(bytes) \in Nat /\ valid <= Len(bytes)
      /\ valid = f[Len(read)]
      /\ Len(read) \in Nat /\ Len(written) \in Nat /\ Len(read) <= Len(written)
      /\ rest \in Seq(Field) /\ Len(rest) = Len(bytes) - valid
      /\ \A i \in 1..Len(rest) : rest[i] = bytes[valid + i]
  BY RestParts
<1>2. written \in Seq(Mutation) /\ f \in [0..Len(written) -> Nat]
  BY EndsAre DEF FormatInv, WrittenInv, AreEnds
<1>3. Len(rest) # 0 /\ Len(rest) \in Nat
  BY <1>1
<1>4. Len(bytes) <= f[Len(written)]
  BY DEF FormatInv, FramesInv, LaidOut, DamagedAt
<1> HIDE DEF f
<1>5. n \in 1..Len(written) /\ n - 1 = Len(read) /\ n \in 0..Len(written)
  <2>1. Len(read) # Len(written)
    BY <1>1, <1>2, <1>3, <1>4
  <2> QED
    BY <1>1, <2>1
<1>6. /\ m \in Mutation /\ Encodable(m) /\ Width(m) \in Nat /\ f[n] \in Nat
      /\ f[n] = valid + Width(m)
  <2>1. Encodable(m)
    BY <1>5 DEF FormatInv, WrittenInv
  <2>2. m \in Mutation /\ Width(m) \in Nat
    BY <1>2, <1>5, MutationsParts
  <2>3. f[n] = f[n - 1] + Width(m)
    BY <1>2, <1>5, EndsAre DEF AreEnds, f
  <2> QED
    BY <1>1, <1>2, <1>5, <2>1, <2>2, <2>3
<1> HIDE DEF m
<1>7. ASSUME NEW i \in 1..Len(rest), i <= Width(m), Kept(bytes, written, n, i)
      PROVE  rest[i] = Encoded(m)[i]
  BY <1>1, <1>5, <1>7 DEF Kept, f, m
<1>8. CASE damage = "none"
  <2>1. LaidOut(bytes, written)
    BY <1>8 DEF FormatInv, FramesInv
  <2>2. ASSUME NEW i \in 1..Len(rest), i <= Width(m)
        PROVE  rest[i] = Encoded(m)[i]
    <3>1. i \in 1..Width(m) /\ valid + i <= Len(bytes)
      BY <1>1, <1>6, <2>2, SMTT(60)
    <3>2. f[n - 1] + i <= Len(bytes)
      BY <1>1, <1>5, <3>1
    <3>3. Kept(bytes, written, n, i)
      BY <1>5, <2>1, <3>1, <3>2 DEF LaidOut, f, m
    <3> QED
      BY <1>7, <2>2, <3>3
  <2>3. CASE Len(rest) < Width(m)
    <3>1. Begins(rest, m, Len(rest))
      BY <1>1, <1>3, <1>6, <2>2, <2>3, SMTT(60) DEF Begins
    <3>2. Decode(rest) = Truncated
      BY <1>1, <1>6, <2>3, <3>1, DecodeShort
    <3>3. Len(bytes) < f[n]
      BY <1>1, <1>6, <2>3, SMTT(60)
    <3> QED
      BY <1>5, <1>8, <3>2, <3>3 DEF Cut, f
  <2>4. CASE Len(rest) >= Width(m)
    <3>1. Begins(rest, m, Width(m))
      BY <1>1, <1>3, <1>6, <2>2, <2>4, SMTT(60) DEF Begins
    <3>2. Decode(rest) = [result |-> "record", width |-> Width(m), mutation |-> m]
      BY <1>1, <1>3, <1>6, <2>4, <3>1, DecodeWhole
    <3>3. valid + Width(m) <= Len(bytes)
      BY <1>1, <1>6, <2>4, SMTT(60)
    <3> QED
      BY <1>5, <1>6, <1>8, <3>2, <3>3 DEF Whole, f, m
  <2> QED
    BY <1>3, <1>6, <2>3, <2>4
<1>9. CASE damage # "none"
  <2>1. PICK d \in 1..Len(written) : \E c \in 1..Width(written[d]) :
          /\ DamagedAt(bytes, written, d, c) /\ Len(read) < d
          /\ damage # "length" => c # 2
    BY <1>9 DEF FormatInv, FramesInv
  <2>2. PICK c \in 1..Width(written[d]) :
          /\ DamagedAt(bytes, written, d, c) /\ Len(read) < d
          /\ damage # "length" => c # 2
    BY <2>1
  <2>3. /\ Len(bytes) = f[Len(written)]
        /\ \A i \in 1..Len(written) : \A k \in 1..Width(written[i]) :
             ~(i = d /\ k = c) => Kept(bytes, written, i, k)
    BY <2>2 DEF DamagedAt, f
  <2>4. Width(m) <= Len(rest) /\ valid + Width(m) <= Len(bytes)
    <3>1. n \in 0..Len(written) /\ Len(written) \in 0..Len(written)
          /\ (n = Len(written) \/ n < Len(written))
      BY <1>1, <1>5
    <3> HIDE DEF n
    <3>2. n < Len(written) => f[n] + 5 <= f[Len(written)]
      BY <1>2, <3>1, EndsGrow DEF f
    <3>3. f[Len(written)] \in Nat
      BY <1>2, <3>1
    <3>4. f[n] <= f[Len(written)]
      BY <1>6, <3>1, <3>2, <3>3
    <3> QED
      BY <1>1, <1>6, <2>3, <3>3, <3>4
  <2>5. CASE d = n
    <3>1. c \in 1..Width(m) /\ c \in 1..Len(rest) /\ c \in Nat
      BY <1>3, <1>6, <2>4, <2>5 DEF m
    <3>2. ASSUME NEW i \in 1..Width(m), i # c
          PROVE  rest[i] = Encoded(m)[i]
      <4>1. i \in 1..Len(rest) /\ i <= Width(m)
        BY <1>3, <1>6, <2>4
      <4>2. Kept(bytes, written, n, i)
        BY <1>5, <2>3, <2>5, <3>2 DEF m
      <4> QED
        BY <1>7, <4>1, <4>2
    <3>3. rest[c] = bytes[f[n - 1] + c]
      BY <1>1, <1>5, <3>1
    <3>4. PICK k \in Nat : rest[c] = Cell(k)
      BY <2>2, <2>5, <3>3 DEF DamagedAt, Numbered, f
    <3>5. rest[c] # Encoded(m)[c]
      BY <2>2, <2>5, <3>3 DEF DamagedAt, Kept, f, m
    <3>6. /\ Decode(rest).result \in {"truncated", "corrupt"}
          /\ c # 2 => Decode(rest).result = "corrupt"
      BY <1>1, <1>6, <2>4, <3>1, <3>2, <3>4, <3>5, DecodeDamaged
    <3> QED
      BY <1>5, <1>9, <2>2, <3>6 DEF Damaged
  <2>6. CASE d # n
    <3>1. n < d
      BY <1>1, <1>5, <2>2, <2>6
    <3>2. Begins(rest, m, Width(m))
      <4> SUFFICES ASSUME NEW i \in 1..Width(m) PROVE rest[i] = Encoded(m)[i]
        BY DEF Begins
      <4>1. i \in 1..Len(rest) /\ i <= Width(m)
        BY <1>3, <1>6, <2>4
      <4>2. Kept(bytes, written, n, i)
        BY <1>5, <2>3, <2>6 DEF m
      <4> QED
        BY <1>7, <4>1, <4>2
    <3>3. Decode(rest) = [result |-> "record", width |-> Width(m), mutation |-> m]
      BY <1>1, <1>6, <2>4, <3>2, DecodeWhole
    <3>4. Whole(m)
      BY <1>6, <2>2, <2>4, <3>1, <3>3 DEF Whole, f
    <3> QED
      BY <1>5, <3>4 DEF m
  <2> QED
    BY <2>5, <2>6
<1> QED
  BY <1>8, <1>9

-----------------------------------------------------------------------------
(* Every step keeps the invariant.                                         *)

LEMMA FormatInit == Init => FormatInv
<1> SUFFICES ASSUME Init PROVE FormatInv
  OBVIOUS
<1>1. /\ written = <<>> /\ read = <<>> /\ bytes = <<>> /\ whole = 0 /\ damage = "none"
      /\ pc = "writing" /\ crashes = 0
  BY DEF Init
<1>2. <<>> \in Seq(Mutation) /\ <<>> \in Seq(Field) /\ Len(<<>>) = 0
  OBVIOUS
<1>3. WrittenInv
  BY <1>1, <1>2 DEF WrittenInv
<1>4. FramesInv /\ WritingInv
  BY <1>1, <1>2, EmptyLaid DEF FramesInv, WritingInv
<1>5. ReadingInv /\ EndedInv
  BY <1>1 DEF ReadingInv, EndedInv
<1>6. crashes \in 0..MaxCrashes
  BY <1>1, FormatAssumption
<1> QED
  BY <1>1, <1>3, <1>4, <1>5, <1>6 DEF FormatInv

LEMMA AppendStep ==
  ASSUME FormatInv, NEW m \in Mutation, AppendRecord(m)
  PROVE  FormatInv'
<1>1. /\ pc = "writing" /\ pc' = pc /\ Encodable(m)
      /\ bytes' = bytes \o Encoded(m) /\ written' = Append(written, m)
      /\ whole' = whole + 1
      /\ damage' = damage /\ read' = read /\ crashes' = crashes
  BY DEF AppendRecord
<1>2. /\ written \in Seq(Mutation) /\ bytes \in Seq(Field)
      /\ damage = "none" /\ read = <<>> /\ whole = Len(written)
      /\ Len(bytes) = FrameEnds(written)[Len(written)]
      /\ LaidOut(bytes, written)
      /\ \A i \in 1..Len(written) : Encodable(written[i])
      /\ crashes \in 0..MaxCrashes
  BY <1>1 DEF FormatInv, WrittenInv, WritingInv, FramesInv
<1>3. /\ written' \in Seq(Mutation) /\ Len(written') = Len(written) + 1
      /\ bytes' \in Seq(Field) /\ LaidOut(bytes', written')
      /\ Len(bytes') = FrameEnds(written')[Len(written')]
  BY <1>1, <1>2, LaidAppend
<1>4. \A i \in 1..Len(written') : Encodable(written'[i])
  <2> SUFFICES ASSUME NEW i \in 1..Len(written') PROVE Encodable(written'[i])
    OBVIOUS
  <2>1. Len(written) \in Nat /\ (i \in 1..Len(written) \/ i = Len(written) + 1)
    BY <1>2, <1>3
  <2>2. written'[i] = written[i] \/ written'[i] = m
    BY <1>1, <1>2, <2>1
  <2>3. i \in 1..Len(written) => written'[i] = written[i]
    BY <1>1, <1>2, <2>1
  <2>4. i = Len(written) + 1 => written'[i] = m
    BY <1>1, <1>2, <2>1
  <2> QED
    BY <1>1, <1>2, <2>1, <2>3, <2>4
<1>5. read' \in Seq(Mutation) /\ whole' \in 0..Len(written') /\ whole' = Len(written')
  <2>1. <<>> \in Seq(Mutation) /\ Len(written) \in Nat
    BY <1>2
  <2> QED
    BY <1>1, <1>2, <1>3, <2>1
<1>6. WrittenInv'
  BY <1>1, <1>2, <1>3, <1>4, <1>5 DEF WrittenInv
<1>7. FramesInv' /\ WritingInv'
  BY <1>1, <1>2, <1>3, <1>5 DEF FramesInv, WritingInv
<1>8. ReadingInv' /\ EndedInv'
  BY <1>1 DEF ReadingInv, EndedInv
<1> QED
  BY <1>1, <1>2, <1>6, <1>7, <1>8 DEF FormatInv

(* A reading begins at the first cell, with nothing read. *)
LEMMA ReadingBegins ==
  ASSUME WrittenInv', pc' = "reading", read' = <<>>, valid' = 0, rest' = bytes',
         damage' = "none" =>
           \A i \in 1..Len(written') : i <= whole' <=> FrameEnds(written')[i] <= Len(bytes')
  PROVE  ReadingInv' /\ EndedInv' /\ WritingInv'
<1>1. written' \in Seq(Mutation) /\ bytes' \in Seq(Field) /\ Len(read') = 0
  BY DEF WrittenInv
<1>2. Len(written') \in Nat /\ Len(bytes') \in Nat
  BY <1>1
<1>3. FrameEnds(written')[0] = 0
  BY <1>1, EndsAre DEF AreEnds
<1>4. bytes' = SubSeq(bytes', 0 + 1, Len(bytes'))
  <2>1. /\ SubSeq(bytes', 0 + 1, Len(bytes')) \in Seq(Field)
        /\ Len(SubSeq(bytes', 0 + 1, Len(bytes'))) = Len(bytes') - 0
        /\ \A i \in 1..Len(bytes') - 0 : SubSeq(bytes', 0 + 1, Len(bytes'))[i] = bytes'[0 + i]
    <3>1. 0 <= Len(bytes') /\ Len(bytes') <= Len(bytes') /\ 0 \in Nat
      BY <1>2
    <3> QED
      BY <1>1, <1>2, <3>1, CutParts
  <2>2. /\ Len(SubSeq(bytes', 0 + 1, Len(bytes'))) = Len(bytes')
        /\ \A i \in 1..Len(bytes') : SubSeq(bytes', 0 + 1, Len(bytes'))[i] = bytes'[i]
    BY <1>2, <2>1
  <2> QED
    BY <1>1, <2>1, <2>2, SameSequence
<1>5. ReadingInv'
  BY <1>1, <1>2, <1>3, <1>4 DEF ReadingInv
<1> QED
  BY <1>5 DEF EndedInv, WritingInv

LEMMA CrashStep ==
  ASSUME FormatInv, NEW n \in 0..Len(bytes), CrashAt(n)
  PROVE  FormatInv'
<1>1. /\ pc = "writing" /\ pc' = "reading" /\ crashes < MaxCrashes /\ crashes' = crashes + 1
      /\ bytes' = SubSeq(bytes, 1, n) /\ rest' = SubSeq(bytes, 1, n)
      /\ whole' = Cardinality({ i \in DOMAIN written : FrameEnds(written)[i] <= n })
      /\ read' = <<>> /\ valid' = 0
      /\ written' = written /\ damage' = damage
  BY DEF CrashAt
<1>2. /\ written \in Seq(Mutation) /\ bytes \in Seq(Field) /\ damage = "none"
      /\ LaidOut(bytes, written)
      /\ \A i \in 1..Len(written) : Encodable(written[i])
      /\ crashes \in 0..MaxCrashes
  BY <1>1 DEF FormatInv, WrittenInv, WritingInv, FramesInv
<1>3. bytes' \in Seq(Field) /\ Len(bytes') = n /\ LaidOut(bytes', written)
  BY <1>1, <1>2, LaidCut
<1>4. n \in Nat
  BY <1>2
<1>5. /\ whole' \in 0..Len(written)
      /\ \A i \in 1..Len(written) : i <= whole' <=> FrameEnds(written)[i] <= n
  BY <1>1, <1>2, <1>4, FramesUpto
<1>6. WrittenInv'
  <2>1. <<>> \in Seq(Mutation)
    OBVIOUS
  <2> QED
    BY <1>1, <1>2, <1>3, <1>5, <2>1 DEF WrittenInv
<1>7. FramesInv'
  BY <1>1, <1>2, <1>3 DEF FramesInv
<1>8. ReadingInv' /\ EndedInv' /\ WritingInv'
  BY <1>1, <1>3, <1>5, <1>6, ReadingBegins
<1>9. crashes' \in 0..MaxCrashes
  BY <1>1, <1>2, FormatAssumption
<1> QED
  BY <1>1, <1>6, <1>7, <1>8, <1>9 DEF FormatInv

LEMMA DamageStep ==
  ASSUME FormatInv, NEW p \in DOMAIN bytes, NEW n \in Damage, DamageField(p, n)
  PROVE  FormatInv'
<1>1. /\ pc = "writing" /\ pc' = "reading" /\ crashes < MaxCrashes /\ crashes' = crashes + 1
      /\ bytes[p] # Cell(n)
      /\ bytes' = [bytes EXCEPT ![p] = Cell(n)] /\ rest' = bytes'
      /\ damage' = FieldAt(p)
      /\ read' = <<>> /\ valid' = 0
      /\ written' = written /\ whole' = whole
  BY DEF DamageField
<1>2. /\ written \in Seq(Mutation) /\ bytes \in Seq(Field)
      /\ LaidOut(bytes, written) /\ Len(bytes) = FrameEnds(written)[Len(written)]
      /\ whole \in 0..Len(written)
      /\ \A i \in 1..Len(written) : Encodable(written[i])
      /\ crashes \in 0..MaxCrashes
  BY <1>1 DEF FormatInv, WrittenInv, WritingInv, FramesInv
<1>3. p \in 1..Len(bytes) /\ p \in Nat /\ n \in Nat
  BY <1>2, FormatAssumption
<1>4. /\ bytes' \in Seq(Field)
      /\ \E d \in 1..Len(written) : \E c \in 1..Width(written[d]) :
           DamagedAt(bytes', written, d, c) /\ FrameEnds(written)[d - 1] + c = p
  <2> DEFINE a == [bytes EXCEPT ![p] = Cell(n)]
  <2>1. bytes \in Seq(Field) /\ written \in Seq(Mutation) /\ p \in 1..Len(bytes)
    BY <1>2, <1>3
  <2>2. Cell(n) \in Field /\ Cell(n) # bytes[p]
    BY <1>1, <1>3, CellParts
  <2>3. /\ a \in Seq(Field) /\ Len(a) = Len(bytes) /\ a[p] # bytes[p]
        /\ Numbered(a[p])
        /\ \A i \in 1..Len(bytes) : i # p => a[i] = bytes[i]
    BY <1>3, <2>1, <2>2 DEF Numbered
  <2> HIDE DEF a
  <2>4. LaidOut(bytes, written) /\ Len(bytes) = FrameEnds(written)[Len(written)]
    BY <1>2
  <2>5. \E d \in 1..Len(written) : \E c \in 1..Width(written[d]) :
          DamagedAt(a, written, d, c) /\ FrameEnds(written)[d - 1] + c = p
    BY <2>1, <2>3, <2>4, DamageLaid, SMTT(60)
  <2>6. bytes' = a
    BY <1>1 DEF a
  <2> QED
    BY <2>3, <2>5, <2>6
<1>5. PICK d \in 1..Len(written) : \E c \in 1..Width(written[d]) :
        DamagedAt(bytes', written, d, c) /\ FrameEnds(written)[d - 1] + c = p
  BY <1>4
<1>6. PICK c \in 1..Width(written[d]) :
        DamagedAt(bytes', written, d, c) /\ FrameEnds(written)[d - 1] + c = p
  BY <1>5
<1>7. damage' \in {"sum", "length", "payload"} /\ (damage' # "length" => c # 2)
  BY <1>1, <1>2, <1>3, <1>6, FieldParts
<1>8. WrittenInv'
  <2>1. <<>> \in Seq(Mutation)
    OBVIOUS
  <2> QED
    BY <1>1, <1>2, <1>4, <1>7, <2>1 DEF WrittenInv
<1>9. FramesInv'
  <2>1. Len(read') < d
    BY <1>1
  <2> QED
    BY <1>1, <1>6, <1>7, <2>1 DEF FramesInv
<1>10. ReadingInv' /\ EndedInv' /\ WritingInv'
  BY <1>1, <1>7, <1>8, ReadingBegins
<1>11. crashes' \in 0..MaxCrashes
  BY <1>1, <1>2, FormatAssumption
<1> QED
  BY <1>1, <1>8, <1>9, <1>10, <1>11 DEF FormatInv

LEMMA ReadStep ==
  ASSUME FormatInv, ReadRecord
  PROVE  FormatInv'
<1> DEFINE m == written[Len(read) + 1]
           w == Width(m)
<1>1. /\ pc = "reading" /\ pc' = pc /\ rest # <<>> /\ Decode(rest).result = "record"
      /\ read' = Append(read, Decode(rest).mutation)
      /\ valid' = valid + Decode(rest).width
      /\ rest' = SubSeq(rest, Decode(rest).width + 1, Len(rest))
      /\ bytes' = bytes /\ written' = written /\ whole' = whole
      /\ damage' = damage /\ crashes' = crashes
  BY DEF ReadRecord
<1>2. /\ WrittenInv /\ FramesInv /\ ReadingInv /\ crashes \in 0..MaxCrashes
      /\ written \in Seq(Mutation) /\ read \in Seq(Mutation) /\ bytes \in Seq(Field)
  BY DEF FormatInv, WrittenInv
<1>3. Len(read) + 1 \in 1..Len(written)
  BY <1>1, NextTurn
<1>4. Whole(m)
  <2>1. Whole(m) \/ Cut \/ Damaged
    BY <1>1, NextTurn
  <2>2. ~Cut
    BY <1>1 DEF Cut, Truncated
  <2>3. ~Damaged
    BY <1>1 DEF Damaged
  <2> QED
    BY <2>1, <2>2, <2>3
<1>5. /\ Len(read) \in Nat /\ Len(written) \in Nat /\ valid \in Nat /\ Len(bytes) \in Nat
      /\ rest \in Seq(Field) /\ Len(rest) = Len(bytes) - valid
      /\ \A i \in 1..Len(rest) : rest[i] = bytes[valid + i]
  BY <1>1, RestParts
<1>6. m \in Mutation /\ w \in Nat
  BY <1>2, <1>3, MutationsParts
<1>7. Decode(rest).mutation = m /\ Decode(rest).width = w
  BY <1>4 DEF Whole
<1>8. /\ FrameEnds(written)[Len(read) + 1] = valid + w /\ valid + w <= Len(bytes)
      /\ damage # "none" =>
           \E d \in 1..Len(written) : \E c \in 1..Width(written[d]) :
             /\ DamagedAt(bytes, written, d, c) /\ Len(read) + 1 < d
             /\ damage # "length" => c # 2
  BY <1>4 DEF Whole
<1> HIDE DEF w
<1>9. /\ read' \in Seq(Mutation) /\ Len(read') = Len(read) + 1
      /\ read'[Len(read) + 1] = m /\ \A i \in 1..Len(read) : read'[i] = read[i]
  <2>1. read' = Append(read, m)
    BY <1>1, <1>7
  <2> HIDE DEF m
  <2> QED
    BY <1>2, <1>6, <2>1
<1>10. WrittenInv'
  BY <1>1, <1>2, <1>9 DEF WrittenInv
<1>11. FramesInv'
  BY <1>1, <1>2, <1>8, <1>9 DEF FramesInv
<1>12. ReadingInv'
  <2>1. Len(read') <= Len(written') /\ valid' = FrameEnds(written')[Len(read')]
        /\ valid' = valid + w /\ valid' <= Len(bytes')
    BY <1>1, <1>3, <1>5, <1>7, <1>8, <1>9
  <2>2. \A i \in 1..Len(read') : read'[i] = written'[i]
    <3> SUFFICES ASSUME NEW i \in 1..Len(read') PROVE read'[i] = written[i]
      BY <1>1
    <3>1. CASE i = Len(read) + 1
      BY <1>9, <3>1
    <3>2. CASE i # Len(read) + 1
      <4>1. i \in 1..Len(read)
        BY <1>5, <1>9, <3>2
      <4> QED
        BY <1>1, <1>2, <1>9, <4>1 DEF ReadingInv
    <3> QED
      BY <3>1, <3>2
  <2>3. rest' = SubSeq(bytes', valid' + 1, Len(bytes'))
    <3>1. rest' = SubSeq(rest, w + 1, Len(rest))
      BY <1>1, <1>7
    <3>2. /\ rest \in Seq(Field) /\ w \in Nat /\ w <= Len(rest)
          /\ Len(rest) \in Nat /\ Len(rest) <= Len(rest)
      BY <1>5, <1>6, <1>8
    <3>3. /\ SubSeq(rest, w + 1, Len(rest)) \in Seq(Field)
          /\ Len(SubSeq(rest, w + 1, Len(rest))) = Len(rest) - w
          /\ \A i \in 1..Len(rest) - w : SubSeq(rest, w + 1, Len(rest))[i] = rest[w + i]
      BY <3>2, CutParts
    <3> DEFINE v == valid + w
    <3>4. v \in Nat /\ v <= Len(bytes) /\ Len(bytes) <= Len(bytes)
      BY <1>5, <1>6, <1>8
    <3>5. /\ SubSeq(bytes, v + 1, Len(bytes)) \in Seq(Field)
          /\ Len(SubSeq(bytes, v + 1, Len(bytes))) = Len(bytes) - v
          /\ \A i \in 1..Len(bytes) - v : SubSeq(bytes, v + 1, Len(bytes))[i] = bytes[v + i]
      <4> HIDE DEF v
      <4> QED
        BY <1>2, <1>5, <3>4, CutParts
    <3>6. Len(rest) - w = Len(bytes) - v
      BY <1>5, <1>6
    <3>7. \A i \in 1..Len(bytes) - v : rest[w + i] = bytes[v + i]
      <4> SUFFICES ASSUME NEW i \in 1..Len(bytes) - v PROVE rest[w + i] = bytes[v + i]
        OBVIOUS
      <4>1. w + i \in 1..Len(rest) /\ valid + (w + i) = v + i
        BY <1>5, <1>6, <3>4, <3>6
      <4> QED
        BY <1>5, <4>1
    <3> HIDE DEF v
    <3>8. SubSeq(rest, w + 1, Len(rest)) = SubSeq(bytes, v + 1, Len(bytes))
      <4> DEFINE s == SubSeq(rest, w + 1, Len(rest))
                 t == SubSeq(bytes, v + 1, Len(bytes))
      <4>1. s \in Seq(Field) /\ t \in Seq(Field)
        BY <3>3, <3>5
      <4>2. Len(s) = Len(t) /\ Len(t) = Len(bytes) - v
        BY <3>3, <3>5, <3>6
      <4>3. \A i \in 1..Len(bytes) - v : s[i] = rest[w + i] /\ t[i] = bytes[v + i]
        BY <3>3, <3>5, <3>6
      <4> HIDE DEF s, t
      <4>4. \A i \in 1..Len(t) : s[i] = t[i]
        BY <3>7, <4>2, <4>3
      <4>5. s = t
        BY <4>1, <4>2, <4>4, SameSequence
      <4> QED
        BY <4>5 DEF s, t
    <3> QED
      BY <1>1, <2>1, <3>1, <3>8 DEF v
  <2> QED
    BY <1>1, <1>2, <2>1, <2>2, <2>3 DEF ReadingInv
<1>13. EndedInv' /\ WritingInv'
  BY <1>1 DEF EndedInv, WritingInv
<1> QED
  BY <1>1, <1>2, <1>10, <1>11, <1>12, <1>13 DEF FormatInv

LEMMA DecodeResult == ASSUME FormatInv, pc # "writing", rest # <<>>
  PROVE  Decode(rest).result \in {"record", "truncated", "corrupt"}
<1>1. CASE Whole(written[Len(read) + 1])
  BY <1>1 DEF Whole
<1>2. CASE Cut
  BY <1>2 DEF Cut, Truncated
<1>3. CASE Damaged
  BY <1>3 DEF Damaged
<1> QED
  BY <1>1, <1>2, <1>3, NextTurn

LEMMA StopStep ==
  ASSUME FormatInv, ReadFails \/ ReadEnds
  PROVE  FormatInv'
<1>1. /\ pc = "reading"
      /\ UNCHANGED <<bytes, written, whole, damage, rest, read, valid, crashes>>
  BY DEF ReadFails, ReadEnds
<1>2. /\ pc' \in {"end", "truncated", "corrupt"}
      /\ pc' = "end" => rest = <<>>
      /\ pc' \in {"truncated", "corrupt"} => rest # <<>> /\ Decode(rest).result = pc'
  BY <1>1, DecodeResult DEF ReadFails, ReadEnds
<1>3. WrittenInv' /\ FramesInv'
  BY <1>1 DEF FormatInv, WrittenInv, FramesInv
<1>4. ReadingInv' /\ WritingInv' /\ EndedInv'
  BY <1>1, <1>2 DEF FormatInv, ReadingInv, WritingInv, EndedInv
<1> QED
  BY <1>1, <1>2, <1>3, <1>4 DEF FormatInv

LEMMA ReopenStep ==
  ASSUME FormatInv, Reopen
  PROVE  FormatInv'
<1>1. /\ pc \in {"end", "truncated"} /\ pc' = "writing"
      /\ bytes' = SubSeq(bytes, 1, valid)
      /\ written' = read /\ whole' = Len(read)
      /\ damage' = "none" /\ read' = <<>> /\ crashes' = crashes
  BY DEF Reopen
<1>2. /\ written \in Seq(Mutation) /\ read \in Seq(Mutation) /\ bytes \in Seq(Field)
      /\ Len(read) <= Len(written) /\ \A i \in 1..Len(read) : read[i] = written[i]
      /\ valid = FrameEnds(written)[Len(read)] /\ valid <= Len(bytes)
      /\ \A i \in 1..Len(written) : Encodable(written[i])
      /\ crashes \in 0..MaxCrashes
  BY <1>1 DEF FormatInv, WrittenInv, ReadingInv
<1>3. \/ LaidOut(bytes, written)
      \/ \E d \in 1..Len(written) : \E c \in 1..Width(written[d]) :
           DamagedAt(bytes, written, d, c) /\ Len(read) < d
  BY DEF FormatInv, FramesInv
<1>4. /\ bytes' \in Seq(Field) /\ LaidOut(bytes', read)
      /\ Len(bytes') = FrameEnds(read)[Len(read)]
  BY <1>1, <1>2, <1>3, LaidPrefix
<1>5. Len(read) \in Nat /\ Len(written) \in Nat
  BY <1>2
<1>6. \A i \in 1..Len(read) : Encodable(read[i])
  BY <1>2, <1>5
<1>7. WrittenInv'
  <2>1. <<>> \in Seq(Mutation)
    OBVIOUS
  <2> QED
    BY <1>1, <1>2, <1>4, <1>5, <1>6, <2>1 DEF WrittenInv
<1>8. FramesInv' /\ WritingInv' /\ ReadingInv' /\ EndedInv'
  BY <1>1, <1>4 DEF FramesInv, WritingInv, ReadingInv, EndedInv
<1> QED
  BY <1>1, <1>2, <1>7, <1>8 DEF FormatInv

LEMMA FormatStep == FormatInv /\ [Next]_vars => FormatInv'
<1> SUFFICES ASSUME FormatInv, [Next]_vars PROVE FormatInv'
  OBVIOUS
<1>1. CASE \E m \in Mutation : AppendRecord(m)
  BY <1>1, AppendStep
<1>2. CASE \E n \in 0..Len(bytes) : CrashAt(n)
  BY <1>2, CrashStep
<1>3. CASE \E i \in DOMAIN bytes, n \in Damage : DamageField(i, n)
  BY <1>3, DamageStep
<1>4. CASE ReadRecord
  BY <1>4, ReadStep
<1>5. CASE ReadFails \/ ReadEnds
  BY <1>5, StopStep
<1>6. CASE Reopen
  BY <1>6, ReopenStep
<1>7. CASE UNCHANGED vars
  BY <1>7 DEF vars, FormatInv, WrittenInv, FramesInv, WritingInv, ReadingInv, EndedInv
<1> QED
  BY <1>1, <1>2, <1>3, <1>4, <1>5, <1>6, <1>7 DEF Next

-----------------------------------------------------------------------------
(* Theorems.                                                               *)

(* The inductive invariant: the file is a first part of the frames that    *)
(* were written, or all of them with one damaged cell the reader has not   *)
(* passed, and what was read is what the frames behind the reader hold.    *)
THEOREM FormatInvariant == Spec => []FormatInv
BY FormatInit, FormatStep, PTL DEF Spec

(* The log and its reader keep their types: what was read and what is left *)
(* make up the file.                                                       *)
THEOREM FormatTypes == Spec => []TypeOK
<1>1. FormatInv => TypeOK
  <2> SUFFICES ASSUME FormatInv PROVE TypeOK
    OBVIOUS
  <2>1. Len(rest) + valid = Len(bytes) \/ pc = "writing"
    BY RestParts
  <2> QED
    BY <2>1 DEF TypeOK, FormatInv, WrittenInv
<1> QED
  BY <1>1, FormatInvariant, PTL

(* The reader of record.rs and frame.rs returns the records that were      *)
(* written, in order and from the first, whatever was cut or damaged.      *)
THEOREM ReaderReturnsPrefix == Spec => []ReadsWhatWasWritten
<1>1. FormatInv => ReadsWhatWasWritten
  <2> SUFFICES ASSUME FormatInv PROVE ReadsWhatWasWritten
    OBVIOUS
  <2>1. read \in Seq(Mutation) /\ written \in Seq(Mutation) /\ Len(read) \in Nat
    BY DEF FormatInv, WrittenInv
  <2>2. Len(read) <= Len(written) /\ \A i \in 1..Len(read) : read[i] = written[i]
    <3>1. CASE pc = "writing"
      <4>1. read = <<>> /\ Len(<<>>) = 0
        BY <3>1 DEF FormatInv, WritingInv
      <4> QED
        BY <2>1, <4>1
    <3>2. CASE pc # "writing"
      BY <3>2 DEF FormatInv, ReadingInv
    <3> QED
      BY <3>1, <3>2
  <2>3. SubSeq(read, 1, Len(read)) = SubSeq(written, 1, Len(read))
    BY <2>1, <2>2
  <2> QED
    BY <2>2, <2>3 DEF ReadsWhatWasWritten, IsPrefix
<1> QED
  BY <1>1, FormatInvariant, PTL

(* wal.rs:225-239 tells a cut from damage: after a cut the reading ends at *)
(* the cut, with every record that is whole.                               *)
THEOREM CutsEndTheLog == Spec => []CutEndsLog
<1>1. FormatInv => CutEndsLog
  <2> SUFFICES ASSUME FormatInv, damage = "none", pc \in {"end", "truncated", "corrupt"}
               PROVE  pc # "corrupt" /\ Len(read) = whole
    BY DEF CutEndsLog
  <2> DEFINE f == FrameEnds(written)
             n == Len(read)
  <2>1. /\ valid \in Nat /\ Len(bytes) \in Nat /\ valid <= Len(bytes) /\ valid = f[n]
        /\ n \in Nat /\ Len(written) \in Nat /\ n <= Len(written)
        /\ Len(rest) = Len(bytes) - valid
    BY RestParts
  <2>2. /\ \A i \in 1..Len(written) : i <= whole <=> f[i] <= Len(bytes)
        /\ whole \in Nat /\ whole <= Len(written)
    BY <2>1 DEF FormatInv, WrittenInv, ReadingInv
  <2>3. n <= whole
    <3>1. CASE n = 0
      BY <2>2, <3>1
    <3>2. CASE n # 0
      <4>1. n \in 1..Len(written)
        BY <2>1, <3>2
      <4> QED
        BY <2>1, <2>2, <4>1
    <3> QED
      BY <3>1, <3>2
  <2>4. ASSUME n < Len(written), Len(bytes) < f[n + 1] PROVE n = whole
    <3>1. n + 1 \in 1..Len(written)
      BY <2>1, <2>4
    <3>2. f[n + 1] \in Nat
      <4>1. written \in Seq(Mutation)
        BY DEF FormatInv, WrittenInv
      <4>2. f \in [0..Len(written) -> Nat]
        BY <4>1, EndsAre DEF AreEnds
      <4> QED
        BY <3>1, <4>2
    <3>3. ~(n + 1 <= whole)
      BY <2>1, <2>2, <2>4, <3>1, <3>2
    <3> QED
      BY <2>1, <2>2, <2>3, <3>3
  <2>5. CASE rest # <<>>
    <3>1. n + 1 \in 1..Len(written) /\ (Whole(written[n + 1]) \/ Cut \/ Damaged)
      BY <2>5, NextTurn
    <3>2. Decode(rest).result = pc /\ pc # "end"
      BY <2>5 DEF FormatInv, EndedInv
    <3>3. ~Whole(written[n + 1])
      BY <3>2 DEF Whole
    <3>4. Cut
      BY <3>1, <3>3 DEF Damaged
    <3>5. pc = "truncated" /\ Len(bytes) < f[n + 1]
      BY <3>2, <3>4 DEF Cut, Truncated
    <3>6. n < Len(written)
      BY <2>1, <3>1
    <3> QED
      BY <2>4, <3>5, <3>6
  <2>6. CASE rest = <<>>
    <3>1. pc = "end" /\ Len(bytes) = f[n]
      <4>1. Len(rest) = 0
        BY <2>6
      <4> QED
        BY <2>1, <2>6, <4>1 DEF FormatInv, EndedInv
    <3>2. n < Len(written) => Len(bytes) < f[n + 1]
      <4> SUFFICES ASSUME n < Len(written) PROVE Len(bytes) < f[n + 1]
        OBVIOUS
      <4>1. written \in Seq(Mutation)
        BY DEF FormatInv, WrittenInv
      <4>2. n \in 0..Len(written) /\ n + 1 \in 0..Len(written) /\ n < n + 1
        BY <2>1
      <4>3. f[n] + 5 <= f[n + 1] /\ f \in [0..Len(written) -> Nat]
        BY <4>1, <4>2, EndsGrow, EndsAre DEF AreEnds
      <4> HIDE DEF f
      <4>4. f[n + 1] \in Nat
        BY <4>2, <4>3
      <4> QED
        BY <2>1, <3>1, <4>3, <4>4
    <3>3. n = Len(written) => n = whole
      BY <2>1, <2>2, <2>3
    <3>4. n = Len(written) \/ n < Len(written)
      BY <2>1
    <3> QED
      BY <2>4, <3>1, <3>2, <3>3, <3>4
  <2> QED
    BY <2>5, <2>6
<1> QED
  BY <1>1, FormatInvariant, PTL

(* Damage to a checksum or to a payload is always an error of the opening. *)
THEOREM DamageIsReported == Spec => []DamageReported
<1>1. FormatInv => DamageReported
  <2> SUFFICES ASSUME FormatInv, damage \in {"sum", "payload"}, pc \in {"end", "truncated"}
               PROVE  FALSE
    BY DEF DamageReported
  <2>1. rest # <<>>
    <3> SUFFICES ASSUME rest = <<>> PROVE FALSE
      OBVIOUS
    <3>1. /\ valid \in Nat /\ Len(bytes) \in Nat /\ valid = FrameEnds(written)[Len(read)]
          /\ Len(read) \in Nat /\ Len(written) \in Nat
          /\ Len(rest) = Len(bytes) - valid /\ Len(rest) = 0
      BY RestParts
    <3>2. PICK d \in 1..Len(written) : Len(read) < d /\ Len(bytes) = FrameEnds(written)[Len(written)]
      BY DEF FormatInv, FramesInv, DamagedAt
    <3>3. /\ written \in Seq(Mutation) /\ Len(read) \in 0..Len(written)
          /\ Len(written) \in 0..Len(written) /\ Len(read) < Len(written)
      BY <3>1, <3>2 DEF FormatInv, WrittenInv
    <3>4. FrameEnds(written)[Len(read)] + 5 <= FrameEnds(written)[Len(written)]
      BY <3>3, EndsGrow
    <3> QED
      BY <3>1, <3>2, <3>4
  <2>2. Decode(rest).result = "truncated"
    BY <2>1 DEF FormatInv, EndedInv
  <2>3. Whole(written[Len(read) + 1]) \/ Cut \/ Damaged
    BY <2>1, NextTurn
  <2> QED
    BY <2>2, <2>3 DEF Whole, Cut, Damaged
<1> QED
  BY <1>1, FormatInvariant, PTL
=============================================================================
