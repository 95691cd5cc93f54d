------------------------------- MODULE Bounds -------------------------------
(***************************************************************************)
(* Key ranges of the storage contract: byte strings in their byte-wise     *)
(* order, the ranges a caller can ask for, the bounds each becomes and the *)
(* page of keys a backend returns for them.                                *)
(***************************************************************************)
EXTENDS Naturals, SequencesExt

CONSTANT ByteMax       \* u8::MAX

ASSUME ByteAssumption == ByteMax \in Nat

(* Unsigned byte-wise comparison: the order of [u8]. *)
Less(a, b) ==
  \/ IsStrictPrefix(a, b)
  \/ \E i \in DOMAIN a \cap DOMAIN b :
       a[i] < b[i] /\ \A j \in 1..(i - 1) : a[j] = b[j]

Unbounded == [kind |-> "unbounded"]
Included(k) == [kind |-> "included", key |-> k]
Excluded(k) == [kind |-> "excluded", key |-> k]

(* Mutant: trailing bytes that cannot be incremented stay in the end. *)
PrefixEndWide(p) ==
  IF p = <<>> \/ Last(p) = ByteMax THEN Unbounded
  ELSE Excluded(Append(Front(p), Last(p) + 1))

(* The byte-wise successor of a prefix, if it has one. *)
PrefixEnd(p) ==
  LET last == SelectLastInSeq(p, LAMBDA b : b < ByteMax)
  IN  IF last = 0 THEN Unbounded
      ELSE Excluded(Append(SubSeq(p, 1, last - 1), p[last] + 1))

(* The constructors, by what the caller asked for. *)
BoundsOf(ask) ==
  CASE ask.form = "all"     -> [start |-> Unbounded, end |-> Unbounded]
    [] ask.form = "point"   -> [start |-> Included(ask.key), end |-> Included(ask.key)]
    [] ask.form = "between" -> [start |-> Included(ask.key), end |-> Excluded(ask.before)]
    [] ask.form = "from"    -> [start |-> Included(ask.key), end |-> Unbounded]
    [] ask.form = "before"  -> [start |-> Unbounded, end |-> Excluded(ask.before)]
    [] ask.form = "prefix"  -> [start |-> Included(ask.key), end |-> PrefixEnd(ask.key)]

(* Mutant: the next page starts with the last key of this one. *)
AdvanceTo(bounds, k) == [bounds EXCEPT !.start = Included(k)]

AdvancePast(bounds, k) == [bounds EXCEPT !.start = Excluded(k)]

Within(k, bounds) ==
  /\ CASE bounds.start.kind = "unbounded" -> TRUE
       [] bounds.start.kind = "included"  -> ~Less(k, bounds.start.key)
       [] bounds.start.kind = "excluded"  -> Less(bounds.start.key, k)
  /\ CASE bounds.end.kind = "unbounded" -> TRUE
       [] bounds.end.kind = "included"  -> ~Less(bounds.end.key, k)
       [] bounds.end.kind = "excluded"  -> Less(k, bounds.end.key)

(* BTreeMap::range panics on these, whatever the map holds. *)
Panics(bounds) ==
  /\ "unbounded" \notin {bounds.start.kind, bounds.end.kind}
  /\ \/ Less(bounds.end.key, bounds.start.key)
     \/ bounds.start = bounds.end /\ bounds.start.kind = "excluded"

(* The first keys of content within bounds, ascending. *)
Page(content, bounds, limit) ==
  LET keys == SetToSortSeq({ k \in content : Within(k, bounds) }, Less)
  IN  SubSeq(keys, 1, IF limit < Len(keys) THEN limit ELSE Len(keys))
=============================================================================
