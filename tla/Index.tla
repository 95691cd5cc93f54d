------------------------------- MODULE Index --------------------------------
(***************************************************************************)
(* The in-memory index of the store: each key's revisions, split into      *)
(* generations that run from a creation to a deletion.  The operators are  *)
(* those of index.rs; an index maps the keys it tracks to their histories. *)
(*                                                                         *)
(* A revision is its main part: every write of the store takes the next    *)
(* main revision, with a sub part of zero.                                 *)
(***************************************************************************)
EXTENDS Naturals, SequencesExt

CONSTANT Key        \* keys, numbers standing for the byte order of their names

ASSUME KeyAssumption == Key \subseteq Nat

Revision == Nat

Generation ==
  [created : Revision, ver : Nat, revs : Seq(Revision) \ {<<>>}, closed : BOOLEAN]

EmptyIndex == [k \in {} |-> <<>>]

HistoryOf(index, key) == IF key \in DOMAIN index THEN index[key] ELSE <<>>

IsOpen(history) == history # <<>> /\ ~Last(history).closed

(* The last generation takes one more revision, and is closed or not. *)
Extended(history, revision, closed) ==
  LET last == Last(history) IN
  [history EXCEPT ![Len(history)] =
     [created |-> last.created, ver |-> last.ver + 1,
      revs |-> Append(last.revs, revision), closed |-> closed]]

IndexPut(index, key, revision) ==
  LET history == HistoryOf(index, key)
      fresh == [created |-> revision, ver |-> 1, revs |-> <<revision>>,
                closed |-> FALSE]
      now == IF IsOpen(history) THEN Extended(history, revision, FALSE)
                                ELSE Append(history, fresh)
  IN  [k \in DOMAIN index \cup {key} |-> IF k = key THEN now ELSE index[k]]

(* A deletion of a key that does not exist is not recorded. *)
IndexTombstone(index, key, revision) ==
  IF IsOpen(HistoryOf(index, key))
  THEN [index EXCEPT ![key] = Extended(@, revision, TRUE)]
  ELSE index

(* The place, as a generation and an index into its revisions, of what is  *)
(* current at a revision; no place where the key is absent then.           *)
Locate(history, at) ==
  { <<g, Cardinality({ j \in DOMAIN history[g].revs : history[g].revs[j] <= at })>> :
      g \in { n \in DOMAIN history :
               /\ history[n].revs[1] <= at
               /\ \A m \in DOMAIN history : m > n => history[m].revs[1] > at
               /\ history[n].closed => Last(history[n].revs) > at } }

(* Mutant: the version is the position in what compaction kept. *)
FoundByPosition(history, at) ==
  { [modified |-> history[p[1]].revs[p[2]], created |-> history[p[1]].created,
     version |-> p[2]] : p \in Locate(history, at) }

(* What a read of one key finds: a set of at most one observation.  The    *)
(* version counts back from the end, as earlier writes may be trimmed.     *)
Found(history, at) ==
  { LET gen == history[p[1]] IN
    [modified |-> gen.revs[p[2]], created |-> gen.created,
     version |-> gen.ver - (Len(gen.revs) - p[2])] : p \in Locate(history, at) }

(* Revisions compaction keeps: those after the watermark, and the one      *)
(* current at it unless that is a deletion.                                *)
Kept(history, at, g, i) ==
  LET gen == history[g] IN
  \/ gen.revs[i] > at
  \/ <<g, i>> \in Locate(history, at) /\ ~(gen.closed /\ i = Len(gen.revs))

(* The elements of a sequence at some of its places, in order. *)
Selected(seq, places) ==
  LET upto[i \in 0..Len(seq)] ==
        IF i = 0 THEN <<>>
        ELSE IF i \in places THEN Append(upto[i - 1], seq[i]) ELSE upto[i - 1]
  IN  upto[Len(seq)]

KeptRevs(history, at, g) ==
  LET revs == history[g].revs
  IN  Selected(revs, { i \in DOMAIN revs : Kept(history, at, g, i) })

(* Mutant: a generation that keeps no revision stays in the history. *)
CompactHistoryUnfiltered(history, at) ==
  [g \in DOMAIN history |->
     [history[g] EXCEPT !.revs = KeptRevs(history, at, g)]]

CompactHistory(history, at) ==
  LET trimmed == [g \in DOMAIN history |->
                    [history[g] EXCEPT !.revs = KeptRevs(history, at, g)]]
  IN  Selected(trimmed, { g \in DOMAIN history : trimmed[g].revs # <<>> })

IndexCompact(index, at) ==
  LET rest == [k \in DOMAIN index |-> CompactHistory(index[k], at)]
  IN  [k \in { j \in DOMAIN index : rest[j] # <<>> } |-> rest[k]]

(* The revisions of one history that compaction drops. *)
DroppedOf(history, at) ==
  UNION { { history[g].revs[i] :
              i \in { j \in DOMAIN history[g].revs : ~Kept(history, at, g, j) } } :
          g \in DOMAIN history }

(* All it drops, as keys and revisions. *)
Dropped(index, at) ==
  UNION { { <<k, r>> : r \in DroppedOf(index[k], at) } : k \in DOMAIN index }

(* Mutant: each key's latest revision goes first. *)
BeforeLatestFirst(p, q) == p[1] < q[1] \/ (p[1] = q[1] /\ p[2] > q[2])

(* The order they are dropped in: key by key, each key's oldest first. *)
Before(p, q) == p[1] < q[1] \/ (p[1] = q[1] /\ p[2] < q[2])
=============================================================================
