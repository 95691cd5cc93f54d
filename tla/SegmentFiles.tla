---------------------------- MODULE SegmentFiles ----------------------------
(***************************************************************************)
(* What the file system holds of one log segment, and what each operation  *)
(* of io.rs may leave behind.                                              *)
(*                                                                         *)
(* A segment is a sequence of whole records; bytes after the last whole    *)
(* record that no reader can decode are the flag "torn".  A prefix of      *)
(* "synced" records is on stable storage; the rest may be lost with the    *)
(* power.  The file system is assumed to keep a prefix of unsynced bytes.  *)
(***************************************************************************)
EXTENDS Naturals, Sequences

CONSTANT Record     \* the mutations a log can hold, one frame each

File == [data : Seq(Record), synced : Nat, torn : BOOLEAN]

EmptyFile == [data |-> <<>>, synced |-> 0, torn |-> FALSE]

(* write_all that succeeds: every byte is in the file, none is durable. *)
Written(f, bytes) == [f EXCEPT !.data = @ \o bytes]

(* write_all that fails: some whole records, and perhaps part of the next. *)
PartlyWritten(f, bytes) ==
  { [f EXCEPT !.data = @ \o SubSeq(bytes, 1, k)] : k \in 0..Len(bytes) } \cup
  { [f EXCEPT !.data = @ \o SubSeq(bytes, 1, k), !.torn = TRUE] :
      k \in 0..(Len(bytes) - 1) }

(* Mutant: the flush does nothing. *)
Unsynced(f) == f

(* sync_data that succeeds. *)
Synced(f) == [f EXCEPT !.synced = Len(f.data)]

(* Mutant: the file is left as it is. *)
Untouched(f, len) == f

(* Mutant: the file is cut and not flushed. *)
CutUnsynced(f, len) == [f EXCEPT !.data = SubSeq(@, 1, len), !.torn = FALSE]

(* truncate that succeeds: set_len, then sync_all. *)
Truncated(f, len) ==
  [data |-> SubSeq(f.data, 1, len), synced |-> len, torn |-> FALSE]

(* truncate that fails: in set_len, or in the sync_all after it. *)
HalfTruncated(f, len) ==
  { f, [f EXCEPT !.data = SubSeq(@, 1, len), !.torn = FALSE] }

(* What a power loss may leave: at least the synced records, then a prefix *)
(* of the others, perhaps ending inside one.                               *)
CutTo(f, k, t) ==
  [data |-> SubSeq(f.data, 1, k), synced |-> k, torn |-> t]

Survivors(f) ==
  LET len == Len(f.data) IN
  { CutTo(f, k, FALSE) : k \in f.synced..len } \cup
  { CutTo(f, k, TRUE) : k \in f.synced..(IF f.torn THEN len ELSE len - 1) }
=============================================================================
