-------------------------------- MODULE Redb ---------------------------------
(***************************************************************************)
(* A database of storage-redb as the store sees it: the chain of commits   *)
(* since the last one that reached the disk, that one first.  Transactions *)
(* are exclusive, so a commit is the latest one with its changes.          *)
(***************************************************************************)
EXTENDS Sequences, Naturals

(* RedbEngine::open creates its table in a commit of its own, with redb's  *)
(* default durability, so that a reader always finds a keyspace.           *)
CreateTable(empty) == <<empty>>

(* What begin_read and begin_write start from. *)
Committed(chain) == chain[Len(chain)]

(* begin_write relaxes the durability of the commit that ends it. *)
Commit(chain, content) == Append(chain, content)

(* Mutant: the durability asked for when the transaction began is kept. *)
CommitRelaxed(chain, content) == Append(chain, content)

(* commit_durable takes every earlier commit to the disk with it. *)
CommitDurable(chain, content) == <<content>>

(* Mutant: a kill may leave a commit that never was flushed. *)
SurvivesPlain(chain) == Len(chain)

(* The link of the chain that a kill or a power loss leaves: redb never    *)
(* shows a relaxed commit again unless a durable one followed it.          *)
Survives(chain) == 1
=============================================================================
