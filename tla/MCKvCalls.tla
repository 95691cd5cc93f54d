----------------------------- MODULE MCKvCalls ------------------------------
(* A small instance of KvCalls for TLC. *)
EXTENDS KvCalls, TLC

MCKeys == 1..3
=============================================================================
