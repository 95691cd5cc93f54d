---------------------------- MODULE MCMemEngine -----------------------------
(* A small instance of MemEngine for TLC: bytes are 0 and 1. *)
EXTENDS MemEngine

MCKey == {<<0, 1>>, <<1>>, <<1, 1>>}

(* Every form, at a key, between keys and at the edges.  A range whose end *)
(* lies before its start is left out: BTreeMap::range panics on it.        *)
MCAsk ==
  {[form |-> "all"]} \cup
  [form : {"prefix"}, key : {<<0>>, <<0, 1>>, <<1, 1>>}] \cup
  [form : {"point", "from"}, key : {<<0, 1>>}] \cup
  [form : {"before"}, before : {<<1, 1>>}] \cup
  {[form |-> "between", key |-> <<0>>, before |-> <<1, 1>>],
   [form |-> "between", key |-> <<1>>, before |-> <<1>>]}
=============================================================================
