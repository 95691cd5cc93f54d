---------------------------- MODULE MCLogFormat -----------------------------
(* A small instance of LogFormat for TLC. *)
EXTENDS LogFormat

MCKey == {<<>>, <<1>>}
MCValue == {<<>>, <<2>>, <<1, 2>>}
=============================================================================
