--------------------------- MODULE MCStoreFormat ----------------------------
(* Bytes 0..2, numbers of two bytes: 0x00 is 0, '_', 't' and 0x01 are 1.   *)
EXTENDS StoreFormat

MCAppliedKey == <<0, 1>>

MCUserKey == {<<>>, <<1, 2>>, <<0, 1, 2>>}
MCValue == {<<>>, <<2>>}

(* Another namespace on either side, the bare prefix, a wrong separator, a *)
(* wrong or doubled mark, a revision no wire carries, a broken marker.     *)
MCForeign ==
  {<<0, 1>>, <<0, 2>>, <<2>>, <<1>>,
   <<1, 0, 1, 2, 0, 0>>, <<1, 0, 1, 1, 0, 0, 2>>,
   <<1, 0, 1, 1, 0, 0, 1, 1>>, <<1, 1, 2, 1, 0, 0>>}
=============================================================================
