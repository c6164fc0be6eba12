--------------------------- MODULE MCMessageManager ---------------------------
(* Small instances of MessageManager for TLC: bytes are bits, so that a       *)
(* length has four bits and may be mistaken for content and the other way     *)
(* round.                                                                     *)
EXTENDS MessageManager

Messages == {<<>>, <<1>>, <<0, 0>>, <<1, 0, 0, 0, 1>>}
================================================================================
