------------------------- MODULE MCMessageManagerJava -------------------------
(* Small instances of MessageManagerJava for TLC, with bits for bytes. *)
EXTENDS MessageManagerJava

Messages == {<<>>, <<1>>, <<0, 0>>, <<1, 0, 0, 0, 1>>}
================================================================================
