---------------------------- MODULE MCControlInput ----------------------------
(* An instance of ControlInput for TLC: a key; the left, the middle and the   *)
(* last button; positions inside, on the left edge and beyond the right one   *)
(* of a window of 4 x 3.                                                      *)
EXTENDS ControlInput

KeysUsed == {39}
ButtonsUsed == {0, 2, 7}
PositionsUsed == {<<1, 2>>, <<0, 1>>, <<9, 1>>}
================================================================================
