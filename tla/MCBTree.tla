------------------------------ MODULE MCBTree ------------------------------
(* Instances of BTree.  Fan-outs of 2 stand for MaxLeafKeys = 7 and          *)
(* MaxInternalKeys = 56: every split and every level happens within six keys. *)
EXTENDS BTree

KeySet6 == 1..6
KeySet4 == 1..4
KeySet3 == 1..3
KeySet2 == 1..2
KeySet1 == {1}

NoChunks == [v \in Values |-> 0]
SomeChunks == [v \in Values |-> CASE v = "big" -> 1 [] v = "huge" -> 2 [] OTHER -> 0]
=============================================================================
