------------------------------- MODULE TrieMC -------------------------------
(* Keys that are prefixes of each other and that differ at every position, on *)
(* both sides.                                                                *)
EXTENDS Trie
Texts == {<< >>, <<1>>, <<2>>, <<3>>, <<2, 1>>, <<2, 2>>}
=============================================================================
