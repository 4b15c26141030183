------------------------------- MODULE MemoMC -------------------------------
(* Two rows, whose cells take the same addresses, with open and closed     *)
(* nodes and neutral heads; and one longer row in which a name is declared *)
(* twice.                                                                  *)
EXTENDS Memo
MCBounds ==
  {[locals |-> {"x"}, tags |-> {"lan", "node"}, kinds |-> {"def", "rec"},
    cells |-> 8, heads |-> 1, rows |-> 2],
   [locals |-> {}, tags |-> {"lan"}, kinds |-> {"def"},
    cells |-> 10, heads |-> 0, rows |-> 1]}
=============================================================================
