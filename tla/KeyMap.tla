------------------------------- MODULE KeyMap -------------------------------
(***************************************************************************)
(* What Map of foundation.c promises: a finite function from texts, of     *)
(* which each operation that is finished has changed one value or none.    *)
(***************************************************************************)
CONSTANTS Keys, Values, Missing

VARIABLES
  content,   \* the value of each key, or Missing
  answer     \* what the last map_get found

Init == content = [k \in Keys |-> Missing] /\ answer = Missing

Insert(k, v) == content' = [content EXCEPT ![k] = v] /\ UNCHANGED answer
Remove(k) == content' = [content EXCEPT ![k] = Missing] /\ UNCHANGED answer
Get(k) == answer' = content[k] /\ UNCHANGED content

Next == \E k \in Keys : Remove(k) \/ Get(k) \/ \E v \in Values : Insert(k, v)
Spec == Init /\ [][Next]_<<content, answer>>
=============================================================================
