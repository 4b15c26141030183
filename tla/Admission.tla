----------------------------- MODULE Admission -----------------------------
(***************************************************************************)
(* What checking a program promises to the rest of the compiler: the       *)
(* declarations are taken one at a time, each is admitted whole or ends    *)
(* the check, and an admission only adds.  The entries it adds are exactly *)
(* the new rows of the answer, its families are complete, and every name   *)
(* they mention has a meaning in the globals they end up in.  Nothing that *)
(* was admitted changes.                                                   *)
(***************************************************************************)
EXTENDS Naturals, Sequences, FiniteSets

CONSTANTS Name, Prims, Known(_, _)

VARIABLES globals, rows, status

\* Every reference of an entry or a constructor is known.
Closed(g) ==
  /\ \A n \in DOMAIN g.entries : \A r \in g.entries[n].ty \cup g.entries[n].body : Known(r, g)
  /\ \A f \in DOMAIN g.families :
       /\ \A r \in g.families[f].ty : Known(r, g)
       /\ \A c \in DOMAIN g.families[f].ctors : \A r \in g.families[f].ctors[c] : Known(r, g)

\* after is before with more names.
Extends(after, before) ==
  /\ DOMAIN before \subseteq DOMAIN after
  /\ \A n \in DOMAIN before : after[n] = before[n]

NewNames == DOMAIN globals'.entries \ DOMAIN globals.entries
NewRows == SubSeq(rows', Len(rows) + 1, Len(rows'))

Init ==
  /\ DOMAIN globals.entries = Prims
  /\ globals.families = << >>
  /\ rows = << >>
  /\ status = "running"

\* A def, an axiom or a group of recursive definitions.
AdmitEntries ==
  /\ status = "running" /\ status' = "running"
  /\ globals'.families = globals.families
  /\ NewNames # {}
  /\ Extends(globals'.entries, globals.entries)
  /\ Len(rows') >= Len(rows) /\ SubSeq(rows', 1, Len(rows)) = rows
  /\ Len(NewRows) = Cardinality(NewNames)
  /\ {NewRows[i] : i \in DOMAIN NewRows} = {<<n, globals'.entries[n]>> : n \in NewNames}
  /\ Closed(globals')

\* A group of inductive families.
AdmitFamilies ==
  /\ status = "running" /\ status' = "running"
  /\ globals'.entries = globals.entries /\ rows' = rows
  /\ globals'.families # globals.families
  /\ Extends(globals'.families, globals.families)
  /\ \A f \in DOMAIN globals'.families : globals'.families[f].status = "complete"
  /\ Closed(globals')

\* The end of the source, or the refusal of a declaration.
Stop ==
  /\ status = "running" /\ status' \in {"done", "failed"}
  /\ UNCHANGED <<globals, rows>>

Next == AdmitEntries \/ AdmitFamilies \/ Stop

Spec == Init /\ [][Next]_<<globals, rows, status>>

=============================================================================
