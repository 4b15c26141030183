---------------------------- MODULE UsageRowsMC ----------------------------
(* Instance of UsageRows for TLC: the intervals a term may start with.     *)
EXTENDS UsageRows

\* What occurrences and branches make of one local: used once, perhaps once,
\* or more than once.  Rows that are unused come from scaling.
Ends == {Pair(One, One), Pair(Zero, One), Pair(One, Many)}

=============================================================================
