----------------------------- MODULE TestVerbMC -----------------------------
(* A directory with a source and, in it, another directory with a source or a *)
(* link back to the top; the first argument is a link to it, or a directory   *)
(* of its own without any entry.                                              *)
EXTENDS TestVerb

Nodes == {"top", "a", "sub", "b", "link"}
Names == [n \in Nodes |-> CASE n = "top" -> <<"a", "sub">>
                            [] n = "sub" -> <<"b">>
                            [] OTHER -> << >>]
Parents == [n \in Nodes |-> CASE n \in {"a", "sub"} -> {"top"}
                              [] n = "b" -> {"sub", "top"}
                              [] OTHER -> {}]
LinkTo == [n \in Nodes |-> "top"]
ThreeExpectations == 0 .. 2
SourceNames == {"a", "b"}
TwoModes == <<"check", "erased">>
Paths == <<"link", "a">>
Stand == [n \in Nodes |-> CASE n = "top" -> {"dir"}
                            [] n = "a" -> {"file", "absent"}
                            [] n = "sub" -> {"dir", "locked", "dirlink", "absent"}
                            [] n = "b" -> {"file", "filelink"}
                            [] n = "link" -> {"dirlink", "dangling", "dir"}]
Beside == [n \in SourceNames |-> [m \in {"check", "erased"} |->
            CASE n = "a" /\ m = "check"  -> {"none", "same", "differs", "unreadable"}
              [] n = "a" /\ m = "erased" -> {"none", "same"}
              [] n = "b" /\ m = "check"  -> {"none", "same"}
              [] n = "b" /\ m = "erased" -> {"none", "unreadable"}]]
=============================================================================
