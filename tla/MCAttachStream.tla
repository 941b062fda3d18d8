--------------------------- MODULE MCAttachStream ---------------------------
(***************************************************************************)
(* Depths for model-checking AttachStream.                                 *)
(***************************************************************************)
EXTENDS AttachStream

Wide == [push |-> 2, retain |-> 2, policy |-> "Resume"]
Narrow == [push |-> 1, retain |-> 1, policy |-> "Resume"]
State == [push |-> 1, retain |-> 2, policy |-> "Cursorless"]

OneStatement == {Wide}
NarrowOrState == {Narrow, State}

Push == [push |-> 2, retain |-> 2]
ContextOnly == [push |-> 0, retain |-> 2]

WakingBound == {Push}
EitherBound == {Push, ContextOnly}
=============================================================================
