--------------------------- MODULE MCAttachDriver ---------------------------
(***************************************************************************)
(* Version ranges for model-checking AttachDriver.                         *)
(***************************************************************************)
EXTENDS AttachDriver

Build == [min |-> 4, max |-> 4]
Peers == {[min |-> 4, max |-> 4], [min |-> 3, max |-> 5], [min |-> 5, max |-> 6]}
=============================================================================
