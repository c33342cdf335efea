--------------------------- MODULE MCInputEvents ---------------------------
(* How many events of each source a behaviour has.                         *)
EXTENDS InputEvents

MixedEvents == [host |-> 2, script |-> 4, click |-> 4]
===========================================================================
