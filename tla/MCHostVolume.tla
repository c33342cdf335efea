---------------------------- MODULE MCHostVolume ----------------------------
(* A small directory of the host for TLC. *)
EXTENDS HostVolume

\* a file of a name in a directory of the same name
MCFlat == (<<"b">> :> TRUE) @@ (<<"b", "b">> :> FALSE)

\* The guest loses the end of "bcd", which is too long, and does not see ".b"
MCMacName == [n \in Names |-> IF n = "bcd" THEN "b" ELSE n]
MCHidden == Names \cap {".b"}
MCGiven == {[mac |-> n, host |-> n] : n \in Names \ MCHidden}
=============================================================================
