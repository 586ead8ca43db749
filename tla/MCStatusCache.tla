---------------------------- MODULE MCStatusCache ----------------------------
(* A working copy with a folder in a folder, and the crawler with one pipe *)
(* thread.                                                                  *)
EXTENDS StatusCache

CONSTANTS Sub, Leaf

MCParent == [d \in Dir \ {Top} |-> IF d = Leaf THEN Sub ELSE Top]

=============================================================================
