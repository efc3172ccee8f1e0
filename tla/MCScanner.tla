----------------------------- MODULE MCScanner -----------------------------
(***************************************************************************)
(* The inputs are unbounded, their nesting is not.                         *)
(***************************************************************************)
EXTENDS Recogniser

CONSTANT MaxDepth

MCNext == \E c \in Char : Feed(c) /\ Len(scan'.parseState) <= MaxDepth

MCSpec == Init /\ [][MCNext]_vars
============================================================================
