----------------------------- MODULE MCPointers -----------------------------
(***************************************************************************)
(* Pointer objects on small instances.                                       *)
(***************************************************************************)
EXTENDS Pointers

CONSTANTS p1, p2, h1

(* Pointers move by one word, either way. *)
OneWord == -1 .. 1
=============================================================================
