----------------------------- MODULE CodeBuffer -----------------------------
(***************************************************************************)
(* The records of LCodeBuffer that compiler and machine have on the stack, *)
(* word by word.                                                           *)
(***************************************************************************)
EXTENDS Integers, Sequences

(* The words of ReleaserDesc, of ExceptionDesc and of FinallyRetStack. *)
ReleaserDesc == <<"object", "chain">>
ExceptionDesc == <<"handler", "finally", "code", "fp", "xp">>
FinallyRetStack == <<"thrown", "value", "type", "ip", "code">>
ExceptDescSize == Len(ExceptionDesc)
FinallyRetStackSize == Len(FinallyRetStack)

(* LCodeBuffer::ExceptNoHandler *)
NoHandler == -1
InvalidCodePos == -1

(* A word of the stack, with the meaning it was pushed with. *)
Word(is, v) == [is |-> is, v |-> v]
=============================================================================
