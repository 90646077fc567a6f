------------------------------- MODULE Frames -------------------------------
(***************************************************************************)
(* The words of the frame of a function, as a stack map writes them, and   *)
(* the stack maps of code.                                                 *)
(***************************************************************************)
EXTENDS CodeBuffer

(* The words of a stack map.  The value of a handler is its position, that *)
(* of a chain word says whether the object before it is on the chain.      *)
Unlinked == 0
Linked == 1
Either == 2
Held == 1

Kinds == {"ip", "code", "dp", "fp", "handler", "finally", "xp", "thrown", "value",
          "type", "number", "object", "chain"}
MapWords == [is : Kinds, v : Int]
Plain(is) == Word(is, 0)
Pair(link) == <<Plain("object"), Word("chain", link)>>
Exception == Word("thrown", Held)

ReturnAddress == <<Plain("ip"), Plain("code")>>
FrameHead == <<Plain("ip"), Plain("code"), Plain("dp"), Plain("fp")>>
SavedWords == [i \in 1 .. 5 |-> Plain(FinallyRetStack[i])]
=============================================================================
